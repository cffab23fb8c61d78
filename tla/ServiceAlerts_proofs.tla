------------------------ MODULE ServiceAlerts_proofs ------------------------
(***************************************************************************)
(* The service-alert loop keeps its promise for every set of incidents,    *)
(* every cooldown and any number of faults.  The invariant is Inductive:   *)
(* the types, what PollAlerts' local variables say about the state, and    *)
(* the agreement of the stored records with the messages in the channel.   *)
(***************************************************************************)
EXTENDS ServiceAlerts, TLAPS

Inductive == TypeOK /\ PollConsistent /\ RecordMatchesNotices

------------------------------------------------------------------------------
(* Lemmas about the operators that write the state.                        *)

\* Storing one alert changes that alert only (the map update inside Update).
LEMMA SetAlertStores ==
    ASSUME mem \in StoreData, NEW i \in Incidents, NEW a \in AlertState
    PROVE  /\ SetAlert(i, a) \in StoreData
           /\ SetAlert(i, a).alerts[i] = a
           /\ \A j \in Incidents \ {i} :
                 SetAlert(i, a).alerts[j] = mem.alerts[j]
BY DEF SetAlert, StoreData

\* Ageing leaves every alert active or not, and makes it one tick older.
LEMMA AgeStoreAges ==
    ASSUME NEW data \in StoreData
    PROVE  /\ AgeStore(data) \in StoreData
           /\ \A i \in Incidents :
                 /\ AgeStore(data).alerts[i].active = data.alerts[i].active
                 /\ AgeStore(data).alerts[i].age = Older(data.alerts[i].age)
<1> DEFINE Aged == [i \in Incidents |->
                       [data.alerts[i] EXCEPT !.age = Older(data.alerts[i].age)]]
<1>1. \A i \in Incidents : data.alerts[i] \in AlertState
  BY DEF StoreData
<1>2. \A n \in 0..Cooldown : Older(n) \in 0..Cooldown
  BY NumbersAssumption DEF Older
<1>3. \A i \in Incidents :
         /\ Aged[i] \in AlertState
         /\ Aged[i].active = data.alerts[i].active
         /\ Aged[i].age = Older(data.alerts[i].age)
  BY <1>1, <1>2 DEF AlertState
<1>4. Aged \in [Incidents -> AlertState]
  BY <1>3
<1>5. AgeStore(data) = [data EXCEPT !.alerts = Aged]
  BY DEF AgeStore
<1>6. AgeStore(data) \in StoreData /\ AgeStore(data).alerts = Aged
  <2> HIDE DEF Aged
  <2> QED  BY <1>4, <1>5 DEF StoreData
<1> QED
  BY <1>3, <1>6

\* Update writes memory, and the file either follows or stays as it was.
LEMMA UpdateTypes ==
    ASSUME NEW data \in StoreData, TypeOK, Update(data)
    PROVE  /\ mem' = data
           /\ mem' \in StoreData /\ disk' \in StoreData
           /\ faults' \in 0..MaxFaults
BY NumbersAssumption DEF Update, Fault, TypeOK

\* A fault is counted within its bound.
LEMMA FaultTypes ==
    ASSUME TypeOK, Fault
    PROVE  faults' \in 0..MaxFaults
BY NumbersAssumption DEF Fault, TypeOK

\* What a poll finds are incidents, none of them a legacy key.
LEMMA RowsAreIncidents ==
    ASSUME NEW services, NEW list \in RowLists(services)
    PROVE  /\ list \in Seq(Incidents)
           /\ \A n \in DOMAIN list : list[n] \notin Legacy
<1> DEFINE Visible == {i \in Incidents \ Legacy : Source[i] \in services}
<1>1. PICK n \in 0..MaxRows : list \in [1..n -> Visible]
  BY DEF RowLists
<1>2. n \in Nat /\ Visible \subseteq Incidents
  BY <1>1, NumbersAssumption
<1>3. list \in [1..n -> Incidents]
  BY <1>1, <1>2
<1> QED
  BY <1>1, <1>2, <1>3

\* Every alert record is an AlertState.
LEMMA AlertTypes ==
    ASSUME TypeOK, NEW i \in Incidents
    PROVE  /\ mem.alerts[i] \in AlertState
           /\ disk.alerts[i] \in AlertState
           /\ [mem.alerts[i] EXCEPT !.active = TRUE] \in AlertState
           /\ [active |-> TRUE, age |-> 0] \in AlertState
           /\ Inactive \in AlertState
<1>1. mem.alerts[i] \in AlertState /\ disk.alerts[i] \in AlertState
  BY DEF TypeOK, StoreData
<1>2. [mem.alerts[i] EXCEPT !.active = TRUE] \in AlertState
  BY <1>1 DEF AlertState
<1>3. 0 \in 0..Cooldown
  BY NumbersAssumption
<1>4. [active |-> TRUE, age |-> 0] \in AlertState
  BY <1>3 DEF AlertState
<1>5. Inactive \in AlertState
  BY <1>3 DEF AlertState, Inactive
<1> QED
  BY <1>1, <1>2, <1>4, <1>5

------------------------------------------------------------------------------
(* Type correctness.                                                       *)

\* The bot starts with a well-typed store and an idle poll (Load).
LEMMA TypeInit == Init => TypeOK
<1> SUFFICES ASSUME Init PROVE TypeOK
  OBVIOUS
<1>1. mem \in StoreData
  <2>1. PICK open \in SUBSET Legacy, on \in BOOLEAN : mem = StoredBefore(open, on)
    BY DEF Init
  <2>2. \A i \in Incidents :
           [active |-> i \in open, age |-> Cooldown] \in AlertState
    BY NumbersAssumption DEF AlertState
  <2>3. [i \in Incidents |-> [active |-> i \in open, age |-> Cooldown]]
           \in [Incidents -> AlertState]
    BY <2>2
  <2> QED
    BY <2>1, <2>3 DEF StoreData, StoredBefore
<1>2. notice \in [Incidents -> {"none", "alert", "resolved"}]
  BY DEF Init
<1>3. quiet \in [Incidents -> 0..Cooldown]
  BY NumbersAssumption DEF Init
<1> QED
  BY <1>1, <1>2, <1>3, NumbersAssumption DEF Init, TypeOK

\* Every step of the loop, of an operator, of time and of a restart keeps the
\* types (PollAlerts, ConfigureAlert, Load).
LEMMA TypeNext == Inductive /\ [Next]_vars => TypeOK'
<1> SUFFICES ASSUME Inductive, [Next]_vars PROVE TypeOK'
  OBVIOUS
<1> USE DEF Inductive
<1> USE DEF TypeOK
<1>1. CASE Begin
  BY <1>1 DEF Begin, history
<1>2. CASE collectAlertsWithCoverage
  BY <1>2, RowsAreIncidents DEF collectAlertsWithCoverage, history
<1>3. CASE sendResolvedAlerts
  BY <1>3 DEF sendResolvedAlerts, history
<1>4. CASE EndPoll
  BY <1>4 DEF EndPoll, history
<1>5. ASSUME NEW i \in Incidents, PostAlert(i) PROVE TypeOK'
  <2>1. notice' \in [Incidents -> {"none", "alert", "resolved"}]
    BY <1>5 DEF PostAlert
  <2>2. quiet' \in [Incidents -> 0..Cooldown]
    BY <1>5, NumbersAssumption DEF PostAlert
  <2> QED
    BY <1>5, <2>1, <2>2 DEF PostAlert, NextRow
<1>6. ASSUME NEW i \in Incidents, sendAlertFails(i) PROVE TypeOK'
  <2>1. rows' \in Seq(Incidents)
    BY <1>6 DEF sendAlertFails, NextRow
  <2>2. faults' \in 0..MaxFaults
    BY <1>6, FaultTypes
    DEF sendAlertFails, AlertHasNoChannel, AlertRefused, AlertReplyLost
  <2>3. CASE UNCHANGED history
    BY <1>6, <2>1, <2>2, <2>3 DEF sendAlertFails, NextRow, history
  <2>4. CASE AlertReplyLost(i)
    <3>1. notice' \in [Incidents -> {"none", "alert", "resolved"}]
      BY <2>4 DEF AlertReplyLost
    <3>2. quiet' \in [Incidents -> 0..Cooldown]
      BY <2>4, NumbersAssumption DEF AlertReplyLost
    <3> QED
      BY <1>6, <2>1, <2>2, <2>4, <3>1, <3>2
      DEF sendAlertFails, NextRow, AlertReplyLost
  <2> QED
    BY <1>6, <2>3, <2>4
    DEF sendAlertFails, AlertHasNoChannel, AlertRefused, history
<1>7. ASSUME NEW i \in Incidents, markAlertSent(i) PROVE TypeOK'
  <2>1. SetAlert(i, [active |-> TRUE, age |-> 0]) \in StoreData
    BY SetAlertStores, AlertTypes
  <2>2. rows' \in Seq(Incidents)
    BY <1>7 DEF markAlertSent, PollConsistent
  <2> QED
    BY <1>7, <2>1, <2>2, UpdateTypes DEF markAlertSent
<1>8. ASSUME NEW i \in Incidents, recordSuppressedAlertEvidence(i) PROVE TypeOK'
  <2>1. SetAlert(i, [mem.alerts[i] EXCEPT !.active = TRUE]) \in StoreData
    BY SetAlertStores, AlertTypes
  <2>2. rows' \in Seq(Incidents) /\ found' \subseteq Incidents
    BY <1>8 DEF recordSuppressedAlertEvidence, NextRow
  <2> QED
    BY <1>8, <2>1, <2>2, UpdateTypes
    DEF recordSuppressedAlertEvidence, history
<1>9. ASSUME NEW i \in Incidents, resolveLegacy(i) PROVE TypeOK'
  <2>1. SetAlert(i, Inactive) \in StoreData
    BY SetAlertStores, AlertTypes
  <2> QED
    BY <1>9, <2>1, UpdateTypes DEF resolveLegacy, history
<1>10. ASSUME NEW i \in Incidents, PostResolved(i) PROVE TypeOK'
  <2>1. notice' \in [Incidents -> {"none", "alert", "resolved"}]
    BY <1>10 DEF PostResolved
  <2> QED
    BY <1>10, <2>1 DEF PostResolved
<1>11. ASSUME NEW i \in Incidents, PostResolvedFails(i) PROVE TypeOK'
  <2>1. notice' \in [Incidents -> {"none", "alert", "resolved"}]
    BY <1>11 DEF PostResolvedFails
  <2>2. faults' \in 0..MaxFaults
    BY <1>11, FaultTypes DEF PostResolvedFails
  <2> QED
    BY <1>11, <2>1, <2>2 DEF PostResolvedFails
<1>12. ASSUME NEW i \in Incidents, markResolved(i) PROVE TypeOK'
  <2>1. SetAlert(i, Inactive) \in StoreData
    BY SetAlertStores, AlertTypes
  <2> QED
    BY <1>12, <2>1, UpdateTypes DEF markResolved
<1>13. ASSUME NEW target \in {{"general"}, {"critical"}, Routes},
              SetChannel(target)
       PROVE  TypeOK'
  <2>1. [mem EXCEPT !.routes = @ \union target] \in StoreData
    BY DEF StoreData, Routes
  <2> QED
    BY <1>13, <2>1, UpdateTypes DEF SetChannel, polling, history
<1>14. ASSUME NEW on \in BOOLEAN, SetEnabled(on) PROVE TypeOK'
  <2>1. [mem EXCEPT !.enabled = on] \in StoreData
    BY DEF StoreData
  <2> QED
    BY <1>14, <2>1, UpdateTypes DEF SetEnabled, polling, history
<1>15. CASE Tick
  <2>1. mem' \in StoreData /\ disk' \in StoreData
    BY <1>15, AgeStoreAges DEF Tick
  <2>2. quiet' \in [Incidents -> 0..Cooldown]
    BY <1>15, NumbersAssumption DEF Tick, Older
  <2> QED
    BY <1>15, <2>1, <2>2 DEF Tick, polling
<1>16. CASE Restart
  <2>1. faults' \in 0..MaxFaults
    BY <1>16, FaultTypes DEF Restart
  <2>2. {i \in Incidents : disk.alerts[i] # mem.alerts[i]} \subseteq Incidents
    OBVIOUS
  <2> QED
    BY <1>16, <2>1, <2>2 DEF Restart
<1>17. CASE UNCHANGED vars
  BY <1>17 DEF vars, polling, history
<1> QED
  BY <1>1, <1>2, <1>3, <1>4, <1>5, <1>6, <1>7, <1>8, <1>9, <1>10, <1>11,
     <1>12, <1>13, <1>14, <1>15, <1>16, <1>17
  DEF Next, PollStep, OperatorStep, DeliverStep, ResolveStep

------------------------------------------------------------------------------
(* The local variables of PollAlerts.                                      *)

\* Recording one alert leaves the records of the other incidents alone.
LEMMA RecordsOne ==
    ASSUME TypeOK, NEW i \in Incidents, NEW a \in AlertState,
           Update(SetAlert(i, a))
    PROVE  /\ mem'.alerts[i] = a
           /\ \A j \in Incidents \ {i} : mem'.alerts[j] = mem.alerts[j]
BY SetAlertStores DEF Update, TypeOK

\* The rows that remain are rows of the poll, and the next one is not legacy.
LEMMA RowsStayCurrent ==
    ASSUME TypeOK, PollConsistent, rows # <<>>
    PROVE  /\ Head(rows) \in Incidents \ Legacy
           /\ \A n \in DOMAIN Tail(rows) : Tail(rows)[n] \notin Legacy
<1>1. rows \in Seq(Incidents) /\ Len(rows) \in Nat /\ Len(rows) # 0
  BY DEF TypeOK
<1>2. Head(rows) = rows[1] /\ 1 \in DOMAIN rows
  BY <1>1
<1>3. \A n \in DOMAIN Tail(rows) : n + 1 \in DOMAIN rows /\ Tail(rows)[n] = rows[n + 1]
  BY <1>1
<1>4. Head(rows) \in Incidents
  BY <1>1, <1>2
<1> QED
  BY <1>2, <1>3, <1>4 DEF PollConsistent

\* The configuration commands leave every alert record alone.
LEMMA ConfigurationKeepsAlerts ==
    ASSUME TypeOK, OperatorStep
    PROVE  mem'.alerts = mem.alerts
<1>1. ASSUME NEW target \in {{"general"}, {"critical"}, Routes},
             SetChannel(target)
      PROVE  mem'.alerts = mem.alerts
  BY <1>1 DEF SetChannel, Update, TypeOK, StoreData
<1>2. ASSUME NEW on \in BOOLEAN, SetEnabled(on)
      PROVE  mem'.alerts = mem.alerts
  BY <1>2 DEF SetEnabled, Update, TypeOK, StoreData
<1> QED
  BY <1>1, <1>2 DEF OperatorStep

\* Between two polls, PollAlerts has no local state to agree with.
LEMMA PollInit == Init => PollConsistent
BY DEF Init, PollConsistent

\* Every step keeps the locals of PollAlerts in agreement with the store.
LEMMA PollNext == Inductive /\ [Next]_vars => PollConsistent'
<1> SUFFICES ASSUME Inductive, [Next]_vars PROVE PollConsistent'
  OBVIOUS
<1> USE DEF Inductive
<1>1. CASE Begin
  BY <1>1 DEF Begin, history, PollConsistent, Covered
<1>2. CASE collectAlertsWithCoverage
  BY <1>2, RowsAreIncidents
  DEF collectAlertsWithCoverage, history, PollConsistent, Covered
<1>3. CASE sendResolvedAlerts
  BY <1>3 DEF sendResolvedAlerts, history, PollConsistent, Covered
<1>4. CASE EndPoll
  BY <1>4 DEF EndPoll, history, PollConsistent, Covered
<1>5. ASSUME NEW i \in Incidents, PostAlert(i) PROVE PollConsistent'
  BY <1>5, RowsStayCurrent DEF PostAlert, NextRow, PollConsistent, Covered, TypeOK
<1>6. ASSUME NEW i \in Incidents, sendAlertFails(i) PROVE PollConsistent'
  BY <1>6, RowsStayCurrent DEF sendAlertFails, NextRow, PollConsistent, Covered
<1>7. ASSUME NEW i \in Incidents, markAlertSent(i) PROVE PollConsistent'
  BY <1>7, RowsStayCurrent DEF markAlertSent, PollConsistent, Covered
<1>8. ASSUME NEW i \in Incidents, recordSuppressedAlertEvidence(i)
      PROVE  PollConsistent'
  BY <1>8, RowsStayCurrent
  DEF recordSuppressedAlertEvidence, NextRow, history, PollConsistent, Covered
<1>9. ASSUME NEW i \in Incidents, resolveLegacy(i) PROVE PollConsistent'
  <2>1. \A j \in Incidents \ {i} : mem'.alerts[j] = mem.alerts[j]
    BY <1>9, AlertTypes, RecordsOne DEF resolveLegacy
  <2> QED
    BY <1>9, <2>1 DEF resolveLegacy, history, PollConsistent, Covered, TypeOK
<1>10. ASSUME NEW i \in Incidents, PostResolved(i) PROVE PollConsistent'
  BY <1>10 DEF PostResolved, PollConsistent, Covered, TypeOK
<1>11. ASSUME NEW i \in Incidents, PostResolvedFails(i) PROVE PollConsistent'
  BY <1>11 DEF PostResolvedFails, PollConsistent, Covered
<1>12. ASSUME NEW i \in Incidents, markResolved(i) PROVE PollConsistent'
  <2>1. \A j \in Incidents \ {i} : mem'.alerts[j] = mem.alerts[j]
    BY <1>12, AlertTypes, RecordsOne DEF markResolved
  <2> QED
    BY <1>12, <2>1 DEF markResolved, PollConsistent, Covered, TypeOK
<1>13. CASE OperatorStep
  <2>1. UNCHANGED <<polling, history>>
    BY <1>13 DEF OperatorStep, SetChannel, SetEnabled
  <2> QED
    BY <1>13, <2>1, ConfigurationKeepsAlerts
    DEF polling, history, PollConsistent, Covered
<1>14. CASE Tick
  <2>1. \A i \in Incidents : mem'.alerts[i].active = mem.alerts[i].active
    BY <1>14, AgeStoreAges DEF Tick, TypeOK
  <2> QED
    BY <1>14, <2>1 DEF Tick, polling, PollConsistent, Covered, TypeOK
<1>15. CASE Restart
  BY <1>15 DEF Restart, PollConsistent
<1>16. CASE UNCHANGED vars
  BY <1>16 DEF vars, polling, history, PollConsistent, Covered
<1> QED
  BY <1>1, <1>2, <1>3, <1>4, <1>5, <1>6, <1>7, <1>8, <1>9, <1>10, <1>11,
     <1>12, <1>13, <1>14, <1>15, <1>16
  DEF Next, PollStep, DeliverStep, ResolveStep

------------------------------------------------------------------------------
(* The records agree with the messages in the channel.                     *)

\* The state file a bot starts from agrees with what the channels show.
LEMMA RecordInit == Init => RecordMatchesNotices
<1> SUFFICES ASSUME Init, NEW i \in Incidents
             PROVE  /\ mem.alerts[i].active <=> notice[i] = "alert"
                    /\ mem.alerts[i].active => mem.alerts[i].age <= quiet[i]
  BY DEF RecordMatchesNotices
<1>1. PICK open \in SUBSET Legacy, on \in BOOLEAN : mem = StoredBefore(open, on)
  BY DEF Init
<1>2. mem.alerts[i].age = Cooldown
  BY <1>1 DEF StoredBefore
<1>3. quiet[i] = Cooldown
  BY DEF Init
<1>4. mem.alerts[i].active <=> notice[i] = "alert"
  BY DEF Init
<1> QED
  BY <1>2, <1>3, <1>4, NumbersAssumption

\* Recording i keeps the agreement for the others, if their history stays.
LEMMA RecordOthers ==
    ASSUME Inductive, NEW i \in Incidents, NEW a \in AlertState,
           Update(SetAlert(i, a)), UNCHANGED <<notice, quiet>>,
           NEW j \in Incidents \ (Legacy \union doubtful' \union posted'),
           j # i, posted' \subseteq posted, posted \subseteq posted' \union {i},
           doubtful \subseteq doubtful' \union {i}
    PROVE  /\ mem'.alerts[j].active <=> notice'[j] = "alert"
           /\ mem'.alerts[j].active => mem'.alerts[j].age <= quiet'[j]
<1>1. mem'.alerts[j] = mem.alerts[j]
  BY RecordsOne DEF Inductive
<1>2. j \in Incidents \ (Legacy \union doubtful \union posted)
  OBVIOUS
<1> QED
  BY <1>1, <1>2 DEF Inductive, RecordMatchesNotices

\* Every step keeps the records in agreement with the channels, or the incident
\* becomes doubtful or waits for its record (sendAlert, markAlertSent).
LEMMA RecordNext == Inductive /\ [Next]_vars => RecordMatchesNotices'
<1> SUFFICES ASSUME Inductive, [Next]_vars,
                    NEW j \in Incidents \ (Legacy \union doubtful' \union posted')
             PROVE  /\ mem'.alerts[j].active <=> notice'[j] = "alert"
                    /\ mem'.alerts[j].active => mem'.alerts[j].age <= quiet'[j]
  BY DEF RecordMatchesNotices
<1> DEFINE Agrees == /\ mem'.alerts[j].active <=> notice'[j] = "alert"
                     /\ mem'.alerts[j].active => mem'.alerts[j].age <= quiet'[j]
<1> USE DEF Inductive
<1>1. CASE UNCHANGED <<mem, posted, history>>
  BY <1>1 DEF history, RecordMatchesNotices
<1>2. ASSUME NEW i \in Incidents, PostAlert(i) PROVE Agrees
  BY <1>2 DEF PostAlert, NextRow, RecordMatchesNotices, PollConsistent, TypeOK
<1>3. ASSUME NEW i \in Incidents, sendAlertFails(i) PROVE Agrees
  <2>1. CASE UNCHANGED history
    BY <1>1, <1>3, <2>1 DEF sendAlertFails
  <2>2. CASE AlertReplyLost(i)
    BY <1>3, <2>2 DEF sendAlertFails, AlertReplyLost, RecordMatchesNotices, TypeOK
  <2> QED
    BY <1>3, <2>1, <2>2
    DEF sendAlertFails, AlertHasNoChannel, AlertRefused, history
<1>4. ASSUME NEW i \in Incidents, markAlertSent(i) PROVE Agrees
  <2>1. CASE j = i
    <3>1. mem'.alerts[i] = [active |-> TRUE, age |-> 0]
      BY <1>4, AlertTypes, RecordsOne DEF markAlertSent
    <3>2. notice'[i] = "alert" /\ quiet'[i] \in 0..Cooldown
      BY <1>4 DEF markAlertSent, PollConsistent, TypeOK
    <3> QED
      BY <2>1, <3>1, <3>2, NumbersAssumption
  <2>2. CASE j # i
    BY <1>4, <2>2, AlertTypes, RecordOthers DEF markAlertSent
  <2> QED
    BY <2>1, <2>2
<1>5. ASSUME NEW i \in Incidents, recordSuppressedAlertEvidence(i) PROVE Agrees
  <2>1. mem.alerts[i].active = TRUE
    BY <1>5, AlertTypes
    DEF recordSuppressedAlertEvidence, shouldSendAlert, AlertState
  <2>2. mem'.alerts[i] = [mem.alerts[i] EXCEPT !.active = TRUE]
    BY <1>5, AlertTypes, RecordsOne DEF recordSuppressedAlertEvidence
  <2>3. mem'.alerts[i] = mem.alerts[i]
    BY <2>1, <2>2, AlertTypes DEF AlertState
  <2>4. CASE j = i
    BY <1>5, <2>3, <2>4
    DEF recordSuppressedAlertEvidence, history, RecordMatchesNotices
  <2>5. CASE j # i
    BY <1>5, <2>5, AlertTypes, RecordOthers
    DEF recordSuppressedAlertEvidence, history
  <2> QED
    BY <2>4, <2>5
<1>6. ASSUME NEW i \in Incidents, resolveLegacy(i) PROVE Agrees
  <2>1. j # i
    BY <1>6 DEF resolveLegacy
  <2> QED
    BY <1>6, <2>1, AlertTypes, RecordOthers DEF resolveLegacy, history
<1>7. ASSUME NEW i \in Incidents, PostResolved(i) PROVE Agrees
  BY <1>7 DEF PostResolved, RecordMatchesNotices, PollConsistent, TypeOK
<1>8. ASSUME NEW i \in Incidents, PostResolvedFails(i) PROVE Agrees
  BY <1>8 DEF PostResolvedFails, RecordMatchesNotices, TypeOK
<1>9. ASSUME NEW i \in Incidents, markResolved(i) PROVE Agrees
  <2>1. CASE j = i
    <3>1. mem'.alerts[i] = Inactive
      BY <1>9, AlertTypes, RecordsOne DEF markResolved
    <3>2. notice'[i] = "resolved"
      BY <1>9 DEF markResolved, PollConsistent
    <3> QED
      BY <2>1, <3>1, <3>2 DEF Inactive
  <2>2. CASE j # i
    BY <1>9, <2>2, AlertTypes, RecordOthers DEF markResolved
  <2> QED
    BY <2>1, <2>2
<1>10. CASE OperatorStep
  <2>1. UNCHANGED <<polling, history>>
    BY <1>10 DEF OperatorStep, SetChannel, SetEnabled
  <2> QED
    BY <1>10, <2>1, ConfigurationKeepsAlerts
    DEF polling, history, RecordMatchesNotices
<1>11. CASE Tick
  <2>1. /\ mem'.alerts[j].active = mem.alerts[j].active
        /\ mem'.alerts[j].age = Older(mem.alerts[j].age)
    BY <1>11, AgeStoreAges DEF Tick, TypeOK
  <2>2. quiet'[j] = Older(quiet[j])
    BY <1>11 DEF Tick
  <2>3. mem.alerts[j].age \in 0..Cooldown /\ quiet[j] \in 0..Cooldown
    BY AlertTypes DEF AlertState, TypeOK
  <2>4. /\ mem.alerts[j].active <=> notice[j] = "alert"
        /\ mem.alerts[j].active => mem.alerts[j].age <= quiet[j]
    BY <1>11 DEF Tick, polling, RecordMatchesNotices
  <2>5. mem.alerts[j].active => Older(mem.alerts[j].age) <= Older(quiet[j])
    BY <2>3, <2>4, NumbersAssumption DEF Older
  <2> QED
    BY <1>11, <2>1, <2>2, <2>4, <2>5 DEF Tick
<1>12. CASE Restart
  <2>1. mem'.alerts[j] = mem.alerts[j] /\ j \notin posted
    BY <1>12 DEF Restart
  <2> QED
    BY <1>12, <2>1 DEF Restart, RecordMatchesNotices
<1>13. CASE Begin \/ collectAlertsWithCoverage \/ sendResolvedAlerts \/ EndPoll
  BY <1>1, <1>13
  DEF Begin, collectAlertsWithCoverage, sendResolvedAlerts, EndPoll
<1>14. CASE UNCHANGED vars
  BY <1>1, <1>14 DEF vars, polling
<1> QED
  BY <1>2, <1>3, <1>4, <1>5, <1>6, <1>7, <1>8, <1>9, <1>10, <1>11, <1>12,
     <1>13, <1>14
  DEF Next, PollStep, DeliverStep, ResolveStep

------------------------------------------------------------------------------
(* The theorems.                                                           *)

\* Inductive holds initially and every step preserves it (PollAlerts, the
\* configuration commands, time and restarts).
THEOREM InductiveInvariant == Spec => []Inductive
<1>1. Init => Inductive
  BY TypeInit, PollInit, RecordInit DEF Inductive
<1>2. Inductive /\ [Next]_vars => Inductive'
  BY TypeNext, PollNext, RecordNext DEF Inductive
<1> QED
  BY <1>1, <1>2, PTL DEF Spec

\* Every variable keeps its type (the store and the locals of PollAlerts).
THEOREM TypeCorrect == Spec => []TypeOK
<1>1. Inductive => TypeOK
  BY DEF Inductive
<1> QED
  BY <1>1, InductiveInvariant, PTL

\* The locals of PollAlerts agree with the state and with the channel.
THEOREM PollIsConsistent == Spec => []PollConsistent
<1>1. Inductive => PollConsistent
  BY DEF Inductive
<1> QED
  BY <1>1, InductiveInvariant, PTL

\* The stored records agree with what the channel shows, except where a post
\* is not recorded yet or was lost track of (markAlertSent, sendResolvedAlerts).
THEOREM RecordsAgree == Spec => []RecordMatchesNotices
<1>1. Inductive => RecordMatchesNotices
  BY DEF Inductive
<1> QED
  BY <1>1, InductiveInvariant, PTL

\* What PostAlert may rely on: the incident it alerts is due, or not open, or
\* the bot has lost track of it.
LEMMA DueWhenSent ==
    ASSUME Inductive, NEW i \in Incidents, NextRow(i), shouldSendAlert(i),
           notice[i] = "alert", i \notin doubtful
    PROVE  quiet[i] >= Cooldown
<1> USE DEF Inductive
<1>1. rows # <<>> /\ i = Head(rows) /\ posted = {}
  BY DEF NextRow, PollConsistent
<1>2. i \in Incidents \ (Legacy \union doubtful \union posted)
  BY <1>1, RowsStayCurrent
<1>3. mem.alerts[i].active /\ mem.alerts[i].age <= quiet[i]
  BY <1>2 DEF RecordMatchesNotices
<1>4. mem.alerts[i].age \in 0..Cooldown /\ quiet[i] \in 0..Cooldown
  BY AlertTypes DEF AlertState, TypeOK
<1> QED
  BY <1>3, <1>4, NumbersAssumption DEF shouldSendAlert

\* An alert is posted only by the two steps that call sendAlert.
LEMMA WhoPostsAlerts ==
    ASSUME Inductive, [Next]_vars, NEW i \in Incidents, AlertPosted(i),
           i \notin doubtful
    PROVE  NextRow(i) /\ shouldSendAlert(i)
<1> USE DEF AlertPosted, Inductive
<1>1. ASSUME NEW k \in Incidents, PostAlert(k) PROVE NextRow(i) /\ shouldSendAlert(i)
  <2>1. k = i
    BY <1>1 DEF PostAlert
  <2> QED
    BY <1>1, <2>1 DEF PostAlert
<1>2. ASSUME NEW k \in Incidents, sendAlertFails(k)
      PROVE  NextRow(i) /\ shouldSendAlert(i)
  <2>1. pc' = "deliver"
    BY <1>2 DEF sendAlertFails, NextRow
  <2>2. i \in doubtful' \ doubtful
    BY <2>1
  <2>3. k = i
    BY <1>2, <2>2
    DEF sendAlertFails, AlertHasNoChannel, AlertRefused, AlertReplyLost, history
  <2> QED
    BY <1>2, <2>3 DEF sendAlertFails
<1>3. ASSUME NEW k \in Incidents, markAlertSent(k) PROVE FALSE
  BY <1>3 DEF markAlertSent
<1>4. ASSUME NEW k \in Incidents, recordSuppressedAlertEvidence(k) PROVE FALSE
  BY <1>4 DEF recordSuppressedAlertEvidence, NextRow, history
<1>5. ASSUME NEW k \in Incidents, ResolveStep(k) PROVE FALSE
  BY <1>5
  DEF ResolveStep, resolveLegacy, PostResolved, PostResolvedFails, markResolved,
      history
<1>6. CASE Begin \/ collectAlertsWithCoverage \/ sendResolvedAlerts \/ EndPoll
  BY <1>6
  DEF Begin, collectAlertsWithCoverage, sendResolvedAlerts, EndPoll, history
<1>7. CASE OperatorStep
  BY <1>7 DEF OperatorStep, SetChannel, SetEnabled, polling, history
<1>8. CASE Tick \/ Restart \/ UNCHANGED vars
  BY <1>8 DEF Tick, Restart, vars, polling, history
<1> QED
  BY <1>1, <1>2, <1>3, <1>4, <1>5, <1>6, <1>7, <1>8
  DEF Next, PollStep, DeliverStep

\* An open alert that the bot has not lost track of is repeated only after the
\* cooldown (shouldSendAlert): for any number of incidents, ticks and faults.
THEOREM CooldownHolds == Spec => CooldownRespected
<1>1. Inductive /\ [Next]_vars
      => [\A i \in Incidents :
             AlertPosted(i) /\ notice[i] = "alert" /\ i \notin doubtful
             => quiet[i] >= Cooldown]_vars
  BY WhoPostsAlerts, DueWhenSent
<1> QED
  BY <1>1, InductiveInvariant, PTL DEF Spec, CooldownRespected

\* If every key names the service whose log group holds the incident, then a
\* "resolved" message is posted only by a poll that queried that log group and
\* did not find the incident (alertStateService, sendResolvedAlerts).
THEOREM ResolvedMeansLookedFor ==
    ASSUME Domain = Source
    PROVE  Spec => ResolvedOnlyIfLookedFor
<1>1. ASSUME Inductive, [Next]_vars, NEW i \in Incidents,
             notice[i] # "resolved", notice'[i] = "resolved"
      PROVE  Source[i] \in observed /\ i \notin found
  <2> USE <1>1 DEF Inductive
  <2>1. i \in pending
    <3>1. CASE UNCHANGED notice
      BY <3>1
    <3>2. ASSUME NEW k \in Incidents, DeliverStep(k) PROVE FALSE
      BY <3>2
      DEF DeliverStep, PostAlert, sendAlertFails, markAlertSent,
          recordSuppressedAlertEvidence, AlertHasNoChannel, AlertRefused,
          AlertReplyLost, history, TypeOK
    <3>3. ASSUME NEW k \in Incidents, ResolveStep(k) PROVE i \in pending
      BY <3>3
      DEF ResolveStep, resolveLegacy, PostResolved, PostResolvedFails,
          markResolved, history, TypeOK
    <3>4. CASE Begin \/ collectAlertsWithCoverage \/ sendResolvedAlerts \/ EndPoll
      BY <3>1, <3>4
      DEF Begin, collectAlertsWithCoverage, sendResolvedAlerts, EndPoll, history
    <3>5. CASE OperatorStep \/ Tick \/ Restart \/ UNCHANGED vars
      BY <3>1, <3>5
      DEF OperatorStep, SetChannel, SetEnabled, Tick, Restart, vars, history
    <3> QED
      BY <3>2, <3>3, <3>4, <3>5 DEF Next, PollStep
  <2>2. Covered(i) /\ i \notin found
    BY <2>1 DEF PollConsistent
  <2>3. Domain[i] # Unmapped
    BY DomainAssumption
  <2> QED
    BY <2>2, <2>3 DEF Covered
<1>2. Inductive /\ [Next]_vars
      => [\A i \in Incidents :
             notice[i] # "resolved" /\ notice'[i] = "resolved"
             => Source[i] \in observed /\ i \notin found]_vars
  BY <1>1
<1> QED
  BY <1>2, InductiveInvariant, PTL DEF Spec, ResolvedOnlyIfLookedFor

------------------------------------------------------------------------------
(* The loop implements the abstract promise: each step is a step of        *)
(* IncidentNotices or leaves its variables unchanged.                      *)

\* A step that leaves the history alone is a stuttering step of the promise.
LEMMA HistoryStutters == UNCHANGED history => UNCHANGED Promise!vars
BY DEF history, Promise!vars

\* Handling one alert row is an alert of the promise, a loss or a recovery of
\* track, or a stutter.
LEMMA AlertStepsRefine ==
    ASSUME Inductive, NEW i \in Incidents, DeliverStep(i)
    PROVE  [Promise!Next]_(Promise!vars)
<1> USE DEF Inductive
<1>1. CASE PostAlert(i)
  <2>1. NextRow(i) /\ shouldSendAlert(i)
    BY <1>1 DEF PostAlert
  <2>2. notice[i] = "alert" /\ i \notin doubtful => quiet[i] >= Cooldown
    BY <2>1, DueWhenSent
  <2>3. Promise!Alert(i)
    BY <1>1, <2>2 DEF PostAlert, Promise!Alert
  <2> QED
    BY <2>3 DEF Promise!Next
<1>2. CASE sendAlertFails(i)
  <2>1. NextRow(i) /\ shouldSendAlert(i)
    BY <1>2 DEF sendAlertFails
  <2>2. notice[i] = "alert" /\ i \notin doubtful => quiet[i] >= Cooldown
    BY <2>1, DueWhenSent
  <2>3. CASE UNCHANGED history
    BY <2>3, HistoryStutters
  <2>4. CASE AlertReplyLost(i)
    <3>1. Promise!Alert(i)
      BY <2>2, <2>4 DEF AlertReplyLost, Promise!Alert
    <3> QED
      BY <3>1 DEF Promise!Next
  <2> QED
    BY <1>2, <2>3, <2>4
    DEF sendAlertFails, AlertHasNoChannel, AlertRefused, history
<1>3. CASE markAlertSent(i)
  <2>1. Promise!RegainTrack(i)
    BY <1>3 DEF markAlertSent, Promise!RegainTrack
  <2> QED
    BY <2>1 DEF Promise!Next
<1>4. CASE recordSuppressedAlertEvidence(i)
  BY <1>4, HistoryStutters DEF recordSuppressedAlertEvidence
<1> QED
  BY <1>1, <1>2, <1>3, <1>4 DEF DeliverStep

\* Handling one resolved incident is a resolution of the promise, a loss or a
\* recovery of track, or a stutter (sendResolvedAlerts).
LEMMA ResolveStepsRefine ==
    ASSUME Inductive, NEW i \in Incidents, ResolveStep(i)
    PROVE  [Promise!Next]_(Promise!vars)
<1> USE DEF Inductive
<1>1. ASSUME pc = "resolve", i \in pending \ Legacy
      PROVE  notice[i] = "alert" \/ i \in doubtful
  BY <1>1 DEF PollConsistent, RecordMatchesNotices
<1>2. CASE resolveLegacy(i)
  BY <1>2, HistoryStutters DEF resolveLegacy
<1>3. CASE PostResolved(i)
  <2>1. Promise!Resolve(i)
    BY <1>1, <1>3 DEF PostResolved, Promise!Resolve
  <2> QED
    BY <2>1 DEF Promise!Next
<1>4. CASE PostResolvedFails(i)
  <2>1. CASE UNCHANGED <<notice, doubtful>>
    BY <1>4, <2>1, HistoryStutters DEF PostResolvedFails, history
  <2>2. CASE ~UNCHANGED <<notice, doubtful>>
    <3>1. Promise!Resolve(i)
      BY <1>1, <1>4, <2>2 DEF PostResolvedFails, Promise!Resolve
    <3> QED
      BY <3>1 DEF Promise!Next
  <2> QED
    BY <2>1, <2>2
<1>5. CASE markResolved(i)
  <2>1. Promise!RegainTrack(i)
    BY <1>5 DEF markResolved, Promise!RegainTrack
  <2> QED
    BY <2>1 DEF Promise!Next
<1> QED
  BY <1>2, <1>3, <1>4, <1>5 DEF ResolveStep

\* PollAlerts with its configuration, failures and restarts implements the
\* promise to the readers of the channels.
THEOREM LoopKeepsPromise == Spec => KeepsPromise
<1>1. Init => Promise!Init
  <2> SUFFICES ASSUME Init PROVE Promise!Init
    OBVIOUS
  <2>1. notice \in [Incidents -> Promise!Notices]
    BY DEF Init, Promise!Notices
  <2>2. quiet \in [Incidents -> 0..Cooldown]
    BY NumbersAssumption DEF Init
  <2> QED
    BY <2>1, <2>2 DEF Init, Promise!Init
<1>2. Inductive /\ Inductive' /\ [Next]_vars => [Promise!Next]_(Promise!vars)
  <2> SUFFICES ASSUME Inductive, Inductive', [Next]_vars
               PROVE  [Promise!Next]_(Promise!vars)
    OBVIOUS
  <2>1. CASE \E i \in Incidents : DeliverStep(i) \/ ResolveStep(i)
    BY <2>1, AlertStepsRefine, ResolveStepsRefine
  <2>2. CASE Begin \/ collectAlertsWithCoverage \/ sendResolvedAlerts \/ EndPoll
    BY <2>2, HistoryStutters
    DEF Begin, collectAlertsWithCoverage, sendResolvedAlerts, EndPoll
  <2>3. CASE OperatorStep
    BY <2>3, HistoryStutters DEF OperatorStep, SetChannel, SetEnabled
  <2>4. CASE Tick
    <3>1. Promise!Tick
      BY <2>4 DEF Tick, Promise!Tick, Older, Promise!Older
    <3> QED
      BY <3>1 DEF Promise!Next
  <2>5. CASE Restart
    <3>1. Promise!LoseTrack
      BY <2>5 DEF Restart, Promise!LoseTrack, Inductive, TypeOK
    <3> QED
      BY <3>1 DEF Promise!Next
  <2>6. CASE UNCHANGED vars
    BY <2>6, HistoryStutters DEF vars
  <2> QED
    BY <2>1, <2>2, <2>3, <2>4, <2>5, <2>6 DEF Next, PollStep
<1> QED
  BY <1>1, <1>2, InductiveInvariant, PTL DEF Spec, KeepsPromise, Promise!Spec
==============================================================================
