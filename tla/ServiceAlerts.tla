---------------------------- MODULE ServiceAlerts ----------------------------
(***************************************************************************)
(* The service-alert loop of the monitor bot (internal/monitor/alerts.go). *)
(* One goroutine polls: it queries the log group of every connected        *)
(* service, posts an alert for each incident that is new or whose cooldown *)
(* has passed, and then posts "resolved" for the active incidents that it  *)
(* could have seen and did not.  Operators change the configuration        *)
(* concurrently, time passes between any two steps, calls to Discord and   *)
(* writes of the state file fail, and the process crashes and restarts     *)
(* from the file.                                                          *)
(*                                                                         *)
(* A timestamp t is represented by its age, now - t, counted up to         *)
(* Cooldown; Go's zero time, which the code treats as "long ago", is the   *)
(* age Cooldown.                                                           *)
(***************************************************************************)
EXTENDS Naturals, Sequences, FiniteSets

CONSTANTS
    Incidents,    \* alert cooldown keys
    Legacy,       \* keys written by old versions ("prod:...:v2:...")
    Critical,     \* incidents of CRITICAL severity
    Services,     \* normalized names of the connected services
    Source,       \* Source[i]: the service whose log group holds incident i
    Domain,       \* Domain[i]: the service that i's key names, or Unmapped
    Unmapped,     \* a domain that NormalizeService does not know
    Queryable,    \* the services within the query budget of a tick
    EnvEnabled,   \* alerts enabled through the environment
    EnvRoutes,    \* routes with a channel from the environment
    Cooldown,     \* cooldown in ticks
    MaxRows,      \* bound: alerting rows that one poll finds
    MaxFaults     \* bound: failed calls, failed saves, lost replies, crashes

Routes == {"general", "critical"}

ASSUME SetsAssumption ==
    /\ Legacy \subseteq Incidents
    /\ Critical \subseteq Incidents
    /\ Queryable \subseteq Services
    /\ EnvRoutes \subseteq Routes
ASSUME DomainAssumption ==
    /\ Source \in [Incidents -> Services]
    /\ Domain \in [Incidents -> Services \union {Unmapped}]
    /\ Unmapped \notin Services
ASSUME NumbersAssumption ==
    /\ Cooldown \in Nat \ {0}
    /\ MaxRows \in Nat
    /\ MaxFaults \in Nat
    /\ EnvEnabled \in BOOLEAN

VARIABLES
    mem,        \* Store.data: what the process knows
    disk,       \* the state file
    pc,         \* where PollAlerts is
    rows,       \* alerting rows of this poll not handled yet
    found,      \* the keys of PollAlerts' `active' map
    observed,   \* services whose query succeeded in this poll
    pending,    \* active incidents that this poll still has to resolve
    posted,     \* the incident whose message is posted but not recorded
    notice,     \* history: the last message about each incident
    quiet,      \* history: age of the last alert message, up to Cooldown
    doubtful,   \* history: incidents whose record may be behind Discord
    faults      \* faults so far

polling == <<pc, rows, found, observed, pending, posted>>
history == <<notice, quiet, doubtful>>
vars == <<mem, disk, polling, history, faults>>

AlertState == [active : BOOLEAN, age : 0..Cooldown]
StoreData == [alerts : [Incidents -> AlertState],
              enabled : BOOLEAN,
              routes : SUBSET Routes]

TypeOK ==
    /\ mem \in StoreData
    /\ disk \in StoreData
    /\ pc \in {"idle", "collect", "deliver", "mark", "resolve", "markResolved"}
    /\ rows \in Seq(Incidents)
    /\ found \subseteq Incidents
    /\ observed \subseteq Queryable
    /\ pending \subseteq Incidents
    /\ posted \subseteq Incidents
    /\ notice \in [Incidents -> {"none", "alert", "resolved"}]
    /\ quiet \in [Incidents -> 0..Cooldown]
    /\ doubtful \subseteq Incidents
    /\ faults \in 0..MaxFaults

------------------------------------------------------------------------------
(* The configuration the loop reads: state first, then the environment.    *)

alertsEnabled == mem.enabled \/ EnvEnabled

Channels == mem.routes \union EnvRoutes

Route(i) == IF i \in Critical THEN "critical" ELSE "general"

------------------------------------------------------------------------------
(* Store.Update: memory changes first; the file follows unless the write   *)
(* fails, and nobody undoes the change in memory then.                     *)

Fault ==
    /\ faults < MaxFaults
    /\ faults' = faults + 1

Update(data) ==
    /\ mem' = data
    /\ \/ disk' = data /\ UNCHANGED faults
       \/ UNCHANGED disk /\ Fault

SetAlert(i, alert) == [mem EXCEPT !.alerts[i] = alert]

------------------------------------------------------------------------------
(* The start of a poll and its queries.                                    *)

\* An empty state file, or one that an old version left active legacy keys in.
StoredBefore(open, on) ==
    [alerts |-> [i \in Incidents |-> [active |-> i \in open, age |-> Cooldown]],
     enabled |-> on,
     routes |-> {}]

Init ==
    /\ \E open \in SUBSET Legacy, on \in BOOLEAN : mem = StoredBefore(open, on)
    /\ disk = mem
    /\ pc = "idle"
    /\ rows = <<>>
    /\ found = {} /\ observed = {} /\ pending = {} /\ posted = {}
    /\ notice = [i \in Incidents |->
                    IF mem.alerts[i].active THEN "alert" ELSE "none"]
    /\ quiet = [i \in Incidents |-> Cooldown]
    /\ doubtful = {}
    /\ faults = 0

Begin ==
    /\ pc = "idle"
    /\ alertsEnabled
    /\ Channels # {}
    /\ pc' = "collect"
    /\ UNCHANGED <<mem, disk, rows, found, observed, pending, posted, history,
                   faults>>

RowLists(services) ==
    LET visible == {i \in Incidents \ Legacy : Source[i] \in services}
    IN  UNION {[1..n -> visible] : n \in 0..MaxRows}

\* The queries that fail, or that the budget leaves out, cover no service.
collectAlertsWithCoverage ==
    /\ pc = "collect"
    /\ observed' \in SUBSET Queryable
    /\ rows' \in RowLists(observed')
    /\ found' = {}
    /\ pc' = "deliver"
    /\ UNCHANGED <<mem, disk, pending, posted, history, faults>>

------------------------------------------------------------------------------
(* One row: post an alert and record it, or only record the evidence.      *)

\* Mutant: the cooldown is forgotten.
shouldSendAlways(i) == TRUE

\* Mutant: an incident that stays open is alerted once.
shouldSendOnlyNew(i) == ~mem.alerts[i].active

\* A never-sent key has age Cooldown: LastSentAt.IsZero() is the first case.
shouldSendAlert(i) ==
    \/ mem.alerts[i].age >= Cooldown
    \/ ~mem.alerts[i].active

NextRow(i) ==
    /\ pc = "deliver"
    /\ rows # <<>>
    /\ i = Head(rows)
    /\ found' = found \union {i}

PostAlert(i) ==
    /\ NextRow(i)
    /\ shouldSendAlert(i)
    /\ Route(i) \in Channels
    /\ notice' = [notice EXCEPT ![i] = "alert"]
    /\ quiet' = [quiet EXCEPT ![i] = 0]
    /\ posted' = {i}
    /\ pc' = "mark"
    /\ UNCHANGED <<mem, disk, rows, observed, pending, doubtful, faults>>

\* Discord answered with an error, or posted the message and the answer got
\* lost.  Either way the loop goes on to the next row and records nothing.
AlertRefused(i) ==
    /\ Fault
    /\ UNCHANGED history

AlertReplyLost(i) ==
    /\ Fault
    /\ notice' = [notice EXCEPT ![i] = "alert"]
    /\ quiet' = [quiet EXCEPT ![i] = 0]
    /\ doubtful' = doubtful \union {i}

AlertHasNoChannel(i) ==
    /\ Route(i) \notin Channels
    /\ UNCHANGED <<history, faults>>

\* Mutant: an alert that could not be sent is recorded as sent.
sendAlertFailsButMarks(i) ==
    /\ NextRow(i)
    /\ shouldSendAlert(i)
    /\ AlertRefused(i)
    /\ rows' = Tail(rows)
    /\ mem' = SetAlert(i, [active |-> TRUE, age |-> 0])
    /\ disk' = mem'
    /\ UNCHANGED <<pc, observed, pending, posted>>

sendAlertFails(i) ==
    /\ NextRow(i)
    /\ shouldSendAlert(i)
    /\ \/ AlertHasNoChannel(i)
       \/ Route(i) \in Channels /\ (AlertRefused(i) \/ AlertReplyLost(i))
    /\ rows' = Tail(rows)
    /\ UNCHANGED <<mem, disk, pc, observed, pending, posted>>

\* Mutant: the record of an alert does not set LastSentAt.
markWithoutTime(i) ==
    /\ pc = "mark"
    /\ posted = {i}
    /\ Update(SetAlert(i, [mem.alerts[i] EXCEPT !.active = TRUE]))
    /\ doubtful' = doubtful \ {i}
    /\ rows' = Tail(rows)
    /\ posted' = {}
    /\ pc' = "deliver"
    /\ UNCHANGED <<found, observed, pending, notice, quiet>>

markAlertSent(i) ==
    /\ pc = "mark"
    /\ posted = {i}
    /\ Update(SetAlert(i, [active |-> TRUE, age |-> 0]))
    /\ doubtful' = doubtful \ {i}
    /\ rows' = Tail(rows)
    /\ posted' = {}
    /\ pc' = "deliver"
    /\ UNCHANGED <<found, observed, pending, notice, quiet>>

recordSuppressedAlertEvidence(i) ==
    /\ NextRow(i)
    /\ ~shouldSendAlert(i)
    /\ Update(SetAlert(i, [mem.alerts[i] EXCEPT !.active = TRUE]))
    /\ rows' = Tail(rows)
    /\ UNCHANGED <<pc, observed, pending, posted, history>>

------------------------------------------------------------------------------
(* Resolving what is active, was looked for and was not found.             *)

\* Mutant: a failed query counts as an empty one.
CoveredAlways(i) == TRUE

Covered(i) == Domain[i] = Unmapped \/ Domain[i] \in observed

sendResolvedAlerts ==
    /\ pc = "deliver"
    /\ rows = <<>>
    /\ IF "general" \in Channels
         THEN /\ pc' = "resolve"
              /\ pending' = {i \in Incidents \ found :
                                mem.alerts[i].active /\ Covered(i)}
         ELSE /\ pc' = "idle"
              /\ UNCHANGED pending
    /\ UNCHANGED <<mem, disk, rows, found, observed, posted, history, faults>>

Inactive == [active |-> FALSE, age |-> 0]

\* A legacy key is closed without a message.
resolveLegacy(i) ==
    /\ pc = "resolve"
    /\ i \in pending \intersect Legacy
    /\ Update(SetAlert(i, Inactive))
    /\ pending' = pending \ {i}
    /\ UNCHANGED <<pc, rows, found, observed, posted, history>>

PostResolved(i) ==
    /\ pc = "resolve"
    /\ i \in pending \ Legacy
    /\ notice' = [notice EXCEPT ![i] = "resolved"]
    /\ posted' = {i}
    /\ pending' = pending \ {i}
    /\ pc' = "markResolved"
    /\ UNCHANGED <<mem, disk, rows, found, observed, quiet, doubtful, faults>>

PostResolvedFails(i) ==
    /\ pc = "resolve"
    /\ i \in pending \ Legacy
    /\ Fault
    /\ \/ UNCHANGED <<notice, doubtful>>
       \/ /\ notice' = [notice EXCEPT ![i] = "resolved"]
          /\ doubtful' = doubtful \union {i}
    /\ pending' = pending \ {i}
    /\ UNCHANGED <<mem, disk, pc, rows, found, observed, posted, quiet>>

\* Mutant: a resolved incident stays active in the state.
markResolvedStillActive(i) ==
    /\ pc = "markResolved"
    /\ posted = {i}
    /\ Update(SetAlert(i, [active |-> TRUE, age |-> 0]))
    /\ doubtful' = doubtful \ {i}
    /\ posted' = {}
    /\ pc' = "resolve"
    /\ UNCHANGED <<rows, found, observed, pending, notice, quiet>>

markResolved(i) ==
    /\ pc = "markResolved"
    /\ posted = {i}
    /\ Update(SetAlert(i, Inactive))
    /\ doubtful' = doubtful \ {i}
    /\ posted' = {}
    /\ pc' = "resolve"
    /\ UNCHANGED <<rows, found, observed, pending, notice, quiet>>

EndPoll ==
    /\ pc = "resolve"
    /\ pending = {}
    /\ pc' = "idle"
    /\ UNCHANGED <<mem, disk, rows, found, observed, pending, posted, history,
                   faults>>

------------------------------------------------------------------------------
(* Operators, time and crashes.                                            *)

\* Mutant: the target "all" is stored as it is and reaches no route.
SetChannelRaw(target) ==
    /\ Update([mem EXCEPT !.routes =
                 @ \union (IF target = Routes THEN {"all"} ELSE target)])
    /\ UNCHANGED <<polling, history>>

\* /ops alert action:channel with target all, general or critical.
SetChannel(target) ==
    /\ Update([mem EXCEPT !.routes = @ \union target])
    /\ UNCHANGED <<polling, history>>

\* /ops alert action:on and action:off.
SetEnabled(on) ==
    /\ Update([mem EXCEPT !.enabled = on])
    /\ UNCHANGED <<polling, history>>

Older(age) == IF age < Cooldown THEN age + 1 ELSE age

AgeStore(data) ==
    [data EXCEPT !.alerts = [i \in Incidents |->
        [data.alerts[i] EXCEPT !.age = Older(data.alerts[i].age)]]]

Tick ==
    /\ mem' = AgeStore(mem)
    /\ disk' = AgeStore(disk)
    /\ quiet' = [i \in Incidents |-> Older(quiet[i])]
    /\ UNCHANGED <<polling, notice, doubtful, faults>>

\* A restart knows what the file says: every message whose record did not
\* reach the file is forgotten.
Restart ==
    /\ Fault
    /\ mem' = disk
    /\ doubtful' = doubtful \union posted
                     \union {i \in Incidents : disk.alerts[i] # mem.alerts[i]}
    /\ pc' = "idle"
    /\ rows' = <<>>
    /\ found' = {} /\ observed' = {} /\ pending' = {} /\ posted' = {}
    /\ UNCHANGED <<disk, notice, quiet>>

------------------------------------------------------------------------------
DeliverStep(i) ==
    \/ PostAlert(i)
    \/ sendAlertFails(i)
    \/ markAlertSent(i)
    \/ recordSuppressedAlertEvidence(i)

ResolveStep(i) ==
    \/ resolveLegacy(i)
    \/ PostResolved(i)
    \/ PostResolvedFails(i)
    \/ markResolved(i)

PollStep ==
    \/ Begin
    \/ collectAlertsWithCoverage
    \/ sendResolvedAlerts
    \/ EndPoll
    \/ \E i \in Incidents : DeliverStep(i) \/ ResolveStep(i)

OperatorStep ==
    \/ \E target \in {{"general"}, {"critical"}, Routes} : SetChannel(target)
    \/ \E on \in BOOLEAN : SetEnabled(on)

Next == PollStep \/ OperatorStep \/ Tick \/ Restart

\* The loop never stops polling and every call it makes has a timeout; time
\* passes.  Nothing obliges an operator to act or a fault to happen.
Fairness == WF_vars(PollStep) /\ WF_vars(Tick)

Spec == Init /\ [][Next]_vars

FairSpec == Spec /\ Fairness

------------------------------------------------------------------------------
(* Properties.                                                             *)

\* The state says "active" exactly for the incidents whose last message was
\* an alert, and remembers a send time that is not earlier than the real one:
\* the only exceptions are a message posted and not recorded yet, a message
\* the bot lost track of, and the legacy keys closed without a message
\* (PollAlerts, markAlertSent, sendResolvedAlerts).
RecordMatchesNotices ==
    \A i \in Incidents \ (Legacy \union doubtful \union posted) :
        /\ mem.alerts[i].active <=> notice[i] = "alert"
        /\ mem.alerts[i].active => mem.alerts[i].age <= quiet[i]

\* What PollAlerts keeps in its local variables agrees with the state and with
\* the channel: what it still has to resolve is active, was looked for and was
\* not found, and the one message it is about to record is the last one that
\* the channel shows (the window between a post and markAlertSent).
PollConsistent ==
    /\ \A n \in DOMAIN rows : rows[n] \notin Legacy
    /\ pc = "mark" => /\ rows # <<>> /\ posted = {Head(rows)}
                      /\ notice[Head(rows)] = "alert"
    /\ pc = "markResolved" => \E i \in Incidents \ Legacy :
                                posted = {i} /\ notice[i] = "resolved"
    /\ pc \notin {"mark", "markResolved"} => posted = {}
    /\ pc \notin {"resolve", "markResolved"} => pending = {}
    /\ pending \intersect posted = {}
    /\ \A i \in pending : mem.alerts[i].active /\ i \notin found /\ Covered(i)

\* The step posts an alert for i, and learns of it or not.
AlertPosted(i) ==
    \/ pc # "mark" /\ pc' = "mark" /\ posted' = {i}
    \/ pc = "deliver" /\ pc' = "deliver" /\ i \in doubtful' \ doubtful

\* While an incident stays open, its alert is not repeated within the cooldown
\* unless the bot lost track of it (shouldSendAlert, markAlertSent).
CooldownRespected ==
    [][\A i \in Incidents :
          AlertPosted(i) /\ notice[i] = "alert" /\ i \notin doubtful
          => quiet[i] >= Cooldown]_vars

\* A "resolved" message is posted only by a poll that queried the log group
\* which holds the incident and did not find it there
\* (collectAlertsWithCoverage, sendResolvedAlerts).
ResolvedOnlyIfLookedFor ==
    [][\A i \in Incidents :
          notice[i] # "resolved" /\ notice'[i] = "resolved"
          => Source[i] \in observed /\ i \notin found]_vars

\* The loop implements the promise it makes to the readers of the channels:
\* open alerts repeat only after the cooldown and only open alerts resolve.
Promise == INSTANCE IncidentNotices WITH
    Incidents <- Incidents, Cooldown <- Cooldown,
    notice <- notice, quiet <- quiet, doubtful <- doubtful

KeepsPromise == Promise!Spec

\* An incident that every poll finds is alerted again and again, one cooldown
\* apart, however the configuration, the faults and the restarts fell, if its
\* alerts have a channel: none is forgotten (PollAlerts' error handling).
PersistentIncidentsAlert ==
    \A i \in Incidents \ Legacy :
        <>[](pc = "resolve" => i \in found) /\ <>[](Routes = Channels)
           /\ <>[]alertsEnabled
        => []<>(posted = {i} /\ pc = "mark")

\* An incident that stops appearing is eventually no longer active, as long as
\* its service is queried again and again (sendResolvedAlerts).
GoneIncidentsResolve ==
    \A i \in Incidents :
        <>[](i \notin found) /\ []<>(pc = "resolve" /\ Covered(i))
        => <>[]~mem.alerts[i].active
==============================================================================
