----------------------- MODULE AssignmentEvents_proofs -----------------------
(***************************************************************************)
(* The two feeds of AssignmentEvents for every set of assignments, every   *)
(* timing and any number of faults.  The proofs rest on four invariants    *)
(* beside the types: what the store knows of the audit messages            *)
(* (AuditKnown), until when an unposted audit event is in the window of a  *)
(* round (Rounds), when the changes that were sent were recorded           *)
(* (Recorded), and what the last snapshots say about them (Settled).       *)
(***************************************************************************)
EXTENDS AssignmentEvents, SequenceTheorems, FiniteSetTheorems,
        WellFoundedInduction, TLAPS

Times == 0..MaxTime
Readable == Snapshots \union {Absent}

StoreData == [snapshots : [Assignments -> Readable], baseline : BOOLEAN,
              events : [Events -> {Never} \union Times], audit : SUBSET Fingerprints]

PollData == [at : Times, ok : BOOLEAN, clean : BOOLEAN, down : BOOLEAN,
             snapshots : [Assignments -> Readable]]

WorldTyped ==
    /\ now \in Times /\ ready \in 0..(MaxTime + Interval)
    /\ service \in [Assignments -> Variants]
    /\ log \in Seq(Times) /\ Len(log) <= MaxRows

StoreTyped == mem \in StoreData /\ disk \in StoreData /\ faults \in 0..MaxFaults

LoopTyped ==
    /\ pc \in {"idle", "persist", "send", "audit", "query", "post", "record"}
    /\ poll \in PollData
    /\ outbox \subseteq Events
    /\ batch \subseteq Rows
    /\ pc \in {"post", "record"} => batch # {}

HistoryTyped ==
    /\ sent \in [Events -> {Never} \union Times]
    /\ posts \in [Fingerprints -> Nat]
    /\ missed \in [1..MaxRows -> Nat]

Typed == WorldTyped /\ StoreTyped /\ LoopTyped /\ HistoryTyped

\* What the store knows of the audit messages.
AuditKnown ==
    /\ \A f \in Fingerprints :
           posts[f] > 0 => f \in loose \/ f \in mem.audit \/ (pc = "record" /\ f = Current)
    /\ \A f \in mem.audit \union disk.audit : posts[f] > 0
    /\ pc \in {"post", "record"} =>
           \A i \in batch :
               /\ assignmentAuditFingerprint(i) \notin mem.audit
               /\ \A j \in batch :
                      assignmentAuditFingerprint(j) = assignmentAuditFingerprint(i) => j = i
    /\ pc = "record" => posts[Current] > 0

\* Until when row i is in the window of a round that may post it.
Period == Interval + MaxDelay
Limit(i) == log[i] + (missed[i] + 1) * Period + MaxDelay

Done(i) ==
    \/ posts[assignmentAuditFingerprint(i)] > 0
    \/ i \in crowded
    \/ assignmentAuditWindow < (missed[i] + 1) * Period + MaxDelay

\* The round at hand is about row i.
Pending(i) ==
    IF pc = "query" THEN i \in batch
    ELSE \E j \in batch : assignmentAuditFingerprint(j) = assignmentAuditFingerprint(i)

Timely(i) ==
    IF pc = "idle" THEN ready + MaxDelay <= Limit(i)
    ELSE /\ poll.at + MaxDelay <= Limit(i)
         /\ pc \in {"query", "post", "record"} =>
                Pending(i) \/ poll.at + MaxDelay + Period <= Limit(i)

Clock ==
    IF pc = "idle" THEN now <= ready /\ ready <= now + Interval
    ELSE poll.at <= now /\ now <= poll.at + MaxDelay

Rounds == Clock /\ \A i \in Rows : Done(i) \/ Timely(i)

\* What the store knows of the changes that were sent.
Recorded ==
    /\ \A e \in Events \ lost : sent[e] # Never =>
           mem.events[e] # Never /\ mem.events[e] >= sent[e]
    /\ pc = "send" => \A e \in outbox :
           /\ mem.events[e] = poll.at
           /\ sent[e] = Never \/ e \in lost \/ poll.at - sent[e] >= Cooldown

\* What a poll that succeeds reads of assignment a.
Read(a) == Counted(Summary(service[a]), service[a])

\* The snapshot s shows the change d: no later one is different by d.
Shows(d, s) ==
    /\ s # Absent
    /\ d[1] = "ASSIGNMENT_PUBLISHED" => s.status = "published"
    /\ d[1] = "GRADING_COMPLETED" => d[2] = <<s.graded>>
    /\ d[1] = "GRADING_FAILED" => d[2] = <<s.failed>>

\* A change that the last snapshots would still yield is not sent again.
Compared ==
    \A a \in Assignments : \A d \in Diff(mem.snapshots[a], Read(a)) :
        shouldSendAssignmentEvent(<<a, d>>) /\ sent[<<a, d>>] # Never =>
            <<a, d>> \in again \union lost

\* A poll that misses something may repeat every change; another one reads each
\* assignment that did not change meanwhile.
PollReads ==
    /\ pc \in {"persist", "send"} /\ ~poll.clean => Events \subseteq again
    /\ pc = "persist" /\ poll.clean =>
           /\ poll.ok /\ ~poll.down
           /\ \A a \in Assignments :
                  poll.snapshots[a] = Read(a) \/ {e \in Events : e[1] = a} \subseteq again

OutboxShown ==
    pc = "send" => \A e \in outbox :
        /\ sent[e] # Never => e \in again \union lost
        /\ poll.clean => e[1] \in Assignments /\ Shows(e[2], mem.snapshots[e[1]])

\* What the snapshots know of the changes that were sent.
Settled == Compared /\ PollReads /\ OutboxShown

------------------------------------------------------------------------------
(* Lemmas about the constants and the rows.                                *)

LEMMA Numbers ==
    /\ CountBudget \in Nat /\ Cooldown \in Nat /\ Interval \in Nat \ {0} /\ Slack \in Nat
    /\ MinWindow \in Nat /\ MaxWindow \in Nat /\ RowLimit \in Nat /\ MaxDelay \in Nat
    /\ MaxTime \in Nat /\ MaxChanges \in Nat /\ MaxFaults \in Nat /\ MaxRows \in Nat
    /\ assignmentAuditWindow \in Nat
<1>1. /\ CountBudget \in Nat /\ Cooldown \in Nat /\ Interval \in Nat \ {0} /\ Slack \in Nat
      /\ MinWindow \in Nat /\ MaxWindow \in Nat /\ RowLimit \in Nat /\ MaxDelay \in Nat
      /\ MaxTime \in Nat /\ MaxChanges \in Nat /\ MaxFaults \in Nat /\ MaxRows \in Nat
  BY EventsAssumption DEF MaxRows
<1> QED
  BY <1>1 DEF assignmentAuditWindow

\* The rows are numbered from 1, and each has a fingerprint.
LEMMA RowNumbers ==
    ASSUME WorldTyped
    PROVE  /\ Rows = 1..Len(log) /\ Len(log) \in Nat
           /\ \A i \in Rows : /\ i \in Nat /\ i \in 1..MaxRows
                              /\ log[i] \in Times
                              /\ assignmentAuditFingerprint(i) \in Fingerprints
<1>1. Rows = 1..Len(log) /\ Len(log) \in Nat /\ \A i \in Rows : log[i] \in Times
  BY LenProperties DEF WorldTyped, Rows
<1>2. Rows \subseteq 1..MaxRows
  BY <1>1, Numbers DEF WorldTyped
<1>3. \A i \in 1..MaxRows : assignmentAuditFingerprint(i) \in Fingerprints
  BY EventsAssumption DEF Fingerprints, MaxRows
<1> QED
  BY <1>1, <1>2, <1>3

Minimal(x, T) == \A y \in T : y \subseteq x => y = x

\* Sets of subsets of a finite set have minimal elements.
LEMMA MinimalExists ==
    ASSUME NEW S, IsFiniteSet(S), NEW T, T \subseteq SUBSET S, T # {}
    PROVE  \E x \in T : Minimal(x, T)
<1>1. FiniteSubsetsOf(S) = SUBSET S
  BY FS_FiniteSubsetsOfFinite
<1>2. IsWellFoundedOn(StrictSubsetOrdering(S), SUBSET S)
  BY <1>1, FS_StrictSubsetOrderingWellFounded
<1>3. PICK x \in T : \A y \in T : ~(<<y, x>> \in StrictSubsetOrdering(S))
  BY <1>2, WFMin
<1> QED
  BY <1>3 DEF StrictSubsetOrdering, Minimal

\* A bounded set of natural numbers has a least element: that with the smallest
\* initial segment.
LEMMA LeastExists ==
    ASSUME NEW n \in Nat, NEW S \in SUBSET (1..n), S # {}
    PROVE  \E i \in S : \A j \in S : i <= j
<1> DEFINE T == {1..i : i \in S}
<1>1. T \subseteq SUBSET (1..n) /\ T # {} /\ IsFiniteSet(1..n)
  <2>1. \A i \in S : 1..i \subseteq 1..n
    OBVIOUS
  <2>2. T \subseteq SUBSET (1..n)
    BY <2>1, Zenon
  <2>3. T # {}
    BY Zenon
  <2> QED
    BY <2>2, <2>3, FS_Interval
<1> HIDE DEF T
<1>2. PICK x \in T : Minimal(x, T)
  BY <1>1, MinimalExists
<1>3. PICK i \in S : x = 1..i
  BY DEF T
<1>4. ASSUME NEW j \in S
      PROVE  i <= j
  <2>1. CASE i <= j
    BY <2>1
  <2>2. CASE j < i
    <3>1. 1..j \subseteq x /\ 1..j \in T
      BY <2>2, <1>3 DEF T
    <3>2. i \in 1..j
      BY <3>1, <1>2, <1>3 DEF Minimal
    <3> QED
      BY <3>2, <2>2
  <2> QED
    BY <2>1, <2>2
<1> QED
  BY <1>4

\* It has a greatest one: that with the smallest final segment.
LEMMA GreatestExists ==
    ASSUME NEW n \in Nat, NEW S \in SUBSET (1..n), S # {}
    PROVE  \E i \in S : \A j \in S : j <= i
<1> DEFINE T == {i..n : i \in S}
<1>1. T \subseteq SUBSET (1..n) /\ T # {} /\ IsFiniteSet(1..n)
  <2>1. \A i \in S : i..n \subseteq 1..n
    OBVIOUS
  <2>2. T \subseteq SUBSET (1..n)
    BY <2>1, Zenon
  <2>3. T # {}
    BY Zenon
  <2> QED
    BY <2>2, <2>3, FS_Interval
<1> HIDE DEF T
<1>2. PICK x \in T : Minimal(x, T)
  BY <1>1, MinimalExists
<1>3. PICK i \in S : x = i..n
  BY DEF T
<1>4. ASSUME NEW j \in S
      PROVE  j <= i
  <2>1. CASE j <= i
    BY <2>1
  <2>2. CASE i < j
    <3>1. j..n \subseteq x /\ j..n \in T
      BY <2>2, <1>3 DEF T
    <3>2. i \in j..n
      BY <3>1, <1>2, <1>3 DEF Minimal
    <3> QED
      BY <3>2, <2>2
  <2> QED
    BY <2>1, <2>2
<1> QED
  BY <1>4

\* What refreshAssignmentAuditEvents sends next is one of its events.
LEMMA OldestIsEvent ==
    ASSUME WorldTyped, LoopTyped, batch # {}
    PROVE  /\ Oldest \in batch /\ Oldest \in Rows
           /\ Current \in Fingerprints
<1>1. batch \in SUBSET (1..Len(log)) /\ Len(log) \in Nat
  BY RowNumbers DEF LoopTyped
<1>2. \E i \in batch : \A j \in batch : i <= j
  BY <1>1, LeastExists
<1>3. Oldest \in batch
  BY <1>2 DEF Oldest
<1> QED
  BY <1>3, RowNumbers DEF LoopTyped, Current

LEMMA EmptyStoreTyped == EmptyStore \in StoreData
BY DEF EmptyStore, StoreData, Readable

LEMMA NoPollTyped ==
    /\ NoPoll \in PollData
    /\ \A t \in Times : \A c \in BOOLEAN : [NoPoll EXCEPT !.at = t, !.clean = c] \in PollData
    /\ \A t \in Times :
           [NoPoll EXCEPT !.at = t, !.ok = FALSE, !.clean = FALSE, !.down = TRUE] \in PollData
<1>1. NoPoll.snapshots \in [Assignments -> Readable] /\ 0 \in Times
  BY Numbers DEF NoPoll, EmptyStore, Readable, Times
<1>2. NoPoll = [at |-> 0, ok |-> TRUE, clean |-> TRUE, down |-> FALSE,
                snapshots |-> NoPoll.snapshots]
  BY DEF NoPoll
<1> DEFINE P == NoPoll.snapshots
<1> HIDE DEF P
<1>3. /\ P \in [Assignments -> Readable] /\ 0 \in Times
      /\ NoPoll = [at |-> 0, ok |-> TRUE, clean |-> TRUE, down |-> FALSE, snapshots |-> P]
  BY <1>1, <1>2 DEF P
<1>4. NoPoll \in PollData
  BY <1>3 DEF PollData
<1>5. ASSUME NEW t \in Times, NEW c \in BOOLEAN
      PROVE  [NoPoll EXCEPT !.at = t, !.clean = c] \in PollData
  BY <1>3 DEF PollData
<1>6. ASSUME NEW t \in Times
      PROVE  [NoPoll EXCEPT !.at = t, !.ok = FALSE, !.clean = FALSE, !.down = TRUE] \in PollData
  BY <1>3 DEF PollData
<1> QED
  BY <1>4, <1>5, <1>6

\* What a poll reads of an assignment is a snapshot.
LEMMA CountsTyped ==
    ASSUME WorldTyped, NEW a \in Assignments, NEW counted
    PROVE  Counts(a, counted) \in Snapshots
BY DEF WorldTyped, Counts, Snapshots

LEMMA EndPollTyped ==
    ASSUME Typed, EndPoll, UNCHANGED <<now, service, log, outbox>>
    PROVE  WorldTyped' /\ LoopTyped'
<1>1. ready' \in 0..(MaxTime + Interval)
  BY Numbers DEF Typed, WorldTyped, EndPoll, Times
<1>2. LoopTyped'
  BY NoPollTyped DEF Typed, LoopTyped, EndPoll
<1> QED
  BY <1>1, <1>2 DEF Typed, WorldTyped

LEMMA ContinueTyped ==
    ASSUME Typed, Continue, batch # {}, UNCHANGED <<now, service, log, outbox>>
    PROVE  WorldTyped' /\ LoopTyped'
<1>1. CASE batch = {Oldest}
  BY <1>1, EndPollTyped DEF Continue
<1>2. CASE batch # {Oldest}
  BY <1>2 DEF Typed, WorldTyped, LoopTyped, Continue, Rows
<1> QED
  BY <1>1, <1>2

LEMMA MissesTyped ==
    ASSUME Typed, NEW rows, Misses(rows)
    PROVE  missed' \in [1..MaxRows -> Nat]
BY DEF Typed, HistoryTyped, Misses

LEMMA UpdateTyped ==
    ASSUME StoreTyped, NEW data \in StoreData, Update(data)
    PROVE  StoreTyped'
BY Numbers DEF StoreTyped, Update, Fault

LEMMA FaultTyped ==
    ASSUME StoreTyped, Fault, UNCHANGED store
    PROVE  StoreTyped'
BY Numbers DEF StoreTyped, Fault, store

LEMMA CurrentPosted ==
    ASSUME Typed, batch # {}, posts' = [posts EXCEPT ![Current] = @ + 1]
    PROVE  posts' \in [Fingerprints -> Nat]
BY OldestIsEvent DEF Typed, HistoryTyped

LEMMA TypedInit == Init => Typed
<1> SUFFICES ASSUME Init PROVE Typed
  OBVIOUS
<1>1. WorldTyped
  BY Numbers, EmptySeq DEF Init, WorldTyped, Times
<1>2. StoreTyped
  BY EmptyStoreTyped, Numbers DEF Init, StoreTyped
<1>3. LoopTyped
  BY NoPollTyped DEF Init, LoopTyped
<1>4. HistoryTyped
  BY DEF Init, HistoryTyped
<1> QED
  BY <1>1, <1>2, <1>3, <1>4 DEF Typed

LEMMA TypedStep == Typed /\ [Next]_vars => Typed'
<1> SUFFICES ASSUME Typed, [Next]_vars PROVE Typed'
  OBVIOUS
<1> USE DEF Typed
<1>1. CASE collectAssignmentOps
  <2> USE <1>1 DEF collectAssignmentOps
  <2>1. poll' \in PollData
    BY CountsTyped, Numbers DEF Reading, PollData, WorldTyped, Readable, Times
  <2>2. StoreTyped'
    BY FaultTyped DEF StoreTyped, store
  <2> QED
    BY <2>1, <2>2 DEF WorldTyped, LoopTyped, HistoryTyped, world, Rows, auditHistory
<1>2. CASE ListCoursesFails
  <2> USE <1>2 DEF ListCoursesFails
  <2>1. poll' \in PollData
    BY NoPollTyped DEF WorldTyped
  <2>2. StoreTyped'
    BY FaultTyped
  <2> QED
    BY <2>1, <2>2 DEF WorldTyped, LoopTyped, HistoryTyped, world, Rows, auditHistory
<1>3. CASE persistAssignmentOps
  <2> USE <1>3 DEF persistAssignmentOps
  <2>1. poll' \in PollData
    BY NoPollTyped DEF LoopTyped, PollData
  <2> DEFINE news == {e \in Differences : Fresh(e)}
             data == [mem EXCEPT
                  !.snapshots = NextSnapshots,
                  !.baseline = @ \/ poll.ok,
                  !.events = [e \in Events |-> IF e \in news THEN poll.at ELSE @[e]]]
  <2>2. data \in StoreData
    BY DEF StoreTyped, LoopTyped, StoreData, PollData, NextSnapshots
  <2>3. StoreTyped'
    BY <2>2, UpdateTyped
  <2>4. outbox' \subseteq Events
    <3>1. Differences \subseteq Events
      BY DEF Differences, Events, Diff, StoreTyped, StoreData, LoopTyped, PollData, Readable
    <3> QED
      BY <3>1
  <2> QED
    BY <2>1, <2>3, <2>4 DEF WorldTyped, LoopTyped, HistoryTyped, world, Rows, history,
       changeHistory, auditHistory
<1>4. CASE sendAssignmentEventNotifications
  <2> USE <1>4 DEF sendAssignmentEventNotifications
  <2>1. sent' \in [Events -> {Never} \union Times]
    BY DEF HistoryTyped, LoopTyped, PollData
  <2>2. StoreTyped'
    BY FaultTyped DEF StoreTyped, store
  <2> QED
    BY <2>1, <2>2 DEF WorldTyped, LoopTyped, HistoryTyped, world, Rows, auditHistory
<1>5. CASE StartQuery
  BY <1>5 DEF StartQuery, InWindow, Newest, WorldTyped, StoreTyped, LoopTyped, HistoryTyped,
     world, store, Rows, changeHistory
<1>6. CASE StartQueryFails
  BY <1>6, EndPollTyped, MissesTyped, FaultTyped DEF StartQueryFails, HistoryTyped, changeHistory
<1>7. CASE QueryCompletes
  <2> USE <1>7 DEF QueryCompletes
  <2>1. CASE collectAssignmentAuditEvents(batch) = {}
    BY <2>1, EndPollTyped DEF StoreTyped, HistoryTyped, store, history, changeHistory, auditHistory
  <2>2. CASE collectAssignmentAuditEvents(batch) # {}
    BY <2>2 DEF WorldTyped, StoreTyped, LoopTyped, HistoryTyped, store, history, changeHistory,
       auditHistory, collectAssignmentAuditEvents, Rows
  <2> QED
    BY <2>1, <2>2
<1>8. CASE QueryFails
  BY <1>8, EndPollTyped, MissesTyped, FaultTyped DEF QueryFails, HistoryTyped, changeHistory
<1>9. CASE SendAudit
  <2>1. posts' \in [Fingerprints -> Nat]
    BY <1>9, CurrentPosted DEF SendAudit, LoopTyped
  <2> QED
    BY <1>9, <2>1 DEF SendAudit, WorldTyped, StoreTyped, LoopTyped, HistoryTyped, world, store,
       changeHistory, Rows
<1>10. CASE SendAuditFails
  <2> USE <1>10 DEF SendAuditFails
  <2>1. batch # {}
    BY DEF LoopTyped
  <2>2. WorldTyped' /\ LoopTyped'
    BY <2>1, ContinueTyped
  <2>3. posts' \in [Fingerprints -> Nat] /\ missed' \in [1..MaxRows -> Nat]
    BY <2>1, CurrentPosted, MissesTyped DEF HistoryTyped
  <2> QED
    BY <2>2, <2>3, FaultTyped DEF HistoryTyped, changeHistory
<1>11. CASE persistAssignmentAuditEvent
  <2> USE <1>11 DEF persistAssignmentAuditEvent
  <2>1. batch # {}
    BY DEF LoopTyped
  <2>2. WorldTyped' /\ LoopTyped'
    BY <2>1, ContinueTyped
  <2>3. [mem EXCEPT !.audit = @ \union {Current}] \in StoreData
    BY <2>1, OldestIsEvent DEF StoreTyped, StoreData
  <2>4. StoreTyped'
    BY <2>3, UpdateTyped
  <2> QED
    BY <2>2, <2>4 DEF HistoryTyped, history, changeHistory, auditHistory
<1>12. ASSUME NEW a \in Assignments, Change(a)
       PROVE  Typed'
  BY <1>12 DEF Change, WorldTyped, StoreTyped, LoopTyped, HistoryTyped, store, loop, Rows,
     auditHistory
<1>13. CASE LogAudit
  <2> USE <1>13 DEF LogAudit
  <2>1. /\ log' \in Seq(Times) /\ Len(log') <= MaxRows
        /\ Rows \subseteq Rows'
    BY AppendProperties, LenProperties, Numbers DEF WorldTyped, Rows
  <2> QED
    BY <2>1 DEF WorldTyped, StoreTyped, LoopTyped, HistoryTyped, store, loop, history,
       changeHistory, auditHistory
<1>14. CASE Tick
  BY <1>14, Numbers DEF Tick, WorldTyped, StoreTyped, LoopTyped, HistoryTyped, store, loop, Rows,
     history, changeHistory, auditHistory, Times
<1>15. CASE Crash
  <2> USE <1>15 DEF Crash
  <2>1. WorldTyped'
    BY Numbers DEF WorldTyped, Times
  <2>3. LoopTyped'
    BY NoPollTyped DEF LoopTyped
  <2>2. StoreTyped'
    BY Numbers DEF StoreTyped, Fault
  <2> QED
    BY <2>1, <2>2, <2>3, MissesTyped DEF HistoryTyped
<1>16. CASE UNCHANGED vars
  BY <1>16 DEF vars, WorldTyped, StoreTyped, LoopTyped, HistoryTyped, world, store, loop, Rows,
     history, changeHistory, auditHistory
<1> QED
  BY <1>1, <1>2, <1>3, <1>4, <1>5, <1>6, <1>7, <1>8, <1>9, <1>10, <1>11, <1>12, <1>13, <1>14,
     <1>15, <1>16 DEF Next

LEMMA AlwaysTyped == Spec => []Typed
BY TypedInit, TypedStep, PTL DEF Spec

\* Every state has the type that the definitions assume.
THEOREM TypeCorrect == Spec => []TypeOK
<1>1. Typed => TypeOK
  BY DEF Typed, TypeOK, WorldTyped, StoreTyped, LoopTyped, StoreData, Times
<1> QED
  BY <1>1, AlwaysTyped, PTL

------------------------------------------------------------------------------
(* The messages about audit events.                                        *)

\* Going on with the next event leaves rows that were there.
LEMMA ContinueKnown ==
    ASSUME LoopTyped, Continue
    PROVE  /\ batch' \subseteq batch \ {Oldest} /\ pc' \in {"idle", "post"}
           /\ pc' = "post" => batch' = batch \ {Oldest}
BY DEF Continue, EndPoll

LEMMA AuditKnownInit == Init => AuditKnown
BY DEF Init, AuditKnown, EmptyStore

\* A step that posts nothing and records nothing, and after which no row is to be
\* sent that was not before, keeps what is known.
LEMMA AuditKnownKept ==
    ASSUME Typed, AuditKnown, UNCHANGED <<mem, disk, posts, loose>>, pc # "record",
           pc' # "record", pc' = "post" => pc = "post" /\ batch' = batch
    PROVE  AuditKnown'
BY DEF AuditKnown, assignmentAuditFingerprint

LEMMA AuditKnownStep == Typed /\ AuditKnown /\ [Next]_vars => AuditKnown'
<1> SUFFICES ASSUME Typed, AuditKnown, [Next]_vars PROVE AuditKnown'
  OBVIOUS
<1>1. CASE collectAssignmentOps
  BY <1>1, AuditKnownKept DEF collectAssignmentOps, store, auditHistory
<1>2. CASE ListCoursesFails
  BY <1>2, AuditKnownKept DEF ListCoursesFails, store, auditHistory
<1>3. CASE persistAssignmentOps
  <2>1. /\ mem'.audit = mem.audit /\ disk'.audit \in {mem.audit, disk.audit}
        /\ pc' = "send" /\ pc = "persist" /\ UNCHANGED <<posts, loose, batch>>
    BY <1>3 DEF persistAssignmentOps, Update, history, auditHistory, Typed, StoreTyped, StoreData
  <2> QED
    BY <2>1 DEF AuditKnown
<1>4. CASE sendAssignmentEventNotifications
  BY <1>4, AuditKnownKept DEF sendAssignmentEventNotifications, store, auditHistory
<1>5. CASE StartQuery
  BY <1>5, AuditKnownKept DEF StartQuery, store
<1>6. CASE StartQueryFails
  BY <1>6, AuditKnownKept DEF StartQueryFails, store, EndPoll
<1>7. CASE QueryCompletes
  <2>1. CASE collectAssignmentAuditEvents(batch) = {}
    BY <2>1, <1>7, AuditKnownKept DEF QueryCompletes, store, history, auditHistory, EndPoll
  <2>2. CASE collectAssignmentAuditEvents(batch) # {}
    <3> DEFINE events == collectAssignmentAuditEvents(batch)
    <3>1. /\ pc = "query" /\ pc' = "post" /\ batch' = events
          /\ UNCHANGED <<mem, disk, posts, loose>>
      BY <2>2, <1>7 DEF QueryCompletes, store, history, auditHistory
    <3>2. \A i \in events :
             /\ assignmentAuditFingerprint(i) \notin mem.audit
             /\ \A j \in events :
                    assignmentAuditFingerprint(j) = assignmentAuditFingerprint(i) => j = i
      <4>1. \A i \in batch : i \in Nat
        BY RowNumbers DEF Typed, LoopTyped
      <4> QED
        BY <4>1 DEF collectAssignmentAuditEvents
    <3> HIDE DEF events
    <3> QED
      BY <3>1, <3>2 DEF AuditKnown, assignmentAuditFingerprint
  <2> QED
    BY <2>1, <2>2
<1>8. CASE QueryFails
  BY <1>8, AuditKnownKept DEF QueryFails, store, EndPoll
<1>9. CASE SendAudit
  <2>1. /\ pc = "post" /\ pc' = "record" /\ posts' = [posts EXCEPT ![Current] = @ + 1]
        /\ UNCHANGED <<mem, disk, batch, loose>> /\ Current' = Current
    BY <1>9 DEF SendAudit, store, Current, Oldest, assignmentAuditFingerprint
  <2>2. Current \in Fingerprints
    BY <2>1, OldestIsEvent DEF Typed, LoopTyped
  <2>3. \A f \in Fingerprints : posts[f] \in Nat /\ posts'[f] = IF f = Current THEN posts[f] + 1
                                                              ELSE posts[f]
    BY <2>1 DEF Typed, HistoryTyped
  <2>4. mem.audit \union disk.audit \subseteq Fingerprints
    BY DEF Typed, StoreTyped, StoreData
  <2>5. \A f \in Fingerprints : posts'[f] > 0 => f \in loose \/ f \in mem.audit \/ f = Current
    BY <2>1, <2>3 DEF AuditKnown
  <2>6. \A f \in mem.audit \union disk.audit : posts'[f] > 0
    BY <2>3, <2>4 DEF AuditKnown
  <2>7. posts'[Current] > 0
    BY <2>2, <2>3
  <2> QED
    BY <2>1, <2>5, <2>6, <2>7 DEF AuditKnown, assignmentAuditFingerprint
<1>10. CASE SendAuditFails
  <2>1. /\ pc = "post" /\ batch' \subseteq batch \ {Oldest} /\ pc' \in {"idle", "post"}
        /\ UNCHANGED <<mem, disk>>
    BY <1>10, ContinueKnown DEF SendAuditFails, store, Typed
  <2>2. Current \in Fingerprints
    BY <2>1, OldestIsEvent DEF Typed, LoopTyped
  <2>3. \/ UNCHANGED <<posts, loose>>
        \/ /\ loose' = loose \union {Current}
           /\ \A f \in Fingerprints :
                  posts[f] \in Nat /\ posts'[f] = IF f = Current THEN posts[f] + 1 ELSE posts[f]
    BY <1>10 DEF SendAuditFails, Typed, HistoryTyped
  <2>4. mem.audit \union disk.audit \subseteq Fingerprints
    BY DEF Typed, StoreTyped, StoreData
  <2>5. \A f \in Fingerprints : posts'[f] > 0 => f \in loose' \/ f \in mem'.audit
    <3>1. CASE UNCHANGED <<posts, loose>>
      BY <3>1, <2>1 DEF AuditKnown
    <3>2. CASE ~UNCHANGED <<posts, loose>>
      BY <3>2, <2>1, <2>3 DEF AuditKnown
    <3> QED
      BY <3>1, <3>2
  <2>6. \A f \in mem'.audit \union disk'.audit : posts'[f] > 0
    <3>1. CASE UNCHANGED <<posts, loose>>
      BY <3>1, <2>1 DEF AuditKnown
    <3>2. CASE ~UNCHANGED <<posts, loose>>
      BY <3>2, <2>1, <2>3, <2>4 DEF AuditKnown
    <3> QED
      BY <3>1, <3>2
  <2>7. \A i \in batch' :
           /\ assignmentAuditFingerprint(i) \notin mem'.audit
           /\ \A j \in batch' :
                  assignmentAuditFingerprint(j) = assignmentAuditFingerprint(i) => j = i
    BY <2>1 DEF AuditKnown
  <2> QED
    BY <2>1, <2>5, <2>6, <2>7 DEF AuditKnown, assignmentAuditFingerprint
<1>11. CASE persistAssignmentAuditEvent
  <2>1. /\ pc = "record" /\ batch' \subseteq batch \ {Oldest} /\ pc' \in {"idle", "post"}
        /\ UNCHANGED <<posts, loose>>
    BY <1>11, ContinueKnown DEF persistAssignmentAuditEvent, history, auditHistory, Typed
  <2>2. /\ mem'.audit = mem.audit \union {Current}
        /\ disk'.audit \in {mem.audit \union {Current}, disk.audit}
    BY <1>11 DEF persistAssignmentAuditEvent, Update, Typed, StoreTyped, StoreData
  <2>3. Oldest \in batch /\ Current = assignmentAuditFingerprint(Oldest)
    BY <2>1, OldestIsEvent DEF Typed, LoopTyped, Current
  <2>4. \A f \in Fingerprints : posts'[f] > 0 => f \in loose' \/ f \in mem'.audit
    BY <2>1, <2>2 DEF AuditKnown
  <2>5. \A f \in mem'.audit \union disk'.audit : posts'[f] > 0
    BY <2>1, <2>2 DEF AuditKnown
  <2>6. \A i \in batch' :
           /\ assignmentAuditFingerprint(i) \notin mem'.audit
           /\ \A j \in batch' :
                  assignmentAuditFingerprint(j) = assignmentAuditFingerprint(i) => j = i
    BY <2>1, <2>2, <2>3 DEF AuditKnown
  <2> QED
    BY <2>1, <2>4, <2>5, <2>6 DEF AuditKnown, assignmentAuditFingerprint
<1>12. ASSUME NEW a \in Assignments, Change(a)
       PROVE  AuditKnown'
  BY <1>12 DEF Change, store, loop, auditHistory, AuditKnown, Current, Oldest,
     assignmentAuditFingerprint
<1>13. CASE LogAudit
  BY <1>13 DEF LogAudit, store, loop, history, auditHistory, AuditKnown, Current, Oldest,
     assignmentAuditFingerprint
<1>14. CASE Tick
  BY <1>14 DEF Tick, store, loop, history, auditHistory, AuditKnown, Current, Oldest,
     assignmentAuditFingerprint
<1>15. CASE Crash
  BY <1>15 DEF Crash, AuditKnown
<1>16. CASE UNCHANGED vars
  BY <1>16 DEF vars, world, store, loop, history, auditHistory, AuditKnown, Current, Oldest,
     assignmentAuditFingerprint
<1> QED
  BY <1>1, <1>2, <1>3, <1>4, <1>5, <1>6, <1>7, <1>8, <1>9, <1>10, <1>11, <1>12, <1>13, <1>14,
     <1>15, <1>16 DEF Next

LEMMA AlwaysAuditKnown == Spec => []AuditKnown
BY AlwaysTyped, AuditKnownInit, AuditKnownStep, PTL DEF Spec

LEMMA PostedOnceStep == Typed /\ AuditKnown /\ AuditPostedOnce /\ [Next]_vars => AuditPostedOnce'
<1> SUFFICES ASSUME Typed, AuditKnown, AuditPostedOnce, [Next]_vars PROVE AuditPostedOnce'
  OBVIOUS
<1>1. loose \subseteq loose'
  BY DEF Next, vars, collectAssignmentOps, ListCoursesFails, persistAssignmentOps,
     sendAssignmentEventNotifications, StartQuery, StartQueryFails, QueryCompletes, QueryFails,
     SendAudit, SendAuditFails, persistAssignmentAuditEvent, Change, LogAudit, Tick, Crash,
     history, auditHistory
<1>2. CASE SendAudit
  <2>1. pc = "post" /\ posts' = [posts EXCEPT ![Current] = @ + 1]
    BY <1>2 DEF SendAudit
  <2>2. Oldest \in batch /\ Current \in Fingerprints
    BY <2>1, OldestIsEvent DEF Typed, LoopTyped
  <2>3. posts[Current] > 0 => Current \in loose
    BY <2>1, <2>2 DEF AuditKnown, Current
  <2> QED
    BY <1>1, <2>1, <2>2, <2>3 DEF AuditPostedOnce, Typed, HistoryTyped
<1>3. CASE SendAuditFails
  <2>1. \/ posts' = posts
        \/ posts' = [posts EXCEPT ![Current] = @ + 1] /\ Current \in loose'
    BY <1>3 DEF SendAuditFails
  <2> QED
    BY <1>1, <2>1 DEF AuditPostedOnce, Typed, HistoryTyped
<1>4. CASE ~SendAudit /\ ~SendAuditFails
  <2>1. posts' = posts
    BY <1>4 DEF Next, vars, collectAssignmentOps, ListCoursesFails, persistAssignmentOps,
       sendAssignmentEventNotifications, StartQuery, StartQueryFails, QueryCompletes, QueryFails,
       persistAssignmentAuditEvent, Change, LogAudit, Tick, Crash, history, auditHistory
  <2> QED
    BY <1>1, <2>1 DEF AuditPostedOnce
<1> QED
  BY <1>2, <1>3, <1>4

\* An audit event is posted twice only if the record of the first message was lost.
THEOREM AuditPostedOnceCorrect == Spec => []AuditPostedOnce
<1>1. Init => AuditPostedOnce
  BY DEF Init, AuditPostedOnce
<1> QED
  BY <1>1, AlwaysTyped, AlwaysAuditKnown, PostedOnceStep, PTL DEF Spec

------------------------------------------------------------------------------
(* The rounds of the audit events.                                         *)

LEMMA Products ==
    /\ Period \in Nat /\ Period = Interval + MaxDelay
    /\ \A m \in Nat : /\ (m + 1) * Period \in Nat /\ (m + 1) * Period >= Period
                       /\ (m + 1 + 1) * Period = (m + 1) * Period + Period
<1>1. Period \in Nat /\ Period = Interval + MaxDelay
  BY Numbers DEF Period
<1>2. \A m, q \in Nat : /\ (m + 1) * q \in Nat /\ (m + 1) * q >= q
                         /\ (m + 1 + 1) * q = (m + 1) * q + q
  OBVIOUS
<1> QED
  BY <1>1, <1>2

LEMMA LimitTyped ==
    ASSUME Typed, NEW i \in Rows
    PROVE  /\ log[i] \in Nat /\ missed[i] \in Nat /\ Limit(i) \in Nat /\ i \in 1..MaxRows
           /\ assignmentAuditFingerprint(i) \in Fingerprints
<1>1. /\ log[i] \in Nat /\ missed[i] \in Nat /\ i \in 1..MaxRows
      /\ assignmentAuditFingerprint(i) \in Fingerprints
  BY RowNumbers DEF Typed, HistoryTyped, Times
<1>2. (missed[i] + 1) * Period \in Nat
  BY <1>1, Products
<1> QED
  BY <1>1, <1>2, Numbers DEF Limit

LEMMA MissesAdds ==
    ASSUME Typed, NEW rows, Misses(rows)
    PROVE  \A i \in 1..MaxRows : missed'[i] = IF i \in rows THEN missed[i] + 1 ELSE missed[i]
BY DEF Typed, HistoryTyped, Misses

\* What the rounds look at only grows.
LEMMA Monotone ==
    ASSUME Typed, [Next]_vars
    PROVE  /\ \A f \in Fingerprints : posts'[f] >= posts[f]
           /\ crowded \subseteq crowded'
           /\ \A i \in 1..MaxRows : missed'[i] \in {missed[i], missed[i] + 1}
           /\ \A i \in Rows : i \in Rows' /\ log'[i] = log[i]
<1>1. \A f \in Fingerprints : posts'[f] >= posts[f]
  <2>1. \/ posts' = posts
        \/ posts' = [posts EXCEPT ![Current] = @ + 1]
    BY DEF Next, vars, collectAssignmentOps, ListCoursesFails, persistAssignmentOps,
       sendAssignmentEventNotifications, StartQuery, StartQueryFails, QueryCompletes, QueryFails,
       SendAudit, SendAuditFails, persistAssignmentAuditEvent, Change, LogAudit, Tick, Crash,
       history, auditHistory
  <2> QED
    BY <2>1 DEF Typed, HistoryTyped
<1>2. crowded \subseteq crowded'
  BY DEF Next, vars, collectAssignmentOps, ListCoursesFails, persistAssignmentOps,
     sendAssignmentEventNotifications, StartQuery, StartQueryFails, QueryCompletes, QueryFails,
     SendAudit, SendAuditFails, persistAssignmentAuditEvent, Change, LogAudit, Tick, Crash,
     history, auditHistory
<1>3. \A i \in 1..MaxRows : missed'[i] \in {missed[i], missed[i] + 1}
  <2>1. missed' = missed \/ \E rows : Misses(rows)
    BY DEF Next, vars, collectAssignmentOps, ListCoursesFails, persistAssignmentOps,
       sendAssignmentEventNotifications, StartQuery, StartQueryFails, QueryCompletes, QueryFails,
       SendAudit, SendAuditFails, persistAssignmentAuditEvent, Change, LogAudit, Tick, Crash,
       history, auditHistory
  <2> QED
    BY <2>1, MissesAdds
<1>4. \A i \in Rows : i \in Rows' /\ log'[i] = log[i]
  <2>1. log' = log \/ log' = Append(log, now)
    BY DEF Next, vars, collectAssignmentOps, ListCoursesFails, persistAssignmentOps,
       sendAssignmentEventNotifications, StartQuery, StartQueryFails, QueryCompletes, QueryFails,
       SendAudit, SendAuditFails, persistAssignmentAuditEvent, Change, LogAudit, Tick, Crash, world
  <2> QED
    BY <2>1, AppendProperties, LenProperties DEF Rows, Typed, WorldTyped
<1> QED
  BY <1>1, <1>2, <1>3, <1>4

LEMMA LimitKept ==
    ASSUME Typed, [Next]_vars, NEW i \in Rows
    PROVE  /\ i \in Rows'
           /\ Limit(i)' \in {Limit(i), Limit(i) + Period}
           /\ missed'[i] = missed[i] + 1 => Limit(i)' = Limit(i) + Period
           /\ missed'[i] = missed[i] => Limit(i)' = Limit(i)
<1>1. /\ i \in Rows' /\ log'[i] = log[i] /\ missed'[i] \in {missed[i], missed[i] + 1}
      /\ log[i] \in Nat /\ missed[i] \in Nat
  BY Monotone, LimitTyped
<1>2. CASE missed'[i] = missed[i]
  <2>1. Limit(i)' = Limit(i)
    BY <1>1, <1>2 DEF Limit
  <2> QED
    BY <1>1, <1>2, <2>1
<1>3. CASE missed'[i] = missed[i] + 1
  <2>1. Limit(i)' = log[i] + (missed[i] + 1 + 1) * Period + MaxDelay
    BY <1>1, <1>3 DEF Limit
  <2>2. Limit(i) = log[i] + (missed[i] + 1) * Period + MaxDelay
    BY DEF Limit
  <2>3. /\ (missed[i] + 1 + 1) * Period = (missed[i] + 1) * Period + Period
        /\ (missed[i] + 1) * Period \in Nat
    BY <1>1, Products
  <2>4. Limit(i)' = Limit(i) + Period
    BY <2>1, <2>2, <2>3, <1>1, Products, Numbers
  <2> QED
    BY <1>1, <1>3, <2>4
<1> QED
  BY <1>1, <1>2, <1>3

LEMMA DoneKept ==
    ASSUME Typed, [Next]_vars, NEW i \in Rows, Done(i)
    PROVE  Done(i)'
<1>1. assignmentAuditFingerprint(i)' = assignmentAuditFingerprint(i)
  BY DEF assignmentAuditFingerprint
<1>2. /\ missed'[i] \in {missed[i], missed[i] + 1} /\ crowded \subseteq crowded'
      /\ posts'[assignmentAuditFingerprint(i)] >= posts[assignmentAuditFingerprint(i)]
      /\ missed[i] \in Nat
      /\ posts[assignmentAuditFingerprint(i)] \in Nat
      /\ posts'[assignmentAuditFingerprint(i)] \in Nat
  BY Monotone, LimitTyped, TypedStep DEF Typed, HistoryTyped
<1>3. CASE posts[assignmentAuditFingerprint(i)] > 0
  BY <1>1, <1>2, <1>3 DEF Done
<1>4. CASE i \in crowded
  BY <1>2, <1>4 DEF Done
<1>5. CASE assignmentAuditWindow < (missed[i] + 1) * Period + MaxDelay
  <2>1. /\ (missed[i] + 1 + 1) * Period = (missed[i] + 1) * Period + Period
        /\ (missed[i] + 1) * Period \in Nat /\ Period \in Nat
    BY <1>2, Products
  <2>2. (missed'[i] + 1) * Period \in {(missed[i] + 1) * Period, (missed[i] + 1) * Period + Period}
    BY <1>2, <2>1
  <2>3. assignmentAuditWindow < (missed'[i] + 1) * Period + MaxDelay
    BY <1>5, <2>1, <2>2, Numbers
  <2> QED
    BY <2>3 DEF Done
<1> QED
  BY <1>3, <1>4, <1>5 DEF Done

\* A row that a round may still post is in the window until the round queries.
LEMMA StillInWindow ==
    ASSUME Typed, Clock, NEW i \in Rows, ~Done(i), Timely(i), pc # "idle"
    PROVE  i \in InWindow
<1>1. (missed[i] + 1) * Period \in Nat /\ log[i] \in Nat
  BY LimitTyped, Products
<1>2. now <= poll.at + MaxDelay /\ poll.at + MaxDelay <= Limit(i)
  BY DEF Clock, Timely
<1>3. ~(assignmentAuditWindow < (missed[i] + 1) * Period + MaxDelay)
  BY DEF Done
<1>4. now \in Nat /\ poll.at \in Nat
  BY DEF Typed, WorldTyped, LoopTyped, PollData, Times
<1>5. now - log[i] <= assignmentAuditWindow
  BY <1>1, <1>2, <1>3, <1>4, Numbers DEF Limit
<1> QED
  BY <1>5 DEF InWindow

LEMMA RoundEnds ==
    ASSUME Typed, Clock, pc # "idle", EndPoll, UNCHANGED now, NEW i \in Rows,
           Limit(i)' \in Nat, poll.at + MaxDelay + Period <= Limit(i)'
    PROVE  Timely(i)'
<1>1. now <= poll.at + MaxDelay /\ ready' = now + Interval /\ pc' = "idle"
  BY DEF Clock, EndPoll
<1>2. now \in Nat /\ poll.at \in Nat
  BY DEF Typed, WorldTyped, LoopTyped, PollData, Times
<1>3. ready' + MaxDelay <= Limit(i)'
  BY <1>1, <1>2, Products, Numbers
<1> QED
  BY <1>1, <1>3 DEF Timely

\* Going on with the next event: the round is still about the rows of other requests.
LEMMA RoundContinues ==
    ASSUME Typed, Clock, pc \in {"post", "record"}, Continue, UNCHANGED now,
           NEW i \in Rows, Timely(i), Limit(i)' \in {Limit(i), Limit(i) + Period},
           assignmentAuditFingerprint(i) = Current => Limit(i)' = Limit(i) + Period
    PROVE  Timely(i)'
<1>1. Limit(i) \in Nat /\ poll.at \in Nat
  BY LimitTyped DEF Typed, LoopTyped, PollData, Times
<1>2. /\ poll.at + MaxDelay <= Limit(i)
      /\ Pending(i) \/ poll.at + MaxDelay + Period <= Limit(i)
  BY DEF Timely
<1>3. CASE poll.at + MaxDelay + Period <= Limit(i)'
  <2>1. CASE batch = {Oldest}
    BY <2>1, <1>1, <1>3, RoundEnds, Products DEF Continue
  <2>2. CASE batch # {Oldest}
    BY <2>2, <1>1, <1>2, <1>3, Products, Numbers DEF Continue, Timely
  <2> QED
    BY <2>1, <2>2
<1>4. CASE ~(poll.at + MaxDelay + Period <= Limit(i)')
  <2>1. Pending(i) /\ assignmentAuditFingerprint(i) # Current /\ poll.at + MaxDelay <= Limit(i)'
    BY <1>1, <1>2, <1>4, Products, Numbers
  <2>2. PICK j \in batch : assignmentAuditFingerprint(j) = assignmentAuditFingerprint(i)
    BY <2>1 DEF Pending
  <2>3. j # Oldest
    BY <2>1, <2>2 DEF Current
  <2>4. pc' = "post" /\ j \in batch' /\ poll' = poll
    BY <2>2, <2>3 DEF Continue
  <2> QED
    BY <2>1, <2>2, <2>4 DEF Timely, Pending, assignmentAuditFingerprint
<1> QED
  BY <1>3, <1>4

LEMMA PollStarts ==
    ASSUME Typed, collectAssignmentOps \/ ListCoursesFails
    PROVE  pc = "idle" /\ pc' = "persist" /\ poll'.at = now /\ UNCHANGED <<now, missed>>
<1>1. CASE collectAssignmentOps
  BY <1>1 DEF collectAssignmentOps, Reading, world, auditHistory
<1>2. CASE ListCoursesFails
  <2>1. poll' = [NoPoll EXCEPT !.at = now, !.ok = FALSE, !.clean = FALSE, !.down = TRUE]
    BY <1>2 DEF ListCoursesFails
  <2>2. poll'.at = now
    BY <2>1 DEF NoPoll
  <2> QED
    BY <1>2, <2>2 DEF ListCoursesFails, world, auditHistory
<1> QED
  BY <1>1, <1>2

LEMMA ClockStep == Typed /\ Clock /\ [Next]_vars => Clock'
<1> SUFFICES ASSUME Typed, Clock, [Next]_vars PROVE Clock'
  OBVIOUS
<1>1. /\ now \in Nat /\ ready \in Nat /\ poll.at \in Nat
      /\ poll \in PollData /\ NoPoll.at = 0
  BY Numbers DEF Typed, WorldTyped, LoopTyped, PollData, Times, NoPoll
<1>2. CASE collectAssignmentOps \/ ListCoursesFails
  <2>1. pc' = "persist" /\ poll'.at = now /\ now' = now
    BY <1>2, PollStarts
  <2> QED
    BY <2>1, <1>1, Numbers DEF Clock
<1>3. CASE persistAssignmentOps \/ sendAssignmentEventNotifications \/ StartQuery \/ SendAudit
  <2>1. pc # "idle" /\ pc' # "idle" /\ poll'.at = poll.at /\ now' = now
    BY <1>3, <1>1, NoPollTyped DEF persistAssignmentOps, sendAssignmentEventNotifications, StartQuery,
       SendAudit, world, PollData
  <2> QED
    BY <2>1 DEF Clock
<1>4. CASE StartQueryFails \/ QueryCompletes \/ QueryFails \/ SendAuditFails
           \/ persistAssignmentAuditEvent
  <2>1. pc # "idle" /\ now' = now
        /\ (EndPoll \/ (pc' = "post" /\ poll' = poll))
    BY <1>4 DEF StartQueryFails, QueryCompletes, QueryFails, SendAuditFails,
       persistAssignmentAuditEvent, Continue
  <2> QED
    BY <2>1, <1>1, Numbers DEF Clock, EndPoll
<1>5. CASE Crash
  BY <1>5, <1>1, Numbers DEF Crash, Clock
<1>6. CASE Tick
  BY <1>6, <1>1, Numbers DEF Tick, Clock, loop
<1>7. CASE (\E a \in Assignments : Change(a)) \/ LogAudit \/ UNCHANGED vars
  BY <1>7 DEF Change, LogAudit, vars, world, loop, Clock
<1> QED
  BY <1>2, <1>3, <1>4, <1>5, <1>6, <1>7 DEF Next

\* A step that keeps the place of the loop keeps a row in time.
LEMMA TimelyKept ==
    ASSUME Typed, [Next]_vars, NEW i \in Rows, Timely(i),
           UNCHANGED <<pc, batch, ready>>, poll'.at = poll.at
    PROVE  Timely(i)'
<1>1. Limit(i)' \in {Limit(i), Limit(i) + Period} /\ Limit(i) \in Nat
  BY LimitKept, LimitTyped
<1>2. poll.at \in Nat /\ ready \in Nat
  BY Numbers DEF Typed, WorldTyped, LoopTyped, PollData, Times
<1>3. Pending(i)' = Pending(i)
  BY DEF Pending, assignmentAuditFingerprint
<1> QED
  BY <1>1, <1>2, <1>3, Products, Numbers DEF Timely

LEMMA TimelyStep ==
    ASSUME Typed, AuditKnown, Clock, [Next]_vars, NEW i \in Rows, ~Done(i)', Timely(i)
    PROVE  Timely(i)'
<1>1. ~Done(i)
  BY DoneKept
<1>2. /\ Limit(i)' \in {Limit(i), Limit(i) + Period}
      /\ missed'[i] = missed[i] + 1 => Limit(i)' = Limit(i) + Period
      /\ missed'[i] = missed[i] => Limit(i)' = Limit(i)
      /\ i \in Rows'
  BY LimitKept
<1>3. /\ Limit(i) \in Nat /\ i \in 1..MaxRows /\ assignmentAuditFingerprint(i) \in Fingerprints
      /\ posts[assignmentAuditFingerprint(i)] \in Nat
      /\ posts'[assignmentAuditFingerprint(i)] \in Nat
  BY LimitTyped, TypedStep DEF Typed, HistoryTyped
<1>4. now \in Nat /\ ready \in Nat /\ poll.at \in Nat /\ poll \in PollData /\ NoPoll.at = 0
  BY Numbers DEF Typed, WorldTyped, LoopTyped, PollData, Times, NoPoll
<1>5. /\ posts[assignmentAuditFingerprint(i)] = 0
      /\ posts'[assignmentAuditFingerprint(i)] = 0
      /\ assignmentAuditFingerprint(i) \notin mem.audit
      /\ i \notin crowded'
  <2>1. /\ ~(posts[assignmentAuditFingerprint(i)] > 0)
        /\ ~(posts'[assignmentAuditFingerprint(i)] > 0)
        /\ i \notin crowded'
    BY <1>1 DEF Done, assignmentAuditFingerprint
  <2> QED
    BY <2>1, <1>3 DEF AuditKnown
<1>6. CASE collectAssignmentOps \/ ListCoursesFails
  <2>1. pc = "idle" /\ pc' = "persist" /\ poll'.at = now /\ missed' = missed
    BY <1>6, PollStarts
  <2> QED
    BY <2>1, <1>2, <1>3, <1>4, Numbers DEF Timely, Clock
<1>7. CASE persistAssignmentOps \/ sendAssignmentEventNotifications
  <2>1. /\ pc \in {"persist", "send"} /\ pc' \in {"send", "audit"} /\ poll'.at = poll.at
        /\ missed' = missed
    BY <1>7, <1>4, NoPollTyped DEF persistAssignmentOps, sendAssignmentEventNotifications, history,
       auditHistory, PollData
  <2> QED
    BY <2>1, <1>2 DEF Timely
<1>8. CASE StartQuery
  <2>1. /\ pc = "audit" /\ pc' = "query" /\ poll' = poll /\ missed' = missed
        /\ batch' = Newest(InWindow) /\ crowded' = crowded \union (InWindow \ Newest(InWindow))
    BY <1>8 DEF StartQuery
  <2>2. i \in batch'
    BY <2>1, <1>1, <1>5, StillInWindow
  <2> QED
    BY <2>1, <2>2, <1>2 DEF Timely, Pending
<1>9. CASE StartQueryFails
  <2>1. pc = "audit" /\ EndPoll /\ Misses(InWindow) /\ now' = now
    BY <1>9 DEF StartQueryFails
  <2>2. Limit(i)' = Limit(i) + Period
    BY <2>1, <1>1, <1>2, <1>3, StillInWindow, MissesAdds
  <2>3. poll.at + MaxDelay + Period <= Limit(i)'
    BY <2>1, <2>2, <1>3, <1>4, Products, Numbers DEF Timely
  <2> QED
    BY <2>1, <2>2, <2>3, <1>3, Products, RoundEnds
<1>10. CASE QueryCompletes
  <2>1. pc = "query" /\ now' = now /\ missed' = missed
    BY <1>10 DEF QueryCompletes, history, auditHistory
  <2>2. Limit(i)' = Limit(i)
    BY <2>1, <1>2
  <2>3. i \in batch => \E j \in collectAssignmentAuditEvents(batch) :
                          assignmentAuditFingerprint(j) = assignmentAuditFingerprint(i)
    <3> SUFFICES ASSUME i \in batch
                 PROVE  \E j \in collectAssignmentAuditEvents(batch) :
                          assignmentAuditFingerprint(j) = assignmentAuditFingerprint(i)
      OBVIOUS
    <3> DEFINE same == {j \in batch : assignmentAuditFingerprint(j) = assignmentAuditFingerprint(i)}
    <3>1. same \subseteq 1..Len(log) /\ same # {} /\ Len(log) \in Nat
      BY RowNumbers DEF Typed, LoopTyped
    <3> HIDE DEF same
    <3>2. PICK j \in same : \A k \in same : k <= j
      BY <3>1, GreatestExists
    <3>3. \A k \in batch : k \in Nat
      BY RowNumbers DEF Typed, LoopTyped
    <3>4. j \in collectAssignmentAuditEvents(batch)
      BY <3>2, <3>3, <1>5 DEF collectAssignmentAuditEvents, same
    <3> QED
      BY <3>4, <3>2 DEF same
  <2>4. CASE collectAssignmentAuditEvents(batch) = {}
    <3>1. EndPoll
      BY <2>4, <1>10 DEF QueryCompletes
    <3>2. poll.at + MaxDelay + Period <= Limit(i)'
      BY <2>1, <2>2, <2>3, <2>4 DEF Timely, Pending
    <3> QED
      BY <3>1, <3>2, <2>1, <2>2, <1>3, RoundEnds
  <2>5. CASE collectAssignmentAuditEvents(batch) # {}
    <3>1. pc' = "post" /\ batch' = collectAssignmentAuditEvents(batch) /\ poll' = poll
      BY <2>5, <1>10 DEF QueryCompletes
    <3> QED
      BY <3>1, <2>1, <2>2, <2>3 DEF Timely, Pending, assignmentAuditFingerprint
  <2> QED
    BY <2>4, <2>5
<1>11. CASE QueryFails
  <2>1. pc = "query" /\ EndPoll /\ Misses(batch) /\ now' = now
    BY <1>11 DEF QueryFails
  <2>2. CASE i \in batch
    <3>1. Limit(i)' = Limit(i) + Period
      BY <2>1, <2>2, <1>2, <1>3, MissesAdds
    <3>2. poll.at + MaxDelay + Period <= Limit(i)'
      BY <2>1, <3>1, <1>3, <1>4, Products, Numbers DEF Timely
    <3> QED
      BY <2>1, <3>1, <3>2, <1>3, Products, RoundEnds
  <2>3. CASE i \notin batch
    <3>1. Limit(i)' = Limit(i)
      BY <2>1, <2>3, <1>2, <1>3, MissesAdds
    <3>2. poll.at + MaxDelay + Period <= Limit(i)'
      BY <2>1, <2>3, <3>1 DEF Timely, Pending
    <3> QED
      BY <2>1, <3>1, <3>2, <1>3, RoundEnds
  <2> QED
    BY <2>2, <2>3
<1>12. CASE SendAudit
  <2>1. pc = "post" /\ pc' = "record" /\ UNCHANGED <<poll, batch, missed>>
    BY <1>12 DEF SendAudit
  <2> QED
    BY <2>1, <1>2 DEF Timely, Pending, assignmentAuditFingerprint
<1>13. CASE SendAuditFails
  <2>1. pc = "post" /\ Continue /\ now' = now /\ Oldest \in batch
    BY <1>13, OldestIsEvent DEF SendAuditFails, Typed, LoopTyped
  <2>2. assignmentAuditFingerprint(i) = Current => Limit(i)' = Limit(i) + Period
    <3>1. CASE Misses(SameRequest)
      BY <3>1, <1>2, <1>3, MissesAdds DEF SameRequest
    <3>2. CASE posts' = [posts EXCEPT ![Current] = @ + 1]
      BY <3>2, <1>3, <1>5 DEF Typed, HistoryTyped
    <3> QED
      BY <3>1, <3>2, <1>13 DEF SendAuditFails
  <2> QED
    BY <2>1, <2>2, <1>2, RoundContinues
<1>14. CASE persistAssignmentAuditEvent
  <2>1. pc = "record" /\ Continue /\ now' = now
    BY <1>14 DEF persistAssignmentAuditEvent
  <2>2. assignmentAuditFingerprint(i) # Current
    BY <2>1, <1>5 DEF AuditKnown
  <2> QED
    BY <2>1, <2>2, <1>2, RoundContinues
<1>15. CASE (\E a \in Assignments : Change(a)) \/ LogAudit \/ Tick \/ UNCHANGED vars
  <2>1. UNCHANGED <<pc, batch, ready>> /\ poll' = poll
    BY <1>15 DEF Change, LogAudit, Tick, vars, world, loop
  <2> QED
    BY <2>1, TimelyKept
<1>16. CASE Crash
  <2>1. pc' = "idle" /\ ready' = now /\ Misses(IF pc = "idle" THEN {} ELSE InWindow)
    BY <1>16 DEF Crash
  <2>2. CASE pc = "idle"
    BY <2>1, <2>2, <1>2, <1>3, <1>4, Products, Numbers DEF Timely, Clock
  <2>3. CASE pc # "idle"
    <3>1. Limit(i)' = Limit(i) + Period
      BY <2>1, <2>3, <1>1, <1>2, <1>3, StillInWindow, MissesAdds
    <3> QED
      BY <2>1, <2>3, <3>1, <1>3, <1>4, Products, Numbers DEF Timely, Clock
  <2> QED
    BY <2>2, <2>3
<1> QED
  BY <1>6, <1>7, <1>8, <1>9, <1>10, <1>11, <1>12, <1>13, <1>14, <1>15, <1>16 DEF Next

LEMMA RoundsStep == Typed /\ AuditKnown /\ Rounds /\ [Next]_vars => Rounds'
<1> SUFFICES ASSUME Typed, AuditKnown, Rounds, [Next]_vars PROVE Rounds'
  OBVIOUS
<1>1. Clock'
  BY ClockStep DEF Rounds
<1>2. ASSUME NEW i \in Rows
      PROVE  Done(i)' \/ Timely(i)'
  <2>1. CASE Done(i)
    BY <2>1, DoneKept
  <2>2. CASE Timely(i)
    BY <2>2, TimelyStep DEF Rounds
  <2> QED
    BY <2>1, <2>2 DEF Rounds
<1>3. ASSUME NEW i \in Rows', i \notin Rows
      PROVE  Timely(i)'
  <2>1. LogAudit
    BY <1>3 DEF Next, vars, collectAssignmentOps, ListCoursesFails, persistAssignmentOps,
       sendAssignmentEventNotifications, StartQuery, StartQueryFails, QueryCompletes, QueryFails,
       SendAudit, SendAuditFails, persistAssignmentAuditEvent, Change, Tick, Crash, world, Rows
  <2>2. log'[i] = now /\ now \in Nat
    BY <1>3, <2>1, AppendProperties, LenProperties DEF LogAudit, Rows, Typed, WorldTyped, Times
  <2>3. UNCHANGED <<pc, ready, poll, missed>>
    BY <2>1 DEF LogAudit, loop, history, auditHistory
  <2>4. Limit(i)' >= now + Period + MaxDelay /\ Limit(i)' \in Nat
    <3>1. i \in 1..MaxRows
      BY <1>3, <2>1, AppendProperties, LenProperties, Numbers DEF LogAudit, Rows, Typed, WorldTyped
    <3>2. missed'[i] \in Nat
      BY <3>1, <2>3 DEF Typed, HistoryTyped
    <3>3. Limit(i)' = now + (missed'[i] + 1) * Period + MaxDelay
      BY <2>2 DEF Limit
    <3>4. (missed'[i] + 1) * Period \in Nat /\ (missed'[i] + 1) * Period >= Period
      BY <3>2, Products
    <3> QED
      BY <3>3, <3>4, <2>2, Products, Numbers
  <2> QED
    BY <2>2, <2>3, <2>4, Products, Numbers DEF Timely, Rounds, Clock, Typed, LoopTyped, PollData,
       WorldTyped, Times
<1> QED
  BY <1>1, <1>2, <1>3 DEF Rounds

LEMMA RoundsInit == Init => Rounds
<1> SUFFICES ASSUME Init PROVE Rounds
  OBVIOUS
<1>1. Clock
  BY Numbers DEF Init, Clock
<1>2. Rows = {}
  BY DEF Init, Rows
<1> QED
  BY <1>1, <1>2 DEF Rounds

\* An audit event leaves the window unposted only if newer events filled the query,
\* or the rounds that failed with it make up for the window.
THEOREM AuditEventsDeliveredCorrect == Spec => []AuditEventsDelivered
<1>1. ASSUME Typed, Rounds PROVE AuditEventsDelivered
  <2> SUFFICES ASSUME NEW i \in Rows, log[i] + assignmentAuditWindow < now
               PROVE  Done(i)
    BY DEF AuditEventsDelivered, Done, Period
  <2>1. CASE Timely(i)
    <3>1. now <= Limit(i)
      BY <1>1, <2>1, LimitTyped, Numbers DEF Rounds, Clock, Timely, Typed, WorldTyped, LoopTyped,
         PollData, Times
    <3>2. log[i] \in Nat /\ (missed[i] + 1) * Period \in Nat /\ now \in Nat
      BY <1>1, LimitTyped, Products DEF Typed, WorldTyped, Times
    <3>3. assignmentAuditWindow < (missed[i] + 1) * Period + MaxDelay
      BY <3>1, <3>2, Numbers DEF Limit
    <3> QED
      BY <3>3 DEF Done
  <2> QED
    BY <1>1, <2>1 DEF Rounds
<1> QED
  BY <1>1, AlwaysTyped, AlwaysAuditKnown, RoundsInit, RoundsStep, PTL DEF Spec

------------------------------------------------------------------------------
(* The messages about changes.                                             *)

\* Only the poll's own steps touch the messages, and only a crash makes the store
\* forget them.
LEMMA ChangesKept ==
    ASSUME Typed, [Next]_vars, ~collectAssignmentOps, ~ListCoursesFails, ~persistAssignmentOps,
           ~sendAssignmentEventNotifications, ~Crash
    PROVE  /\ mem'.events = mem.events /\ mem'.snapshots = mem.snapshots
           /\ UNCHANGED <<sent, lost, outbox>>
           /\ again \subseteq again'
           /\ pc' \in {"persist", "send"} => UNCHANGED <<pc, poll>>
<1>1. CASE persistAssignmentAuditEvent
  <2>1. UNCHANGED <<sent, lost, again, outbox>> /\ pc' \in {"idle", "post"}
    BY <1>1, ContinueKnown DEF persistAssignmentAuditEvent, history, changeHistory, Typed
  <2>2. mem'.events = mem.events /\ mem'.snapshots = mem.snapshots
    BY <1>1 DEF persistAssignmentAuditEvent, Update, Typed, StoreTyped, StoreData
  <2> QED
    BY <2>1, <2>2
<1>2. CASE StartQuery \/ StartQueryFails \/ QueryCompletes \/ QueryFails
  BY <1>2 DEF StartQuery, StartQueryFails, QueryCompletes, QueryFails, EndPoll,
     store, history, changeHistory
<1>3. CASE SendAudit \/ SendAuditFails
  BY <1>3 DEF SendAudit, SendAuditFails, Continue, EndPoll, store, history, changeHistory
<1>4. CASE (\E a \in Assignments : Change(a)) \/ LogAudit \/ Tick \/ UNCHANGED vars
  BY <1>4 DEF Change, LogAudit, Tick, vars, world, store, loop, history, changeHistory
<1> QED
  BY <1>1, <1>2, <1>3, <1>4 DEF Next

\* What the record of the changes says after persistAssignmentOps.
LEMMA PersistEvents ==
    ASSUME Typed, persistAssignmentOps
    PROVE  /\ \A e \in Events :
                  mem'.events[e] = IF e \in Differences /\ Fresh(e) THEN poll.at ELSE mem.events[e]
           /\ outbox' = {e \in Differences : Fresh(e) /\ shouldSendAssignmentEvent(e)}
           /\ mem'.snapshots = NextSnapshots
           /\ poll'.at = poll.at /\ poll'.clean = poll.clean
           /\ pc = "persist" /\ pc' = "send"
           /\ UNCHANGED <<sent, again, lost, service>>
<1> DEFINE news == {e \in Differences : Fresh(e)}
           data == [mem EXCEPT
                !.snapshots = NextSnapshots,
                !.baseline = @ \/ poll.ok,
                !.events = [e \in Events |-> IF e \in news THEN poll.at ELSE @[e]]]
<1>1. mem' = data /\ outbox' = {e \in news : shouldSendAssignmentEvent(e)}
  BY DEF persistAssignmentOps, Update
<1>2. /\ \A e \in Events : data.events[e] = IF e \in news THEN poll.at ELSE mem.events[e]
      /\ data.snapshots = NextSnapshots
  BY DEF Typed, StoreTyped, StoreData
<1>3. poll'.at = poll.at /\ poll'.clean = poll.clean
  BY DEF persistAssignmentOps, NoPoll
<1>4. outbox' = {e \in Differences : Fresh(e) /\ shouldSendAssignmentEvent(e)}
  BY <1>1
<1>5. \A e \in Events :
         mem'.events[e] = IF e \in Differences /\ Fresh(e) THEN poll.at ELSE mem.events[e]
  BY <1>1, <1>2
<1> QED
  BY <1>1, <1>2, <1>3, <1>4, <1>5 DEF persistAssignmentOps, history, changeHistory, world

LEMMA SentBySend ==
    ASSUME Typed, [Next]_vars, ~sendAssignmentEventNotifications
    PROVE  sent' = sent
BY DEF Next, vars, collectAssignmentOps, ListCoursesFails, persistAssignmentOps, StartQuery,
   StartQueryFails, QueryCompletes, QueryFails, SendAudit, SendAuditFails,
   persistAssignmentAuditEvent, Change, LogAudit, Tick, Crash, history, changeHistory

\* What sending the changes does to the histories.
LEMMA Sends ==
    ASSUME Typed, sendAssignmentEventNotifications
    PROVE  \E delivered \in SUBSET outbox :
              /\ \A e \in Events : sent'[e] = IF e \in delivered THEN poll.at ELSE sent[e]
              /\ again' = IF poll.clean THEN again \ delivered ELSE again
              /\ lost' = lost \ delivered
              /\ pc = "send" /\ pc' = "audit" /\ UNCHANGED <<mem, service>>
<1>1. PICK refused \in SUBSET outbox :
         /\ sent' = [e \in Events |-> IF e \in outbox \ refused THEN poll.at ELSE sent[e]]
         /\ again' = IF poll.clean THEN again \ (outbox \ refused) ELSE again
         /\ lost' = lost \ (outbox \ refused)
  BY DEF sendAssignmentEventNotifications
<1>2. PICK delivered \in SUBSET outbox : delivered = outbox \ refused
  OBVIOUS
<1>3. /\ \A e \in Events : sent'[e] = IF e \in delivered THEN poll.at ELSE sent[e]
      /\ again' = IF poll.clean THEN again \ delivered ELSE again
      /\ lost' = lost \ delivered
  BY <1>1, <1>2
<1> QED
  BY <1>3 DEF sendAssignmentEventNotifications, store, world

LEMMA RecordedStep == Typed /\ Recorded /\ [Next]_vars => Recorded'
<1> SUFFICES ASSUME Typed, Recorded, [Next]_vars PROVE Recorded'
  OBVIOUS
<1>1. /\ poll.at \in Nat
      /\ \A e \in Events : sent[e] \in Nat \union {Never} /\ mem.events[e] \in Nat \union {Never}
  BY Numbers DEF Typed, LoopTyped, PollData, HistoryTyped, StoreTyped, StoreData, Times
<1>2. CASE collectAssignmentOps \/ ListCoursesFails
  <2>1. pc' = "persist" /\ UNCHANGED <<mem, sent, lost>>
    BY <1>2 DEF collectAssignmentOps, ListCoursesFails, store
  <2> QED
    BY <2>1 DEF Recorded
<1>3. CASE persistAssignmentOps
  <2> USE PersistEvents, <1>3
  <2>1. ASSUME NEW e \in Events \ lost', sent'[e] # Never
        PROVE  mem'.events[e] # Never /\ mem'.events[e] >= sent'[e]
    <3>1. mem.events[e] # Never /\ mem.events[e] >= sent[e] /\ e \in Events
      BY <2>1 DEF Recorded
    <3>2. CASE Fresh(e)
      <4>1. poll.at >= mem.events[e]
        BY <3>1, <3>2, <1>1, Numbers DEF Fresh
      <4> QED
        BY <3>1, <4>1, <1>1 DEF Never
    <3>3. CASE ~Fresh(e)
      BY <3>1, <3>3
    <3> QED
      BY <3>2, <3>3
  <2>2. ASSUME NEW e \in outbox'
        PROVE  /\ mem'.events[e] = poll'.at
               /\ sent'[e] = Never \/ e \in lost' \/ poll'.at - sent'[e] >= Cooldown
    <3>1. e \in Differences /\ Fresh(e) /\ e \in Events
      BY <2>2, TypedStep DEF Typed, LoopTyped
    <3>2. CASE sent[e] # Never /\ e \notin lost
      <4>1. mem.events[e] # Never /\ mem.events[e] >= sent[e]
        BY <3>1, <3>2 DEF Recorded
      <4> QED
        BY <3>1, <4>1, <1>1, Numbers DEF Fresh, Never
    <3>3. CASE ~(sent[e] # Never /\ e \notin lost)
      BY <3>1, <3>3
    <3> QED
      BY <3>2, <3>3
  <2> QED
    BY <2>1, <2>2 DEF Recorded
<1>4. CASE sendAssignmentEventNotifications
  <2>1. PICK delivered \in SUBSET outbox :
              /\ \A e \in Events : sent'[e] = IF e \in delivered THEN poll.at ELSE sent[e]
              /\ lost' = lost \ delivered
              /\ pc = "send" /\ pc' = "audit" /\ UNCHANGED mem
    BY <1>4, Sends
  <2> QED
    BY <2>1, <1>1 DEF Recorded, Never
<1>5. CASE Crash
  <2>1. /\ pc' = "idle" /\ sent' = sent
        /\ (lost' = Events \/ (lost' = lost /\ mem' = mem))
    BY <1>5 DEF Crash
  <2> QED
    BY <2>1 DEF Recorded
<1>6. CASE ~collectAssignmentOps /\ ~ListCoursesFails /\ ~persistAssignmentOps
           /\ ~sendAssignmentEventNotifications /\ ~Crash
  BY <1>6, ChangesKept DEF Recorded
<1> QED
  BY <1>2, <1>3, <1>4, <1>5, <1>6

\* Two messages about a change are a cooldown apart unless a crash lost the record of
\* the first.
THEOREM CooldownBetweenChangesCorrect == Spec => CooldownBetweenChanges
<1>1. Init => Recorded
  BY DEF Init, Recorded
<1>2. ASSUME Typed, Recorded, [Next]_vars
      PROVE  \A e \in Events : SentAgain(e) => sent'[e] - sent[e] >= Cooldown \/ e \in lost
  <2> SUFFICES ASSUME NEW e \in Events, SentAgain(e)
               PROVE  sent'[e] - sent[e] >= Cooldown \/ e \in lost
    OBVIOUS
  <2>1. CASE sendAssignmentEventNotifications
    <3>1. e \in outbox /\ sent'[e] = poll.at /\ pc = "send" /\ sent[e] # Never
      BY <1>2, <2>1, Sends DEF SentAgain
    <3> QED
      BY <1>2, <3>1 DEF Recorded
  <2>2. CASE ~sendAssignmentEventNotifications
    BY <1>2, <2>2, SentBySend DEF SentAgain
  <2> QED
    BY <2>1, <2>2
<1>3. Typed /\ Recorded /\ [Next]_vars =>
          [\A e \in Events : SentAgain(e) => sent'[e] - sent[e] >= Cooldown \/ e \in lost]_vars
  BY <1>2
<1> QED
  BY <1>1, <1>3, AlwaysTyped, RecordedStep, PTL DEF Spec, CooldownBetweenChanges

LEMMA SnapshotFields ==
    ASSUME NEW s \in Snapshots
    PROVE  s # Absent /\ s.graded \in Nat /\ s.failed \in Nat
<1>1. PICK v \in Variants : s = Summary(v) \/ s = Counted(Summary(v), v)
  BY DEF Snapshots
<1>2. v \in Assignment(Int)
  BY EventsAssumption
<1>3. s # Absent
  BY EventsAssumption
<1>4. CASE s = Summary(v)
  BY <1>2, <1>3, <1>4 DEF Assignment, Summary
<1>5. CASE s = Counted(Summary(v), v)
  BY <1>2, <1>3, <1>5 DEF Assignment, Summary, Counted
<1> QED
  BY <1>1, <1>4, <1>5

LEMMA ReadIsSnapshot ==
    ASSUME Typed, NEW a \in Assignments
    PROVE  Read(a) \in Snapshots
BY DEF Typed, WorldTyped, Read, Snapshots

LEMMA DiffIsEvent ==
    ASSUME NEW a \in Assignments, NEW old \in Readable, NEW cur \in Snapshots,
           NEW d \in Diff(old, cur)
    PROVE  <<a, d>> \in Events
BY DEF Diff, Readable, Events

\* What each message about a difference says.
LEMMA DiffCases ==
    ASSUME NEW old, NEW cur, NEW d \in Diff(old, cur), NEW a,
           shouldSendAssignmentEvent(<<a, d>>)
    PROVE  \/ old = Absent /\ d = Created
           \/ old # Absent /\ d[1] = "ASSIGNMENT_PUBLISHED" /\ old.status # "published"
                  /\ cur.status = "published"
           \/ old # Absent /\ d[1] = "GRADING_COMPLETED" /\ d[2] = <<cur.graded>>
                  /\ cur.graded > old.graded
           \/ old # Absent /\ d[1] = "GRADING_FAILED" /\ d[2] = <<cur.failed>>
                  /\ cur.failed > old.failed
<1>1. CASE old = Absent
  BY <1>1 DEF Diff
<1>2. CASE old # Absent
  <2>1. PICK type \in DOMAIN Changes(old, cur) :
               Changes(old, cur)[type] /\ d = <<type, NewValue(type, cur)>>
    BY <1>2 DEF Diff, diffAssignmentSnapshot
  <2>2. type \in {"ASSIGNMENT_PUBLISHED", "GRADING_COMPLETED", "GRADING_FAILED"}
    BY <2>1 DEF shouldSendAssignmentEvent, Changes
  <2>3. CASE type = "ASSIGNMENT_PUBLISHED"
    BY <1>2, <2>1, <2>3 DEF Changes
  <2>4. CASE type = "GRADING_COMPLETED"
    BY <1>2, <2>1, <2>4 DEF Changes, NewValue
  <2>5. CASE type = "GRADING_FAILED"
    BY <1>2, <2>1, <2>5 DEF Changes, NewValue
  <2> QED
    BY <2>2, <2>3, <2>4, <2>5
<1> QED
  BY <1>1, <1>2

\* The snapshot that a change was found in shows it.
LEMMA DiffShown ==
    ASSUME NEW old, NEW cur \in Snapshots, NEW d \in Diff(old, cur), NEW a,
           shouldSendAssignmentEvent(<<a, d>>)
    PROVE  Shows(d, cur)
<1>1. cur # Absent
  BY SnapshotFields
<1> QED
  BY <1>1, DiffCases DEF Shows, Created

\* No later snapshot is different by a change that the snapshot shows.
LEMMA ShownNotDifferent ==
    ASSUME NEW old \in Readable, NEW cur \in Snapshots, NEW d \in Diff(old, cur), NEW a,
           shouldSendAssignmentEvent(<<a, d>>)
    PROVE  ~Shows(d, old)
<1>1. CASE old = Absent
  BY <1>1 DEF Shows
<1>2. CASE old \in Snapshots
  <2>1. /\ old.graded \in Nat /\ old.failed \in Nat /\ cur.graded \in Nat /\ cur.failed \in Nat
        /\ old # Absent
    BY <1>2, SnapshotFields
  <2> QED
    BY <2>1, DiffCases DEF Shows
<1> QED
  BY <1>1, <1>2 DEF Readable

LEMMA SettledInit == Init => Settled
<1> SUFFICES ASSUME Init PROVE Settled
  OBVIOUS
<1>1. \A a \in Assignments : \A d \in Diff(mem.snapshots[a], Read(a)) : <<a, d>> \in Events
  <2>1. Typed
    BY TypedInit
  <2> QED
    BY <2>1, ReadIsSnapshot, DiffIsEvent DEF Typed, StoreTyped, StoreData
<1> QED
  BY <1>1 DEF Init, Settled, Compared, PollReads, OutboxShown

\* The comparison survives a step that leaves the service and the snapshots alone and
\* forgets no message.
LEMMA ComparedKept ==
    ASSUME Compared, UNCHANGED <<service, sent>>, mem'.snapshots = mem.snapshots,
           again \subseteq again', lost \subseteq lost'
    PROVE  Compared'
BY DEF Compared, Read, Diff, Created

LEMMA SettledStep == Typed /\ Settled /\ [Next]_vars => Settled'
<1> SUFFICES ASSUME Typed, Settled, [Next]_vars PROVE Settled'
  OBVIOUS
<1>0. Typed'
  BY TypedStep
<1>a. \A a \in Assignments : \A d : d \in Diff(mem.snapshots[a], Read(a)) => <<a, d>> \in Events
  BY ReadIsSnapshot, DiffIsEvent DEF Typed, StoreTyped, StoreData
<1>b. \A a \in Assignments : \A d : d \in Diff(mem.snapshots[a], Read(a))' => <<a, d>> \in Events
  <2>1. \A a \in Assignments : Read(a)' \in Snapshots /\ mem'.snapshots[a] \in Readable
    BY <1>0, ReadIsSnapshot DEF Typed, WorldTyped, StoreTyped, StoreData, Read, Snapshots
  <2> QED
    BY <2>1, DiffIsEvent DEF Diff, Created
<1>1. CASE collectAssignmentOps
  <2>1. PICK listed, counted \in SUBSET Assignments, othersListed \in BOOLEAN :
            /\ counted \subseteq listed
            /\ poll' = Reading(listed, counted, othersListed)
            /\ again' = IF counted = Assignments /\ othersListed THEN again ELSE Events
    BY <1>1 DEF collectAssignmentOps
  <2>2. pc' = "persist" /\ UNCHANGED <<service, mem, sent, lost>>
    BY <1>1 DEF collectAssignmentOps, world, store
  <2>3. Compared'
    <3>1. \A e \in Events : e \in again => e \in again'
      BY <2>1
    <3> QED
      BY <3>1, <2>2, <1>a DEF Settled, Compared, Read, Diff, Created
  <2>4. PollReads'
    BY <2>1, <2>2 DEF PollReads, Reading, Counts, Read
  <2> QED
    BY <2>2, <2>3, <2>4 DEF Settled, OutboxShown
<1>2. CASE ListCoursesFails
  <2>1. /\ poll' = [NoPoll EXCEPT !.at = now, !.ok = FALSE, !.clean = FALSE, !.down = TRUE]
        /\ again' = Events /\ pc' = "persist" /\ UNCHANGED <<service, mem, sent, lost>>
    BY <1>2 DEF ListCoursesFails, world, store
  <2>2. poll'.clean = FALSE
    BY <2>1 DEF NoPoll
  <2>3. Compared'
    BY <2>1, <1>a DEF Settled, Compared, Read, Diff, Created
  <2> QED
    BY <2>1, <2>2, <2>3 DEF Settled, PollReads, OutboxShown
<1>3. CASE persistAssignmentOps
  <2> USE PersistEvents, <1>3
  <2>1. CASE ~poll.clean
    <3>1. Events \subseteq again'
      BY <2>1 DEF Settled, PollReads
    <3>2. outbox' \subseteq Events
      BY <1>0 DEF Typed, LoopTyped
    <3>3. Compared'
      BY <3>1, <1>b DEF Compared, Diff, Read, Created
    <3> QED
      BY <3>1, <3>2, <3>3, <2>1 DEF Settled, PollReads, OutboxShown
  <2>2. CASE poll.clean
    <3>1. /\ ~poll.down /\ mem'.snapshots = poll.snapshots
          /\ \A a \in Assignments :
                poll.snapshots[a] = Read(a) \/ {e \in Events : e[1] = a} \subseteq again
      BY <2>2 DEF Settled, PollReads, NextSnapshots
    <3>2. ASSUME NEW a \in Assignments, NEW d \in Diff(mem'.snapshots[a], Read(a)'),
                 shouldSendAssignmentEvent(<<a, d>>)
          PROVE  <<a, d>> \in again'
      <4>1. <<a, d>> \in Events
        BY <3>2, <1>b DEF Diff, Created
      <4>2. Read(a)' = Read(a) /\ Read(a) \in Snapshots
        BY ReadIsSnapshot DEF Read
      <4>3. CASE poll.snapshots[a] = Read(a)
        BY <3>1, <3>2, <4>2, <4>3, DiffShown, ShownNotDifferent DEF Readable
      <4>4. CASE {e \in Events : e[1] = a} \subseteq again
        BY <4>1, <4>4
      <4> QED
        BY <3>1, <4>3, <4>4
    <3>3. ASSUME NEW e \in outbox'
          PROVE  /\ sent[e] # Never => e \in again \union lost
                 /\ e[1] \in Assignments /\ Shows(e[2], poll.snapshots[e[1]])
      <4>1. e \in Differences /\ shouldSendAssignmentEvent(e) /\ e \in Events
        BY <3>3, <1>0 DEF Typed, LoopTyped
      <4>2. PICK a \in Assignments : /\ poll.snapshots[a] # Absent
                                     /\ e \in {a} \X Diff(mem.snapshots[a], poll.snapshots[a])
        BY <4>1, <3>1 DEF Differences
      <4>3. PICK d \in Diff(mem.snapshots[a], poll.snapshots[a]) : e = <<a, d>>
        BY <4>2
      <4>4. poll.snapshots[a] \in Snapshots
        BY <4>2 DEF Typed, LoopTyped, PollData, Readable
      <4>5. Shows(d, poll.snapshots[a])
        BY <4>1, <4>3, <4>4, DiffShown
      <4>6. sent[e] # Never => e \in again \union lost
        <5>1. CASE poll.snapshots[a] = Read(a)
          BY <4>1, <4>3, <5>1 DEF Settled, Compared
        <5>2. CASE {f \in Events : f[1] = a} \subseteq again
          BY <4>1, <4>3, <5>2
        <5> QED
          BY <3>1, <5>1, <5>2
      <4> QED
        BY <4>3, <4>5, <4>6
    <3>4. Compared'
      BY <3>2 DEF Compared, Diff, Created
    <3>5. PollReads'
      BY <2>2 DEF PollReads
    <3>6. OutboxShown'
      BY <3>1, <3>3 DEF OutboxShown, Shows
    <3> QED
      BY <3>4, <3>5, <3>6 DEF Settled
  <2> QED
    BY <2>1, <2>2
<1>4. CASE sendAssignmentEventNotifications
  <2>1. PICK delivered \in SUBSET outbox :
              /\ \A e \in Events : sent'[e] = IF e \in delivered THEN poll.at ELSE sent[e]
              /\ again' = IF poll.clean THEN again \ delivered ELSE again
              /\ lost' = lost \ delivered
              /\ pc = "send" /\ pc' = "audit" /\ UNCHANGED <<mem, service>>
    BY <1>4, Sends
  <2>2. CASE ~poll.clean
    <3>1. Events \subseteq again'
      BY <2>1, <2>2 DEF Settled, PollReads
    <3> QED
      BY <3>1, <2>1, <1>b DEF Settled, Compared, PollReads, OutboxShown, Diff, Read, Created
  <2>3. CASE poll.clean
    <3>1. ASSUME NEW a \in Assignments, NEW d \in Diff(mem.snapshots[a], Read(a)),
                 shouldSendAssignmentEvent(<<a, d>>)
          PROVE  <<a, d>> \notin delivered
      <4>1. mem.snapshots[a] \in Readable /\ Read(a) \in Snapshots
        BY ReadIsSnapshot DEF Typed, StoreTyped, StoreData
      <4>2. ~Shows(d, mem.snapshots[a])
        BY <3>1, <4>1, ShownNotDifferent
      <4> QED
        BY <4>2, <2>1, <2>3 DEF Settled, OutboxShown
    <3>2. Compared'
      BY <3>1, <2>1, <1>a DEF Settled, Compared, Diff, Read, Created
    <3> QED
      BY <3>2, <2>1 DEF Settled, PollReads, OutboxShown
  <2> QED
    BY <2>2, <2>3
<1>5. CASE Crash
  <2>1. /\ pc' = "idle" /\ UNCHANGED <<sent, again, service>>
        /\ (lost' = Events \/ (lost' = lost /\ mem' = mem))
    BY <1>5 DEF Crash
  <2>2. Compared'
    <3>1. CASE lost' = Events
      BY <3>1, <1>b DEF Compared, Diff, Read, Created
    <3>2. CASE lost' = lost /\ mem' = mem
      BY <2>1, <3>2, ComparedKept DEF Settled
    <3> QED
      BY <2>1, <3>1, <3>2
  <2> QED
    BY <2>1, <2>2 DEF Settled, PollReads, OutboxShown
<1>6. ASSUME NEW b \in Assignments, Change(b)
      PROVE  Settled'
  <2>1. /\ service' \in [Assignments -> Variants] /\ UNCHANGED <<mem, sent, lost, pc, poll, outbox>>
        /\ again' = again \union {e \in Events : e[1] = b}
        /\ \A a \in Assignments \ {b} : service'[a] = service[a]
    BY <1>6 DEF Change, store, loop, Typed, WorldTyped
  <2>2. \A a \in Assignments : Read(a)' = Read(a) \/ {e \in Events : e[1] = a} \subseteq again'
    BY <2>1 DEF Read
  <2>3. Compared'
    <3> SUFFICES ASSUME NEW a \in Assignments, NEW d \in Diff(mem'.snapshots[a], Read(a)'),
                        shouldSendAssignmentEvent(<<a, d>>), sent'[<<a, d>>] # Never
                 PROVE  <<a, d>> \in again' \union lost'
      BY DEF Compared, Diff, Created
    <3>1. <<a, d>> \in Events
      BY <1>b DEF Diff, Created
    <3>2. CASE Read(a)' = Read(a)
      BY <3>2, <2>1 DEF Settled, Compared
    <3>3. CASE {e \in Events : e[1] = a} \subseteq again'
      BY <3>1, <3>3
    <3> QED
      BY <2>2, <3>2, <3>3
  <2>4. PollReads'
    <3>1. pc = "persist" /\ poll.clean =>
             /\ poll.ok /\ ~poll.down
             /\ \A a \in Assignments : \/ poll.snapshots[a] = Read(a)
                                       \/ {e \in Events : e[1] = a} \subseteq again
      BY DEF Settled, PollReads
    <3>2. \A a \in Assignments :
             (poll.snapshots[a] = Read(a) \/ {e \in Events : e[1] = a} \subseteq again) =>
                 (poll.snapshots[a] = Read(a)' \/ {e \in Events : e[1] = a} \subseteq again')
      BY <2>1, <2>2
    <3>3. pc \in {"persist", "send"} /\ ~poll.clean => Events \subseteq again'
      BY <2>1 DEF Settled, PollReads
    <3> QED
      BY <2>1, <3>1, <3>2, <3>3 DEF PollReads
  <2>5. OutboxShown'
    BY <2>1 DEF Settled, OutboxShown, Shows
  <2> QED
    BY <2>3, <2>4, <2>5 DEF Settled
<1>7. CASE ~collectAssignmentOps /\ ~ListCoursesFails /\ ~persistAssignmentOps
           /\ ~sendAssignmentEventNotifications /\ ~Crash
           /\ ~\E a \in Assignments : Change(a)
  <2>1. service' = service
    BY <1>7 DEF Next, vars, StartQuery, StartQueryFails, QueryCompletes, QueryFails, SendAudit,
       SendAuditFails, persistAssignmentAuditEvent, LogAudit, Tick, world
  <2>2. /\ mem'.snapshots = mem.snapshots
        /\ UNCHANGED <<sent, lost, outbox>> /\ again \subseteq again'
        /\ pc' \in {"persist", "send"} => UNCHANGED <<pc, poll>>
    BY <1>7, ChangesKept
  <2>3. Compared'
    BY <2>1, <2>2, ComparedKept DEF Settled
  <2> QED
    BY <2>1, <2>2, <2>3 DEF Settled, PollReads, OutboxShown, Read, Shows
<1> QED
  BY <1>1, <1>2, <1>3, <1>4, <1>5, <1>6, <1>7

\* A change is sent again only if since then the assignment changed, something was
\* not read, or a crash lost the store.
THEOREM ChangesSentOnceCorrect == Spec => ChangesSentOnce
<1>1. ASSUME Typed, Settled, [Next]_vars
      PROVE  \A e \in Events : SentAgain(e) => e \in again \union lost
  <2> SUFFICES ASSUME NEW e \in Events, SentAgain(e)
               PROVE  e \in again \union lost
    OBVIOUS
  <2>1. CASE sendAssignmentEventNotifications
    <3>1. e \in outbox /\ pc = "send" /\ sent[e] # Never
      BY <1>1, <2>1, Sends DEF SentAgain
    <3> QED
      BY <1>1, <3>1 DEF Settled, OutboxShown
  <2>2. CASE ~sendAssignmentEventNotifications
    BY <1>1, <2>2, SentBySend DEF SentAgain
  <2> QED
    BY <2>1, <2>2
<1>2. Typed /\ Settled /\ [Next]_vars =>
          [\A e \in Events : SentAgain(e) => e \in again \union lost]_vars
  BY <1>1
<1> QED
  BY <1>2, AlwaysTyped, SettledInit, SettledStep, PTL DEF Spec, ChangesSentOnce
==============================================================================
