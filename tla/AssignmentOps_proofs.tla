------------------------ MODULE AssignmentOps_proofs ------------------------
(***************************************************************************)
(* The assignment feed keeps its promise for every set of courses and      *)
(* assignments and any number of commands and faults.  The invariant is    *)
(* Inductive: the types, what a record that was announced says, that a     *)
(* poll's snapshot of the store is current except where a command or a     *)
(* restart interfered, and that what is about to be sent is about issues   *)
(* that were just stored as open.                                          *)
(***************************************************************************)
EXTENDS AssignmentOps, FiniteSetTheorems, TLAPS

StoreData == [issues : [Keys -> Issue], baseline : BOOLEAN]

Poll == [at : Times, ok : BOOLEAN, left : SUBSET Courses,
         snapshots : [Assignments -> Assignment(Times) \union {Absent}],
         details : 0..DetailBudget]

Typed ==
    /\ now \in Times
    /\ pc \in {"idle", "collect", "persist", "dashboard", "send"}
    /\ mem \in StoreData /\ disk \in StoreData /\ seen \in StoreData
    /\ poll \in Poll
    /\ \A n \in outbox : n[1] \in Keys
    /\ touched \subseteq Keys
    /\ commands \in 0..MaxCommands /\ faults \in 0..MaxFaults

\* An announced issue has its severity and its evidence on record.
Announced(k, issue) ==
    issue.notified => /\ ShouldNotify(k[1])
                      /\ issue.rank = severityRank(k[1])
                      /\ issue.evidence # NoEvidence

Records(data) == \A k \in Keys : Announced(k, data.issues[k])

RecordsAnnounced == Records(mem) /\ Records(disk) /\ Records(seen)

SnapshotCurrent ==
    pc = "persist" =>
        \A k \in Keys \ touched : seen.issues[k] = mem.issues[k]

OutboxOpen ==
    /\ pc \in {"idle", "collect", "persist"} => outbox = {}
    /\ \A n \in outbox : mem.issues[n[1]].state = "open" \/ n[1] \in touched

Inductive == Typed /\ RecordsAnnounced /\ SnapshotCurrent /\ OutboxOpen

------------------------------------------------------------------------------
(* Lemmas about the values that the poll computes.                         *)

\* The hash of an assignment is never the missing one of an empty record.
LEMMA EvidenceKnown == ASSUME NEW s PROVE Evidence(s) # NoEvidence
BY DEF Evidence, NoEvidence

\* Every issue type has a rank above that of an empty record.
LEMMA RankTypes == ASSUME NEW type PROVE severityRank(type) \in 1..2
BY DEF severityRank

\* A missing issue is a record of the store.
LEMMA EmptyTypes == Empty \in StoreData /\ Records(Empty)
BY DEF Empty, StoreData, NoIssue, Issue, Records, Announced

\* A poll starts, and ends, with nothing read.
LEMMA StartTypes ==
    ASSUME NEW at \in Times, NEW ok \in BOOLEAN, NEW left \in SUBSET Courses
    PROVE  [at |-> at, ok |-> ok, left |-> left,
            snapshots |-> [x \in Assignments |-> Absent],
            details |-> DetailBudget] \in Poll
BY NumbersAssumption DEF Poll

\* The list entry of an assignment, with its detail or not, is a snapshot.
LEMMA SnapshotTypes ==
    ASSUME NEW s \in Assignment(Times), NEW detail \in BOOLEAN
    PROVE  assignmentSnapshot(s, detail) \in Assignment(Times)
<1>1. Summary(s) \in Assignment(Times)
  BY DEF Summary, Assignment
<1>2. mergeAssignmentDetail(Summary(s), s) \in Assignment(Times)
  BY <1>1 DEF mergeAssignmentDetail, Assignment
<1> QED
  BY <1>1, <1>2 DEF assignmentSnapshot

\* A store with new issue records.
LEMMA StoreIssues ==
    ASSUME NEW data \in StoreData, NEW issues \in [Keys -> Issue],
           NEW baseline \in BOOLEAN
    PROVE  LET new == [data EXCEPT !.issues = issues, !.baseline = baseline]
           IN  new \in StoreData /\ new.issues = issues
BY DEF StoreData

\* Update writes memory, and the file either follows or stays as it was.
LEMMA UpdateStores ==
    ASSUME NEW data \in StoreData, Records(data), Typed, RecordsAnnounced, Update(data)
    PROVE  /\ mem' = data
           /\ mem' \in StoreData /\ disk' \in StoreData
           /\ Records(mem') /\ Records(disk')
           /\ faults' \in 0..MaxFaults
BY NumbersAssumption DEF Update, Fault, Typed, RecordsAnnounced

\* What was diagnosed was read.
LEMMA DiagnosedRead ==
    ASSUME Typed, NEW k \in Diagnosed
    PROVE  /\ k \in Keys
           /\ poll.snapshots[k[2]] \in Assignment(Times)
           /\ Evidence(poll.snapshots[k[2]]) # NoEvidence
<1>1. k \in Keys /\ k[2] \in Read
  BY DEF Diagnosed
<1>2. poll.snapshots[k[2]] \in Assignment(Times)
  BY <1>1 DEF Read, Typed, Poll
<1> QED
  BY <1>1, <1>2, EvidenceKnown

\* An acknowledgement is in force only on an acknowledged or silenced issue, and
\* on a silenced one always.
LEMMA AckStates ==
    ASSUME Typed, NEW issue \in Issue
    PROVE  /\ assignmentIssueAckActive(issue) =>
                  issue.state \in {"acknowledged", "silenced"}
           /\ issue.state = "silenced" => assignmentIssueAckActive(issue)
<1>1. poll.at \in 0..MaxTime
  BY DEF Typed, Poll, Times
<1> QED
  BY <1>1, NumbersAssumption DEF assignmentIssueAckActive, AckUntil, Forever

\* The record of an issue that is still there: an announced one is open.
LEMMA IssueApplied ==
    ASSUME Typed, Records(seen), NEW k \in Diagnosed
    PROVE  LET new == applyAssignmentIssueState(k)
               evidence == Evidence(poll.snapshots[k[2]])
           IN  /\ new \in Issue
               /\ Announced(k, new)
               /\ new.evidence = evidence
               /\ shouldNotify(k, seen.issues[k], evidence) =>
                      new.state = "open" /\ new.notified
<1> DEFINE old == seen.issues[k]
           evidence == Evidence(poll.snapshots[k[2]])
           new == applyAssignmentIssueState(k)
<1>1. /\ k \in Keys
      /\ evidence \in {Evidence(s) : s \in Assignment(Times)}
      /\ evidence # NoEvidence
  BY DiagnosedRead
<1>2. old \in Issue
  BY <1>1 DEF Typed, StoreData
<1>3. Announced(k, old)
  BY <1>1 DEF Records
<1>4. /\ new.state = (IF assignmentIssueAckActive(old) THEN old.state ELSE "open")
      /\ new.rank = severityRank(k[1])
      /\ new.evidence = evidence
      /\ new.notified = (old.notified \/ shouldNotify(k, old, evidence))
  BY DEF applyAssignmentIssueState
<1>5. (old.notified \/ shouldNotify(k, old, evidence)) \in BOOLEAN
  BY <1>2 DEF Issue, shouldNotify
<1>6. new \in Issue
  <2>1. severityRank(k[1]) \in 0..2
    BY RankTypes
  <2>2. (IF ackExpired(old) THEN 0 ELSE old.until) \in Nat
    BY <1>2 DEF Issue
  <2>3. (IF assignmentIssueAckActive(old) THEN old.state ELSE "open") \in
            {"none", "open", "acknowledged", "silenced", "resolved"}
    BY <1>2 DEF Issue
  <2> HIDE DEF old, evidence
  <2> QED
    BY <1>1, <1>5, <2>1, <2>2, <2>3 DEF applyAssignmentIssueState, Issue, old, evidence
<1>7. Announced(k, new)
  BY <1>1, <1>3, <1>4 DEF Announced, shouldNotify
<1>8. shouldNotify(k, old, evidence) => new.state = "open" /\ new.notified
  BY <1>4 DEF shouldNotify
<1> QED
  BY <1>4, <1>6, <1>7, <1>8

\* The records that a poll stores.
LEMMA IssueStatesTypes ==
    ASSUME Typed, RecordsAnnounced
    PROVE  /\ IssueStates \in [Keys -> Issue]
           /\ \A k \in Keys : Announced(k, IssueStates[k])
<1>1. ASSUME NEW k \in Keys
      PROVE  IssueStates[k] \in Issue /\ Announced(k, IssueStates[k])
  <2>1. CASE k \in Diagnosed
    BY <2>1, IssueApplied DEF IssueStates, RecordsAnnounced
  <2>2. CASE k \notin Diagnosed /\ k \in Gone
    <3>1. seen.issues[k] \in Issue /\ Announced(k, seen.issues[k])
      BY DEF Typed, StoreData, RecordsAnnounced, Records
    <3>2. IssueStates[k] = [seen.issues[k] EXCEPT !.state = "resolved"]
      BY <2>2 DEF IssueStates
    <3> QED
      BY <3>1, <3>2 DEF Issue, Announced
  <2>3. CASE k \notin Diagnosed /\ k \notin Gone
    <3>1. mem.issues[k] \in Issue /\ Announced(k, mem.issues[k])
      BY DEF Typed, StoreData, RecordsAnnounced, Records
    <3> QED
      BY <2>3, <3>1 DEF IssueStates
  <2> QED
    BY <2>1, <2>2, <2>3
<1> QED
  BY <1>1 DEF IssueStates

------------------------------------------------------------------------------
(* The steps preserve the invariant.                                       *)

\* A poll that has nothing to do with the store leaves what is said of it.
LEMMA ReadingPreserves ==
    ASSUME Inductive, pc \in {"idle", "collect"}, pc' \in {"idle", "collect"},
           poll' \in Poll, UNCHANGED <<now, mem, disk, seen, outbox, history, commands, faults>>
    PROVE  Inductive'
BY DEF Inductive, Typed, RecordsAnnounced, Records, SnapshotCurrent, OutboxOpen, history

LEMMA ListCoursesPreserves == Inductive /\ (ListCourses \/ ListCoursesFails) => Inductive'
<1> SUFFICES ASSUME Inductive, ListCourses \/ ListCoursesFails PROVE Inductive'
  OBVIOUS
<1>1. now \in Times
  BY DEF Inductive, Typed
<1>2. CASE ListCourses
  <2> DEFINE active == {c \in Courses : ClassifyCourse(CourseInfo[c], now) = "ACTIVE"}
  <2>1. poll' = [at |-> now, ok |-> TRUE, left |-> active,
                 snapshots |-> [x \in Assignments |-> Absent], details |-> DetailBudget]
    BY <1>2 DEF ListCourses, Start
  <2>2. poll' \in Poll
    BY <1>1, <2>1, StartTypes
  <2> QED
    BY <1>2, <2>2, ReadingPreserves DEF ListCourses
<1>3. CASE ListCoursesFails
  <2>1. poll' = [at |-> now, ok |-> FALSE, left |-> {},
                 snapshots |-> [x \in Assignments |-> Absent], details |-> DetailBudget]
    BY <1>3 DEF ListCoursesFails, Start
  <2>2. poll' \in Poll
    BY <1>1, <2>1, StartTypes
  <2> QED
    BY <1>3, <2>2, ReadingPreserves DEF ListCoursesFails
<1> QED
  BY <1>2, <1>3

\* What is read of a course is a set of snapshots, within the budget.
LEMMA ListingTypes ==
    ASSUME Typed, NEW c \in Courses,
           NEW listed \in SUBSET Assignments, NEW record \in [listed -> Variants],
           NEW detailed \in SUBSET listed
    PROVE  Listing(c, record, detailed) \in Poll
<1> DEFINE wanting == Wanting(record)
           details == IF Cardinality(wanting) < poll.details
                      THEN poll.details - Cardinality(wanting) ELSE 0
           snapshots == [x \in Assignments |->
                            IF x \in listed THEN assignmentSnapshot(record[x], x \in detailed)
                            ELSE poll.snapshots[x]]
<1>1. poll \in Poll
  BY DEF Typed
<1>2. details \in 0..DetailBudget
  <2>1. wanting \subseteq Assignments
    BY DEF Wanting
  <2>2. Cardinality(wanting) \in Nat
    BY <2>1, SetsAssumption, FS_Subset, FS_CardinalityType
  <2>3. poll.details \in 0..DetailBudget
    BY <1>1 DEF Poll
  <2> HIDE DEF wanting
  <2> QED
    BY <2>2, <2>3, NumbersAssumption
<1>3. snapshots \in [Assignments -> Assignment(Times) \union {Absent}]
  <2>1. ASSUME NEW x \in listed
        PROVE  assignmentSnapshot(record[x], x \in detailed) \in Assignment(Times)
    <3>1. record[x] \in Assignment(Times)
      BY SetsAssumption
    <3>2. (x \in detailed) \in BOOLEAN
      OBVIOUS
    <3> QED
      BY <3>1, <3>2, SnapshotTypes
  <2>2. poll.snapshots \in [Assignments -> Assignment(Times) \union {Absent}]
    BY <1>1 DEF Poll
  <2> QED
    BY <2>1, <2>2
<1>4. Listing(c, record, detailed) =
         [poll EXCEPT !.left = poll.left \ {c}, !.details = details,
                      !.snapshots = snapshots]
  BY DOMAIN record = listed DEF Listing
<1> HIDE DEF details, snapshots
<1> QED
  BY <1>1, <1>2, <1>3, <1>4 DEF Poll

LEMMA ListAssignmentsPreserves ==
    ASSUME Inductive, NEW c \in Courses, ListAssignments(c)
    PROVE  Inductive'
<1>1. PICK listed \in SUBSET {x \in Assignments : CourseOf[x] = c} :
         \E record \in [listed -> Variants] : \E detailed \in SUBSET Wanting(record) :
            /\ Cardinality(detailed) <= poll.details
            /\ poll' = Listing(c, record, detailed)
  BY DEF ListAssignments
<1>2. PICK record \in [listed -> Variants], detailed \in SUBSET listed :
         poll' = Listing(c, record, detailed)
  BY <1>1 DEF Wanting
<1>3. poll' \in Poll
  BY <1>2, ListingTypes DEF Inductive
<1> QED
  BY <1>3, ReadingPreserves DEF ListAssignments

LEMMA ListAssignmentsFailsPreserves ==
    ASSUME Inductive, NEW c \in Courses, ListAssignmentsFails(c)
    PROVE  Inductive'
<1>1. poll' \in Poll
  BY DEF ListAssignmentsFails, Inductive, Typed, Poll
<1> QED
  BY <1>1, ReadingPreserves DEF ListAssignmentsFails

\* The snapshot is taken from the store as it is.
LEMMA LifecyclePreserves == Inductive /\ applyAssignmentEventLifecycle => Inductive'
BY DEF applyAssignmentEventLifecycle, Inductive, Typed, RecordsAnnounced, Records,
       SnapshotCurrent, OutboxOpen, history

\* What is to be sent was stored as open, and is no longer counted as touched.
LEMMA PersistPreserves == Inductive /\ persistAssignmentOps => Inductive'
<1> SUFFICES ASSUME Inductive, persistAssignmentOps PROVE Inductive'
  OBVIOUS
<1> DEFINE data == [mem EXCEPT !.issues = IssueStates, !.baseline = @ \/ poll.ok]
<1>1. /\ data \in StoreData /\ data.issues = IssueStates
      /\ Records(data)
  <2>1. (mem.baseline \/ poll.ok) \in BOOLEAN
    BY DEF Inductive, Typed, StoreData, Poll
  <2>2. IssueStates \in [Keys -> Issue] /\ \A k \in Keys : Announced(k, IssueStates[k])
    BY IssueStatesTypes DEF Inductive
  <2>3. data \in StoreData /\ data.issues = IssueStates
    BY <2>1, <2>2, StoreIssues DEF Inductive, Typed
  <2> QED
    BY <2>2, <2>3 DEF Records
<1>2. /\ mem' = data /\ mem' \in StoreData /\ disk' \in StoreData
      /\ Records(mem') /\ Records(disk') /\ faults' \in 0..MaxFaults
  <2>1. Update(data)
    BY DEF persistAssignmentOps
  <2> HIDE DEF data
  <2> QED
    BY <1>1, <2>1, UpdateStores DEF Inductive
<1>3. poll' \in Poll
  <2>1. poll' = [at |-> poll.at, ok |-> TRUE, left |-> {},
                 snapshots |-> [x \in Assignments |-> Absent], details |-> DetailBudget]
    BY DEF persistAssignmentOps, NothingRead, Start
  <2> QED
    BY <2>1, StartTypes DEF Inductive, Typed, Poll
<1>4. ASSUME NEW n \in outbox'
      PROVE  n[1] \in Keys /\ mem'.issues[n[1]].state = "open"
  <2>1. PICK k \in Diagnosed :
           /\ shouldNotify(k, seen.issues[k], Evidence(poll.snapshots[k[2]]))
           /\ n = <<k, Evidence(poll.snapshots[k[2]])>>
    BY DEF persistAssignmentOps, Notices
  <2>2. k \in Keys /\ n[1] = k
    BY <2>1, DiagnosedRead DEF Inductive
  <2>3. IssueStates[k] = applyAssignmentIssueState(k)
    BY <2>2 DEF IssueStates
  <2>4. applyAssignmentIssueState(k).state = "open"
    BY <2>1, IssueApplied DEF Inductive, RecordsAnnounced
  <2> QED
    BY <1>1, <1>2, <2>2, <2>3, <2>4
<1>5. Typed'
  BY <1>2, <1>3, <1>4, EmptyTypes DEF persistAssignmentOps, Inductive, Typed
<1>6. RecordsAnnounced'
  BY <1>2, EmptyTypes DEF persistAssignmentOps, RecordsAnnounced, Records
<1>7. SnapshotCurrent' /\ OutboxOpen'
  BY <1>4 DEF persistAssignmentOps, SnapshotCurrent, OutboxOpen
<1> QED
  BY <1>5, <1>6, <1>7 DEF Inductive

\* Recording the dashboard message leaves the issues as they are.
LEMMA DashboardPreserves == Inductive /\ upsertAssignmentDashboard => Inductive'
<1> SUFFICES ASSUME Inductive, upsertAssignmentDashboard PROVE Inductive'
  OBVIOUS
<1>1. /\ mem' = mem /\ disk' \in StoreData /\ Records(disk')
      /\ faults' \in 0..MaxFaults
  <2>1. CASE Update(mem)
    BY <2>1, UpdateStores DEF Inductive, Typed, RecordsAnnounced
  <2>2. CASE Fault /\ UNCHANGED <<mem, disk>>
    BY <2>2, NumbersAssumption DEF Inductive, Typed, RecordsAnnounced, Fault
  <2> QED
    BY <2>1, <2>2 DEF upsertAssignmentDashboard
<1> QED
  BY <1>1 DEF upsertAssignmentDashboard, Inductive, Typed, RecordsAnnounced, Records,
              SnapshotCurrent, OutboxOpen, history

\* A poll that has read nothing is one that started at the first moment.
LEMMA NothingReadTypes == now \in Times => NothingRead \in Poll
<1> SUFFICES ASSUME now \in Times PROVE NothingRead \in Poll
  OBVIOUS
<1>1. Start \in Poll
  BY NumbersAssumption DEF Start, Poll
<1> QED
  BY <1>1, NumbersAssumption DEF NothingRead, Poll, Times

LEMMA SendPreserves == Inductive /\ sendAssignmentEventNotifications => Inductive'
BY NothingReadTypes
DEF sendAssignmentEventNotifications, Inductive, Typed, RecordsAnnounced, Records,
    SnapshotCurrent, OutboxOpen, history

\* A command changes one record, and marks it as touched.
LEMMA CommandPreserves ==
    ASSUME Inductive, NEW k \in Keys, NEW issue \in Issue, NEW until,
           issue.notified = mem.issues[k].notified, issue.rank = mem.issues[k].rank,
           issue.evidence = mem.issues[k].evidence,
           Command(k, issue, until)
    PROVE  Inductive'
<1> DEFINE data == [mem EXCEPT !.issues[k] = issue]
<1>1. /\ data \in StoreData
      /\ data.issues[k] = issue
      /\ \A j \in Keys \ {k} : data.issues[j] = mem.issues[j]
  BY DEF Inductive, Typed, StoreData
<1>2. Records(data)
  BY <1>1 DEF Inductive, RecordsAnnounced, Records, Announced
<1>3. /\ mem' = data /\ mem' \in StoreData /\ disk' \in StoreData
      /\ Records(mem') /\ Records(disk') /\ faults' \in 0..MaxFaults
  <2>1. Update(data)
    BY DEF Command
  <2> HIDE DEF data
  <2> QED
    BY <1>1, <1>2, <2>1, UpdateStores DEF Inductive
<1>4. Typed'
  BY <1>3, NumbersAssumption DEF Command, Inductive, Typed, loop
<1>5. RecordsAnnounced'
  BY <1>3 DEF Command, Inductive, RecordsAnnounced, Records, loop
<1>6. SnapshotCurrent' /\ OutboxOpen'
  <2>1. touched' = touched \union {k} /\ UNCHANGED <<pc, seen, outbox>>
    BY DEF Command, loop
  <2>2. \A j \in Keys \ {k} : mem'.issues[j] = mem.issues[j]
    BY <1>1, <1>3
  <2>3. \A n \in outbox : n[1] \in Keys
    BY DEF Inductive, Typed
  <2> QED
    BY <2>1, <2>2, <2>3 DEF Inductive, SnapshotCurrent, OutboxOpen
<1> QED
  BY <1>4, <1>5, <1>6 DEF Inductive

LEMMA CommandsPreserve ==
    ASSUME Inductive, NEW k \in AckKeys,
           AcknowledgeAssignmentIssue(k) \/ UnacknowledgeAssignmentIssue(k)
    PROVE  Inductive'
<1>1. k \in Keys /\ mem.issues[k] \in Issue
  BY SetsAssumption DEF Inductive, Typed, StoreData
<1>2. ASSUME NEW d \in AckDurations
      PROVE  now + d \in Nat
  BY NumbersAssumption DEF Inductive, Typed, Times
<1>3. CASE \E d \in AckDurations :
              Command(k, [mem.issues[k] EXCEPT !.state = "acknowledged", !.until = now + d],
                      now + d)
  <2>1. PICK d \in AckDurations :
              Command(k, [mem.issues[k] EXCEPT !.state = "acknowledged", !.until = now + d],
                      now + d)
    BY <1>3
  <2> DEFINE issue == [mem.issues[k] EXCEPT !.state = "acknowledged", !.until = now + d]
  <2>2. /\ issue \in Issue /\ issue.notified = mem.issues[k].notified
        /\ issue.rank = mem.issues[k].rank /\ issue.evidence = mem.issues[k].evidence
    BY <1>1, <1>2 DEF Issue
  <2> HIDE DEF issue
  <2> QED
    BY <1>1, <2>1, <2>2, CommandPreserves DEF issue
<1>4. CASE Command(k, [mem.issues[k] EXCEPT !.state = "silenced", !.until = 0], Forever)
  <2> DEFINE issue == [mem.issues[k] EXCEPT !.state = "silenced", !.until = 0]
  <2>1. /\ issue \in Issue /\ issue.notified = mem.issues[k].notified
        /\ issue.rank = mem.issues[k].rank /\ issue.evidence = mem.issues[k].evidence
    BY <1>1 DEF Issue
  <2> HIDE DEF issue
  <2> QED
    BY <1>1, <1>4, <2>1, CommandPreserves DEF issue
<1>5. CASE UnacknowledgeAssignmentIssue(k)
  <2> DEFINE issue == [mem.issues[k] EXCEPT !.state = "open", !.until = 0]
  <2>1. /\ issue \in Issue /\ issue.notified = mem.issues[k].notified
        /\ issue.rank = mem.issues[k].rank /\ issue.evidence = mem.issues[k].evidence
    BY <1>1 DEF Issue
  <2>2. Command(k, issue, 0)
    BY <1>5 DEF UnacknowledgeAssignmentIssue
  <2> HIDE DEF issue
  <2> QED
    BY <1>1, <2>1, <2>2, CommandPreserves
<1> QED
  BY <1>3, <1>4, <1>5 DEF AcknowledgeAssignmentIssue

LEMMA CrashPreserves == Inductive /\ Crash => Inductive'
BY NothingReadTypes, EmptyTypes, NumbersAssumption
DEF Crash, Fault, Inductive, Typed, RecordsAnnounced, Records, SnapshotCurrent, OutboxOpen

LEMMA TickPreserves == Inductive /\ Tick => Inductive'
BY NumbersAssumption
DEF Tick, Times, Inductive, Typed, RecordsAnnounced, Records, SnapshotCurrent, OutboxOpen,
    loop, history

\* The invariant holds initially.
LEMMA InitInductive == Init => Inductive
BY NothingReadTypes, EmptyTypes, NumbersAssumption
DEF Init, Times, Inductive, Typed, RecordsAnnounced, SnapshotCurrent, OutboxOpen

\* Every step preserves it.
LEMMA NextInductive == Inductive /\ [Next]_vars => Inductive'
<1> SUFFICES ASSUME Inductive, [Next]_vars PROVE Inductive'
  OBVIOUS
<1>1. CASE PollStep
  <2>1. CASE \E c \in Courses : ListAssignments(c) \/ ListAssignmentsFails(c)
    BY <2>1, ListAssignmentsPreserves, ListAssignmentsFailsPreserves
  <2> QED
    BY <1>1, <2>1, ListCoursesPreserves, LifecyclePreserves, PersistPreserves,
       DashboardPreserves, SendPreserves DEF PollStep
<1>2. CASE UNCHANGED vars
  BY <1>2 DEF vars, loop, history, Inductive, Typed, RecordsAnnounced, Records,
              SnapshotCurrent, OutboxOpen
<1> QED
  BY <1>1, <1>2, CommandsPreserve, CrashPreserves, TickPreserves DEF Next

THEOREM InductiveInvariant == Spec => []Inductive
BY InitInductive, NextInductive, PTL DEF Spec

\* The state of the watch keeps its types.
THEOREM TypeCorrect == Spec => []TypeOK
<1>1. Inductive => TypeOK
  BY DEF Inductive, Typed, TypeOK, StoreData, Issue, Poll
<1> QED
  BY <1>1, InductiveInvariant, PTL

\* Nothing is sent about an issue whose acknowledgement the poll respected:
\* what sendAssignmentEventNotifications still has to send was stored as open,
\* unless a command came in after the poll had decided.
THEOREM MutedIssuesStayMuted == Spec => []MutedStaysMuted
<1>1. Inductive => MutedStaysMuted
  <2> SUFFICES ASSUME Inductive, NEW n \in outbox, n[1] \notin touched
               PROVE  AckUntil(mem.issues[n[1]]) <= poll.at
    BY DEF MutedStaysMuted
  <2>1. mem.issues[n[1]].state = "open"
    BY DEF Inductive, OutboxOpen
  <2>2. AckUntil(mem.issues[n[1]]) = 0
    BY <2>1 DEF AckUntil
  <2>3. poll.at \in 0..MaxTime
    BY DEF Inductive, Typed, Poll, Times
  <2> QED
    BY <2>2, <2>3, NumbersAssumption
<1> QED
  BY <1>1, InductiveInvariant, PTL

------------------------------------------------------------------------------
(* The watch implements IssueNotices.                                      *)

\* The evidence that a record stands for in the channel.
Shown(issue) ==
    IF issue.state = "open" /\ issue.notified THEN issue.evidence ELSE NoEvidence

ShownIn(data) == [k \in Keys |-> Shown(data.issues[k])]

\* A step that sends nothing new, and changes what is shown of touched issues
\* only, is a step of the promise.
LEMMA QuietRefines ==
    ASSUME outbox' \subseteq outbox,
           \A k \in Keys \ (touched \union touched') :
               Shown(mem'.issues[k]) = Shown(mem.issues[k])
    PROVE  Promise!Next
BY DEF Promise!Next, Promise!Settle, Promise!Announced, Promise!New, Shown

\* What is announced is shown, and was not shown before.
LEMMA AnnouncedIsNews ==
    ASSUME Inductive, pc = "persist", NEW k \in Diagnosed,
           shouldNotify(k, seen.issues[k], Evidence(poll.snapshots[k[2]]))
    PROVE  LET evidence == Evidence(poll.snapshots[k[2]]) IN
           /\ Shown(applyAssignmentIssueState(k)) = evidence
           /\ Shown(mem.issues[k]) # evidence \/ k \in touched
<1> DEFINE old == seen.issues[k]
           evidence == Evidence(poll.snapshots[k[2]])
<1>1. k \in Keys /\ evidence # NoEvidence
  BY DiagnosedRead DEF Inductive
<1>2. Shown(applyAssignmentIssueState(k)) = evidence
  BY IssueApplied DEF Inductive, RecordsAnnounced, Shown
<1>3. old \in Issue /\ Announced(k, old)
  BY <1>1 DEF Inductive, Typed, StoreData, RecordsAnnounced, Records
<1>4. ASSUME k \notin touched
      PROVE  Shown(mem.issues[k]) # evidence
  <2>1. mem.issues[k] = old
    BY <1>1, <1>4 DEF Inductive, SnapshotCurrent
  <2>2. CASE severityRank(k[1]) > old.rank
    <3>1. ~old.notified
      <4>1. severityRank(k[1]) \in 1..2
        BY RankTypes
      <4> QED
        BY <2>2, <4>1, <1>3 DEF Announced
    <3> QED
      BY <1>1, <2>1, <3>1 DEF Shown
  <2>3. CASE old.state # "open" \/ old.evidence # evidence
    BY <1>1, <2>1, <2>3 DEF Shown
  <2> QED
    BY <2>2, <2>3 DEF shouldNotify, ackExpired
<1> QED
  BY <1>2, <1>4

\* What is found and not announced is shown as it was, or not at all.
LEMMA UnannouncedIsOld ==
    ASSUME Inductive, pc = "persist", NEW k \in Diagnosed, k \notin touched,
           ~shouldNotify(k, seen.issues[k], Evidence(poll.snapshots[k[2]]))
    PROVE  Shown(applyAssignmentIssueState(k)) \in {Shown(mem.issues[k]), NoEvidence}
<1> DEFINE old == seen.issues[k]
           evidence == Evidence(poll.snapshots[k[2]])
           new == applyAssignmentIssueState(k)
<1>1. k \in Keys
  BY DiagnosedRead DEF Inductive
<1>2. old \in Issue /\ Announced(k, old) /\ mem.issues[k] = old
  BY <1>1 DEF Inductive, Typed, StoreData, RecordsAnnounced, Records, SnapshotCurrent
<1>3. /\ new.state = (IF assignmentIssueAckActive(old) THEN old.state ELSE "open")
      /\ new.evidence = evidence
      /\ new.notified = (old.notified \/ shouldNotify(k, old, evidence))
  BY DEF applyAssignmentIssueState
<1>4. CASE ~old.notified
  BY <1>3, <1>4 DEF Shown
<1>5. CASE assignmentIssueAckActive(old)
  BY <1>2, <1>3, <1>5, AckStates DEF Shown, Inductive
<1>6. CASE old.notified /\ ~assignmentIssueAckActive(old)
  <2>1. ShouldNotify(k[1]) /\ old.evidence # NoEvidence
    BY <1>2, <1>6 DEF Announced
  <2>2. old.evidence = evidence /\ old.state \notin {"none", "resolved"} /\ ~ackExpired(old)
    BY <1>6, <2>1 DEF shouldNotify
  <2>3. old.state = "open"
    BY <1>2, <1>6, <2>2, AckStates DEF Inductive, Issue, ackExpired
  <2> QED
    BY <1>2, <1>3, <1>6, <2>2, <2>3 DEF Shown
<1> QED
  BY <1>4, <1>5, <1>6

\* Persisting is where the channel hears of issues.
LEMMA PersistRefines == Inductive /\ persistAssignmentOps => Promise!Next
<1> SUFFICES ASSUME Inductive, persistAssignmentOps PROVE Promise!Next
  OBVIOUS
<1>1. /\ pc = "persist" /\ outbox = {} /\ outbox' = Notices
      /\ \A k \in Keys : mem'.issues[k] = IssueStates[k]
  <2>1. pc = "persist" /\ outbox = {} /\ outbox' = Notices
    BY DEF persistAssignmentOps, Inductive, OutboxOpen
  <2>2. mem' = [mem EXCEPT !.issues = IssueStates, !.baseline = @ \/ poll.ok]
    BY DEF persistAssignmentOps, Update
  <2>3. mem'.issues = IssueStates
    BY <2>2 DEF Inductive, Typed, StoreData
  <2> QED
    BY <2>1, <2>3
<1>2. Promise!New = Notices
  BY <1>1 DEF Promise!New
<1> SUFFICES ASSUME NEW k \in Keys
             PROVE  Promise!Announce(k) \/ Promise!Settle(k)
  BY DEF Promise!Next
<1> DEFINE evidence == Evidence(poll.snapshots[k[2]])
           Announces == k \in Diagnosed /\ shouldNotify(k, seen.issues[k], evidence)
           old == Shown(mem.issues[k])
           new == Shown(IssueStates[k])
<1>3. CASE Announces
  <2>1. <<k, evidence>> \in Notices
    BY <1>3 DEF Notices
  <2>2. IssueStates[k] = applyAssignmentIssueState(k)
    BY <1>3 DEF IssueStates
  <2>3. new = evidence /\ (old # evidence \/ k \in touched)
    BY <1>1, <1>3, <2>2, AnnouncedIsNews
  <2> QED
    BY <1>1, <1>2, <2>1, <2>3 DEF Promise!Announce, Shown
<1>4. CASE ~Announces
  <2>1. ~Promise!Announced(k)
    BY <1>2, <1>4 DEF Promise!Announced, Notices
  <2>2. k \in touched \/ new \in {old, NoEvidence}
    <3>1. CASE k \in Diagnosed
      BY <1>1, <1>4, <3>1, UnannouncedIsOld DEF IssueStates
    <3>2. CASE k \notin Diagnosed /\ k \in Gone
      <4>1. IssueStates[k] = [seen.issues[k] EXCEPT !.state = "resolved"]
        BY <3>2 DEF IssueStates
      <4>2. seen.issues[k] \in Issue
        BY DEF Inductive, Typed, StoreData
      <4>3. IssueStates[k].state = "resolved"
        BY <4>1, <4>2 DEF Issue
      <4> QED
        BY <4>3 DEF Shown
    <3>3. CASE k \notin Diagnosed /\ k \notin Gone
      BY <3>3 DEF IssueStates
    <3> QED
      BY <3>1, <3>2, <3>3
  <2> QED
    BY <1>1, <2>1, <2>2 DEF Promise!Settle, Shown
<1> QED
  BY <1>3, <1>4

\* A command changes what is shown of the issue that it marks as touched.
LEMMA CommandsRefine ==
    ASSUME Inductive, NEW k \in AckKeys,
           AcknowledgeAssignmentIssue(k) \/ UnacknowledgeAssignmentIssue(k)
    PROVE  Promise!Next
<1>1. PICK issue, until : Command(k, issue, until)
  BY DEF AcknowledgeAssignmentIssue, UnacknowledgeAssignmentIssue
<1>2. /\ mem' = [mem EXCEPT !.issues[k] = issue]
      /\ touched' = touched \union {k} /\ outbox' = outbox
  BY <1>1 DEF Command, Update, loop
<1>3. \A j \in Keys \ {k} : mem'.issues[j] = mem.issues[j]
  BY <1>2 DEF Inductive, Typed, StoreData
<1> QED
  BY <1>2, <1>3, QuietRefines

\* The watch announces an open issue again only with new evidence, and never
\* changes its evidence without saying so, whatever fails in between.
THEOREM WatchKeepsPromise == Spec => KeepsPromise
<1>1. Init => Promise!Init
  BY DEF Init, Empty, NoIssue, Promise!Init
<1>2. Inductive /\ [Next]_vars => [Promise!Next]_(Promise!vars)
  <2> SUFFICES ASSUME Inductive, [Next]_vars
               PROVE  Promise!Next \/ UNCHANGED Promise!vars
    OBVIOUS
  <2>1. CASE PollStep /\ ~persistAssignmentOps
    <3>1. mem' = mem /\ outbox' \subseteq outbox
      BY <2>1 DEF PollStep, ListCourses, ListCoursesFails, ListAssignments,
                  ListAssignmentsFails, applyAssignmentEventLifecycle,
                  upsertAssignmentDashboard, sendAssignmentEventNotifications, Update
    <3> QED
      BY <3>1, QuietRefines
  <2>2. CASE Crash
    <3>1. \A k \in Keys \ touched' : mem'.issues[k] = mem.issues[k]
      BY <2>2 DEF Crash
    <3>2. outbox' = {}
      BY <2>2 DEF Crash
    <3> QED
      BY <3>1, <3>2, QuietRefines
  <2>3. CASE Tick
    BY <2>3, QuietRefines DEF Tick, loop
  <2>4. CASE UNCHANGED vars
    BY <2>4, QuietRefines DEF vars, loop
  <2> QED
    BY <2>1, <2>2, <2>3, <2>4, PersistRefines, CommandsRefine DEF Next
<1> QED
  BY <1>1, <1>2, InductiveInvariant, PTL DEF Spec, KeepsPromise, Promise!Spec
==============================================================================
