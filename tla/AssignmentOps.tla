---------------------------- MODULE AssignmentOps ----------------------------
(***************************************************************************)
(* The assignment watch of the monitor bot: the loop of                    *)
(* internal/monitor/assignment_ops.go, the life of an issue                *)
(* (assignment_issue_lifecycle.go) and the acknowledgement commands        *)
(* (assignment_issue_ops.go).  A poll reads the courses one by one, each   *)
(* call may fail, and works with what it read: the issues are computed     *)
(* from one snapshot of the store and written by a later Update, and what  *)
(* is to be announced is sent after that.  Commands run in between, a save *)
(* may fail, and the process may crash at any point and restart from the   *)
(* state file.                                                             *)
(***************************************************************************)
EXTENDS AssignmentDiagnosis, FiniteSets

CONSTANTS
    Courses, Assignments,
    CourseOf,          \* CourseOf[a]: the course that lists assignment a
    CourseInfo,        \* what ListCourses says about each course
    Variants,          \* the records an assignment may have at the service
    Absent,            \* not a snapshot: the assignment was not read
    AckKeys,           \* bound: the issues that the commands are given for
    AckDurations,      \* the choices of "until" other than "forever"
    DetailBudget,      \* calls for a detail per poll
    MaxTime,           \* bound: the last moment of the clock
    MaxCommands,       \* bound: acknowledgement commands
    MaxFaults          \* bound: failed saves, refused messages, crashes

Times == 0..MaxTime
Keys == IssueTypes \X Assignments
NoEvidence == <<>>
Forever == MaxTime + 1

ASSUME SetsAssumption ==
    /\ IsFiniteSet(Assignments)
    /\ CourseOf \in [Assignments -> Courses]
    /\ Variants \subseteq Assignment(Times)
    /\ Absent \notin Assignment(Times)
    /\ AckKeys \subseteq Keys
ASSUME NumbersAssumption ==
    /\ StaleGrace \in Nat /\ MaxTime \in Nat
    /\ DetailBudget \in Nat /\ MaxCommands \in Nat /\ MaxFaults \in Nat
    /\ AckDurations \subseteq Nat

VARIABLES
    now,         \* the clock
    mem, disk,   \* the store and its file
    pc,          \* where the poll is
    poll,        \* what the poll has read
    seen,        \* the store as applyAssignmentEventLifecycle read it
    outbox,      \* issue notices to send: <<key, evidence>>
    touched,     \* history: issues changed by a command or a restart
    promised,    \* history: until when an open issue was acknowledged between polls
    commands, faults

loop == <<pc, poll, seen, outbox>>
history == <<touched, promised>>
vars == <<now, mem, disk, loop, history, commands, faults>>

------------------------------------------------------------------------------
(* The store.                                                              *)

\* rank 0 and no evidence: an issue that only a command has written yet.
Issue == [state : {"none", "open", "acknowledged", "silenced", "resolved"},
          rank : 0..2, evidence : {NoEvidence} \union {Evidence(s) : s \in Assignment(Times)},
          until : Nat, notified : BOOLEAN]

NoIssue == [state |-> "none", rank |-> 0, evidence |-> NoEvidence, until |-> 0,
            notified |-> FALSE]

Empty == [issues |-> [k \in Keys |-> NoIssue],
          baseline |-> FALSE]

Fault == faults < MaxFaults /\ faults' = faults + 1

Update(data) ==
    /\ mem' = data
    /\ \/ disk' = data /\ UNCHANGED faults
       \/ UNCHANGED disk /\ Fault

------------------------------------------------------------------------------
(* collectAssignmentOps: the calls to the report service.                  *)

Start == [at |-> now, ok |-> TRUE, left |-> {},
          snapshots |-> [a \in Assignments |-> Absent],
          details |-> DetailBudget]

NothingRead == [Start EXCEPT !.at = 0]

Init ==
    /\ now = 0
    /\ mem = Empty /\ disk = Empty /\ seen = Empty
    /\ pc = "idle" /\ poll = NothingRead
    /\ outbox = {}
    /\ touched = {} /\ promised = [k \in Keys |-> 0]
    /\ commands = 0 /\ faults = 0

AckUntil(issue) ==
    CASE issue.state = "silenced" -> Forever
      [] issue.state = "acknowledged" -> issue.until
      [] OTHER -> 0

ListCourses ==
    /\ pc = "idle"
    /\ pc' = "collect"
    /\ poll' = [Start EXCEPT
                   !.left = {c \in Courses : ClassifyCourse(CourseInfo[c], now) = "ACTIVE"}]
    /\ UNCHANGED <<now, mem, disk, seen, outbox, history, commands, faults>>

ListCoursesFails ==
    /\ pc = "idle"
    /\ pc' = "collect"
    /\ poll' = [Start EXCEPT !.ok = FALSE]
    /\ UNCHANGED <<now, mem, disk, seen, outbox, history, commands, faults>>

\* The snapshot of a listed assignment, with its detail where that call was
\* made and answered.  (The counts are the concern of AssignmentEvents.)
assignmentSnapshot(a, detail) ==
    IF detail THEN mergeAssignmentDetail(Summary(a), a) ELSE Summary(a)

\* The assignments of a listing whose detail is asked for.
Wanting(record) == {a \in DOMAIN record : record[a].omitted}

\* A detail that fails and one that the budget forbids leave the same gap, but
\* only the former uses the budget up.
Listing(c, record, detailed) ==
    [poll EXCEPT
        !.left = @ \ {c},
        !.details = IF Cardinality(Wanting(record)) < @
                    THEN @ - Cardinality(Wanting(record)) ELSE 0,
        !.snapshots = [a \in Assignments |->
            IF a \in DOMAIN record THEN assignmentSnapshot(record[a], a \in detailed)
            ELSE @[a]]]

ListAssignments(c) ==
    /\ pc = "collect" /\ c \in poll.left
    /\ \E listed \in SUBSET {a \in Assignments : CourseOf[a] = c} :
       \E record \in [listed -> Variants] : \E detailed \in SUBSET Wanting(record) :
        /\ Cardinality(detailed) <= poll.details
        /\ poll' = Listing(c, record, detailed)
    /\ UNCHANGED <<now, mem, disk, pc, seen, outbox, history, commands, faults>>

ListAssignmentsFails(c) ==
    /\ pc = "collect" /\ c \in poll.left
    /\ poll' = [poll EXCEPT !.left = @ \ {c}, !.ok = FALSE]
    /\ UNCHANGED <<now, mem, disk, pc, seen, outbox, history, commands, faults>>

------------------------------------------------------------------------------
(* applyAssignmentEventLifecycle and persistAssignmentOps.                 *)

\* The assignments that the poll read.
Read == {a \in Assignments : poll.snapshots[a] # Absent}

\* Before the baseline a poll finds no issues and no changes.
Diagnosed ==
    IF seen.baseline
    THEN {k \in Keys : k[2] \in Read
              /\ k[1] \in diagnoseAssignment(poll.snapshots[k[2]], poll.at)}
    ELSE {}

assignmentIssueAckActive(issue) == poll.at < AckUntil(issue)

ackExpired(issue) ==
    issue.state = "acknowledged" /\ ~assignmentIssueAckActive(issue)

\* Mutant: new evidence is announced through an acknowledgement.
shouldNotifyThroughAck(k, old, evidence) ==
    /\ ShouldNotify(k[1])
    /\ \/ old.state \in {"none", "resolved"}
       \/ old.evidence # NoEvidence /\ old.evidence # evidence

\* Mutant: an open issue is announced in every poll.
shouldNotifyAgain(k, old, evidence) ==
    ShouldNotify(k[1]) /\ ~assignmentIssueAckActive(old)

shouldNotify(k, old, evidence) ==
    /\ ShouldNotify(k[1])
    /\ ~assignmentIssueAckActive(old)
    /\ \/ old.state \in {"none", "resolved"}
       \/ severityRank(k[1]) > old.rank
       \/ old.evidence # NoEvidence /\ old.evidence # evidence
       \/ ackExpired(old)

applyAssignmentIssueState(k) ==
    LET old == seen.issues[k]
        evidence == Evidence(poll.snapshots[k[2]])
    IN  [state |-> IF assignmentIssueAckActive(old) THEN old.state ELSE "open",
         rank |-> severityRank(k[1]),
         evidence |-> evidence,
         until |-> IF ackExpired(old) THEN 0 ELSE old.until,
         notified |-> old.notified \/ shouldNotify(k, old, evidence)]

\* Mutant: only open issues are resolved, acknowledged ones are left alone.
GoneOpen == {k \in Keys : /\ k \notin Diagnosed
                          /\ seen.issues[k].state = "open"
                          /\ k[2] \in Read}

\* Stored issues that the poll could have found and did not.
Gone == {k \in Keys : /\ k \notin Diagnosed
                      /\ seen.issues[k].state \notin {"none", "resolved"}
                      /\ k[2] \in Read}

\* Mutant: a resolved issue is not taken up again.
IssueStatesResolvedStay ==
    [k \in Keys |->
        IF seen.issues[k].state = "resolved" THEN seen.issues[k]
        ELSE IF k \in Diagnosed THEN applyAssignmentIssueState(k)
        ELSE IF k \in Gone THEN [seen.issues[k] EXCEPT !.state = "resolved"]
        ELSE mem.issues[k]]

IssueStates ==
    [k \in Keys |->
        IF k \in Diagnosed THEN applyAssignmentIssueState(k)
        ELSE IF k \in Gone THEN [seen.issues[k] EXCEPT !.state = "resolved"]
        ELSE mem.issues[k]]

Notices ==
    {<<k, Evidence(poll.snapshots[k[2]])>> : k \in
        {d \in Diagnosed :
            shouldNotify(d, seen.issues[d], Evidence(poll.snapshots[d[2]]))}}

applyAssignmentEventLifecycle ==
    /\ pc = "collect" /\ poll.left = {}
    /\ pc' = "persist"
    /\ seen' = mem
    /\ UNCHANGED <<now, mem, disk, poll, outbox, history, commands, faults>>

\* Notices count as sent from here on, before any is sent.
persistAssignmentOps ==
    /\ pc = "persist"
    /\ Update([mem EXCEPT !.issues = IssueStates, !.baseline = @ \/ poll.ok])
    /\ outbox' = Notices
    /\ touched' = {k \in touched : k \notin Diagnosed \union Gone}
    /\ pc' = "dashboard"
    /\ poll' = [NothingRead EXCEPT !.at = poll.at]
    /\ seen' = Empty
    /\ UNCHANGED <<now, promised, commands>>

------------------------------------------------------------------------------
(* upsertAssignmentDashboard and sendAssignmentEventNotifications.         *)

\* The dashboard message is edited, or else posted anew, and an Update records
\* that; nothing is recorded when Discord refuses both.
upsertAssignmentDashboard ==
    /\ pc = "dashboard"
    /\ pc' = "send"
    /\ \/ Update(mem)
       \/ Fault /\ UNCHANGED <<mem, disk>>
    /\ UNCHANGED <<now, poll, seen, outbox, history, commands>>

\* The messages go out one by one, digests last; one that Discord refuses is
\* only logged, so nothing here depends on which of them arrive.
sendAssignmentEventNotifications ==
    /\ pc = "send"
    /\ pc' = "idle"
    /\ poll' = NothingRead
    /\ outbox' = {}
    /\ UNCHANGED <<now, mem, disk, seen, history, commands, faults>>

------------------------------------------------------------------------------
(* The commands, and the world.                                            *)

\* An acknowledgement needs no issue: it creates an entry that has neither a
\* severity nor evidence.
Command(k, issue, until) ==
    /\ commands < MaxCommands
    /\ commands' = commands + 1
    /\ Update([mem EXCEPT !.issues[k] = issue])
    /\ touched' = touched \union {k}
    /\ promised' = [promised EXCEPT ![k] =
           IF until = 0 THEN 0
           ELSE IF pc = "idle" /\ mem.issues[k].state = "open" THEN until
           ELSE @]
    /\ UNCHANGED <<now, loop>>

AcknowledgeAssignmentIssue(k) ==
    \/ \E d \in AckDurations :
           Command(k, [mem.issues[k] EXCEPT !.state = "acknowledged", !.until = now + d],
                   now + d)
    \/ Command(k, [mem.issues[k] EXCEPT !.state = "silenced", !.until = 0], Forever)

\* Mutant: the command clears the state as it clears the other fields.
UnacknowledgeClears(k) ==
    Command(k, [mem.issues[k] EXCEPT !.state = "", !.until = 0], 0)

UnacknowledgeAssignmentIssue(k) ==
    Command(k, [mem.issues[k] EXCEPT !.state = "open", !.until = 0], 0)

Crash ==
    /\ Fault
    /\ mem' = disk
    /\ pc' = "idle" /\ poll' = NothingRead /\ seen' = Empty
    /\ outbox' = {}
    /\ touched' = touched \union {k \in Keys : disk.issues[k] # mem.issues[k]}
    /\ UNCHANGED <<now, disk, promised, commands>>

Tick ==
    /\ now < MaxTime
    /\ now' = now + 1
    /\ UNCHANGED <<mem, disk, loop, history, commands, faults>>

PollStep ==
    \/ ListCourses \/ ListCoursesFails
    \/ \E c \in Courses : ListAssignments(c) \/ ListAssignmentsFails(c)
    \/ applyAssignmentEventLifecycle \/ persistAssignmentOps
    \/ upsertAssignmentDashboard \/ sendAssignmentEventNotifications

Next ==
    \/ PollStep
    \/ \E k \in AckKeys :
           AcknowledgeAssignmentIssue(k) \/ UnacknowledgeAssignmentIssue(k)
    \/ Crash \/ Tick

Spec == Init /\ [][Next]_vars

\* assignmentOpsLoop runs a poll after every interval.
Fairness == WF_vars(PollStep)

FairSpec == Spec /\ Fairness

------------------------------------------------------------------------------
(* Properties.                                                             *)

TypeOK ==
    /\ now \in Times
    /\ pc \in {"idle", "collect", "persist", "dashboard", "send"}
    /\ \A data \in {mem, disk, seen} :
           /\ \A k \in Keys : data.issues[k].state \in
                  {"none", "open", "acknowledged", "silenced", "resolved"}
           /\ \A k \in Keys : data.issues[k].until \in Nat
           /\ data.baseline \in BOOLEAN
    /\ poll.left \subseteq Courses
    /\ poll.details \in 0..DetailBudget
    /\ \A n \in outbox : n[1] \in Keys
    /\ touched \subseteq Keys
    /\ commands \in 0..MaxCommands /\ faults \in 0..MaxFaults

\* A notice on its way to the channel is never about an issue that is under an
\* acknowledgement, unless the command came after the poll had decided
\* (applyAssignmentIssueState reads a snapshot that the commands do not wait for).
MutedStaysMuted ==
    \A n \in outbox : AckUntil(mem.issues[n[1]]) <= poll.at \/ n[1] \in touched

\* The feed implements IssueNotices: a known open issue is announced again only
\* with new evidence, and never changes its evidence silently.
Promise == INSTANCE IssueNotices WITH
    open <- [k \in Keys |-> IF mem.issues[k].state = "open" /\ mem.issues[k].notified
                            THEN mem.issues[k].evidence ELSE NoEvidence],
    outbox <- outbox,
    touched <- touched
KeepsPromise == Promise!Spec

\* An open issue that is acknowledged between two polls is not announced before
\* the acknowledgement expires or is taken back.  (The commands are there to
\* silence an issue, and the test of the lifecycle says "acked issue should be
\* suppressed".)
AckSuppressesUntilExpiry ==
    [][\A n \in outbox' \ outbox : promised[n[1]] <= poll.at]_vars

\* The poll that ends its reading finds issue k, or reads its assignment without
\* it; nothing is found before the baseline.
EndsReading(k) == pc = "collect" /\ pc' = "persist" /\ k[2] \in Read
Diagnoses(k) == k[1] \in diagnoseAssignment(poll.snapshots[k[2]], poll.at)

Finds(k) == mem.baseline /\ EndsReading(k) /\ Diagnoses(k)
Misses(k) == EndsReading(k) /\ ~Diagnoses(k)

\* An issue that stays is on record in the end, whatever failed, crashed or was
\* commanded before, provided that polls keep reaching its course.
StandingIssuesRecorded ==
    \A k \in Keys : []<><<Finds(k)>>_vars /\ <>[][~Misses(k)]_vars
        => <>[](mem.issues[k].state \in {"open", "acknowledged", "silenced"})

\* An issue that the polls no longer find at a listed assignment is resolved.
GoneIssuesResolved ==
    \A k \in Keys : []<><<Misses(k)>>_vars /\ <>[][~Finds(k)]_vars
        => <>[](mem.issues[k].state \in {"none", "resolved"})
==============================================================================
