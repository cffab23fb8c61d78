--------------------------- MODULE AssignmentEvents ---------------------------
(***************************************************************************)
(* The other two feeds of the assignment watch, which have no issues: the  *)
(* changes that a poll finds by comparing what it reads with the last      *)
(* snapshots (assignment_diagnosis.go, assignment_issue_lifecycle.go,      *)
(* assignment_ops.go), and the audit events that the report service logs   *)
(* (assignment_audit.go), found by a query of CloudWatch                   *)
(* (cloudwatch/logs_client.go).  A change is recorded and then sent; an    *)
(* audit event is sent and then recorded.                                  *)
(***************************************************************************)
EXTENDS AssignmentDiagnosis, FiniteSets, Sequences

CONSTANTS
    Assignments, Variants,
    Absent,            \* not a snapshot
    CountBudget,       \* calls for submission counts that may succeed in a poll
    Cooldown,
    Interval,          \* between the end of a poll and the start of the next
    Slack, MinWindow, MaxWindow,
    RowLimit,          \* rows that the audit query returns
    TraceOf,           \* TraceOf[i]: the request that logs the i-th audit event
    NoTrace,
    MaxDelay,          \* bound: how much time a poll takes
    MaxTime,           \* bound: the last moment of the clock
    MaxChanges,        \* bound: changes of assignments at the service
    MaxFaults          \* bound: failed calls, saves, messages and crashes

\* What a poll may read of an assignment: the list entry, with counts or without.
Snapshots == UNION {{Summary(v), Counted(Summary(v), v)} : v \in Variants}

ASSUME EventsAssumption ==
    /\ Variants \subseteq Assignment(Int) /\ Absent \notin Snapshots
    /\ Len(TraceOf) \in Nat /\ DOMAIN TraceOf = 1..Len(TraceOf)
    /\ {CountBudget, Cooldown, Interval, Slack, MinWindow, MaxWindow, RowLimit,
        MaxDelay, MaxTime, MaxChanges, MaxFaults} \subseteq Nat
    /\ Interval > 0 /\ MinWindow <= MaxWindow

VARIABLES
    now, ready,      \* the clock; when the next poll may start
    service,         \* the report service: assignments
    log,             \* the report service: when each audit event was logged
    changes,         \* how often the service changed an assignment
    mem, disk,       \* the store and its file
    pc, poll,        \* the poll: [at, ok, clean, down, snapshots]
    outbox,          \* changes that are still to be sent
    batch,           \* audit rows: found by the query, then still to be sent
    sent,            \* history: the poll that last sent each change
    again, lost,     \* history: changes that may be sent again, or at any time
    posts,           \* history: messages about each audit fingerprint
    loose,           \* history: fingerprints whose record was lost
    missed, crowded, \* history: rounds that failed a row, rows over the limit
    faults

store == <<mem, disk>>
loop == <<pc, poll, outbox, batch>>
world == <<now, ready, service, log, changes>>
changeHistory == <<sent, again, lost>>
auditHistory == <<posts, loose, missed, crowded>>
history == <<changeHistory, auditHistory>>
vars == <<world, store, loop, history, faults>>

Never == -1
Rows == DOMAIN log
MaxRows == Len(TraceOf)
Fault == faults < MaxFaults /\ faults' = faults + 1

\* What identifies a change of assignment a.
Created == <<"ASSIGNMENT_CREATED", <<>>>>
ServiceDown == <<"WEB_ADMIN_API", <<"WEB_ADMIN_API_ERROR", <<>>>>>>
Events == {ServiceDown} \union Assignments \X ({Created} \union
              UNION {diffAssignmentSnapshot(p, c) : p, c \in Snapshots})

\* The changes that a message is sent about; the others are only recorded.
shouldSendAssignmentEvent(e) ==
    e[2][1] \in {"ASSIGNMENT_CREATED", "ASSIGNMENT_PUBLISHED", "GRADING_COMPLETED",
                 "GRADING_FAILED", "WEB_ADMIN_API_ERROR"}

\* What identifies an audit event: the request that logged it, if that is known.
assignmentAuditFingerprint(i) == IF TraceOf[i] = NoTrace THEN <<i>> ELSE <<TraceOf[i], 0>>
Fingerprints == {assignmentAuditFingerprint(i) : i \in DOMAIN TraceOf}

assignmentAuditWindow ==
    CASE Interval + Slack < MinWindow -> MinWindow
      [] Interval + Slack > MaxWindow -> MaxWindow
      [] OTHER -> Interval + Slack

InWindow == {i \in Rows : now - log[i] <= assignmentAuditWindow}
Newest(rows) == {i \in rows : Cardinality({j \in rows : j > i}) < RowLimit}

EmptyStore == [snapshots |-> [a \in Assignments |-> Absent], baseline |-> FALSE,
               events |-> [e \in Events |-> Never], audit |-> {}]
NoPoll == [at |-> 0, ok |-> TRUE, clean |-> TRUE, down |-> FALSE,
           snapshots |-> EmptyStore.snapshots]

Init ==
    /\ now = 0 /\ ready = 0
    /\ service \in [Assignments -> Variants]
    /\ log = <<>> /\ changes = 0
    /\ mem = EmptyStore /\ disk = EmptyStore
    /\ pc = "idle" /\ poll = NoPoll /\ outbox = {} /\ batch = {}
    /\ sent = [e \in Events |-> Never] /\ again = {} /\ lost = {}
    /\ posts = [f \in Fingerprints |-> 0] /\ loose = {}
    /\ missed = [i \in 1..MaxRows |-> 0] /\ crowded = {}
    /\ faults = 0

------------------------------------------------------------------------------
(* Changes.                                                                *)

Counts(a, counted) ==
    IF a \in counted THEN Counted(Summary(service[a]), service[a]) ELSE Summary(service[a])

\* What a poll reads of the listed assignments.
Reading(listed, counted, othersListed) ==
    [at |-> now,
     ok |-> listed = Assignments /\ othersListed,
     clean |-> counted = Assignments /\ othersListed,
     down |-> FALSE,
     snapshots |->
         [a \in Assignments |-> IF a \in listed THEN Counts(a, counted) ELSE Absent]]

\* Reads the service.  A course that does not list its assignments spoils the
\* poll; a count that is not read, because its call fails or the budget is used
\* up, is 0 and spoils nothing.  Failing calls do not use up the budget.
collectAssignmentOps ==
    /\ pc = "idle" /\ now >= ready
    /\ \E listed, failing \in SUBSET Assignments : \E othersListed \in BOOLEAN :
       \E counted \in SUBSET (listed \ failing) :
        /\ Cardinality(counted) = CountBudget \/ counted = listed \ failing
        /\ Cardinality(counted) <= CountBudget
        /\ failing \subseteq listed
        /\ IF listed = Assignments /\ othersListed /\ failing = {} THEN UNCHANGED faults ELSE Fault
        /\ poll' = Reading(listed, counted, othersListed)
        /\ again' = IF counted = Assignments /\ othersListed THEN again ELSE Events
    /\ pc' = "persist"
    /\ UNCHANGED <<world, store, outbox, batch, sent, lost, auditHistory>>

\* The list of courses fails.
ListCoursesFails ==
    /\ pc = "idle" /\ now >= ready
    /\ Fault
    /\ poll' = [NoPoll EXCEPT !.at = now, !.ok = FALSE, !.clean = FALSE, !.down = TRUE]
    /\ again' = Events
    /\ pc' = "persist"
    /\ UNCHANGED <<world, store, outbox, batch, sent, lost, auditHistory>>

Diff(old, cur) ==
    IF old = Absent THEN {Created}
    ELSE diffAssignmentSnapshot(old, cur)

\* Nothing is compared before the first good poll.
Differences ==
    (IF poll.down THEN {ServiceDown} ELSE {}) \union
    UNION {{a} \X Diff(mem.snapshots[a], poll.snapshots[a]) :
              a \in {b \in Assignments : mem.baseline /\ poll.snapshots[b] # Absent}}

\* Mutant: the cooldown is not looked at.
FreshAlways(e) == TRUE

Fresh(e) == mem.events[e] = Never \/ poll.at - mem.events[e] >= Cooldown

\* Mutant: the snapshots are those of the first good poll.
NextSnapshotsFirst == IF poll.ok /\ ~mem.baseline THEN poll.snapshots ELSE mem.snapshots

NextSnapshots == IF poll.ok THEN poll.snapshots ELSE mem.snapshots

Update(data) ==
    /\ mem' = data
    /\ \/ disk' = data /\ UNCHANGED faults
       \/ UNCHANGED disk /\ Fault

\* applyAssignmentEventLifecycle and persistAssignmentOps: the changes count as
\* sent before they are.
persistAssignmentOps ==
    /\ pc = "persist"
    /\ LET news == {e \in Differences : Fresh(e)}
       IN  /\ outbox' = {e \in news : shouldSendAssignmentEvent(e)}
           /\ Update([mem EXCEPT
                  !.snapshots = NextSnapshots,
                  !.baseline = @ \/ poll.ok,
                  !.events = [e \in Events |-> IF e \in news THEN poll.at ELSE @[e]]])
    /\ pc' = "send"
    /\ poll' = [NoPoll EXCEPT !.at = poll.at, !.clean = poll.clean]
    /\ UNCHANGED <<world, batch, history>>

\* A message that is refused is logged and forgotten.
sendAssignmentEventNotifications ==
    /\ pc = "send"
    /\ \E refused \in SUBSET outbox :
        /\ IF refused = {} THEN UNCHANGED faults ELSE Fault
        /\ sent' = [e \in Events |-> IF e \in outbox \ refused THEN poll.at ELSE sent[e]]
        /\ again' = IF poll.clean THEN again \ (outbox \ refused) ELSE again
        /\ lost' = lost \ (outbox \ refused)
    /\ outbox' = {} /\ pc' = "audit"
    /\ UNCHANGED <<world, store, poll, batch, auditHistory>>

------------------------------------------------------------------------------
(* Audit events.                                                           *)

EndPoll ==
    /\ pc' = "idle" /\ poll' = NoPoll /\ batch' = {}
    /\ ready' = now + Interval

Misses(rows) ==
    missed' = [i \in 1..MaxRows |-> IF i \in rows THEN missed[i] + 1 ELSE missed[i]]

StartQuery ==
    /\ pc = "audit"
    /\ pc' = "query"
    /\ batch' = Newest(InWindow)
    /\ crowded' = crowded \union (InWindow \ Newest(InWindow))
    /\ UNCHANGED <<world, store, poll, outbox, changeHistory, posts, loose, missed, faults>>

\* The call fails or yields no id.
StartQueryFails ==
    /\ pc = "audit"
    /\ Fault /\ Misses(InWindow) /\ EndPoll
    /\ UNCHANGED <<now, service, log, changes, store, outbox, changeHistory, posts, loose,
                   crowded>>

\* Mutant: rows of one request are taken for different events.
collectEveryRow(rows) == {i \in rows : assignmentAuditFingerprint(i) \notin mem.audit}

\* The rows that are neither known nor of the request of another row: the newest
\* of each request.
collectAssignmentAuditEvents(rows) ==
    {i \in rows :
        /\ assignmentAuditFingerprint(i) \notin mem.audit
        /\ ~\E j \in rows : j > i
               /\ assignmentAuditFingerprint(j) = assignmentAuditFingerprint(i)}

\* GetQueryResults until the status is Complete.
QueryCompletes ==
    /\ pc = "query"
    /\ LET events == collectAssignmentAuditEvents(batch) IN
       IF events = {} THEN EndPoll
       ELSE pc' = "post" /\ batch' = events /\ UNCHANGED <<poll, ready>>
    /\ UNCHANGED <<now, service, log, changes, store, outbox, history, faults>>

\* The status is another final one, a call fails, or the deadline passes.
QueryFails ==
    /\ pc = "query"
    /\ Fault /\ Misses(batch) /\ EndPoll
    /\ UNCHANGED <<now, service, log, changes, store, outbox, changeHistory, posts, loose,
                   crowded>>

\* Events are sent oldest first.
Oldest == CHOOSE i \in batch : \A j \in batch : i <= j
Current == assignmentAuditFingerprint(Oldest)
SameRequest == {i \in Rows : assignmentAuditFingerprint(i) = Current}

\* Mutant: the end of the events is not noticed.
ContinueForever == pc' = "post" /\ batch' = batch \ {Oldest} /\ UNCHANGED <<poll, ready>>

\* refreshAssignmentAuditEvents goes on with the next event, if there is one.
Continue ==
    IF batch = {Oldest} THEN EndPoll
    ELSE pc' = "post" /\ batch' = batch \ {Oldest} /\ UNCHANGED <<poll, ready>>

SendAudit ==
    /\ pc = "post"
    /\ posts' = [posts EXCEPT ![Current] = @ + 1]
    /\ pc' = "record"
    /\ UNCHANGED <<world, store, poll, outbox, batch, changeHistory, loose, missed, crowded,
                   faults>>

\* Mutant: a refused event ends the round.
SendAuditFailsReturns ==
    /\ pc = "post"
    /\ Fault
    /\ Misses(SameRequest)
    /\ EndPoll
    /\ UNCHANGED <<now, service, log, changes, store, outbox, changeHistory, posts, loose,
                   crowded>>

\* Discord refuses the message, or posts it and the reply is lost.
SendAuditFails ==
    /\ pc = "post"
    /\ Fault
    /\ \/ /\ Misses(SameRequest) /\ UNCHANGED <<posts, loose>>
       \/ /\ posts' = [posts EXCEPT ![Current] = @ + 1]
          /\ loose' = loose \union {Current}
          /\ UNCHANGED missed
    /\ Continue
    /\ UNCHANGED <<now, service, log, changes, store, outbox, changeHistory, crowded>>

persistAssignmentAuditEvent ==
    /\ pc = "record"
    /\ Update([mem EXCEPT !.audit = @ \union {Current}])
    /\ Continue
    /\ UNCHANGED <<now, service, log, changes, outbox, history>>

------------------------------------------------------------------------------
(* The world.                                                              *)

Change(a) ==
    /\ changes < MaxChanges
    /\ changes' = changes + 1
    /\ \E v \in Variants \ {service[a]} : service' = [service EXCEPT ![a] = v]
    /\ again' = again \union {e \in Events : e[1] = a}
    /\ UNCHANGED <<now, ready, log, store, loop, sent, lost, auditHistory, faults>>

LogAudit ==
    /\ Len(log) < MaxRows
    /\ log' = Append(log, now)
    /\ UNCHANGED <<now, ready, service, changes, store, loop, history, faults>>

\* Time passes between the polls, and during a poll up to MaxDelay.
Tick ==
    /\ now < MaxTime
    /\ IF pc = "idle" THEN now < ready ELSE now < poll.at + MaxDelay
    /\ now' = now + 1
    /\ UNCHANGED <<ready, service, log, changes, store, loop, history, faults>>

Crash ==
    /\ Fault
    /\ mem' = disk
    /\ pc' = "idle" /\ poll' = NoPoll /\ outbox' = {} /\ batch' = {}
    /\ ready' = now
    /\ lost' = IF mem = disk THEN lost ELSE Events
    /\ loose' = loose \union (mem.audit \ disk.audit)
                      \union (IF pc = "record" THEN {Current} ELSE {})
    /\ Misses(IF pc = "idle" THEN {} ELSE InWindow)
    /\ UNCHANGED <<now, service, log, changes, disk, sent, again, posts, crowded>>

Next ==
    \/ collectAssignmentOps \/ ListCoursesFails \/ persistAssignmentOps
    \/ sendAssignmentEventNotifications
    \/ StartQuery \/ StartQueryFails \/ QueryCompletes \/ QueryFails
    \/ SendAudit \/ SendAuditFails \/ persistAssignmentAuditEvent
    \/ \E a \in Assignments : Change(a)
    \/ LogAudit \/ Tick \/ Crash

Spec == Init /\ [][Next]_vars

------------------------------------------------------------------------------
(* Properties.                                                             *)

TypeOK ==
    /\ now \in 0..MaxTime /\ ready \in 0..(MaxTime + Interval)
    /\ \A data \in {mem, disk} :
           /\ data.events \in [Events -> {Never} \union 0..MaxTime]
           /\ data.audit \subseteq Fingerprints
    /\ pc \in {"idle", "persist", "send", "audit", "query", "post", "record"}
    /\ outbox \subseteq Events
    /\ batch \subseteq Rows
    /\ (pc \in {"post", "record"}) => batch # {}
    /\ faults \in 0..MaxFaults

SentAgain(e) == sent[e] # Never /\ sent'[e] # sent[e]

\* A change is sent once.  It is sent again only if since then the assignment
\* changed, a course was not listed, a count was not read (it reads as 0, and
\* rises again in the next poll), or a crash lost the store.
ChangesSentOnce ==
    [][\A e \in Events : SentAgain(e) => e \in again \union lost]_vars

\* Two messages about a change are a cooldown apart unless a crash lost the
\* record of the first, although a poll that fails elsewhere keeps the old
\* snapshots and finds the change again each time.
CooldownBetweenChanges ==
    [][\A e \in Events :
          SentAgain(e) => sent'[e] - sent[e] >= Cooldown \/ e \in lost]_vars

\* An audit event is posted twice only if the record of the first message was
\* lost: the reply, the save before a crash, or the moment between the two.
AuditPostedOnce ==
    \A f \in Fingerprints : posts[f] > 1 => f \in loose

\* An audit event leaves the window unposted only if newer events filled the
\* query, or the rounds that failed with it in their window make up for the whole
\* window: a window is longer than an interval so that a failed query or message
\* is made up for.  (A round that fails takes an Interval and MaxDelay; the first
\* may have begun, and queried, before the event was logged.)
AuditEventsDelivered ==
    \A i \in Rows :
        log[i] + assignmentAuditWindow < now =>
            \/ posts[assignmentAuditFingerprint(i)] > 0
            \/ i \in crowded
            \/ assignmentAuditWindow <
                   (missed[i] + 1) * (Interval + MaxDelay) + MaxDelay
==============================================================================
