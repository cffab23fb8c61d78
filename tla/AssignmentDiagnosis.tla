------------------------- MODULE AssignmentDiagnosis -------------------------
(***************************************************************************)
(* What the assignment watch concludes from what the report service says   *)
(* about one course or one assignment: internal/monitor/                   *)
(* assignment_diagnosis.go.  Times are positions of the model's clock;     *)
(* NoTime is a blank field, or one that no layout of parseAssignmentTime   *)
(* fits.                                                                   *)
(***************************************************************************)
EXTENDS Integers

CONSTANT StaleGrace  \* how long after its end a draft is merely stale

NoTime == -1

\* What the report service holds, and what a poll reads, about an assignment.
\* `omitted`: the list of assignments leaves publishedAt out.
Assignment(Times) ==
    [status : {"draft", "scheduled", "published"},
     publishedAt : Times \union {NoTime},
     omitted : BOOLEAN,
     startAt : Times \union {NoTime},
     endAt : Times \union {NoTime},
     problem : BOOLEAN,
     graded : Nat,
     failed : Nat]

Known(time) == time # NoTime
Past(time, now) == Known(time) /\ now > time

\* closed: a final status; blank: neither a status nor dates.
ClassifyCourse(course, now) ==
    IF course.closed \/ Past(course.endAt, now) THEN "LEGACY"
    ELSE IF course.blank THEN "UNKNOWN"
    ELSE "ACTIVE"

\* The entry of an assignment in the list of its course, without counts.
Summary(a) ==
    [a EXCEPT !.publishedAt = IF a.omitted THEN NoTime ELSE @,
              !.graded = 0, !.failed = 0]

mergeAssignmentDetail(summary, a) ==
    [summary EXCEPT !.publishedAt = a.publishedAt, !.omitted = FALSE]

Counted(snapshot, a) ==
    [snapshot EXCEPT !.graded = a.graded, !.failed = a.failed]

IssueTypes ==
    {"INVALID_TIME", "MISSING_PROBLEM", "STALE_DRAFT", "PUBLISH_DELAYED",
     "DRAFT_PAST_START"}

\* The ranks of WARN and INFO; 0 is that of an issue without a severity.
severityRank(type) == IF type = "STALE_DRAFT" THEN 1 ELSE 2

ShouldNotify(type) == type # "STALE_DRAFT"

invalidAssignmentTime(s) ==
    ~Known(s.startAt) \/ ~Known(s.endAt) \/ s.endAt < s.startAt

Stale(s, now) ==
    s.status = "draft" /\ Known(s.endAt) /\ now > s.endAt + StaleGrace

\* The one finding besides the time check: the first that applies.
StatusFinding(s, now) ==
    IF s.status = "published" THEN IF s.problem THEN {} ELSE {"MISSING_PROBLEM"}
    ELSE IF Stale(s, now) THEN {"STALE_DRAFT"}
    ELSE IF Past(s.publishedAt, now) THEN {"PUBLISH_DELAYED"}
    ELSE IF /\ s.status = "draft"
            /\ ~Known(s.publishedAt) /\ ~s.omitted
            /\ Past(s.startAt, now)
         THEN {"DRAFT_PAST_START"}
    ELSE {}

diagnoseAssignment(s, now) ==
    StatusFinding(s, now)
        \union (IF invalidAssignmentTime(s) THEN {"INVALID_TIME"} ELSE {})

\* What the evidence hash of an issue tells apart.
Evidence(s) ==
    <<s.status, s.publishedAt, s.omitted, s.startAt, s.endAt, s.problem>>

Changes(prev, cur) ==
    [ASSIGNMENT_PUBLISHED |-> prev.status # "published" /\ cur.status = "published",
     ASSIGNMENT_UPDATED |-> Evidence(prev) # Evidence(cur),
     GRADING_COMPLETED |-> cur.graded > prev.graded,
     GRADING_FAILED |-> cur.failed > prev.failed]

\* The part of the snapshot that an event's fingerprint names.
NewValue(type, s) ==
    CASE type = "ASSIGNMENT_UPDATED" -> <<s.status, s.startAt, s.endAt, s.problem>>
      [] type = "GRADING_COMPLETED" -> <<s.graded>>
      [] type = "GRADING_FAILED" -> <<s.failed>>
      [] OTHER -> <<>>

diffAssignmentSnapshot(prev, cur) ==
    {<<type, NewValue(type, cur)>> :
        type \in {t \in DOMAIN Changes(prev, cur) : Changes(prev, cur)[t]}}
==============================================================================
