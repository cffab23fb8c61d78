--------------------------- MODULE MCAssignmentOps ---------------------------
(* Instances of AssignmentOps for TLC. *)
EXTENDS AssignmentOps

CONSTANTS a, c1, c2

Draft == [status |-> "draft", publishedAt |-> 0, omitted |-> TRUE, startAt |-> 0,
          endAt |-> 1, problem |-> TRUE, graded |-> 0, failed |-> 0]
Published == [Draft EXCEPT !.status = "published", !.omitted = FALSE, !.problem = FALSE]
Endless == [Published EXCEPT !.endAt = NoTime]

MCVariants == {Draft, Published, Endless}

\* The assignment never changes: only calls fail.
MCUnchanged == {Draft}

\* c1 lists the assignment; c2 lists none, may fail all the same, and ends.
MCCourseOf == [x \in Assignments |-> c1]
MCCourseInfo == [c \in Courses |-> [closed |-> FALSE, blank |-> FALSE,
                                    endAt |-> IF c = c2 THEN 0 ELSE NoTime]]
MCAckKeys == {<<"MISSING_PROBLEM", a>>}
MCAckDelayed == {<<"PUBLISH_DELAYED", a>>}
==============================================================================
