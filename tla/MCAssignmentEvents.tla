-------------------------- MODULE MCAssignmentEvents --------------------------
(* Instances of AssignmentEvents for TLC. *)
EXTENDS AssignmentEvents

CONSTANTS r

Graded(n) == [status |-> "published", publishedAt |-> 0, omitted |-> FALSE,
              startAt |-> 0, endAt |-> 0, problem |-> TRUE, graded |-> n, failed |-> 0]
MCVariants == {Graded(0), Graded(1)}

\* Two audit events of one request, and one without a trace.
MCTraceOf == <<r, r, NoTrace>>
===============================================================================
