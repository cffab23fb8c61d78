----------------------------- MODULE IssueNotices -----------------------------
(***************************************************************************)
(* What the assignment feed promises, without saying how: an issue that is *)
(* open and known is announced again only with new evidence, and never     *)
(* changes its evidence without an announcement.  Where somebody touched   *)
(* the issue with a command, or a restart brought back an older record,    *)
(* the feed may repeat the notice or take the issue up again silently.     *)
(***************************************************************************)
CONSTANTS Keys, NoEvidence

VARIABLES
    open,     \* the evidence an announced open issue was last announced with
    outbox,   \* notices <<key, evidence>> on their way to the channel
    touched   \* issues that a command or a restart changed

vars == <<open, outbox, touched>>

Init ==
    /\ open = [k \in Keys |-> NoEvidence]
    /\ outbox = {}
    /\ touched = {}

New == outbox' \ outbox
Announced(k) == \E notice \in New : notice[1] = k

Announce(k) ==
    /\ <<k, open'[k]>> \in New
    /\ open'[k] # open[k] \/ k \in touched

Settle(k) ==
    /\ ~Announced(k)
    /\ \/ open'[k] \in {open[k], NoEvidence}
       \/ k \in touched \union touched'

Next == \A k \in Keys : Announce(k) \/ Settle(k)

Spec == Init /\ [][Next]_vars
==============================================================================
