--------------------------- MODULE IncidentNotices ---------------------------
(***************************************************************************)
(* What the service alerts of the monitor bot promise to the people who    *)
(* read the Discord channels, without saying how.  For every incident the  *)
(* channel shows a sequence of "alert" and "resolved" messages in which    *)
(*   - an alert that is still open is repeated only after Cooldown, and    *)
(*   - only an open alert is resolved,                                     *)
(* except for the incidents in `doubtful': those of which the bot lost     *)
(* track of what it posted (a reply that never came, a crash before the    *)
(* record was saved).  A message about a doubtful incident may repeat the  *)
(* previous one.                                                           *)
(***************************************************************************)
EXTENDS Naturals

CONSTANTS
    Incidents,  \* cooldown keys: one per (service, type, severity, cause)
    Cooldown    \* the cooldown, in ticks of the model's clock

VARIABLES
    notice,     \* the last message posted about each incident
    quiet,      \* ticks since its last alert was posted, up to Cooldown
    doubtful    \* incidents the bot may have lost track of

vars == <<notice, quiet, doubtful>>

Notices == {"none", "alert", "resolved"}

Older(age) == IF age < Cooldown THEN age + 1 ELSE age

Init ==
    /\ notice \in [Incidents -> Notices]
    /\ quiet \in [Incidents -> 0..Cooldown]
    /\ doubtful = {}

Tick ==
    /\ quiet' = [i \in Incidents |-> Older(quiet[i])]
    /\ UNCHANGED <<notice, doubtful>>

\* An open alert that is not in doubt is repeated only after the cooldown.
Alert(i) ==
    /\ notice[i] = "alert" /\ i \notin doubtful => quiet[i] >= Cooldown
    /\ notice' = [notice EXCEPT ![i] = "alert"]
    /\ quiet' = [quiet EXCEPT ![i] = 0]
    /\ doubtful' \in {doubtful, doubtful \union {i}}

\* Only an open alert is resolved; one that is in doubt may be resolved twice.
Resolve(i) ==
    /\ notice[i] = "alert" \/ i \in doubtful
    /\ notice' = [notice EXCEPT ![i] = "resolved"]
    /\ doubtful' \in {doubtful, doubtful \union {i}}
    /\ UNCHANGED quiet

LoseTrack ==
    /\ doubtful' \in SUBSET Incidents
    /\ doubtful \subseteq doubtful'
    /\ UNCHANGED <<notice, quiet>>

RegainTrack(i) ==
    /\ doubtful' = doubtful \ {i}
    /\ UNCHANGED <<notice, quiet>>

Next ==
    \/ Tick
    \/ LoseTrack
    \/ \E i \in Incidents : Alert(i) \/ Resolve(i) \/ RegainTrack(i)

Spec == Init /\ [][Next]_vars
==============================================================================
