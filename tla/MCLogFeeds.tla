----------------------------- MODULE MCLogFeeds -----------------------------
(* Instances of LogFeeds for TLC. *)
EXTENDS LogFeeds

\* The older a row, the slower its request.
MCLatency == [row \in Rows |-> MaxRows - row]
=============================================================================
