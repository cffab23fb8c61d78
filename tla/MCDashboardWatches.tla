------------------------- MODULE MCDashboardWatches -------------------------
(* Instances of DashboardWatches for TLC. *)
EXTENDS DashboardWatches, TLC

\* Nothing distinguishes the channels from one another, nor the goroutines of
\* commands, if the environment names no channel.
Symmetry == Permutations(Channels) \union Permutations(Commands)
=============================================================================
