------------------------------- MODULE MCGateway -------------------------------
(* An instance of Gateway for TLC: the keys share their counters, refresh and  *)
(* logout share a key.                                                         *)
EXTENDS Gateway, TLC

CONSTANTS kl, km, kr, t1, t2, s1, report, r1, r2, w1

MClimitOf == [login |-> 1, refresh |-> 1, logout |-> 0]
MCbucketIndexes == kl :> <<1, 1>> @@ km :> <<1, 2>> @@ kr :> <<2, 2>>
MCSubjectOf == [t \in Tokens |-> s1]

Plain == [service |-> Nothing, kind |-> Nothing, key |-> Nothing, body |-> "valid",
          token |-> Nothing]
MCInfos == {[Plain EXCEPT !.kind = "login", !.key = kl],
            [Plain EXCEPT !.kind = "login", !.key = km, !.body = "invalid"],
            [Plain EXCEPT !.kind = "refresh", !.key = kr, !.token = t1],
            [Plain EXCEPT !.kind = "logout", !.key = kr],
            [Plain EXCEPT !.kind = "logout", !.key = kr, !.body = "too large"],
            [Plain EXCEPT !.service = report, !.token = t2]}

Symmetry == Permutations(Requests)
==============================================================================
