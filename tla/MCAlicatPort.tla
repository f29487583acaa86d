---------------------------- MODULE MCAlicatPort ----------------------------
(* Two sessions on one port, for TLC. *)
EXTENDS AlicatPort, TLC

CONSTANTS t1, t2, t3, s1, s2, idA, idB, idC

Tasks == {t1, t2}
Crowd == {t1, t2, t3}
\* Tasks are alike: none has a part of its own.
Alike == Permutations(Crowd)
Sessions == {s1, s2}
\* idC is free to rename to; without it no id is vacant.
UnitIds == {idA, idB, idC}
PairIds == {idA, idB}

Home == (s1 :> idA) @@ (s2 :> idB)

=============================================================================
