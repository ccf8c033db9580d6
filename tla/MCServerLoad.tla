---------------------------- MODULE MCServerLoad ----------------------------
(* Small instances of ServerLoad for TLC. *)
EXTENDS ServerLoad, TLC
K1 == <<0, 0>>
K2 == <<0, 1>>
Keys2 == {K1, K2}
NoBatches == {}
TwoLeaves == {<<[key |-> K1, value |-> 1], [key |-> K2, value |-> 1]>>}
Symmetry == Permutations(Client)
=============================================================================
