-------------------------- MODULE MCInjectedState --------------------------
(* Small instances of InjectedState for TLC. *)
EXTENDS InjectedState, TLC
EmptyRoot == [k \in Key |-> Zero]
OneKey == CHOOSE root \in Root : \E k \in Key : root = Update(EmptyRoot, k, 1)
AnyStart == {NoRoot, EmptyRoot, OneKey}
Symmetry == Permutations(Label)
=============================================================================
