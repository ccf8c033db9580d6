---------------------------- MODULE MCTrieStore ----------------------------
(* A small instance of TrieStore for TLC: the writes and the rows they add *)
(* are bounded.                                                            *)
EXTENDS TrieStore
CONSTANTS MaxWrites, MaxRows
BoundedNext == Next /\ Len(chain') <= MaxWrites + 1 /\ Len(rows') <= MaxRows
BoundedSpec == Init /\ [][BoundedNext]_vars
=============================================================================
