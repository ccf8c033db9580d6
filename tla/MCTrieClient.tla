---------------------------- MODULE MCTrieClient ----------------------------
(* Small instances of TrieClient for TLC. *)
EXTENDS TrieClient
Keys3 == {<<0, 0>>, <<0, 1>>, <<1, 1>>}
=============================================================================
