----------------------------- MODULE MCChainJob -----------------------------
EXTENDS SupportedJob, TLC

CONSTANTS Held, Gone, Short, Set, Unset

Ethereum == 1
Starknet == 2
Elsewhere == 3

MCChainOrder == <<Ethereum, Starknet>>
MCBlock == 5..7
MCPlace == {Held, Gone, Short, Set, Unset, 0, 1}
MCAge == (5 :> 0) @@ (6 :> 1) @@ (7 :> 4)
MCVersion == (5 :> "legacy") @@ (6 :> "hash0") @@ (7 :> "hash1")
(* One of each type, at indices on both sides of every step of their RLP.   *)
Plain(type) == [type |-> type, creates |-> FALSE]
MCTx ==
    (0 :> Plain("legacy")) @@ (1 :> Plain("eip155")) @@ (15 :> Plain("eip2930"))
      @@ (16 :> Plain("eip1559")) @@ (127 :> Plain("eip4844")) @@ (128 :> Plain("eip7702"))
      @@ (256 :> [Plain("legacy") EXCEPT !.creates = TRUE])
Indices == DOMAIN MCTx \union {7}
MCLog ==
    (0 :> [exists |-> TRUE, topics |-> 2, words |-> TRUE]) @@ (1 :> [exists |-> TRUE, topics |-> 0, words |-> FALSE])
MCHasher == (Ethereum :> "keccak") @@ (Starknet :> "poseidon")
MCUnsettled == {<<Ethereum, 7>>}

(* Every field of every kind of datum, one call at a time. *)
EvmCalls ==
    {Call("header", Ethereum, b, <<>>, f) : b \in MCBlock, f \in 0..20}
      \union {Call("account", Ethereum, b, <<a>>, f) : b \in {5, 7}, a \in {Held, Gone, Short}, f \in 0..1}
      \union {Call("storage", Ethereum, 5, <<a, 0, 1>>, 0) : a \in {Held, Gone, Short}}
      \union {Call("tx", Ethereum, 6, <<n>>, f) : n \in Indices, f \in 0..18}
      \union {Call("receipt", Ethereum, 6, <<n>>, f) : n \in Indices, f \in 0..2}
      \union {Call("log", Ethereum, 6, <<n, l>>, f) : n \in {0, 127, 128}, l \in 0..2, f \in 0..6}
StarknetCalls ==
    {Call("header", Starknet, b, <<>>, f) : b \in MCBlock, f \in 0..17}
      \union {Call("storage", Starknet, b, <<Held, s>>, 0) : b \in MCBlock, s \in {Set, Unset}}
OwnCalls ==
    {Call("keccak", 0, 0, <<n, b>>, 0) : n \in {0, 16, 17}, b \in {128, 129}}
      \union {Call("debug", 0, 0, <<>>, 0), Call("bytecode", Ethereum, 7, <<Held>>, 0),
              Call("header", Elsewhere, 5, <<>>, 0), Call("tx", Starknet, 6, <<0>>, 0)}

(* Pairs: of one block and of two, one chain and both, a block that may     *)
(* still change, an accumulator that may grow in between.                   *)
Some ==
    {Call("header", Ethereum, 7, <<>>, 0), Call("account", Ethereum, 7, <<Held>>, 0),
     Call("storage", Ethereum, 5, <<Held, 0, 1>>, 0), Call("tx", Ethereum, 6, <<16>>, 0),
     Call("log", Ethereum, 6, <<16, 0>>, 0), Call("receipt", Ethereum, 6, <<16>>, 0),
     Call("header", Starknet, 6, <<>>, 0), Call("storage", Starknet, 6, <<Held, Set>>, 0),
     Call("keccak", 0, 0, <<16, 128>>, 0)}

MCPrograms == {<<c>> : c \in EvmCalls \union StarknetCalls \union OwnCalls} \union (Some \X Some)
MCOtherCalls ==
    {Call("header", Ethereum, 7, <<>>, 1), Call("header", Ethereum, 5, <<>>, 0), Call("debug", 0, 0, <<>>, 0)}

(* What an earlier job left: a header and an account of it. *)
OldFile ==
    [NoProofs EXCEPT !.chain[Ethereum] =
        [@ EXCEPT !.batches = {[meta |-> Meta(Ethereum, 6, "keccak"), headers |-> {Header(Ethereum, 5, "committed")},
                               proven |-> {6}]},
                  !.accounts = {ItemIn(AccountKey(Ethereum, 5, Held), "committed")}]]
MCOldFiles == {OldFile}
=============================================================================
