--------------------------- MODULE ChainVerifier ---------------------------
(***************************************************************************)
(* The verifiers and memorizers of hdp.cairo for on-chain data.  The       *)
(* chains of the proofs file are gone through from the last to the first.  *)
(* For each, the headers are verified group by group against the           *)
(* accumulator of the group, then every other proof against the header it  *)
(* names, which has to be in the memorizer by then; what is verified is    *)
(* added to the memorizer.  A failed assertion ends the run.  Bytecodes    *)
(* are loaded as they are.  An item of the file has no chain: it is taken  *)
(* to be of the chain whose proofs are being verified.                     *)
(***************************************************************************)
EXTENDS ChainData

VARIABLES
    evm, starknet, bytecodes,   \* the memorizers: key to item
    mmr_metas_poseidon, mmr_metas_keccak,   \* accumulators verified against
    idx,                        \* chains left
    part,                       \* of the chain that is verified
    left                        \* groups of headers left

memorizers == <<evm, starknet, bytecodes>>
mmr_metas == <<mmr_metas_poseidon, mmr_metas_keccak>>
verifier == <<memorizers, mmr_metas, idx, part, left>>

VerifierInit ==
    /\ evm = Empty /\ starknet = Empty /\ bytecodes = Empty
    /\ mmr_metas_poseidon = <<>> /\ mmr_metas_keccak = <<>>
    /\ idx = Len(ChainOrder) /\ part = "load" /\ left = {}

(* dict_write for every item: the last one under a key stays, and two under *)
(* one key have been verified against the same root.                        *)
Store(dict, items) ==
    LET keys == {HashParams(i.key) : i \in items}
    IN  [k \in DOMAIN dict \union keys |->
            IF k \in keys THEN CHOOSE i \in items : HashParams(i.key) = k ELSE dict[k]]

InMemorizer(dict, key) == HashParams(key) \in DOMAIN dict

chain_id == ChainOrder[idx]
OfChain(items) == {Item([i.key EXCEPT !.chain = chain_id], i.root) : i \in items}

(* What the hints hand to the verifiers of the chain, item by item: the key *)
(* and the nodes of its proof.                                              *)
BatchesOf(proofs) == proofs.chain[chain_id].batches
AccountsOf(proofs) == OfChain(proofs.chain[chain_id].accounts)
StoragesOf(proofs) == OfChain(proofs.chain[chain_id].storages)
TxsOf(proofs) == proofs.chain[chain_id].txs
ReceiptsOf(proofs) == proofs.chain[chain_id].receipts
SlotsOf(proofs) == OfChain(proofs.chain[chain_id].storages)

-----------------------------------------------------------------------------
LoadBytecodes(proofs) ==
    /\ part = "load"
    /\ bytecodes' = Store(bytecodes, proofs.bytecode)
    /\ part' = "chain"
    /\ UNCHANGED <<evm, starknet, mmr_metas, idx, left>>

EnterChain(proofs) ==
    /\ part = "chain" /\ idx > 0
    /\ left' = BatchesOf(proofs)
    /\ part' = "headers"
    /\ UNCHANGED <<memorizers, mmr_metas, idx>>

(* The number of a header is decoded from it, the chain is the verifier's.  *)
HeaderItems(headers) == {Item(HeaderKey(chain_id, h.block), h) : h \in headers}

AddMeta(metas, meta, hasher) == IF meta.hasher = hasher THEN Append(metas, meta) ELSE metas

VerifiedAgainst(meta) ==
    /\ mmr_metas_poseidon' = AddMeta(mmr_metas_poseidon, meta, "poseidon")
    /\ mmr_metas_keccak' = AddMeta(mmr_metas_keccak, meta, "keccak")

EvmBatchVerifies(batch) ==
    /\ batch.meta.hasher \in {"poseidon", "keccak"}
    /\ batch.proven \subseteq {batch.meta.size}
    /\ \A h \in batch.headers : Commits(batch.meta, h)

VerifyEvmBatch(batch) ==
    /\ part = "headers" /\ chain_id \in EvmChain
    /\ batch \in left /\ EvmBatchVerifies(batch)
    /\ evm' = Store(evm, HeaderItems(batch.headers))
    /\ VerifiedAgainst(batch.meta)
    /\ left' = left \ {batch}
    /\ UNCHANGED <<starknet, bytecodes, idx, part>>

StarknetFeltsOf(header) == Sn!HashFields(Version[header.block])

StarknetBatchVerifies(batch) ==
    /\ batch.meta.hasher = "poseidon"
    /\ batch.proven \subseteq {batch.meta.size}
    /\ \A h \in batch.headers : Commits(batch.meta, h) /\ Sn!Hashable(StarknetFeltsOf(h))

VerifyStarknetBatch(batch) ==
    /\ part = "headers" /\ chain_id \in StarknetChain
    /\ batch \in left /\ StarknetBatchVerifies(batch)
    /\ starknet' = Store(starknet, HeaderItems(batch.headers))
    /\ VerifiedAgainst(batch.meta)
    /\ left' = left \ {batch}
    /\ UNCHANGED <<evm, bytecodes, idx, part>>

HeadersDone ==
    /\ part = "headers" /\ left = {}
    /\ part' = IF chain_id \in EvmChain THEN "accounts" ELSE "starknet_storages"
    /\ UNCHANGED <<memorizers, mmr_metas, idx, left>>

-----------------------------------------------------------------------------
(* Mutant: the root is not compared. *)
OpensAnyHeader(i) == InMemorizer(evm, HeaderKeyOf(i.key))

(* The proof opens a root of the header it names. *)
OpensHeader(i) ==
    /\ InMemorizer(evm, HeaderKeyOf(i.key))
    /\ i.root = evm[HashParams(HeaderKeyOf(i.key))].root

AccountsVerify(items) == \A i \in items : OpensHeader(i)

VerifyAccounts(proofs) ==
    LET items == AccountsOf(proofs)
    IN  /\ part = "accounts" /\ AccountsVerify(items)
        /\ evm' = Store(evm, items)
        /\ part' = "storages"
        /\ UNCHANGED <<starknet, bytecodes, mmr_metas, idx, left>>

(* A slot is opened with the storage root of an account, which the account  *)
(* has to have.                                                             *)
StoragesVerify(items) ==
    \A i \in items :
        /\ InMemorizer(evm, AccountKeyOf(i.key))
        /\ i.key.at[1] \in Account
        /\ i.root = evm[HashParams(AccountKeyOf(i.key))].root

VerifyStorages(proofs) ==
    LET items == StoragesOf(proofs)
    IN  /\ part = "storages" /\ StoragesVerify(items)
        /\ evm' = Store(evm, items)
        /\ part' = "txs"
        /\ UNCHANGED <<starknet, bytecodes, mmr_metas, idx, left>>

(* The key in the trie of a block is gone down as a path; the index in the  *)
(* memorizer is what it decodes to.                                         *)
Indexed(items) ==
    {Item([i.key EXCEPT !.chain = chain_id, !.at = <<Rlp!IndexOf(@[1])>>], i.root) : i \in items}
PathsWhole(items) ==
    \A i \in items : Rlp!WholePath(i.key.at[1], Rlp!RlpBytes(Rlp!IndexOf(i.key.at[1])))

TxsVerify(items) == PathsWhole(items) /\ \A i \in Indexed(items) : OpensHeader(i)

VerifyTxs(proofs) ==
    LET items == TxsOf(proofs)
    IN  /\ part = "txs" /\ TxsVerify(items)
        /\ evm' = Store(evm, Indexed(items))
        /\ part' = "receipts"
        /\ UNCHANGED <<starknet, bytecodes, mmr_metas, idx, left>>

ReceiptsVerify(items) == PathsWhole(items) /\ \A i \in Indexed(items) : OpensHeader(i)

VerifyReceipts(proofs) ==
    LET items == ReceiptsOf(proofs)
    IN  /\ part = "receipts" /\ ReceiptsVerify(items)
        /\ evm' = Store(evm, Indexed(items))
        /\ part' = "chain" /\ idx' = idx - 1
        /\ UNCHANGED <<starknet, bytecodes, mmr_metas, left>>

(* Mutant: a proof that the slot is not there is as good. *)
StarknetStoragesVerifyAny(items) ==
    \A i \in items :
        /\ InMemorizer(starknet, HeaderKeyOf(i.key))
        /\ i.root = starknet[HashParams(HeaderKeyOf(i.key))].root

(* Inclusion is asserted: a slot that was never written has no proof.       *)
StarknetStoragesVerify(items) ==
    \A i \in items :
        /\ InMemorizer(starknet, HeaderKeyOf(i.key))
        /\ i.key.at[2] \in SetSlot
        /\ i.root = starknet[HashParams(HeaderKeyOf(i.key))].root

VerifyStarknetStorages(proofs) ==
    LET items == SlotsOf(proofs)
    IN  /\ part = "starknet_storages" /\ StarknetStoragesVerify(items)
        /\ starknet' = Store(starknet, items)
        /\ part' = "chain" /\ idx' = idx - 1
        /\ UNCHANGED <<evm, bytecodes, mmr_metas, left>>

Verify(proofs) ==
    \/ LoadBytecodes(proofs)
    \/ EnterChain(proofs)
    \/ \E batch \in left : VerifyEvmBatch(batch) \/ VerifyStarknetBatch(batch)
    \/ HeadersDone
    \/ VerifyAccounts(proofs) \/ VerifyStorages(proofs) \/ VerifyTxs(proofs) \/ VerifyReceipts(proofs)
    \/ VerifyStarknetStorages(proofs)

VerifyFails(proofs) ==
    /\ part \notin {"load", "chain"}
    /\ CASE part = "headers" ->
              \E batch \in left :
                  IF chain_id \in EvmChain THEN ~EvmBatchVerifies(batch) ELSE ~StarknetBatchVerifies(batch)
         [] part = "accounts" -> ~AccountsVerify(AccountsOf(proofs))
         [] part = "storages" -> ~StoragesVerify(StoragesOf(proofs))
         [] part = "txs" -> ~TxsVerify(TxsOf(proofs))
         [] part = "receipts" -> ~ReceiptsVerify(ReceiptsOf(proofs))
         [] part = "starknet_storages" -> ~StarknetStoragesVerify(SlotsOf(proofs))
    /\ UNCHANGED verifier

Verified == part = "chain" /\ idx = 0
=============================================================================
