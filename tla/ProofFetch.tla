----------------------------- MODULE ProofFetch -----------------------------
(***************************************************************************)
(* The fetcher (crates/fetcher, crates/indexer_client): the keys of a dry  *)
(* run become requests, one collector per chain and one for the bytecodes, *)
(* all of them running at once.  A collector asks for its headers first,   *)
(* then for accounts, storages, receipts and transactions, and within one  *)
(* of these the answers come in any order.  The accumulators grow between  *)
(* two requests, and nodes answer in the view they have.  The file is      *)
(* written when every collector is done; the first error before that ends  *)
(* them all and leaves the file that was there.  The write truncates that  *)
(* file first, and may fail or be cut before the new one is whole.         *)
(***************************************************************************)
EXTENDS ChainData, FiniteSets

CONSTANTS
    Hasher,           \* Hasher[chain]: the hash function asked for
    Configured,       \* the chains with an accumulator in the configuration
    MaxSize,          \* bound on the size of an accumulator
    MaxFetches,       \* bound on the runs of the fetcher
    NoFile,
    TornFile,         \* what a cut write leaves: no part of the JSON object is one
    OldFiles          \* what earlier jobs may have left at the output path

ASSUME FetchAssumption ==
    /\ Hasher \in [Chain -> HashingFunction]
    /\ MaxSize \in Nat \ {0} /\ MaxFetches \in Nat
    /\ NoFile \notin ProofSets /\ TornFile \notin ProofSets
    /\ \A f \in OldFiles : f \in ProofSets /\ InOwnChain(f) /\ Collectable(f)

VARIABLES
    accumulated,      \* accumulated[chain]: the blocks the accumulator holds
    fetching,         \* a fetcher is running
    pending,          \* requests without an answer
    fetched,          \* proofs collected
    file,             \* the proofs file
    fresh,            \* it is of this job
    fetches           \* runs of the fetcher

collectors == <<fetching, pending, fetched>>
fetch == <<accumulated, collectors, file, fresh, fetches>>

FetchInit ==
    /\ accumulated \in [Chain -> {MaxSize - 1, MaxSize}]
    /\ fetching = FALSE /\ pending = {} /\ fetched = NoProofs
    /\ file \in {NoFile} \union OldFiles
    /\ fresh = FALSE /\ fetches = 0

-----------------------------------------------------------------------------
(* Requests.  The proofs of the receipts and of the transactions of a block *)
(* come from one tree, built from one answer, whatever the indices.         *)
OfKind(keys, kind, chain) == {k \in keys : k.kind = kind /\ k.chain = chain}
Request(part, key) == [part |-> part, key |-> key]
Requests(part, keys) == {Request(part, k) : k \in keys}
HeaderKeysOf(keys) == {HeaderKeyOf(k) : k \in keys}

(* Mutant: headers for the keys that are headers only. *)
FlattenedKeysOfHeaders(keys, chain) == OfKind(keys, "header", chain)

FlattenedKeys(keys, chain) == HeaderKeysOf({k \in keys : k.chain = chain})

EvmRequests(keys, chain) ==
    Requests("header", FlattenedKeys(keys, chain))
      \union Requests("account", OfKind(keys, "account", chain))
      \union Requests("storage", OfKind(keys, "storage", chain))
      \union Requests("receipt", HeaderKeysOf(OfKind(keys, "receipt", chain)))
      \union Requests("tx", HeaderKeysOf(OfKind(keys, "tx", chain)))

StarknetRequests(keys, chain) ==
    Requests("header", FlattenedKeys(keys, chain))
      \union Requests("storage", OfKind(keys, "storage", chain))

BytecodeRequests(keys) == Requests("bytecode", keys)

AllRequests(evm, starknet, bytecode) ==
    BytecodeRequests(bytecode)
      \union (UNION {EvmRequests(evm, c) : c \in EvmChain})
      \union (UNION {StarknetRequests(starknet, c) : c \in StarknetChain})

Turn(part) ==
    CASE part = "header" -> 1 [] part = "account" -> 2 [] part = "storage" -> 3
      [] part = "receipt" -> 4 [] part = "tx" -> 5 [] OTHER -> 0

(* A request that is sent: its collector is done with the parts before.     *)
Asking(r, part) ==
    /\ fetching /\ r \in pending /\ r.part = part
    /\ part # "bytecode" =>
         \A other \in pending : other.part # "bytecode" /\ other.key.chain = r.key.chain
                                  => Turn(other.part) >= Turn(part)

InView(r, view) == view \in Served(r.key.chain, r.key.block)

Collected(chain, part, items) ==
    fetched' = [fetched EXCEPT !.chain[chain][part] = @ \union items]

Got(r) ==
    /\ pending' = pending \ {r}
    /\ UNCHANGED <<accumulated, fetching, file, fresh, fetches>>

-----------------------------------------------------------------------------
StartFetch(evm, starknet, bytecode) ==
    /\ ~fetching /\ ~fresh /\ fetches < MaxFetches
    /\ fetching' = TRUE /\ fetches' = fetches + 1
    /\ pending' = AllRequests(evm, starknet, bytecode)
    /\ fetched' = NoProofs
    /\ UNCHANGED <<accumulated, file, fresh>>

(* Mutant: one group per chain, with the accumulator of the last answer. *)
AddHeaderToChain(batches, meta, header) ==
    {[meta |-> meta,
      headers |-> {header} \union (UNION {b.headers : b \in batches}),
      proven |-> {meta.size} \union (UNION {b.proven : b \in batches})]}

(* The proof is for the accumulator as it is when it is asked; headers are  *)
(* grouped by the accumulator they were proven in.                          *)
AddHeader(batches, meta, header) ==
    LET same == {b \in batches : b.meta = meta}
    IN  (batches \ same)
          \union {[meta |-> meta,
                   headers |-> {header} \union (UNION {b.headers : b \in same}),
                   proven |-> {meta.size} \union (UNION {b.proven : b \in same})]}

MmrProof(chain) == Meta(chain, accumulated[chain], Hasher[chain])

(* The indexer has the block in its accumulator, or nothing to answer. *)
HeadersProof(meta, header) == Commits(meta, header)

CollectHeader(r) ==
    LET chain == r.key.chain
        header == Header(chain, r.key.block, "committed")
    IN  /\ Asking(r, "header")
        /\ chain \in Configured
        /\ HeadersProof(MmrProof(chain), header)
        /\ fetched' = [fetched EXCEPT !.chain[chain].batches = AddHeader(@, MmrProof(chain), header)]
        /\ Got(r)

FetchEvmHeader(r) == r.key.chain \in EvmChain /\ CollectHeader(r)
FetchStarknetHeader(r) == r.key.chain \in StarknetChain /\ CollectHeader(r)

FetchAccount(r, view) ==
    /\ Asking(r, "account") /\ InView(r, view)
    /\ Collected(r.key.chain, "accounts", {ItemIn(r.key, view)})
    /\ Got(r)

FetchStorage(r, view) ==
    LET chain == r.key.chain
    IN  /\ Asking(r, "storage") /\ InView(r, view)
        /\ chain \in EvmChain
        /\ fetched' = [fetched EXCEPT
               !.chain[chain].accounts = @ \union {ItemIn(AccountKeyOf(r.key), view)},
               !.chain[chain].storages = @ \union {ItemIn(r.key, view)}]
        /\ Got(r)

InBlock(keys, r, part) ==
    {k \in OfKind(keys, part, r.key.chain) : k.block = r.key.block}

(* The proof of an index is for its key in the tree of the block. *)
ReceiptProof(key, view) == Item(TrieKey(key), Header(key.chain, key.block, view))
TransactionProof(key, view) == Item(TrieKey(key), Header(key.chain, key.block, view))

FetchReceipts(r, view, evm) ==
    /\ Asking(r, "receipt") /\ InView(r, view)
    /\ Collected(r.key.chain, "receipts", {ReceiptProof(k, view) : k \in InBlock(evm, r, "receipt")})
    /\ Got(r)

FetchTxs(r, view, evm) ==
    /\ Asking(r, "tx") /\ InView(r, view)
    /\ Collected(r.key.chain, "txs", {TransactionProof(k, view) : k \in InBlock(evm, r, "tx")})
    /\ Got(r)

FetchStarknetStorage(r, view) ==
    /\ Asking(r, "storage") /\ InView(r, view)
    /\ r.key.chain \in StarknetChain
    /\ Collected(r.key.chain, "storages", {ItemIn(r.key, view)})
    /\ Got(r)

FetchBytecode(r, view) ==
    /\ Asking(r, "bytecode") /\ InView(r, view)
    /\ fetched' = [fetched EXCEPT !.bytecode = @ \union {ItemIn(r.key, view)}]
    /\ Got(r)

FetchOne(evm) ==
    \E r \in pending :
       \/ FetchEvmHeader(r) \/ FetchStarknetHeader(r)
       \/ \E view \in View :
             \/ FetchAccount(r, view) \/ FetchStorage(r, view) \/ FetchStarknetStorage(r, view)
             \/ FetchReceipts(r, view, evm) \/ FetchTxs(r, view, evm)
             \/ FetchBytecode(r, view)

(* Mutant: the same requests are made again, without an end. *)
FetchFailsAndAsksAgain == fetching /\ pending # {} /\ UNCHANGED fetch

(* Mutant: what was collected is written even so. *)
FetchFailsAndWrites ==
    /\ fetching /\ pending # {}
    /\ fetching' = FALSE /\ pending' = {} /\ fetched' = NoProofs
    /\ file' = fetched /\ fresh' = TRUE
    /\ UNCHANGED <<accumulated, fetches>>

(* A service does not answer, the block is not accumulated yet, a chain is  *)
(* not configured.                                                          *)
FetchFails ==
    /\ fetching /\ pending # {}
    /\ fetching' = FALSE /\ pending' = {} /\ fetched' = NoProofs
    /\ UNCHANGED <<accumulated, file, fresh, fetches>>

WriteProofs ==
    /\ fetching /\ pending = {}
    /\ fetching' = FALSE /\ fetched' = NoProofs
    /\ file' = fetched /\ fresh' = TRUE
    /\ UNCHANGED <<accumulated, pending, fetches>>

(* The file cannot be opened, or it is truncated and the write ends early:  *)
(* the disk is full, the process is killed.                                 *)
WriteFails ==
    /\ fetching /\ pending = {}
    /\ fetching' = FALSE /\ fetched' = NoProofs
    /\ file' \in {file, TornFile} /\ fresh' = FALSE
    /\ UNCHANGED <<accumulated, pending, fetches>>

CanBeRead(f) == f \notin {NoFile, TornFile}

AccumulatorGrows(chain) ==
    /\ accumulated[chain] < MaxSize
    /\ accumulated' = [accumulated EXCEPT ![chain] = @ + 1]
    /\ UNCHANGED <<collectors, file, fresh, fetches>>
=============================================================================
