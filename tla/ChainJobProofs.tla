--------------------------- MODULE ChainJobProofs ---------------------------
(***************************************************************************)
(* Proofs about ChainJob and SupportedJob, for any chains, blocks, modules *)
(* and files that earlier jobs left.  First about any job: IInv is         *)
(* inductive; a lemma per command shows that its steps keep it, and        *)
(* theorems read off it what is true of the memorizers, the file and the   *)
(* output.  Then about supported jobs: JobInv, which says besides which    *)
(* key each proof is for and what each answer was read from, is inductive, *)
(* so no supported job fails, and what is published rests on supported     *)
(* calls only.                                                             *)
(***************************************************************************)
EXTENDS SupportedJob, SequenceTheorems, TLAPS

LEMMA ChainIdIsChain ==
    ASSUME idx \in 0..Len(ChainOrder), idx > 0
    PROVE  chain_id \in Chain
BY ChainAssumption DEF chain_id, Chain

LEMMA NothingCollected == NoProofs \in ProofSets /\ InOwnChain(NoProofs)
<1>1. NoChainProofs \in ChainProofSets
    BY DEF NoChainProofs, ChainProofSets
<1>2. NoProofs \in ProofSets
    BY <1>1 DEF NoProofs, ProofSets
<1>3. InOwnChain(NoProofs)
    BY ChainAssumption DEF InOwnChain, NoProofs, NoChainProofs
<1> QED
    BY <1>2, <1>3

LEMMA EmptyIsSequence == IsSequence(<<>>)
BY DEF IsSequence

LEMMA AppendIsSequence ==
    ASSUME NEW s, NEW x, IsSequence(s)
    PROVE  /\ IsSequence(Append(s, x))
           /\ Len(s) \in Nat /\ DOMAIN s = 1..Len(s)
           /\ Len(Append(s, x)) = Len(s) + 1 /\ DOMAIN Append(s, x) = 1..(Len(s) + 1)
           /\ \A n \in DOMAIN s : Append(s, x)[n] = s[n]
           /\ Append(s, x)[Len(s) + 1] = x
<1> DEFINE S == Elements(s) \union {x}
           t == Append(s, x)
<1>1. s \in Seq(S)
    BY DEF IsSequence
<1>2. t \in Seq(S) /\ Len(s) \in Nat /\ DOMAIN s = 1..Len(s)
    BY <1>1
<1>3. Len(t) = Len(s) + 1 /\ DOMAIN t = 1..(Len(s) + 1)
    BY <1>1, <1>2
<1>4. (\A n \in DOMAIN s : t[n] = s[n]) /\ t[Len(s) + 1] = x
    BY <1>1, <1>2
<1>5. t \in Seq(Elements(t))
    <2>1. t \in [1..Len(t) -> S] /\ Len(t) \in Nat
        BY <1>2, LenProperties
    <2>2. t \in [1..Len(t) -> Elements(t)]
        BY <2>1 DEF Elements
    <2> QED
        BY <2>1, <2>2, SeqDef
<1> QED
    BY <1>2, <1>3, <1>4, <1>5 DEF IsSequence

-----------------------------------------------------------------------------
(* The first state. *)

LEMMA InitInv == Init => IInv
<1> SUFFICES ASSUME Init PROVE IInv
    OBVIOUS
<1> USE DEF Init, DryInit, FetchInit, VerifierInit, RunInit
<1>1. TypeOK
    <2>1. accumulated \in [Chain -> 0..MaxSize]
        BY FetchAssumption
    <2>2. file \in ProofSets \union {NoFile, TornFile} /\ (CanBeRead(file) => InOwnChain(file))
        BY FetchAssumption DEF CanBeRead
    <2>3. idx \in 0..Len(ChainOrder)
        BY ChainAssumption
    <2>4. IsSequence(trace) /\ IsSequence(told)
        BY EmptyIsSequence
    <2>5. mmr_metas_poseidon \in Seq(MetaSet("poseidon")) /\ mmr_metas_keccak \in Seq(MetaSet("keccak"))
        OBVIOUS
    <2>6. fetches \in 0..MaxFetches /\ stage \in Stages
        BY FetchAssumption DEF Stages
    <2>7. fetched \in ProofSets /\ InOwnChain(fetched)
        BY NothingCollected
    <2> QED
        BY <2>1, <2>2, <2>3, <2>4, <2>5, <2>6, <2>7 DEF TypeOK
<1>2. NothingForgotten /\ FileInUse
    BY DEF NothingForgotten, FileInUse, Loaded
<1>3. MemorizersTyped /\ MemorizersTrue
    BY DEF MemorizersTyped, MemorizersTrue, Empty
<1>4. HeadersCommitted
    BY DEF HeadersCommitted, Metas, Elements, Empty
<1>5. Segment
    BY DEF Segment, At
<1> QED
    BY <1>1, <1>2, <1>3, <1>4, <1>5 DEF IInv

-----------------------------------------------------------------------------
(* A step that leaves the sound run alone, except for its stage. *)

LEMMA SoundRunWaits ==
    ASSUME IInv, UNCHANGED <<sound, output>>,
           stage \in {"dry", "fetch"}, stage' \in Stages \ {"run", "replay", "published"}
    PROVE  /\ MemorizersTyped' /\ MemorizersTrue' /\ HeadersCommitted' /\ Segment'
           /\ idx' = idx /\ part' = part /\ part = "load" /\ left' = left
<1> USE DEF IInv, sound, verifier, memorizers, mmr_metas, run, NotStarted
<1>1. MemorizersTyped' /\ MemorizersTrue'
    BY DEF MemorizersTyped, MemorizersTrue
<1>2. HeadersCommitted'
    BY DEF HeadersCommitted, Metas, Elements, MemorizersTyped, Empty
<1>3. Segment'
    BY DEF Segment, At, Stages
<1> QED
    BY <1>1, <1>2, <1>3 DEF FileInUse

LEMMA KeysAreTyped ==
    ASSUME IInv, Calling
    PROVE  /\ HandlerOf(NextCall) = "evm" => KeyOf(NextCall) \in EvmKeys
           /\ HandlerOf(NextCall) = "starknet" => KeyOf(NextCall) \in StarknetKeys
           /\ HandlerOf(NextCall) = "bytecode" => KeyOf(NextCall) \in BytecodeKeys
<1>1. IsSequence(program) /\ IsSequence(trace)
    BY ProgramsAssumption DEF IInv, TypeOK
<1>2. Len(trace) \in Nat /\ Len(program) \in Nat /\ DOMAIN program = 1..Len(program)
    BY <1>1, AppendIsSequence
<1>3. NextCall \in Elements(program)
    BY <1>2 DEF NextCall, Calling, Elements
<1>4. Callable(NextCall)
    BY <1>3, ProgramsAssumption DEF IInv, TypeOK
<1> QED
    BY <1>4 DEF Callable
-----------------------------------------------------------------------------
(* The dry run. *)

LEMMA DryStepInv == ASSUME IInv, DryStep PROVE IInv'
<1> USE DEF IInv, dry, key_sets
<1>1. At("dry") /\ UNCHANGED <<fetch, sound, output>> /\ program' = program
      /\ stage' \in {"dry", "fetch", "failed", "gave_up"}
    BY DEF DryStep, DryRunCall, DryRunDies, NodeIsDown, DryRunEnds, DryCall, DryEvmCall,
           DryStarknetCall, DryBytecodeCall, DryKeccakCall, DryDebugCall, DryCallFails, Enter, At
<1>2. /\ evm_keys' \subseteq EvmKeys /\ starknet_keys' \subseteq StarknetKeys
      /\ bytecode_keys' \subseteq BytecodeKeys /\ IsSequence(trace')
    <2>1. CASE DryRunCall
        <3>1. Calling /\ \E x : trace' = Append(trace, x)
            BY <2>1 DEF DryRunCall, DryCall, DryEvmCall, DryStarknetCall, DryBytecodeCall,
                        DryKeccakCall, DryDebugCall, Asked, Answered
        <3>2. IsSequence(trace')
            BY <3>1, AppendIsSequence DEF TypeOK
        <3>3. /\ evm_keys' \subseteq EvmKeys /\ starknet_keys' \subseteq StarknetKeys
              /\ bytecode_keys' \subseteq BytecodeKeys
            BY <2>1, <3>1, KeysAreTyped DEF DryRunCall, DryCall, DryEvmCall, DryStarknetCall,
                    DryBytecodeCall, DryKeccakCall, DryDebugCall, Asked, TypeOK
        <3> QED
            BY <3>2, <3>3
    <2>2. CASE UNCHANGED dry
        BY <2>2 DEF TypeOK
    <2> QED
        BY <2>1, <2>2 DEF DryStep, DryRunDies, NodeIsDown, DryRunEnds, DryCallFails
<1>3. /\ MemorizersTyped' /\ MemorizersTrue' /\ HeadersCommitted' /\ Segment'
      /\ idx' = idx /\ part' = part /\ part = "load" /\ left' = left
    BY <1>1, SoundRunWaits DEF At, Stages
<1>4. TypeOK'
    BY <1>1, <1>2 DEF TypeOK, At, Stages, fetch, collectors, sound, verifier, mmr_metas, run
<1>5. NothingForgotten' /\ FileInUse'
    BY <1>1, <1>3 DEF NothingForgotten, FileInUse, Loaded, At, fetch, collectors, NotStarted
<1> QED
    BY <1>3, <1>4, <1>5

-----------------------------------------------------------------------------
(* The fetcher. *)

(* Proofs are added to those of one chain. *)
LEMMA ProofsGrow ==
    ASSUME NEW p \in ProofSets, InOwnChain(p), NEW c \in Chain, NEW q \in ChainProofSets,
           \A b \in q.batches : b.meta.chain = c,
           c \in EvmChain => q.storages \subseteq ItemsOf(StorageKeys),
           c \in StarknetChain => q.storages \subseteq ItemsOf(SlotKeys),
           p.chain[c].accounts \subseteq q.accounts, p.chain[c].storages \subseteq q.storages,
           p.chain[c].txs \subseteq q.txs, p.chain[c].receipts \subseteq q.receipts,
           \A b \in p.chain[c].batches : \E d \in q.batches : b.headers \subseteq d.headers,
           NEW s, s = [p EXCEPT !.chain[c] = q]
    PROVE  /\ s \in ProofSets /\ InOwnChain(s)
           /\ Headers(p) \subseteq Headers(s) /\ Items(p) \subseteq Items(s)
           /\ q.accounts \union q.storages \union q.txs \union q.receipts \subseteq Items(s)
           /\ \A b \in q.batches : b.headers \subseteq Headers(s)
<1>1. /\ s \in ProofSets /\ s.chain[c] = q /\ s.bytecode = p.bytecode
      /\ \A d \in Chain \ {c} : s.chain[d] = p.chain[d]
    BY DEF ProofSets
<1>2. InOwnChain(s)
    BY <1>1, ChainAssumption DEF InOwnChain
<1>3. Headers(p) \subseteq Headers(s) /\ \A b \in q.batches : b.headers \subseteq Headers(s)
    <2>1. \A b \in q.batches : b.headers \subseteq Headers(s)
        BY <1>1 DEF Headers
    <2>2. ASSUME NEW d \in Chain, NEW b \in p.chain[d].batches PROVE b.headers \subseteq Headers(s)
        <3>1. CASE d = c
            BY <3>1, <2>1
        <3>2. CASE d # c
            BY <3>2, <1>1 DEF Headers
        <3> QED
            BY <3>1, <3>2
    <2> QED
        BY <2>1, <2>2 DEF Headers
<1>4. Items(p) \subseteq Items(s)
      /\ q.accounts \union q.storages \union q.txs \union q.receipts \subseteq Items(s)
    <2>1. q.accounts \union q.storages \union q.txs \union q.receipts \subseteq Items(s)
        BY <1>1 DEF Items
    <2>2. ASSUME NEW d \in Chain
          PROVE  p.chain[d].accounts \union p.chain[d].storages \union p.chain[d].txs
                   \union p.chain[d].receipts \subseteq Items(s)
        <3>1. CASE d = c
            BY <3>1, <2>1
        <3>2. CASE d # c
            BY <3>2, <1>1 DEF Items
        <3> QED
            BY <3>1, <3>2
    <2>3. p.bytecode \subseteq Items(s)
        BY <1>1 DEF Items
    <2> QED
        BY <2>1, <2>2, <2>3 DEF Items
<1> QED
    BY <1>1, <1>2, <1>3, <1>4

(* What is asked for is typed, whatever the keys. *)
LEMMA RequestsTyped ==
    ASSUME evm_keys \subseteq EvmKeys, starknet_keys \subseteq StarknetKeys,
           bytecode_keys \subseteq BytecodeKeys
    PROVE  AllRequests(evm_keys, starknet_keys, bytecode_keys) \subseteq RequestSet
<1> USE DEF Requests, Request
<1>1. \A k \in EvmKeys \union StarknetKeys : HeaderKeyOf(k) \in HeaderKeys(Chain)
    BY ChainAssumption DEF EvmKeys, StarknetKeys, HeaderKeys, AccountKeys, StorageKeys, SlotKeys,
                           IndexKeys, KeysOf, HeaderKeyOf, HeaderKey, Key
<1>2. ASSUME NEW c \in EvmChain PROVE EvmRequests(evm_keys, c) \subseteq RequestSet
    <2>1. Requests("header", FlattenedKeys(evm_keys, c)) \subseteq RequestSet
        BY <1>1 DEF FlattenedKeys, HeaderKeysOf, RequestSet
    <2>2. \A k \in evm_keys : /\ k.kind = "account" => k \in AccountKeys
                              /\ k.kind = "storage" => k \in StorageKeys
                              /\ k.kind \in {"tx", "receipt"} => HeaderKeyOf(k) \in HeaderKeys(EvmChain)
        BY DEF EvmKeys, HeaderKeys, AccountKeys, StorageKeys, IndexKeys, KeysOf, HeaderKeyOf, HeaderKey, Key
    <2>3. Requests("account", OfKind(evm_keys, "account", c)) \subseteq RequestSet
        BY <2>2 DEF OfKind, HeaderKeysOf, RequestSet
    <2>5. Requests("storage", OfKind(evm_keys, "storage", c)) \subseteq RequestSet
        BY <2>2 DEF OfKind, HeaderKeysOf, RequestSet
    <2>4. /\ Requests("receipt", HeaderKeysOf(OfKind(evm_keys, "receipt", c))) \subseteq RequestSet
          /\ Requests("tx", HeaderKeysOf(OfKind(evm_keys, "tx", c))) \subseteq RequestSet
        BY <2>2 DEF OfKind, HeaderKeysOf, RequestSet
    <2> QED
        BY <2>1, <2>3, <2>4, <2>5 DEF EvmRequests
<1>3. ASSUME NEW c \in StarknetChain PROVE StarknetRequests(starknet_keys, c) \subseteq RequestSet
    <2>1. Requests("header", FlattenedKeys(starknet_keys, c)) \subseteq RequestSet
        BY <1>1 DEF FlattenedKeys, HeaderKeysOf, RequestSet
    <2>2. \A k \in starknet_keys : k.kind = "storage" => k \in SlotKeys
        BY DEF StarknetKeys, HeaderKeys, SlotKeys, KeysOf
    <2>3. Requests("storage", OfKind(starknet_keys, "storage", c)) \subseteq RequestSet
        BY <2>2 DEF OfKind, HeaderKeysOf, RequestSet
    <2> QED
        BY <2>1, <2>3 DEF StarknetRequests
<1>4. BytecodeRequests(bytecode_keys) \subseteq RequestSet
    BY DEF BytecodeRequests, RequestSet
<1>5. (UNION {EvmRequests(evm_keys, c) : c \in EvmChain}) \subseteq RequestSet
    BY <1>2
<1>6. (UNION {StarknetRequests(starknet_keys, c) : c \in StarknetChain}) \subseteq RequestSet
    BY <1>3
<1> QED
    BY <1>4, <1>5, <1>6 DEF AllRequests

(* Every key is asked for. *)
LEMMA NoKeyIsSkipped ==
    ASSUME IInv, NEW key \in evm_keys \union starknet_keys
    PROVE  LET all == AllRequests(evm_keys, starknet_keys, bytecode_keys)
           IN  Request("header", HeaderKeyOf(key)) \in all /\ RequestFor(key) \in all
<1> DEFINE all == AllRequests(evm_keys, starknet_keys, bytecode_keys)
<1> USE DEF IInv, TypeOK, Requests, OfKind, HeaderKeysOf, RequestFor
<1>1. CASE key \in evm_keys
    <2>1. /\ key.chain \in EvmChain /\ key.kind \in {"header", "account", "storage", "tx", "receipt"}
          /\ key.kind = "header" => HeaderKeyOf(key) = key
        BY <1>1 DEF EvmKeys, HeaderKeys, AccountKeys, StorageKeys, IndexKeys, KeysOf, HeaderKeyOf, HeaderKey, Key
    <2>2. EvmRequests(evm_keys, key.chain) \subseteq all
        <3>1. EvmRequests(evm_keys, key.chain) \subseteq (UNION {EvmRequests(evm_keys, c) : c \in EvmChain})
            BY <2>1
        <3> QED
            BY <3>1 DEF AllRequests
    <2>3. HeaderKeyOf(key) \in FlattenedKeys(evm_keys, key.chain)
        BY <1>1 DEF FlattenedKeys
    <2>4. Request("header", HeaderKeyOf(key)) \in EvmRequests(evm_keys, key.chain)
        BY <2>3 DEF EvmRequests
    <2>5. RequestFor(key) \in EvmRequests(evm_keys, key.chain)
        BY <1>1, <2>1, <2>4 DEF EvmRequests
    <2> QED
        BY <2>2, <2>4, <2>5
<1>2. CASE key \in starknet_keys
    <2>1. /\ key.chain \in StarknetChain /\ key.kind \in {"header", "storage"}
          /\ key.kind = "header" => HeaderKeyOf(key) = key
        BY <1>2 DEF StarknetKeys, HeaderKeys, SlotKeys, KeysOf, HeaderKeyOf, HeaderKey, Key
    <2>2. StarknetRequests(starknet_keys, key.chain) \subseteq all
        <3>1. StarknetRequests(starknet_keys, key.chain)
                \subseteq (UNION {StarknetRequests(starknet_keys, c) : c \in StarknetChain})
            BY <2>1
        <3> QED
            BY <3>1 DEF AllRequests
    <2>3. HeaderKeyOf(key) \in FlattenedKeys(starknet_keys, key.chain)
        BY <1>2 DEF FlattenedKeys
    <2>4. Request("header", HeaderKeyOf(key)) \in StarknetRequests(starknet_keys, key.chain)
        BY <2>3 DEF StarknetRequests
    <2>5. RequestFor(key) \in StarknetRequests(starknet_keys, key.chain)
        BY <1>2, <2>1, <2>4 DEF StarknetRequests
    <2> QED
        BY <2>2, <2>4, <2>5
<1> QED
    BY <1>1, <1>2

(* One answer: a request is done with, and what was asked for is there. *)
LEMMA AnswerKept ==
    ASSUME IInv, fetching, NEW r \in pending, pending' = pending \ {r},
           UNCHANGED dry, fetching' = fetching,
           Headers(fetched) \subseteq Headers(fetched'), Items(fetched) \subseteq Items(fetched'),
           \A key \in evm_keys \union starknet_keys :
               /\ r = Request("header", HeaderKeyOf(key)) => HasHeader(fetched', key)
               /\ r = RequestFor(key) => HasItem(fetched', key)
    PROVE  NothingForgotten'
<1> SUFFICES ASSUME NEW key \in evm_keys \union starknet_keys
             PROVE  /\ Request("header", HeaderKeyOf(key)) \in pending' \/ HasHeader(fetched', key)
                    /\ RequestFor(key) \in pending' \/ HasItem(fetched', key)
    BY DEF NothingForgotten, dry, key_sets
<1>1. /\ Request("header", HeaderKeyOf(key)) \in pending \/ HasHeader(fetched, key)
      /\ RequestFor(key) \in pending \/ HasItem(fetched, key)
    BY DEF IInv, NothingForgotten
<1>2. HasHeader(fetched, key) => HasHeader(fetched', key)
    BY DEF HasHeader
<1>3. HasItem(fetched, key) => HasItem(fetched', key)
    BY DEF HasItem
<1> QED
    BY <1>1, <1>2, <1>3

(* Which requests there are, and for what. *)
LEMMA RequestCases ==
    ASSUME IInv, NEW r \in pending
    PROVE  /\ r.key.chain \in Chain /\ r.key.block \in Block
           /\ r.part = "account" => r.key \in AccountKeys
           /\ r.part = "storage" => r.key \in StorageKeys \union SlotKeys
           /\ r.part \in {"receipt", "tx"} => r.key.chain \in EvmChain
           /\ r.part = "bytecode" => r.key \in BytecodeKeys
           /\ \A key \in evm_keys \union starknet_keys :
                /\ r = Request("header", HeaderKeyOf(key)) =>
                     r.part = "header" /\ r.key.chain = key.chain /\ r.key.block = key.block
                /\ r = RequestFor(key) =>
                     /\ r.part = key.kind
                     /\ r.key.chain = key.chain /\ r.key.block = key.block
                     /\ key.kind \in {"account", "storage"} => r.key = key
                     /\ key.kind \in {"receipt", "tx"} => key \in evm_keys /\ key \in IndexKeys(key.kind)
<1>1. r \in RequestSet
    BY DEF IInv, TypeOK
<1>2. /\ r.key.chain \in Chain /\ r.key.block \in Block
      /\ r.part = "account" => r.key \in AccountKeys
      /\ r.part = "storage" => r.key \in StorageKeys \union SlotKeys
      /\ r.part \in {"receipt", "tx"} => r.key.chain \in EvmChain
      /\ r.part = "bytecode" => r.key \in BytecodeKeys
    BY <1>1, ChainAssumption
       DEF RequestSet, HeaderKeys, AccountKeys, StorageKeys, SlotKeys, BytecodeKeys, KeysOf
<1>3. ASSUME NEW key \in evm_keys \union starknet_keys
      PROVE  /\ r = Request("header", HeaderKeyOf(key)) =>
                  r.part = "header" /\ r.key.chain = key.chain /\ r.key.block = key.block
             /\ r = RequestFor(key) =>
                  /\ r.part = key.kind
                  /\ r.key.chain = key.chain /\ r.key.block = key.block
                  /\ key.kind \in {"account", "storage"} => r.key = key
                  /\ key.kind \in {"receipt", "tx"} => key \in evm_keys /\ key \in IndexKeys(key.kind)
    <2>1. key.kind \in {"receipt", "tx"} => key \in evm_keys /\ key \in IndexKeys(key.kind)
        BY DEF IInv, TypeOK, EvmKeys, StarknetKeys, HeaderKeys, AccountKeys, StorageKeys, SlotKeys,
               IndexKeys, KeysOf
    <2> QED
        BY <2>1 DEF RequestFor, Request, HeaderKeyOf, HeaderKey, Key
<1> QED
    BY <1>2, <1>3

LEMMA HeaderCollected ==
    ASSUME IInv, NEW r \in pending, CollectHeader(r), UNCHANGED dry
    PROVE  fetched' \in ProofSets /\ InOwnChain(fetched') /\ NothingForgotten'
<1> DEFINE c == r.key.chain
           old == fetched.chain[c]
           header == Header(c, r.key.block, "committed")
           meta == MmrProof(c)
           batches == AddHeader(old.batches, meta, header)
           q == [old EXCEPT !.batches = batches]
<1> USE RequestCases
<1>0. c \in Chain /\ fetched \in ProofSets /\ InOwnChain(fetched) /\ old \in ChainProofSets
    BY DEF IInv, TypeOK, ProofSets
<1>1. fetched' = [fetched EXCEPT !.chain[c] = q]
    BY <1>0 DEF CollectHeader, ProofSets
<1>2. header \in HeaderSet /\ meta \in [chain : Chain, size : Nat, hasher : HashingFunction] /\ meta.chain = c
    BY <1>0, FetchAssumption DEF Header, HeaderSet, View, MmrProof, Meta, IInv, TypeOK
<1>3. /\ batches \subseteq Batches
      /\ \A b \in batches : b.meta.chain = c
      /\ \A b \in old.batches : \E d \in batches : b.headers \subseteq d.headers
      /\ \E d \in batches : header \in d.headers
    <2> DEFINE same == {b \in old.batches : b.meta = meta}
               new == [meta |-> meta,
                       headers |-> {header} \union (UNION {b.headers : b \in same}),
                       proven |-> {meta.size} \union (UNION {b.proven : b \in same})]
    <2>1. batches = (old.batches \ same) \union {new}
        BY DEF AddHeader
    <2>2. old.batches \subseteq Batches /\ \A b \in old.batches : b.meta.chain = c
        BY <1>0 DEF ChainProofSets, InOwnChain
    <2>3. \A b \in same : b.headers \subseteq HeaderSet /\ b.headers \subseteq new.headers /\ b.proven \subseteq Nat
        BY <2>2 DEF Batches
    <2>4. new \in Batches
        BY <1>2, <2>3 DEF Batches
    <2>5. \A b \in old.batches : \E d \in batches : b.headers \subseteq d.headers
        BY <2>1, <2>3
    <2>6. new.meta = meta /\ header \in new.headers /\ new \in batches
        BY <2>1
    <2>7. batches \subseteq Batches /\ \A b \in batches : b.meta.chain = c
        BY <1>2, <2>1, <2>2, <2>4, <2>6
    <2> QED
        BY <2>5, <2>6, <2>7
<1>4. q \in ChainProofSets /\ q.batches = batches /\ q.accounts = old.accounts /\ q.storages = old.storages
      /\ q.txs = old.txs /\ q.receipts = old.receipts
    BY <1>0, <1>3 DEF ChainProofSets
<1>5. /\ fetched' \in ProofSets /\ InOwnChain(fetched')
      /\ Headers(fetched) \subseteq Headers(fetched') /\ Items(fetched) \subseteq Items(fetched')
      /\ \A b \in batches : b.headers \subseteq Headers(fetched')
    <2>1. /\ c \in EvmChain => q.storages \subseteq ItemsOf(StorageKeys)
          /\ c \in StarknetChain => q.storages \subseteq ItemsOf(SlotKeys)
        BY <1>0, <1>4 DEF InOwnChain
    <2>2. /\ fetched.chain[c].accounts \subseteq q.accounts /\ fetched.chain[c].storages \subseteq q.storages
          /\ fetched.chain[c].txs \subseteq q.txs /\ fetched.chain[c].receipts \subseteq q.receipts
          /\ \A b \in fetched.chain[c].batches : \E d \in q.batches : b.headers \subseteq d.headers
          /\ \A b \in q.batches : b.meta.chain = c
        BY <1>3, <1>4
    <2> HIDE DEF q, batches, c
    <2> QED
        BY <1>0, <1>1, <1>4, <2>1, <2>2, ProofsGrow
<1>6. header \in Headers(fetched') /\ header.chain = c /\ header.block = r.key.block
    BY <1>3, <1>5 DEF Header
<1>7. r.part = "header"
    BY DEF CollectHeader, Asking
<1>8. \A key \in evm_keys \union starknet_keys :
          /\ r = Request("header", HeaderKeyOf(key)) => HasHeader(fetched', key)
          /\ r = RequestFor(key) => HasItem(fetched', key)
    BY <1>6, <1>7 DEF HasHeader, HasItem
<1>9. fetching /\ pending' = pending \ {r} /\ fetching' = fetching
    BY DEF CollectHeader, Asking, Got
<1> QED
    BY <1>5, <1>8, <1>9, AnswerKept

LEMMA ItemsCollected ==
    ASSUME IInv, fetching, NEW r \in pending, r.part # "header", Got(r), UNCHANGED dry,
           NEW q \in ChainProofSets, fetched' = [fetched EXCEPT !.chain[r.key.chain] = q],
           q.batches = fetched.chain[r.key.chain].batches,
           fetched.chain[r.key.chain].accounts \subseteq q.accounts,
           fetched.chain[r.key.chain].storages \subseteq q.storages,
           fetched.chain[r.key.chain].txs \subseteq q.txs,
           fetched.chain[r.key.chain].receipts \subseteq q.receipts,
           r.key.chain \in EvmChain => q.storages \subseteq ItemsOf(StorageKeys),
           r.key.chain \in StarknetChain => q.storages \subseteq ItemsOf(SlotKeys),
           \A key \in evm_keys \union starknet_keys : r = RequestFor(key) =>
               /\ key.kind \in {"account", "storage"} => \E i \in q.accounts \union q.storages : i.key = key
               /\ key.kind \in {"tx", "receipt"} => \E i \in q.txs \union q.receipts : i.key = TrieKey(key)
    PROVE  fetched' \in ProofSets /\ InOwnChain(fetched') /\ NothingForgotten'
<1> DEFINE c == r.key.chain
<1>1. c \in Chain /\ fetched \in ProofSets /\ InOwnChain(fetched)
    BY RequestCases DEF IInv, TypeOK
<1>2. /\ \A b \in q.batches : b.meta.chain = c
      /\ \A b \in fetched.chain[c].batches : \E d \in q.batches : b.headers \subseteq d.headers
    BY <1>1 DEF InOwnChain
<1>3. /\ fetched' \in ProofSets /\ InOwnChain(fetched')
      /\ Headers(fetched) \subseteq Headers(fetched') /\ Items(fetched) \subseteq Items(fetched')
      /\ q.accounts \union q.storages \union q.txs \union q.receipts \subseteq Items(fetched')
    <2>1. /\ fetched' = [fetched EXCEPT !.chain[c] = q]
          /\ fetched.chain[c].accounts \subseteq q.accounts /\ fetched.chain[c].storages \subseteq q.storages
          /\ fetched.chain[c].txs \subseteq q.txs /\ fetched.chain[c].receipts \subseteq q.receipts
          /\ c \in EvmChain => q.storages \subseteq ItemsOf(StorageKeys)
          /\ c \in StarknetChain => q.storages \subseteq ItemsOf(SlotKeys)
        OBVIOUS
    <2> DEFINE p == fetched
               s == fetched'
    <2>2. /\ c \in Chain /\ p \in ProofSets /\ InOwnChain(p) /\ s = [p EXCEPT !.chain[c] = q]
          /\ \A b \in q.batches : b.meta.chain = c
          /\ p.chain[c].accounts \subseteq q.accounts /\ p.chain[c].storages \subseteq q.storages
          /\ p.chain[c].txs \subseteq q.txs /\ p.chain[c].receipts \subseteq q.receipts
          /\ \A b \in p.chain[c].batches : \E d \in q.batches : b.headers \subseteq d.headers
        BY <1>1, <1>2, <2>1
    <2> HIDE DEF c, p, s
    <2>3. /\ s \in ProofSets /\ InOwnChain(s)
          /\ Headers(p) \subseteq Headers(s) /\ Items(p) \subseteq Items(s)
          /\ q.accounts \union q.storages \union q.txs \union q.receipts \subseteq Items(s)
        BY <2>1, <2>2, ProofsGrow
    <2> QED
        BY <2>3 DEF p, s
<1>4. \A key \in evm_keys \union starknet_keys :
          /\ r = Request("header", HeaderKeyOf(key)) => HasHeader(fetched', key)
          /\ r = RequestFor(key) => HasItem(fetched', key)
    BY <1>3, RequestCases DEF HasItem
<1>5. pending' = pending \ {r} /\ fetching' = fetching
    BY DEF Got
<1> QED
    BY <1>3, <1>4, <1>5, AnswerKept

LEMMA AnItem ==
    ASSUME NEW keys, NEW key \in keys, key.chain \in Chain, key.block \in Block, NEW view \in View
    PROVE  ItemIn(key, view) \in ItemsOf(keys) /\ ItemIn(key, view).key = key
BY DEF ItemIn, Item, ItemsOf, Header, HeaderSet

LEMMA AnIndexedItem ==
    ASSUME NEW kind, NEW key \in IndexKeys(kind), NEW view \in View
    PROVE  LET i == Item(TrieKey(key), Header(key.chain, key.block, view))
           IN  i \in ItemsOf(IndexKeys(kind)) /\ i.key = TrieKey(key)
<1>1. Rlp!RlpKey(key.at[1]) \in Nat
    BY DEF IndexKeys, KeysOf, Rlp!RlpKey
<1>2. TrieKey(key) \in IndexKeys(kind)
    <2>1. <<Rlp!RlpKey(key.at[1])>> \in [1..1 -> Nat]
        BY <1>1
    <2> QED
        BY <2>1 DEF TrieKey, IndexKeys, KeysOf
<1>3. Header(key.chain, key.block, view) \in HeaderSet
    BY ChainAssumption DEF Header, HeaderSet, IndexKeys, KeysOf
<1> QED
    BY <1>2, <1>3 DEF Item, ItemsOf

LEMMA FetchOneInv ==
    ASSUME IInv, FetchOne(evm_keys), UNCHANGED dry
    PROVE  fetched' \in ProofSets /\ InOwnChain(fetched') /\ NothingForgotten'
<1> PICK r \in pending :
       \/ FetchEvmHeader(r) \/ FetchStarknetHeader(r)
       \/ \E view \in View :
             \/ FetchAccount(r, view) \/ FetchStorage(r, view) \/ FetchStarknetStorage(r, view)
             \/ FetchReceipts(r, view, evm_keys) \/ FetchTxs(r, view, evm_keys)
             \/ FetchBytecode(r, view)
    BY DEF FetchOne
<1> DEFINE c == r.key.chain
           old == fetched.chain[c]
<1>0. /\ c \in Chain /\ fetched \in ProofSets /\ InOwnChain(fetched) /\ old \in ChainProofSets
      /\ c \in EvmChain => old.storages \subseteq ItemsOf(StorageKeys)
      /\ c \in StarknetChain => old.storages \subseteq ItemsOf(SlotKeys)
    BY RequestCases DEF IInv, TypeOK, ProofSets, InOwnChain
<1>1. CASE FetchEvmHeader(r) \/ FetchStarknetHeader(r)
    BY <1>1, HeaderCollected DEF FetchEvmHeader, FetchStarknetHeader
<1>2. ASSUME NEW view \in View, FetchAccount(r, view)
      PROVE  fetched' \in ProofSets /\ InOwnChain(fetched') /\ NothingForgotten'
    <2> DEFINE q == [old EXCEPT !.accounts = @ \union {ItemIn(r.key, view)}]
    <2>1. fetching /\ r.part = "account" /\ Got(r)
        BY <1>2 DEF FetchAccount, Asking
    <2>2. fetched' = [fetched EXCEPT !.chain[c] = q]
        BY <1>2, <1>0 DEF FetchAccount, Collected, ProofSets, ChainProofSets
    <2>3. ItemIn(r.key, view) \in ItemsOf(AccountKeys) /\ ItemIn(r.key, view).key = r.key
        BY <2>1, RequestCases, AnItem
    <2>4. q \in ChainProofSets /\ q.accounts = old.accounts \union {ItemIn(r.key, view)}
          /\ q.storages = old.storages /\ q.txs = old.txs /\ q.receipts = old.receipts
          /\ q.batches = old.batches
        BY <1>0, <2>3 DEF ChainProofSets
    <2>5. \A key \in evm_keys \union starknet_keys : r = RequestFor(key) =>
              key.kind = "account" /\ r.key = key
        BY <2>1, RequestCases
    <2> HIDE DEF q
    <2> QED
        BY <1>0, <2>1, <2>2, <2>3, <2>4, <2>5, ItemsCollected
<1>3. ASSUME NEW view \in View, FetchStorage(r, view)
      PROVE  fetched' \in ProofSets /\ InOwnChain(fetched') /\ NothingForgotten'
    <2> DEFINE a == ItemIn(AccountKeyOf(r.key), view)
               i == ItemIn(r.key, view)
               q == [old EXCEPT !.accounts = @ \union {a}, !.storages = @ \union {i}]
    <2>1. fetching /\ r.part = "storage" /\ Got(r) /\ c \in EvmChain
        BY <1>3, ZenonT(60) DEF FetchStorage, Asking
    <2>2. fetched' = [fetched EXCEPT !.chain[c] = q]
        BY <1>3, <1>0, ZenonT(60) DEF FetchStorage, ProofSets, ChainProofSets
    <2>3. r.key \in StorageKeys
        BY <2>1, RequestCases, ChainAssumption DEF SlotKeys, KeysOf
    <2>4. AccountKeyOf(r.key) \in AccountKeys
        <3>1. r.key.at[1] \in Place
            BY <2>3 DEF StorageKeys, KeysOf, Places
        <3>2. <<r.key.at[1]>> \in [1..1 -> Place]
            BY <3>1
        <3> QED
            BY <2>3, <3>2 DEF AccountKeyOf, AccountKey, Key, AccountKeys, StorageKeys, KeysOf, Places
    <2>5. AccountKeyOf(r.key).chain = c /\ AccountKeyOf(r.key).block = r.key.block
        BY DEF AccountKeyOf, AccountKey, Key
    <2>6. a \in ItemsOf(AccountKeys) /\ i \in ItemsOf(StorageKeys) /\ i.key = r.key
        BY <2>3, <2>4, <2>5, RequestCases, AnItem
    <2>7. q \in ChainProofSets /\ q.accounts = old.accounts \union {a}
          /\ q.storages = old.storages \union {i} /\ q.txs = old.txs /\ q.receipts = old.receipts
          /\ q.batches = old.batches
        <3>1. i \in ItemsOf(StorageKeys \union SlotKeys)
            BY <2>6 DEF ItemsOf
        <3> HIDE DEF a, i
        <3> QED
            BY <1>0, <2>6, <3>1 DEF ChainProofSets
    <2>8. \A key \in evm_keys \union starknet_keys : r = RequestFor(key) =>
              key.kind = "storage" /\ r.key = key
        BY <2>1, RequestCases
    <2>9. q.storages \subseteq ItemsOf(StorageKeys) /\ c \notin StarknetChain
        BY <1>0, <2>1, <2>6, <2>7, ChainAssumption
    <2> HIDE DEF q, a, i
    <2> QED
        BY <1>0, <2>1, <2>2, <2>6, <2>7, <2>8, <2>9, ItemsCollected
<1>4. ASSUME NEW view \in View, FetchStarknetStorage(r, view)
      PROVE  fetched' \in ProofSets /\ InOwnChain(fetched') /\ NothingForgotten'
    <2> DEFINE i == ItemIn(r.key, view)
               q == [old EXCEPT !.storages = @ \union {i}]
    <2>1. fetching /\ r.part = "storage" /\ Got(r) /\ c \in StarknetChain
        BY <1>4 DEF FetchStarknetStorage, Asking
    <2>2. fetched' = [fetched EXCEPT !.chain[c] = q]
        BY <1>4, <1>0 DEF FetchStarknetStorage, Collected, ProofSets, ChainProofSets
    <2>3. r.key \in SlotKeys
        BY <2>1, RequestCases, ChainAssumption DEF StorageKeys, KeysOf
    <2>4. i \in ItemsOf(SlotKeys) /\ i.key = r.key
        BY <2>3, RequestCases, AnItem
    <2>5. q \in ChainProofSets /\ q.accounts = old.accounts
          /\ q.storages = old.storages \union {i} /\ q.txs = old.txs /\ q.receipts = old.receipts
          /\ q.batches = old.batches
        <3>1. i \in ItemsOf(StorageKeys \union SlotKeys)
            BY <2>4 DEF ItemsOf
        <3> HIDE DEF i
        <3> QED
            BY <1>0, <3>1 DEF ChainProofSets
    <2>6. \A key \in evm_keys \union starknet_keys : r = RequestFor(key) =>
              key.kind = "storage" /\ r.key = key
        BY <2>1, RequestCases
    <2>7. q.storages \subseteq ItemsOf(SlotKeys) /\ c \notin EvmChain
        BY <1>0, <2>1, <2>4, <2>5, ChainAssumption
    <2> HIDE DEF q, i
    <2> QED
        BY <1>0, <2>1, <2>2, <2>4, <2>5, <2>6, <2>7, ItemsCollected
<1>5. ASSUME NEW view \in View, FetchReceipts(r, view, evm_keys)
      PROVE  fetched' \in ProofSets /\ InOwnChain(fetched') /\ NothingForgotten'
    <2> DEFINE items == {ReceiptProof(k, view) : k \in InBlock(evm_keys, r, "receipt")}
               q == [old EXCEPT !.receipts = @ \union items]
    <2>1. fetching /\ r.part = "receipt" /\ Got(r)
        BY <1>5 DEF FetchReceipts, Asking
    <2>2. fetched' = [fetched EXCEPT !.chain[c] = q]
        BY <1>5, <1>0 DEF FetchReceipts, Collected, ProofSets, ChainProofSets
    <2>3. \A k \in InBlock(evm_keys, r, "receipt") :
              ReceiptProof(k, view) \in ItemsOf(IndexKeys("receipt")) /\ ReceiptProof(k, view).key = TrieKey(k)
        <3>1. \A k \in InBlock(evm_keys, r, "receipt") : k \in IndexKeys("receipt")
            BY DEF InBlock, OfKind, IInv, TypeOK, EvmKeys, HeaderKeys, AccountKeys, StorageKeys, IndexKeys, KeysOf
        <3> QED
            BY <3>1, AnIndexedItem DEF ReceiptProof
    <2>4. items \subseteq ItemsOf(IndexKeys("receipt"))
        BY <2>3
    <2>5. q \in ChainProofSets /\ q.accounts = old.accounts
          /\ q.storages = old.storages /\ q.txs = old.txs /\ q.receipts = old.receipts \union items
          /\ q.batches = old.batches
        <3> HIDE DEF items
        <3> QED
            BY <1>0, <2>4 DEF ChainProofSets
    <2>6. \A key \in evm_keys \union starknet_keys : r = RequestFor(key) =>
              key.kind = "receipt" /\ \E i \in items : i.key = TrieKey(key)
        <3> SUFFICES ASSUME NEW key \in evm_keys \union starknet_keys, r = RequestFor(key)
                     PROVE  key.kind = "receipt" /\ \E i \in items : i.key = TrieKey(key)
            OBVIOUS
        <3>1. key.kind = "receipt" /\ key \in InBlock(evm_keys, r, "receipt")
            BY <2>1, RequestCases DEF InBlock, OfKind
        <3> QED
            BY <3>1, <2>3
    <2> HIDE DEF q, items
    <2> QED
        BY <1>0, <2>1, <2>2, <2>5, <2>6, ItemsCollected
<1>6. ASSUME NEW view \in View, FetchTxs(r, view, evm_keys)
      PROVE  fetched' \in ProofSets /\ InOwnChain(fetched') /\ NothingForgotten'
    <2> DEFINE items == {TransactionProof(k, view) : k \in InBlock(evm_keys, r, "tx")}
               q == [old EXCEPT !.txs = @ \union items]
    <2>1. fetching /\ r.part = "tx" /\ Got(r)
        BY <1>6 DEF FetchTxs, Asking
    <2>2. fetched' = [fetched EXCEPT !.chain[c] = q]
        BY <1>6, <1>0 DEF FetchTxs, Collected, ProofSets, ChainProofSets
    <2>3. \A k \in InBlock(evm_keys, r, "tx") :
              TransactionProof(k, view) \in ItemsOf(IndexKeys("tx")) /\ TransactionProof(k, view).key = TrieKey(k)
        <3>1. \A k \in InBlock(evm_keys, r, "tx") : k \in IndexKeys("tx")
            BY DEF InBlock, OfKind, IInv, TypeOK, EvmKeys, HeaderKeys, AccountKeys, StorageKeys, IndexKeys, KeysOf
        <3> QED
            BY <3>1, AnIndexedItem DEF TransactionProof
    <2>4. items \subseteq ItemsOf(IndexKeys("tx"))
        BY <2>3
    <2>5. q \in ChainProofSets /\ q.accounts = old.accounts
          /\ q.storages = old.storages /\ q.txs = old.txs \union items /\ q.receipts = old.receipts
          /\ q.batches = old.batches
        <3> HIDE DEF items
        <3> QED
            BY <1>0, <2>4 DEF ChainProofSets
    <2>6. \A key \in evm_keys \union starknet_keys : r = RequestFor(key) =>
              key.kind = "tx" /\ \E i \in items : i.key = TrieKey(key)
        <3> SUFFICES ASSUME NEW key \in evm_keys \union starknet_keys, r = RequestFor(key)
                     PROVE  key.kind = "tx" /\ \E i \in items : i.key = TrieKey(key)
            OBVIOUS
        <3>1. key.kind = "tx" /\ key \in InBlock(evm_keys, r, "tx")
            BY <2>1, RequestCases DEF InBlock, OfKind
        <3> QED
            BY <3>1, <2>3
    <2> HIDE DEF q, items
    <2> QED
        BY <1>0, <2>1, <2>2, <2>5, <2>6, ItemsCollected
<1>7. ASSUME NEW view \in View, FetchBytecode(r, view)
      PROVE  fetched' \in ProofSets /\ InOwnChain(fetched') /\ NothingForgotten'
    <2> DEFINE i == ItemIn(r.key, view)
    <2>1. /\ fetching /\ r.part = "bytecode" /\ pending' = pending \ {r} /\ fetching' = fetching
          /\ fetched' = [fetched EXCEPT !.bytecode = @ \union {i}]
        BY <1>7 DEF FetchBytecode, Asking, Got
    <2>2. i \in ItemsOf(BytecodeKeys)
        BY <2>1, RequestCases, AnItem
    <2>3. fetched' \in ProofSets /\ fetched'.chain = fetched.chain
          /\ fetched'.bytecode = fetched.bytecode \union {i}
        <3> HIDE DEF i
        <3> QED
            BY <1>0, <2>1, <2>2 DEF ProofSets
    <2>4. InOwnChain(fetched') /\ Headers(fetched) \subseteq Headers(fetched')
          /\ Items(fetched) \subseteq Items(fetched')
        BY <1>0, <2>3 DEF InOwnChain, Headers, Items
    <2>5. \A key \in evm_keys \union starknet_keys :
              /\ r # Request("header", HeaderKeyOf(key))
              /\ r = RequestFor(key) => key.kind = "bytecode"
        BY <2>1, RequestCases
    <2>6. \A key \in evm_keys \union starknet_keys : r = RequestFor(key) => HasItem(fetched', key)
        BY <2>5 DEF HasItem
    <2> QED
        BY <2>1, <2>3, <2>4, <2>5, <2>6, AnswerKept
<1> QED
    BY <1>1, <1>2, <1>3, <1>4, <1>5, <1>6, <1>7

(* The steps between the commands, and those of the services. *)
LEMMA FetchStepInv ==
    ASSUME IInv, RunFetcher \/ Fetching \/ Grow \/ GiveUp \/ RunSound \/ LoadFails
    PROVE  IInv'
<1> USE DEF fetch, collectors, dry, key_sets
<1>1. At("fetch") /\ UNCHANGED <<dry, sound, output>>
      /\ stage' \in {"fetch", "verify", "failed", "gave_up"}
    BY DEF RunFetcher, Fetching, Grow, GiveUp, RunSound, LoadFails, At, Enter
<1>2. /\ MemorizersTyped' /\ MemorizersTrue' /\ HeadersCommitted' /\ Segment'
      /\ idx' = idx /\ part' = part /\ part = "load" /\ left' = left
    BY <1>1, SoundRunWaits DEF At, Stages
<1>3. /\ fetched' \in ProofSets /\ InOwnChain(fetched')
      /\ NothingForgotten'
      /\ pending' \subseteq RequestSet
      /\ fetches' \in 0..MaxFetches /\ fetching' \in BOOLEAN /\ fresh' \in BOOLEAN
      /\ accumulated' \in [Chain -> 0..MaxSize]
      /\ file' \in ProofSets \union {NoFile, TornFile} /\ (CanBeRead(file') => InOwnChain(file'))
      /\ fetching' => stage' = "fetch" /\ ~fresh'
      /\ fresh' \/ stage' = "verify" => CanBeRead(file')
    <2>0. /\ fetching => stage = "fetch" /\ ~fresh
          /\ fresh => CanBeRead(file)
        BY DEF IInv, FileInUse
    <2> USE <2>0 DEF IInv, TypeOK
    <2>1. CASE RunFetcher
        <3>1. /\ StartFetch(evm_keys, starknet_keys, bytecode_keys)
              /\ stage' = "fetch"
            BY <2>1 DEF RunFetcher, At
        <3>2. pending' \subseteq RequestSet
            BY <3>1, RequestsTyped DEF StartFetch
        <3>3. NothingForgotten'
            BY <1>1, <3>1, NoKeyIsSkipped DEF StartFetch, NothingForgotten
        <3>4. fetched' \in ProofSets /\ InOwnChain(fetched')
            BY <3>1, NothingCollected DEF StartFetch
        <3>5. fetches' \in 0..MaxFetches
            BY <3>1, FetchAssumption DEF StartFetch
        <3> QED
            BY <3>1, <3>2, <3>3, <3>4, <3>5 DEF StartFetch
    <2>2. CASE Fetching /\ FetchOne(evm_keys)
        <3>1. fetched' \in ProofSets /\ InOwnChain(fetched') /\ NothingForgotten'
            BY <1>1, <2>2, FetchOneInv
        <3>2. /\ pending' \subseteq pending
              /\ UNCHANGED <<accumulated, fetching, file, fresh, fetches>>
            BY <2>2, ZenonT(60) DEF FetchOne, FetchEvmHeader, FetchStarknetHeader, CollectHeader, FetchAccount, FetchStorage,
                        FetchStarknetStorage, FetchReceipts, FetchTxs, FetchBytecode, Got
        <3>3. stage' = "fetch"
            BY <2>2 DEF Fetching, At
        <3> QED
            BY <3>1, <3>2, <3>3
    <2>3. CASE Fetching /\ FetchFails
        BY <2>3, NothingCollected DEF Fetching, FetchFails, NothingForgotten, At
    <2>4. CASE Fetching /\ WriteProofs
        BY <2>4, NothingCollected, FetchAssumption DEF Fetching, WriteProofs, NothingForgotten, At, CanBeRead
    <2>5. CASE Grow
        <3>1. PICK chain \in Chain : AccumulatorGrows(chain)
            BY <2>5 DEF Grow
        <3>2. accumulated' \in [Chain -> 0..MaxSize]
            BY <3>1, FetchAssumption DEF AccumulatorGrows
        <3> QED
            BY <1>1, <2>5, <3>1, <3>2 DEF Grow, AccumulatorGrows, NothingForgotten, At
    <2>6. CASE GiveUp \/ RunSound \/ LoadFails
        BY <1>1, <2>6 DEF GiveUp, RunSound, LoadFails, NothingForgotten, Enter
    <2>7. CASE Fetching /\ WriteFails
        BY <2>7, NothingCollected DEF Fetching, WriteFails, NothingForgotten, At, CanBeRead
    <2> QED
        BY <2>1, <2>2, <2>3, <2>4, <2>5, <2>6, <2>7 DEF Fetching
<1>4. TypeOK'
    BY <1>1, <1>3 DEF IInv, TypeOK, sound, verifier, mmr_metas, run, Stages
<1>5. FileInUse'
    BY <1>1, <1>2, <1>3 DEF IInv, FileInUse, Loaded, NotStarted, At
<1> QED
    BY <1>2, <1>3, <1>4, <1>5 DEF IInv

-----------------------------------------------------------------------------
(* Keys. *)

LEMMA OnePlace == ASSUME NEW S, NEW s \in [1..1 -> S] PROVE s = <<s[1]>> /\ s[1] \in S
OBVIOUS

LEMMA TwoPlaces == ASSUME NEW S, NEW s \in [1..2 -> S] PROVE s = <<s[1], s[2]>> /\ s[1] \in S
OBVIOUS

LEMMA ThreePlaces == ASSUME NEW S, NEW s \in [1..3 -> S] PROVE s = <<s[1], s[2], s[3]>> /\ s[1] \in S
OBVIOUS

(* What a key is, by its kind. *)
LEMMA EvmKeyCases ==
    ASSUME NEW key \in EvmKeys
    PROVE  /\ key = [kind |-> key.kind, chain |-> key.chain, block |-> key.block, at |-> key.at]
           /\ key.kind \in {"header", "account", "storage", "tx", "receipt"}
           /\ key.chain \in EvmChain /\ key.chain \in Chain /\ key.chain \notin StarknetChain /\ key.block \in Block
           /\ key.kind = "header" => key.at = <<>> /\ HashParams(key) = <<key.chain, key.block>>
           /\ key.kind = "account" =>
                /\ key.at = <<key.at[1]>> /\ key.at[1] \in Place /\ key \in AccountKeys
                /\ HashParams(key) = <<key.chain, key.block, key.at[1]>>
           /\ key.kind = "storage" =>
                /\ key.at = <<key.at[1], key.at[2], key.at[3]>> /\ key.at[1] \in Place /\ key \in StorageKeys
                /\ HashParams(key) = <<key.chain, key.block, key.at[1], key.at[2], key.at[3]>>
           /\ key.kind = "tx" =>
                /\ key.at = <<key.at[1]>> /\ key.at[1] \in Nat
                /\ HashParams(key) = <<key.chain, "block_tx", key.block, key.at[1]>>
           /\ key.kind = "receipt" =>
                /\ key.at = <<key.at[1]>> /\ key.at[1] \in Nat
                /\ HashParams(key) = <<key.chain, "block_receipt", key.block, key.at[1]>>
<1>1. /\ key \in HeaderKeys(EvmChain) \/ key \in AccountKeys \/ key \in StorageKeys
           \/ key \in IndexKeys("tx") \/ key \in IndexKeys("receipt")
    BY DEF EvmKeys
<1>2. /\ key = [kind |-> key.kind, chain |-> key.chain, block |-> key.block, at |-> key.at]
      /\ key.kind \in {"header", "account", "storage", "tx", "receipt"}
      /\ key.chain \in EvmChain /\ key.block \in Block
      /\ key.kind = "header" => key.at = <<>>
      /\ key.kind = "account" => key.at \in [1..1 -> Place] /\ key \in AccountKeys
      /\ key.kind = "storage" => key.at \in [1..3 -> Place] /\ key \in StorageKeys
      /\ key.kind \in {"tx", "receipt"} => key.at \in [1..1 -> Nat]
    BY <1>1 DEF HeaderKeys, AccountKeys, StorageKeys, IndexKeys, KeysOf, Places
<1>3. /\ key.kind = "account" => key.at = <<key.at[1]>> /\ key.at[1] \in Place
      /\ key.kind = "storage" => key.at = <<key.at[1], key.at[2], key.at[3]>> /\ key.at[1] \in Place
      /\ key.kind \in {"tx", "receipt"} => key.at = <<key.at[1]>> /\ key.at[1] \in Nat
    BY <1>2, OnePlace, ThreePlaces
<1>4. key.chain \in Chain /\ key.chain \notin StarknetChain
    BY <1>2, ChainAssumption
<1> QED
    BY <1>2, <1>3, <1>4 DEF HashParams

LEMMA StarknetKeyCases ==
    ASSUME NEW key \in StarknetKeys
    PROVE  /\ key = [kind |-> key.kind, chain |-> key.chain, block |-> key.block, at |-> key.at]
           /\ key.kind \in {"header", "storage"}
           /\ key.chain \in StarknetChain /\ key.chain \in Chain /\ key.block \in Block
           /\ key.kind = "header" => key.at = <<>> /\ HashParams(key) = <<key.chain, key.block>>
           /\ key.kind = "storage" =>
                /\ key.at = <<key.at[1], key.at[2]>> /\ key \in SlotKeys
                /\ HashParams(key) = <<key.chain, key.block, key.at[1], key.at[2]>>
<1>1. /\ key = [kind |-> key.kind, chain |-> key.chain, block |-> key.block, at |-> key.at]
      /\ key.kind \in {"header", "storage"}
      /\ key.chain \in StarknetChain /\ key.block \in Block
      /\ key.kind = "header" => key.at = <<>>
      /\ key.kind = "storage" => key.at \in [1..2 -> Place] /\ key \in SlotKeys
    BY DEF StarknetKeys, HeaderKeys, SlotKeys, KeysOf, Places
<1>2. key.kind = "storage" => key.at = <<key.at[1], key.at[2]>>
    BY <1>1, TwoPlaces
<1>3. key.chain \in Chain /\ key.chain \notin EvmChain
    BY <1>1, ChainAssumption
<1> QED
    BY <1>1, <1>2, <1>3 DEF HashParams

(* A key can be told from what is hashed. *)
LEMMA HashParts ==
    ASSUME NEW key
    PROVE  LET h == HashParams(key)
           IN  /\ key \in EvmKeys =>
                    /\ key.kind = "header" => Len(h) = 2 /\ h[1] = key.chain /\ h[2] = key.block
                    /\ key.kind = "account" =>
                         Len(h) = 3 /\ h[1] = key.chain /\ h[2] = key.block /\ h[3] = key.at[1]
                    /\ key.kind = "storage" =>
                         /\ Len(h) = 5 /\ h[1] = key.chain /\ h[2] = key.block
                         /\ h[3] = key.at[1] /\ h[4] = key.at[2] /\ h[5] = key.at[3]
                    /\ key.kind = "tx" =>
                         /\ Len(h) = 4 /\ h[1] = key.chain /\ h[2] = "block_tx"
                         /\ h[3] = key.block /\ h[4] = key.at[1]
                    /\ key.kind = "receipt" =>
                         /\ Len(h) = 4 /\ h[1] = key.chain /\ h[2] = "block_receipt"
                         /\ h[3] = key.block /\ h[4] = key.at[1]
               /\ key \in StarknetKeys =>
                    /\ key.kind = "header" => Len(h) = 2 /\ h[1] = key.chain /\ h[2] = key.block
                    /\ key.kind = "storage" =>
                         /\ Len(h) = 4 /\ h[1] = key.chain /\ h[2] = key.block
                         /\ h[3] = key.at[1] /\ h[4] = key.at[2]
<1>1. \A a, b, c, d, e :
          /\ Len(<<a, b>>) = 2 /\ <<a, b>>[1] = a /\ <<a, b>>[2] = b
          /\ Len(<<a, b, c>>) = 3 /\ <<a, b, c>>[1] = a /\ <<a, b, c>>[2] = b /\ <<a, b, c>>[3] = c
          /\ Len(<<a, b, c, d>>) = 4 /\ <<a, b, c, d>>[1] = a /\ <<a, b, c, d>>[2] = b
          /\ <<a, b, c, d>>[3] = c /\ <<a, b, c, d>>[4] = d
          /\ Len(<<a, b, c, d, e>>) = 5 /\ <<a, b, c, d, e>>[1] = a /\ <<a, b, c, d, e>>[2] = b
          /\ <<a, b, c, d, e>>[3] = c /\ <<a, b, c, d, e>>[4] = d /\ <<a, b, c, d, e>>[5] = e
    OBVIOUS
<1> QED
    BY <1>1, EvmKeyCases, StarknetKeyCases

(* Two data of a memorizer have two keys: no hash is of both, whatever the  *)
(* chains, blocks, addresses and indices.                                   *)
THEOREM KeysApart ==
    /\ \A k1, k2 \in EvmKeys : HashParams(k1) = HashParams(k2) => k1 = k2
    /\ \A k1, k2 \in StarknetKeys : HashParams(k1) = HashParams(k2) => k1 = k2
    /\ \A k1, k2 \in BytecodeKeys : HashParams(k1) = HashParams(k2) => k1 = k2
<1>1. ASSUME NEW k1 \in EvmKeys, NEW k2 \in EvmKeys, HashParams(k1) = HashParams(k2)
      PROVE  k1 = k2
    <2>1. /\ k1.kind \in {"header", "account", "storage", "tx", "receipt"}
          /\ k2.kind \in {"header", "account", "storage", "tx", "receipt"}
        BY EvmKeyCases
    <2>2. k1.kind = k2.kind
        BY <1>1, <2>1, HashParts
    <2>3. CASE k1.kind = "header"
        BY <1>1, <2>2, <2>3, EvmKeyCases, HashParts
    <2>4. CASE k1.kind = "account"
        BY <1>1, <2>2, <2>4, EvmKeyCases, HashParts
    <2>5. CASE k1.kind = "storage"
        BY <1>1, <2>2, <2>5, EvmKeyCases, HashParts
    <2>6. CASE k1.kind = "tx"
        BY <1>1, <2>2, <2>6, EvmKeyCases, HashParts
    <2>7. CASE k1.kind = "receipt"
        BY <1>1, <2>2, <2>7, EvmKeyCases, HashParts
    <2> QED
        BY <2>1, <2>3, <2>4, <2>5, <2>6, <2>7
<1>2. ASSUME NEW k1 \in StarknetKeys, NEW k2 \in StarknetKeys, HashParams(k1) = HashParams(k2)
      PROVE  k1 = k2
    <2>1. k1.kind \in {"header", "storage"} /\ k2.kind \in {"header", "storage"}
        BY StarknetKeyCases
    <2>2. k1.kind = k2.kind
        BY <1>2, <2>1, HashParts
    <2>3. CASE k1.kind = "header"
        BY <1>2, <2>2, <2>3, StarknetKeyCases, HashParts
    <2>4. CASE k1.kind = "storage"
        BY <1>2, <2>2, <2>4, StarknetKeyCases, HashParts
    <2> QED
        BY <2>1, <2>3, <2>4
<1>3. ASSUME NEW k1 \in BytecodeKeys, NEW k2 \in BytecodeKeys, HashParams(k1) = HashParams(k2)
      PROVE  k1 = k2
    <2>1. \A key \in BytecodeKeys :
              /\ key = [kind |-> "bytecode", chain |-> key.chain, block |-> key.block, at |-> <<key.at[1]>>]
              /\ HashParams(key) = <<key.chain, key.block, key.at[1]>>
        <3> SUFFICES ASSUME NEW key \in BytecodeKeys
                     PROVE  /\ key = [kind |-> "bytecode", chain |-> key.chain, block |-> key.block, at |-> <<key.at[1]>>]
                            /\ HashParams(key) = <<key.chain, key.block, key.at[1]>>
            OBVIOUS
        <3>1. /\ key.at \in [1..1 -> Place] /\ key.kind = "bytecode"
              /\ key = [kind |-> "bytecode", chain |-> key.chain, block |-> key.block, at |-> key.at]
            BY DEF BytecodeKeys, KeysOf, Places
        <3>2. key.at = <<key.at[1]>>
            BY <3>1, OnePlace
        <3> QED
            BY <3>1, <3>2 DEF HashParams
    <2>2. \A a, b, c : <<a, b, c>>[1] = a /\ <<a, b, c>>[2] = b /\ <<a, b, c>>[3] = c
        OBVIOUS
    <2>3. k1.chain = k2.chain /\ k1.block = k2.block /\ k1.at[1] = k2.at[1]
        BY <1>3, <2>1, <2>2
    <2> QED
        BY <2>1, <2>3
<1> QED
    BY <1>1, <1>2, <1>3

-----------------------------------------------------------------------------
(* The verifiers. *)

(* What is added to a memorizer is there under its own key. *)
LEMMA Stored ==
    ASSUME NEW dict, NEW keys, NEW items, items \subseteq ItemsOf(keys),
           \A i \in items : i.root = Header(i.key.chain, i.key.block, "committed"),
           \A k \in DOMAIN dict :
               /\ dict[k] \in ItemsOf(keys) /\ HashParams(dict[k].key) = k
               /\ dict[k].root = Header(dict[k].key.chain, dict[k].key.block, "committed"),
           NEW s, s = Store(dict, items)
    PROVE  \A k \in DOMAIN s :
               /\ s[k] \in ItemsOf(keys) /\ HashParams(s[k].key) = k
               /\ s[k].root = Header(s[k].key.chain, s[k].key.block, "committed")
               /\ s[k] \in items \/ (k \in DOMAIN dict /\ s[k] = dict[k])
<1> SUFFICES ASSUME NEW k \in DOMAIN s
             PROVE  /\ s[k] \in ItemsOf(keys) /\ HashParams(s[k].key) = k
                    /\ s[k].root = Header(s[k].key.chain, s[k].key.block, "committed")
                    /\ s[k] \in items \/ (k \in DOMAIN dict /\ s[k] = dict[k])
    OBVIOUS
<1> DEFINE written == {HashParams(i.key) : i \in items}
           chosen == CHOOSE i \in items : HashParams(i.key) = k
<1>1. CASE k \in written
    <2>1. chosen \in items /\ HashParams(chosen.key) = k
        BY <1>1
    <2>2. s[k] = chosen
        BY <1>1 DEF Store
    <2> HIDE DEF chosen
    <2> QED
        BY <2>1, <2>2
<1>2. CASE k \notin written
    <2>1. s[k] = dict[k] /\ k \in DOMAIN dict
        BY <1>2 DEF Store
    <2> QED
        BY <2>1
<1> QED
    BY <1>1, <1>2

(* The file has proofs of the chain that is verified. *)
LEMMA FileOfChain ==
    ASSUME IInv, stage = "verify", idx > 0
    PROVE  /\ chain_id \in Chain /\ file \in ProofSets /\ InOwnChain(file)
           /\ file.chain[chain_id] \in ChainProofSets
<1>1. chain_id \in Chain
    BY ChainIdIsChain DEF IInv, TypeOK
<1>2. file \in ProofSets /\ InOwnChain(file)
    BY DEF IInv, TypeOK, FileInUse, Loaded, CanBeRead
<1> QED
    BY <1>1, <1>2 DEF ProofSets

(* A header of a group of the file, as it is memorized. *)
LEMMA HeaderVerified ==
    ASSUME IInv, stage = "verify", part = "headers", NEW batch \in left,
           \A h \in batch.headers : Commits(batch.meta, h),
           NEW kinds, HeaderKeys({chain_id}) \subseteq kinds
    PROVE  /\ HeaderItems(batch.headers) \subseteq ItemsOf(kinds)
           /\ \A i \in HeaderItems(batch.headers) :
                 /\ i.root = Header(i.key.chain, i.key.block, "committed")
                 /\ Commits(batch.meta, i.root)
           /\ batch.meta \in Accumulators(file)
           /\ batch.meta = [chain |-> batch.meta.chain, size |-> batch.meta.size, hasher |-> batch.meta.hasher]
           /\ batch.meta.chain \in Chain /\ batch.meta.size \in Nat
<1>1. /\ chain_id \in Chain /\ file \in ProofSets /\ InOwnChain(file)
      /\ file.chain[chain_id] \in ChainProofSets
    BY FileOfChain DEF IInv, FileInUse
<1>2. batch \in file.chain[chain_id].batches
    BY DEF IInv, FileInUse
<1>3. batch \in Batches /\ batch.meta.chain = chain_id
    BY <1>1, <1>2 DEF ChainProofSets, InOwnChain
<1>4. batch.meta \in Accumulators(file)
    BY <1>1, <1>2 DEF Accumulators
<1>5. ASSUME NEW h \in batch.headers
      PROVE  /\ HeaderKey(chain_id, h.block) \in HeaderKeys({chain_id})
             /\ h \in HeaderSet /\ h = Header(chain_id, h.block, "committed")
    <2>1. h \in HeaderSet
        BY <1>3 DEF Batches
    <2>2. h.chain = chain_id /\ h.view = "committed" /\ h.block \in Block
        BY <1>3 DEF Commits
    <2> QED
        BY <2>1, <2>2 DEF HeaderSet, Header, HeaderKey, Key, HeaderKeys, KeysOf
<1>6. ASSUME NEW i \in HeaderItems(batch.headers)
      PROVE  /\ i \in ItemsOf(kinds) /\ i.root = Header(i.key.chain, i.key.block, "committed")
             /\ Commits(batch.meta, i.root)
    <2>1. PICK h \in batch.headers : i = Item(HeaderKey(chain_id, h.block), h)
        BY DEF HeaderItems
    <2>2. i = [key |-> HeaderKey(chain_id, h.block), root |-> h]
        BY <2>1 DEF Item
    <2>3. i.root = h /\ i.key.chain = chain_id /\ i.key.block = h.block
        BY <2>2 DEF HeaderKey, Key
    <2>4. i \in ItemsOf(kinds)
        BY <1>5, <2>2 DEF ItemsOf
    <2> QED
        BY <1>5, <2>3, <2>4
<1>7. HeaderItems(batch.headers) \subseteq ItemsOf(kinds)
    BY <1>6
<1> QED
    BY <1>3, <1>4, <1>6, <1>7 DEF Batches

(* An accumulator is added to those of its hash function. *)
LEMMA MetaAdded ==
    ASSUME NEW metas, NEW meta, NEW hasher, metas \in Seq(MetaSet(hasher)),
           meta = [chain |-> meta.chain, size |-> meta.size, hasher |-> meta.hasher],
           meta.chain \in Chain, meta.size \in Nat
    PROVE  /\ AddMeta(metas, meta, hasher) \in Seq(MetaSet(hasher))
           /\ Elements(AddMeta(metas, meta, hasher)) =
                 Elements(metas) \union (IF meta.hasher = hasher THEN {meta} ELSE {})
<1>1. CASE meta.hasher = hasher
    <2>1. meta \in MetaSet(hasher)
        BY <1>1 DEF MetaSet
    <2>2. AddMeta(metas, meta, hasher) = Append(metas, meta)
        BY <1>1 DEF AddMeta
    <2>3. Append(metas, meta) \in Seq(MetaSet(hasher))
        BY <2>1
    <2>4. IsSequence(metas)
        <3>1. metas \in [1..Len(metas) -> MetaSet(hasher)] /\ Len(metas) \in Nat
            BY LenProperties
        <3>2. metas \in [1..Len(metas) -> Elements(metas)]
            BY <3>1 DEF Elements
        <3> QED
            BY <3>1, <3>2, SeqDef DEF IsSequence
    <2>5. Elements(Append(metas, meta)) = Elements(metas) \union {meta}
        <3>1. /\ Len(metas) \in Nat /\ DOMAIN metas = 1..Len(metas)
              /\ DOMAIN Append(metas, meta) = 1..(Len(metas) + 1)
              /\ \A n \in DOMAIN metas : Append(metas, meta)[n] = metas[n]
              /\ Append(metas, meta)[Len(metas) + 1] = meta
            BY <2>4, AppendIsSequence
        <3>2. DOMAIN Append(metas, meta) = DOMAIN metas \union {Len(metas) + 1}
            BY <3>1
        <3> QED
            BY <3>1, <3>2 DEF Elements
    <2> QED
        BY <1>1, <2>2, <2>3, <2>5
<1>2. CASE meta.hasher # hasher
    BY <1>2 DEF AddMeta
<1> QED
    BY <1>1, <1>2

(* An item of the file that opens a header in the memorizer. *)
LEMMA Opened ==
    ASSUME IInv, NEW i, HeaderKeyOf(i.key) \in HeaderKeys(EvmChain), OpensHeader(i)
    PROVE  i.root = Header(i.key.chain, i.key.block, "committed")
<1> DEFINE key == HeaderKeyOf(i.key)
           item == evm[HashParams(key)]
<1>1. HashParams(key) \in DOMAIN evm /\ i.root = item.root
    BY DEF OpensHeader, InMemorizer
<1>2. item.key \in EvmKeys /\ HashParams(item.key) = HashParams(key)
      /\ item.root = Header(item.key.chain, item.key.block, "committed")
    BY <1>1 DEF IInv, MemorizersTyped, MemorizersTrue, ItemsOf
<1>3. item.key = key
    BY <1>2, KeysApart DEF EvmKeys
<1> QED
    BY <1>1, <1>2, <1>3 DEF HeaderKeyOf, HeaderKey, Key

(* A step of the verifiers, by what it does to the memorizers. *)
LEMMA VerifierKeeps ==
    ASSUME IInv, stage = "verify", stage' \in {"verify", "run", "failed"},
           UNCHANGED <<dry, fetch, run, output>>,
           idx' \in 0..Len(ChainOrder),
           part' \in {"load", "chain", "headers", "accounts", "storages", "txs", "receipts", "starknet_storages"},
           mmr_metas_poseidon' \in Seq(MetaSet("poseidon")), mmr_metas_keccak' \in Seq(MetaSet("keccak")),
           FileInUse', MemorizersTyped', MemorizersTrue', HeadersCommitted'
    PROVE  IInv'
<1> USE DEF IInv, dry, key_sets, fetch, collectors, run
<1>1. TypeOK'
    BY DEF TypeOK, Stages
<1>2. NothingForgotten'
    BY DEF NothingForgotten
<1>3. Segment'
    BY DEF Segment, At
<1> QED
    BY <1>1, <1>2, <1>3

(* What is memorized of an EVM chain has been verified. *)
LEMMA EvmMemorized ==
    ASSUME IInv, stage = "verify", stage' = "verify",
           UNCHANGED <<starknet, bytecodes, file>>,
           NEW items, items \subseteq ItemsOf(EvmKeys), evm' = Store(evm, items),
           \A i \in items : i.root = Header(i.key.chain, i.key.block, "committed"),
           Metas \subseteq Metas', Metas' # {} => Metas' \subseteq Accumulators(file'),
           \A i \in items : i.key.kind = "header" => \E meta \in Metas' : Commits(meta, i.root)
    PROVE  MemorizersTyped' /\ MemorizersTrue' /\ HeadersCommitted'
<1> USE DEF IInv, NotStarted
<1>1. \A k \in DOMAIN evm :
          /\ evm[k] \in ItemsOf(EvmKeys) /\ HashParams(evm[k].key) = k
          /\ evm[k].root = Header(evm[k].key.chain, evm[k].key.block, "committed")
    BY DEF MemorizersTyped, MemorizersTrue
<1>2. \A k \in DOMAIN evm' :
          /\ evm'[k] \in ItemsOf(EvmKeys) /\ HashParams(evm'[k].key) = k
          /\ evm'[k].root = Header(evm'[k].key.chain, evm'[k].key.block, "committed")
          /\ evm'[k] \in items \/ (k \in DOMAIN evm /\ evm'[k] = evm[k])
    BY <1>1, Stored
<1>3. MemorizersTyped' /\ MemorizersTrue'
    BY <1>2 DEF MemorizersTyped, MemorizersTrue
<1>4. HeadersCommitted'
    <2>1. \A k \in DOMAIN evm' :
              evm'[k].key.kind = "header" => \E meta \in Metas' : Commits(meta, evm'[k].root)
        BY <1>2 DEF HeadersCommitted
    <2>2. \A k \in DOMAIN starknet' :
              starknet'[k].key.kind = "header" => \E meta \in Metas' : Commits(meta, starknet'[k].root)
        BY DEF HeadersCommitted
    <2> QED
        BY <2>1, <2>2 DEF HeadersCommitted
<1> QED
    BY <1>3, <1>4

(* The same of a Starknet chain. *)
LEMMA StarknetMemorized ==
    ASSUME IInv, stage = "verify", stage' = "verify",
           UNCHANGED <<evm, bytecodes, file>>,
           NEW items, items \subseteq ItemsOf(StarknetKeys), starknet' = Store(starknet, items),
           \A i \in items : i.root = Header(i.key.chain, i.key.block, "committed"),
           Metas \subseteq Metas', Metas' # {} => Metas' \subseteq Accumulators(file'),
           \A i \in items : i.key.kind = "header" => \E meta \in Metas' : Commits(meta, i.root)
    PROVE  MemorizersTyped' /\ MemorizersTrue' /\ HeadersCommitted'
<1> USE DEF IInv, NotStarted
<1>1. \A k \in DOMAIN starknet :
          /\ starknet[k] \in ItemsOf(StarknetKeys) /\ HashParams(starknet[k].key) = k
          /\ starknet[k].root = Header(starknet[k].key.chain, starknet[k].key.block, "committed")
    BY DEF MemorizersTyped, MemorizersTrue
<1>2. \A k \in DOMAIN starknet' :
          /\ starknet'[k] \in ItemsOf(StarknetKeys) /\ HashParams(starknet'[k].key) = k
          /\ starknet'[k].root = Header(starknet'[k].key.chain, starknet'[k].key.block, "committed")
          /\ starknet'[k] \in items \/ (k \in DOMAIN starknet /\ starknet'[k] = starknet[k])
    BY <1>1, Stored
<1>3. MemorizersTyped' /\ MemorizersTrue'
    BY <1>2 DEF MemorizersTyped, MemorizersTrue
<1>4. HeadersCommitted'
    <2>1. \A k \in DOMAIN starknet' :
              starknet'[k].key.kind = "header" => \E meta \in Metas' : Commits(meta, starknet'[k].root)
        BY <1>2 DEF HeadersCommitted
    <2>2. \A k \in DOMAIN evm' :
              evm'[k].key.kind = "header" => \E meta \in Metas' : Commits(meta, evm'[k].root)
        BY DEF HeadersCommitted
    <2> QED
        BY <2>1, <2>2 DEF HeadersCommitted
<1> QED
    BY <1>3, <1>4

(* Nothing but accumulators the file has is recorded. *)
LEMMA MetaRecorded ==
    ASSUME IInv, NEW meta \in Accumulators(file), VerifiedAgainst(meta), file' = file,
           meta = [chain |-> meta.chain, size |-> meta.size, hasher |-> meta.hasher],
           meta.chain \in Chain, meta.size \in Nat, meta.hasher \in {"poseidon", "keccak"}
    PROVE  /\ mmr_metas_poseidon' \in Seq(MetaSet("poseidon")) /\ mmr_metas_keccak' \in Seq(MetaSet("keccak"))
           /\ Metas' = Metas \union {meta} /\ Metas' \subseteq Accumulators(file')
<1> USE DEF VerifiedAgainst
<1>1. /\ mmr_metas_poseidon \in Seq(MetaSet("poseidon")) /\ mmr_metas_keccak \in Seq(MetaSet("keccak"))
      /\ Metas # {} => Metas \subseteq Accumulators(file)
    BY DEF IInv, TypeOK, HeadersCommitted
<1>2. /\ mmr_metas_poseidon' \in Seq(MetaSet("poseidon"))
      /\ Elements(mmr_metas_poseidon') =
            Elements(mmr_metas_poseidon) \union (IF meta.hasher = "poseidon" THEN {meta} ELSE {})
    BY <1>1, MetaAdded
<1>3. /\ mmr_metas_keccak' \in Seq(MetaSet("keccak"))
      /\ Elements(mmr_metas_keccak') =
            Elements(mmr_metas_keccak) \union (IF meta.hasher = "keccak" THEN {meta} ELSE {})
    BY <1>1, MetaAdded
<1>4. Metas' = Elements(mmr_metas_poseidon') \union Elements(mmr_metas_keccak')
    BY DEF Metas
<1>5. Metas' = Metas \union {meta}
    BY <1>2, <1>3, <1>4 DEF Metas
<1>6. Accumulators(file') = Accumulators(file)
    OBVIOUS
<1>7. Metas' \subseteq Accumulators(file')
    BY <1>1, <1>5, <1>6
<1> QED
    BY <1>2, <1>3, <1>5, <1>7

(* The memorizers and the accumulators are left alone. *)
LEMMA NothingMemorized ==
    ASSUME IInv, stage = "verify", stage' \in {"verify", "run", "failed"},
           UNCHANGED <<evm, starknet, bytecodes, mmr_metas, file>>
    PROVE  MemorizersTyped' /\ MemorizersTrue' /\ HeadersCommitted'
<1> USE DEF IInv, NotStarted, mmr_metas
<1>1. MemorizersTyped' /\ MemorizersTrue'
    BY DEF MemorizersTyped, MemorizersTrue
<1>2. HeadersCommitted'
    BY DEF HeadersCommitted, Metas, Accumulators
<1> QED
    BY <1>1, <1>2

LEMMA BytecodesLoaded ==
    ASSUME IInv, stage = "verify", stage' = "verify", UNCHANGED file, LoadBytecodes(file)
    PROVE  MemorizersTyped' /\ MemorizersTrue' /\ HeadersCommitted'
<1> USE DEF LoadBytecodes, IInv, NotStarted
<1>1. file.bytecode \subseteq ItemsOf(BytecodeKeys)
    BY DEF TypeOK, FileInUse, Loaded, CanBeRead, ProofSets
<1>2. ASSUME NEW k \in DOMAIN bytecodes'
      PROVE  bytecodes'[k] \in ItemsOf(BytecodeKeys) /\ HashParams(bytecodes'[k].key) = k
    <2> DEFINE loaded == {HashParams(i.key) : i \in file.bytecode}
               chosen == CHOOSE i \in file.bytecode : HashParams(i.key) = k
    <2>1. CASE k \in loaded
        <3>1. chosen \in file.bytecode /\ HashParams(chosen.key) = k
            BY <2>1
        <3>2. bytecodes'[k] = chosen
            BY <2>1 DEF Store
        <3> HIDE DEF chosen
        <3> QED
            BY <1>1, <3>1, <3>2
    <2>2. CASE k \notin loaded
        <3>1. bytecodes'[k] = bytecodes[k] /\ k \in DOMAIN bytecodes
            BY <2>2 DEF Store
        <3> QED
            BY <3>1 DEF MemorizersTyped
    <2> QED
        BY <2>1, <2>2
<1>3. MemorizersTyped' /\ MemorizersTrue'
    BY <1>2 DEF MemorizersTyped, MemorizersTrue
<1>4. HeadersCommitted'
    BY DEF HeadersCommitted, Metas, mmr_metas, Accumulators
<1> QED
    BY <1>3, <1>4

LEMMA EvmBatchVerified ==
    ASSUME IInv, stage = "verify", stage' = "verify", UNCHANGED file, NEW batch \in left, VerifyEvmBatch(batch)
    PROVE  /\ mmr_metas_poseidon' \in Seq(MetaSet("poseidon")) /\ mmr_metas_keccak' \in Seq(MetaSet("keccak"))
           /\ MemorizersTyped' /\ MemorizersTrue' /\ HeadersCommitted'
<1> DEFINE items == HeaderItems(batch.headers)
<1>1. /\ part = "headers" /\ chain_id \in EvmChain /\ VerifiedAgainst(batch.meta)
      /\ \A h \in batch.headers : Commits(batch.meta, h)
      /\ batch.meta.hasher \in {"poseidon", "keccak"}
      /\ UNCHANGED <<starknet, bytecodes>> /\ evm' = Store(evm, items)
    BY DEF VerifyEvmBatch, EvmBatchVerifies
<1>2. HeaderKeys({chain_id}) \subseteq EvmKeys
    BY <1>1 DEF EvmKeys, HeaderKeys, KeysOf
<1>3. /\ items \subseteq ItemsOf(EvmKeys)
      /\ \A i \in items : /\ i.root = Header(i.key.chain, i.key.block, "committed")
                          /\ Commits(batch.meta, i.root)
      /\ batch.meta \in Accumulators(file)
      /\ batch.meta = [chain |-> batch.meta.chain, size |-> batch.meta.size, hasher |-> batch.meta.hasher]
      /\ batch.meta.chain \in Chain /\ batch.meta.size \in Nat
    BY <1>1, <1>2, HeaderVerified
<1>4. /\ mmr_metas_poseidon' \in Seq(MetaSet("poseidon")) /\ mmr_metas_keccak' \in Seq(MetaSet("keccak"))
      /\ Metas' = Metas \union {batch.meta} /\ Metas' \subseteq Accumulators(file')
    BY <1>1, <1>3, MetaRecorded
<1> HIDE DEF items
<1> QED
    BY <1>1, <1>3, <1>4, EvmMemorized

LEMMA StarknetBatchVerified ==
    ASSUME IInv, stage = "verify", stage' = "verify", UNCHANGED file, NEW batch \in left, VerifyStarknetBatch(batch)
    PROVE  /\ mmr_metas_poseidon' \in Seq(MetaSet("poseidon")) /\ mmr_metas_keccak' \in Seq(MetaSet("keccak"))
           /\ MemorizersTyped' /\ MemorizersTrue' /\ HeadersCommitted'
<1> DEFINE items == HeaderItems(batch.headers)
<1>1. /\ part = "headers" /\ chain_id \in StarknetChain /\ VerifiedAgainst(batch.meta)
      /\ \A h \in batch.headers : Commits(batch.meta, h)
      /\ batch.meta.hasher \in {"poseidon", "keccak"}
      /\ UNCHANGED <<evm, bytecodes>> /\ starknet' = Store(starknet, items)
    BY DEF VerifyStarknetBatch, StarknetBatchVerifies
<1>2. HeaderKeys({chain_id}) \subseteq StarknetKeys
    BY <1>1 DEF StarknetKeys, HeaderKeys, KeysOf
<1>3. /\ items \subseteq ItemsOf(StarknetKeys)
      /\ \A i \in items : /\ i.root = Header(i.key.chain, i.key.block, "committed")
                          /\ Commits(batch.meta, i.root)
      /\ batch.meta \in Accumulators(file)
      /\ batch.meta = [chain |-> batch.meta.chain, size |-> batch.meta.size, hasher |-> batch.meta.hasher]
      /\ batch.meta.chain \in Chain /\ batch.meta.size \in Nat
    BY <1>1, <1>2, HeaderVerified
<1>4. /\ mmr_metas_poseidon' \in Seq(MetaSet("poseidon")) /\ mmr_metas_keccak' \in Seq(MetaSet("keccak"))
      /\ Metas' = Metas \union {batch.meta} /\ Metas' \subseteq Accumulators(file')
    BY <1>1, <1>3, MetaRecorded
<1> HIDE DEF items
<1> QED
    BY <1>1, <1>3, <1>4, StarknetMemorized

(* Items of the file are taken to be of the chain that is verified. *)
LEMMA ItemsOfChain ==
    ASSUME NEW items
    PROVE  /\ chain_id \in EvmChain /\ items \subseteq ItemsOf(AccountKeys) => OfChain(items) \subseteq ItemsOf(AccountKeys)
           /\ chain_id \in EvmChain /\ items \subseteq ItemsOf(StorageKeys) => OfChain(items) \subseteq ItemsOf(StorageKeys)
           /\ chain_id \in StarknetChain /\ items \subseteq ItemsOf(SlotKeys) => OfChain(items) \subseteq ItemsOf(SlotKeys)
<1> DEFINE moved(i) == Item([i.key EXCEPT !.chain = chain_id], i.root)
<1>1. \A i : chain_id \in EvmChain /\ i \in ItemsOf(AccountKeys) => moved(i) \in ItemsOf(AccountKeys)
    BY DEF Item, ItemsOf, AccountKeys, KeysOf
<1>2. \A i : chain_id \in EvmChain /\ i \in ItemsOf(StorageKeys) => moved(i) \in ItemsOf(StorageKeys)
    BY DEF Item, ItemsOf, StorageKeys, KeysOf
<1>3. \A i : chain_id \in StarknetChain /\ i \in ItemsOf(SlotKeys) => moved(i) \in ItemsOf(SlotKeys)
    BY DEF Item, ItemsOf, SlotKeys, KeysOf
<1>4. OfChain(items) = {moved(i) : i \in items}
    BY DEF OfChain
<1> HIDE DEF moved
<1> QED
    BY <1>1, <1>2, <1>3, <1>4

LEMMA IndexIsNat == ASSUME NEW n \in Nat PROVE Rlp!IndexOf(n) \in Nat
<1>1. n % 256 \in Nat /\ n % 65536 \in Nat
    OBVIOUS
<1>2. CASE n = 128
    BY <1>2 DEF Rlp!IndexOf
<1>3. CASE n < 256 /\ n # 128
    BY <1>3 DEF Rlp!IndexOf
<1>4. CASE n >= 256 /\ n < 65536
    BY <1>1, <1>4 DEF Rlp!IndexOf
<1>5. CASE n >= 65536
    BY <1>1, <1>5 DEF Rlp!IndexOf
<1> QED
    BY <1>2, <1>3, <1>4, <1>5

LEMMA ItemsIndexed ==
    ASSUME chain_id \in EvmChain, NEW kind, NEW items \in SUBSET ItemsOf(IndexKeys(kind))
    PROVE  Indexed(items) \subseteq ItemsOf(IndexKeys(kind))
<1> SUFFICES ASSUME NEW i \in items
             PROVE  Item([i.key EXCEPT !.chain = chain_id, !.at = <<Rlp!IndexOf(@[1])>>], i.root)
                      \in ItemsOf(IndexKeys(kind))
    BY DEF Indexed
<1>1. i.key \in IndexKeys(kind) /\ i.root \in HeaderSet
    BY DEF ItemsOf
<1>2. i.key.at[1] \in Nat
    BY <1>1 DEF IndexKeys, KeysOf
<1>3. Rlp!IndexOf(i.key.at[1]) \in Nat
    BY <1>2, IndexIsNat
<1>4. <<Rlp!IndexOf(i.key.at[1])>> \in [1..1 -> Nat]
    BY <1>3
<1>5. [i.key EXCEPT !.chain = chain_id, !.at = <<Rlp!IndexOf(@[1])>>] \in IndexKeys(kind)
    BY <1>1, <1>4 DEF IndexKeys, KeysOf
<1> QED
    BY <1>1, <1>5 DEF Item, ItemsOf

(* The items of one kind, against the headers they name. *)
LEMMA ItemsOpened ==
    ASSUME IInv, chain_id \in EvmChain, NEW items,
           items \subseteq ItemsOf(AccountKeys) \/ (\E kind : items \subseteq ItemsOf(IndexKeys(kind))),
           \A i \in items : OpensHeader(i)
    PROVE  \A i \in items : i.root = Header(i.key.chain, i.key.block, "committed")
<1> SUFFICES ASSUME NEW i \in items PROVE i.root = Header(i.key.chain, i.key.block, "committed")
    OBVIOUS
<1>1. i.key.chain \in EvmChain /\ i.key.block \in Block
    BY DEF ItemsOf, AccountKeys, IndexKeys, KeysOf
<1>2. HeaderKeyOf(i.key) \in HeaderKeys(EvmChain)
    BY <1>1 DEF HeaderKeyOf, HeaderKey, Key, HeaderKeys, KeysOf
<1> QED
    BY <1>2, Opened

LEMMA AccountsVerified ==
    ASSUME IInv, stage = "verify", stage' = "verify", UNCHANGED file, VerifyAccounts(file)
    PROVE  chain_id \in EvmChain /\ MemorizersTyped' /\ MemorizersTrue' /\ HeadersCommitted'
<1> DEFINE items == OfChain(file.chain[chain_id].accounts)
<1>1. part = "accounts" /\ idx > 0 /\ chain_id \in EvmChain
    BY DEF VerifyAccounts, AccountsOf, IInv, FileInUse
<1>2. file.chain[chain_id].accounts \subseteq ItemsOf(AccountKeys)
    BY <1>1, FileOfChain DEF ChainProofSets
<1>3. items \subseteq ItemsOf(AccountKeys)
    BY <1>1, <1>2, ItemsOfChain
<1>4. /\ \A i \in items : OpensHeader(i)
      /\ evm' = Store(evm, items) /\ UNCHANGED <<starknet, bytecodes, mmr_metas>>
    BY DEF VerifyAccounts, AccountsOf, AccountsVerify
<1> HIDE DEF items
<1>5. \A i \in items : i.root = Header(i.key.chain, i.key.block, "committed")
    BY <1>1, <1>3, <1>4, ItemsOpened
<1>6. items \subseteq ItemsOf(EvmKeys) /\ \A i \in items : i.key.kind # "header"
    BY <1>3 DEF ItemsOf, EvmKeys, AccountKeys, KeysOf
<1>7. Metas' = Metas /\ (Metas' # {} => Metas' \subseteq Accumulators(file'))
    BY <1>4 DEF Metas, mmr_metas, IInv, HeadersCommitted, Accumulators
<1> QED
    BY <1>1, <1>4, <1>5, <1>6, <1>7, EvmMemorized

LEMMA StoragesVerified ==
    ASSUME IInv, stage = "verify", stage' = "verify", UNCHANGED file, VerifyStorages(file)
    PROVE  chain_id \in EvmChain /\ MemorizersTyped' /\ MemorizersTrue' /\ HeadersCommitted'
<1> DEFINE items == OfChain(file.chain[chain_id].storages)
<1>1. part = "storages" /\ idx > 0 /\ chain_id \in EvmChain
    BY DEF VerifyStorages, StoragesOf, IInv, FileInUse
<1>2. file.chain[chain_id].storages \subseteq ItemsOf(StorageKeys)
    BY <1>1, FileOfChain DEF InOwnChain
<1>3. items \subseteq ItemsOf(StorageKeys)
    BY <1>1, <1>2, ItemsOfChain
<1>4. /\ StoragesVerify(items)
      /\ evm' = Store(evm, items) /\ UNCHANGED <<starknet, bytecodes, mmr_metas>>
    BY DEF VerifyStorages, StoragesOf
<1> HIDE DEF items
<1>5. ASSUME NEW i \in items PROVE i.root = Header(i.key.chain, i.key.block, "committed")
    <2> DEFINE key == AccountKeyOf(i.key)
               item == evm[HashParams(key)]
    <2>1. HashParams(key) \in DOMAIN evm /\ i.root = item.root
        BY <1>4 DEF StoragesVerify, InMemorizer
    <2>2. key \in AccountKeys
        <3>1. i.key \in StorageKeys
            BY <1>3 DEF ItemsOf
        <3>2. i.key.at \in [1..3 -> Place] /\ i.key.chain \in EvmChain /\ i.key.block \in Block
            BY <3>1 DEF StorageKeys, KeysOf, Places
        <3>3. <<i.key.at[1]>> \in [1..1 -> Place]
            BY <3>2
        <3> QED
            BY <3>2, <3>3 DEF AccountKeyOf, AccountKey, Key, AccountKeys, KeysOf, Places
    <2>3. item.key \in EvmKeys /\ HashParams(item.key) = HashParams(key)
          /\ item.root = Header(item.key.chain, item.key.block, "committed")
        BY <2>1 DEF IInv, MemorizersTyped, MemorizersTrue, ItemsOf
    <2>4. item.key = key
        BY <2>2, <2>3, KeysApart DEF EvmKeys
    <2> QED
        BY <2>1, <2>3, <2>4 DEF AccountKeyOf, AccountKey, Key
<1>6. items \subseteq ItemsOf(EvmKeys) /\ \A i \in items : i.key.kind # "header"
    BY <1>3 DEF ItemsOf, EvmKeys, StorageKeys, KeysOf
<1>7. Metas' = Metas /\ (Metas' # {} => Metas' \subseteq Accumulators(file'))
    BY <1>4 DEF Metas, mmr_metas, IInv, HeadersCommitted, Accumulators
<1> QED
    BY <1>1, <1>4, <1>5, <1>6, <1>7, EvmMemorized

LEMMA TxsVerified ==
    ASSUME IInv, stage = "verify", stage' = "verify", UNCHANGED file, VerifyTxs(file)
    PROVE  chain_id \in EvmChain /\ MemorizersTyped' /\ MemorizersTrue' /\ HeadersCommitted'
<1> DEFINE items == Indexed(file.chain[chain_id].txs)
<1>1. part = "txs" /\ idx > 0 /\ chain_id \in EvmChain
    BY DEF VerifyTxs, TxsOf, IInv, FileInUse
<1>2. file.chain[chain_id].txs \subseteq ItemsOf(IndexKeys("tx"))
    BY <1>1, FileOfChain DEF ChainProofSets
<1>3. items \subseteq ItemsOf(IndexKeys("tx"))
    BY <1>1, <1>2, ItemsIndexed
<1>4. /\ \A i \in items : OpensHeader(i)
      /\ evm' = Store(evm, items) /\ UNCHANGED <<starknet, bytecodes, mmr_metas>>
    BY DEF VerifyTxs, TxsOf, TxsVerify
<1> HIDE DEF items
<1>5. \A i \in items : i.root = Header(i.key.chain, i.key.block, "committed")
    BY <1>1, <1>3, <1>4, ItemsOpened
<1>6. items \subseteq ItemsOf(EvmKeys) /\ \A i \in items : i.key.kind # "header"
    BY <1>3 DEF ItemsOf, EvmKeys, IndexKeys, KeysOf
<1>7. Metas' = Metas /\ (Metas' # {} => Metas' \subseteq Accumulators(file'))
    BY <1>4 DEF Metas, mmr_metas, IInv, HeadersCommitted, Accumulators
<1> QED
    BY <1>1, <1>4, <1>5, <1>6, <1>7, EvmMemorized

LEMMA ReceiptsVerified ==
    ASSUME IInv, stage = "verify", stage' = "verify", UNCHANGED file, VerifyReceipts(file)
    PROVE  chain_id \in EvmChain /\ MemorizersTyped' /\ MemorizersTrue' /\ HeadersCommitted'
<1> DEFINE items == Indexed(file.chain[chain_id].receipts)
<1>1. part = "receipts" /\ idx > 0 /\ chain_id \in EvmChain
    BY DEF VerifyReceipts, ReceiptsOf, IInv, FileInUse
<1>2. file.chain[chain_id].receipts \subseteq ItemsOf(IndexKeys("receipt"))
    BY <1>1, FileOfChain DEF ChainProofSets
<1>3. items \subseteq ItemsOf(IndexKeys("receipt"))
    BY <1>1, <1>2, ItemsIndexed
<1>4. /\ \A i \in items : OpensHeader(i)
      /\ evm' = Store(evm, items) /\ UNCHANGED <<starknet, bytecodes, mmr_metas>>
    BY DEF VerifyReceipts, ReceiptsOf, ReceiptsVerify
<1> HIDE DEF items
<1>5. \A i \in items : i.root = Header(i.key.chain, i.key.block, "committed")
    BY <1>1, <1>3, <1>4, ItemsOpened
<1>6. items \subseteq ItemsOf(EvmKeys) /\ \A i \in items : i.key.kind # "header"
    BY <1>3 DEF ItemsOf, EvmKeys, IndexKeys, KeysOf
<1>7. Metas' = Metas /\ (Metas' # {} => Metas' \subseteq Accumulators(file'))
    BY <1>4 DEF Metas, mmr_metas, IInv, HeadersCommitted, Accumulators
<1> QED
    BY <1>1, <1>4, <1>5, <1>6, <1>7, EvmMemorized

LEMMA StarknetStoragesVerified ==
    ASSUME IInv, stage = "verify", stage' = "verify", UNCHANGED file, VerifyStarknetStorages(file)
    PROVE  chain_id \in StarknetChain /\ MemorizersTyped' /\ MemorizersTrue' /\ HeadersCommitted'
<1> DEFINE items == OfChain(file.chain[chain_id].storages)
<1>1. part = "starknet_storages" /\ idx > 0 /\ chain_id \in StarknetChain
    BY DEF VerifyStarknetStorages, SlotsOf, IInv, FileInUse
<1>2. file.chain[chain_id].storages \subseteq ItemsOf(SlotKeys)
    BY <1>1, FileOfChain DEF InOwnChain
<1>3. items \subseteq ItemsOf(SlotKeys)
    BY <1>1, <1>2, ItemsOfChain
<1>4. /\ StarknetStoragesVerify(items)
      /\ starknet' = Store(starknet, items) /\ UNCHANGED <<evm, bytecodes, mmr_metas>>
    BY DEF VerifyStarknetStorages, SlotsOf
<1> HIDE DEF items
<1>5. ASSUME NEW i \in items PROVE i.root = Header(i.key.chain, i.key.block, "committed")
    <2> DEFINE key == HeaderKeyOf(i.key)
               item == starknet[HashParams(key)]
    <2>1. HashParams(key) \in DOMAIN starknet /\ i.root = item.root
        BY <1>4 DEF StarknetStoragesVerify, InMemorizer
    <2>2. key \in HeaderKeys(StarknetChain)
        BY <1>3 DEF ItemsOf, SlotKeys, KeysOf, HeaderKeyOf, HeaderKey, Key, HeaderKeys
    <2>3. item.key \in StarknetKeys /\ HashParams(item.key) = HashParams(key)
          /\ item.root = Header(item.key.chain, item.key.block, "committed")
        BY <2>1 DEF IInv, MemorizersTyped, MemorizersTrue, ItemsOf
    <2>4. item.key = key
        BY <2>2, <2>3, KeysApart DEF StarknetKeys
    <2> QED
        BY <2>1, <2>3, <2>4 DEF HeaderKeyOf, HeaderKey, Key
<1>6. items \subseteq ItemsOf(StarknetKeys) /\ \A i \in items : i.key.kind # "header"
    BY <1>3 DEF ItemsOf, StarknetKeys, SlotKeys, KeysOf
<1>7. Metas' = Metas /\ (Metas' # {} => Metas' \subseteq Accumulators(file'))
    BY <1>4 DEF Metas, mmr_metas, IInv, HeadersCommitted, Accumulators
<1> QED
    BY <1>1, <1>4, <1>5, <1>6, <1>7, StarknetMemorized

(* The verifiers' part of a sound run. *)
LEMMA VerifyStepInv == ASSUME IInv, VerifyProofs \/ VerifyDies \/ RunModule PROVE IInv'
<1>1. /\ stage = "verify" /\ UNCHANGED <<dry, fetch, run, output>> /\ stage' \in {"verify", "run", "failed"}
      /\ file' = file
    BY DEF VerifyProofs, VerifyDies, RunModule, VerifyFails, sound, verifier, At, Enter, fetch
<1>2. /\ idx \in 0..Len(ChainOrder)
      /\ part \in {"load", "chain", "headers", "accounts", "storages", "txs", "receipts", "starknet_storages"}
      /\ mmr_metas_poseidon \in Seq(MetaSet("poseidon")) /\ mmr_metas_keccak \in Seq(MetaSet("keccak"))
      /\ FileInUse /\ Len(ChainOrder) \in Nat
    BY ChainAssumption DEF IInv, TypeOK
<1> DEFINE Goal ==
             /\ idx' \in 0..Len(ChainOrder)
             /\ part' \in {"load", "chain", "headers", "accounts", "storages", "txs", "receipts", "starknet_storages"}
             /\ mmr_metas_poseidon' \in Seq(MetaSet("poseidon"))
             /\ mmr_metas_keccak' \in Seq(MetaSet("keccak"))
             /\ FileInUse' /\ MemorizersTyped' /\ MemorizersTrue' /\ HeadersCommitted'
<1> USE DEF FileInUse, Loaded, CanBeRead, NotStarted, mmr_metas
<1>3. CASE VerifyProofs
    <2>0. stage' = "verify" /\ Verify(file) /\ fetching' = fetching /\ fresh' = fresh
        BY <1>3 DEF VerifyProofs, At, fetch, collectors
    <2>1. ASSUME LoadBytecodes(file) PROVE Goal
        <3>1. MemorizersTyped' /\ MemorizersTrue' /\ HeadersCommitted'
            BY <1>1, <2>0, <2>1, BytecodesLoaded
        <3> QED
            BY <1>1, <1>2, <2>0, <2>1, <3>1 DEF LoadBytecodes
    <2>2. ASSUME EnterChain(file) PROVE Goal
        <3>1. MemorizersTyped' /\ MemorizersTrue' /\ HeadersCommitted'
            BY <1>1, <2>0, <2>2, NothingMemorized DEF EnterChain, memorizers
        <3>2. chain_id' = chain_id
            BY <2>2 DEF EnterChain, chain_id
        <3> QED
            BY <1>1, <1>2, <2>0, <2>2, <3>1, <3>2 DEF EnterChain, BatchesOf
    <2>3. ASSUME NEW batch \in left, VerifyEvmBatch(batch) PROVE Goal
        <3>1. /\ mmr_metas_poseidon' \in Seq(MetaSet("poseidon")) /\ mmr_metas_keccak' \in Seq(MetaSet("keccak"))
              /\ MemorizersTyped' /\ MemorizersTrue' /\ HeadersCommitted'
            BY <1>1, <2>0, <2>3, EvmBatchVerified
        <3>2. chain_id' = chain_id
            BY <2>3 DEF VerifyEvmBatch, chain_id
        <3> QED
            BY <1>1, <1>2, <2>0, <2>3, <3>1, <3>2 DEF VerifyEvmBatch
    <2>4. ASSUME NEW batch \in left, VerifyStarknetBatch(batch) PROVE Goal
        <3>1. /\ mmr_metas_poseidon' \in Seq(MetaSet("poseidon")) /\ mmr_metas_keccak' \in Seq(MetaSet("keccak"))
              /\ MemorizersTyped' /\ MemorizersTrue' /\ HeadersCommitted'
            BY <1>1, <2>0, <2>4, StarknetBatchVerified
        <3>2. chain_id' = chain_id
            BY <2>4 DEF VerifyStarknetBatch, chain_id
        <3> QED
            BY <1>1, <1>2, <2>0, <2>4, <3>1, <3>2 DEF VerifyStarknetBatch
    <2>5. ASSUME HeadersDone PROVE Goal
        <3>1. MemorizersTyped' /\ MemorizersTrue' /\ HeadersCommitted'
            BY <1>1, <2>0, <2>5, NothingMemorized DEF HeadersDone, memorizers
        <3>2. chain_id' = chain_id /\ (chain_id \notin EvmChain => chain_id \in StarknetChain)
            BY <1>1, <1>2, <2>5, FileOfChain, ChainAssumption DEF HeadersDone, chain_id
        <3> QED
            BY <1>1, <1>2, <2>0, <2>5, <3>1, <3>2 DEF HeadersDone
    <2>6. ASSUME VerifyAccounts(file) PROVE Goal
        <3>1. chain_id \in EvmChain /\ MemorizersTyped' /\ MemorizersTrue' /\ HeadersCommitted'
            BY <1>1, <2>0, <2>6, AccountsVerified
        <3>2. chain_id' = chain_id
            BY <2>6 DEF VerifyAccounts, chain_id
        <3> QED
            BY <1>1, <1>2, <2>0, <2>6, <3>1, <3>2 DEF VerifyAccounts
    <2>7. ASSUME VerifyStorages(file) PROVE Goal
        <3>1. chain_id \in EvmChain /\ MemorizersTyped' /\ MemorizersTrue' /\ HeadersCommitted'
            BY <1>1, <2>0, <2>7, StoragesVerified
        <3>2. chain_id' = chain_id
            BY <2>7 DEF VerifyStorages, chain_id
        <3> QED
            BY <1>1, <1>2, <2>0, <2>7, <3>1, <3>2 DEF VerifyStorages
    <2>8. ASSUME VerifyTxs(file) PROVE Goal
        <3>1. chain_id \in EvmChain /\ MemorizersTyped' /\ MemorizersTrue' /\ HeadersCommitted'
            BY <1>1, <2>0, <2>8, TxsVerified
        <3>2. chain_id' = chain_id
            BY <2>8 DEF VerifyTxs, chain_id
        <3> QED
            BY <1>1, <1>2, <2>0, <2>8, <3>1, <3>2 DEF VerifyTxs
    <2>9. ASSUME VerifyReceipts(file) PROVE Goal
        <3>1. chain_id \in EvmChain /\ MemorizersTyped' /\ MemorizersTrue' /\ HeadersCommitted'
            BY <1>1, <2>0, <2>9, ReceiptsVerified
        <3>2. idx > 0 /\ idx' \in 0..Len(ChainOrder)
            BY <1>2, <2>9 DEF VerifyReceipts
        <3> QED
            BY <1>1, <1>2, <2>0, <2>9, <3>1, <3>2 DEF VerifyReceipts
    <2>10. ASSUME VerifyStarknetStorages(file) PROVE Goal
        <3>1. chain_id \in StarknetChain /\ MemorizersTyped' /\ MemorizersTrue' /\ HeadersCommitted'
            BY <1>1, <2>0, <2>10, StarknetStoragesVerified
        <3>2. idx > 0 /\ idx' \in 0..Len(ChainOrder)
            BY <1>2, <2>10 DEF VerifyStarknetStorages
        <3> QED
            BY <1>1, <1>2, <2>0, <2>10, <3>1, <3>2 DEF VerifyStarknetStorages
    <2>11. Goal
        BY <2>0, <2>1, <2>2, <2>3, <2>4, <2>5, <2>6, <2>7, <2>8, <2>9, <2>10 DEF Verify
    <2> QED
        BY <1>1, <2>11, VerifierKeeps
<1>4. CASE VerifyDies \/ RunModule
    <2>1. UNCHANGED <<verifier, fetching, fresh>> /\ stage' \in {"run", "failed"}
        BY <1>4 DEF VerifyDies, RunModule, VerifyFails, sound, Enter, fetch, collectors
    <2>2. UNCHANGED <<evm, starknet, bytecodes, mmr_metas, file, idx, part, left>> /\ chain_id' = chain_id
        BY <1>1, <2>1 DEF verifier, memorizers, chain_id
    <2>3. MemorizersTyped' /\ MemorizersTrue' /\ HeadersCommitted'
        BY <1>1, <2>2, NothingMemorized
    <2>4. FileInUse'
        BY <1>1, <1>2, <2>1, <2>2 DEF IInv
    <2> QED
        BY <1>1, <1>2, <2>2, <2>3, <2>4, VerifierKeeps
<1> QED
    BY <1>3, <1>4

-----------------------------------------------------------------------------
(* The module and its replay. *)

(* What the syscall handler and the replay take the size of a syscall to be *)
(* is the same.                                                             *)
LEMMA SizesAgree ==
    ASSUME NEW call PROVE Cells(call) = ReplayCells(call) /\ Cells(call) \in Nat /\ Cells(call) > 0
BY DEF Cells, RequestCells, ResponseCells, ReplayCells

(* The segment is all that the steps of the module and its replay change.   *)
LEMMA RunKeeps ==
    ASSUME IInv, stage \in {"run", "replay"}, stage' \in {"run", "replay", "failed", "published"},
           UNCHANGED <<dry, fetch, verifier>>, IsSequence(told'), Segment'
    PROVE  IInv'
<1> USE DEF IInv, dry, key_sets, fetch, collectors, verifier, memorizers, mmr_metas, NotStarted
<1>1. TypeOK'
    BY DEF TypeOK, Stages
<1>2. NothingForgotten' /\ FileInUse'
    <2>1. chain_id' = chain_id
        BY DEF chain_id
    <2> QED
        BY <2>1 DEF NothingForgotten, FileInUse, Loaded, CanBeRead
<1>3. MemorizersTyped' /\ MemorizersTrue'
    BY DEF MemorizersTyped, MemorizersTrue
<1>4. HeadersCommitted'
    BY DEF HeadersCommitted, Metas, Accumulators
<1> QED
    BY <1>1, <1>2, <1>3, <1>4

LEMMA CallsAreCallable == ASSUME IInv, NEW call \in NextCalls PROVE Callable(call)
<1>1. \A n \in DOMAIN program : Callable(program[n])
    BY ProgramsAssumption DEF IInv, TypeOK, Elements
<1> QED
    BY <1>1, OtherCallsAssumption DEF NextCalls

LEMMA ModuleCallInv == ASSUME IInv, ModuleCall PROVE IInv'
<1> PICK call \in NextCalls : SoundCall(call)
    BY DEF ModuleCall
<1>1. stage = "run" /\ stage' = "run" /\ UNCHANGED <<dry, fetch, verifier, replay_ptr, output>>
    BY DEF ModuleCall, At, SoundCall, SoundEvmCall, SoundStarknetCall, SoundBytecodeCall, SoundKeccakCall,
           SoundDebugCall, Told
<1>2. PICK answer : /\ told' = Append(told, Cell(syscall_ptr, call, answer))
                    /\ syscall_ptr' = syscall_ptr + Cells(call)
    BY DEF SoundCall, SoundEvmCall, SoundStarknetCall, SoundBytecodeCall, SoundKeccakCall, SoundDebugCall, Told
<1> DEFINE cell == Cell(syscall_ptr, call, answer)
<1>3. cell.at = syscall_ptr /\ cell.call = call
    BY DEF Cell
<1>4. IsSequence(told) /\ Segment
    BY DEF IInv, TypeOK
<1> HIDE DEF cell
<1>5. /\ IsSequence(told') /\ Len(told) \in Nat /\ DOMAIN told = 1..Len(told)
      /\ DOMAIN told' = 1..(Len(told) + 1)
      /\ \A n \in DOMAIN told : told'[n] = told[n]
      /\ told'[Len(told) + 1] = cell
    BY <1>2, <1>4, AppendIsSequence DEF cell
<1>6. Callable(call) /\ Cells(call) \in Nat /\ Cells(call) > 0
    BY CallsAreCallable, SizesAgree
<1>7. syscall_ptr \in Nat /\ syscall_ptr' \in Nat /\ syscall_ptr <= syscall_ptr'
    BY <1>2, <1>4, <1>6 DEF Segment
<1>8. End(cell) = syscall_ptr'
    BY <1>2, <1>3 DEF End
<1>9. ASSUME NEW n \in DOMAIN told'
      PROVE  told'[n].at \in Nat /\ Callable(told'[n].call) /\ End(told'[n]) <= syscall_ptr'
    <2>1. CASE n \in DOMAIN told
        <3>1. End(told[n]) \in Nat
            BY <2>1, <1>4, SizesAgree DEF Segment, End
        <3> QED
            BY <2>1, <1>4, <1>5, <1>7, <3>1 DEF Segment
    <2>2. CASE n = Len(told) + 1
        BY <2>2, <1>3, <1>5, <1>6, <1>7, <1>8
    <2> QED
        BY <2>1, <2>2, <1>5
<1>10. ASSUME NEW m \in DOMAIN told', NEW n \in DOMAIN told', m < n
       PROVE  End(told'[m]) <= told'[n].at
    <2>1. m \in DOMAIN told
        BY <1>5, <1>10
    <2>2. CASE n \in DOMAIN told
        BY <1>4, <1>5, <1>10, <2>1, <2>2 DEF Segment
    <2>3. CASE n = Len(told) + 1
        BY <1>3, <1>4, <1>5, <2>1, <2>3 DEF Segment
    <2> QED
        BY <2>2, <2>3, <1>5
<1>11. replay_ptr' = 0
    BY <1>1, <1>4 DEF Segment
<1>12. Segment'
    BY <1>1, <1>7, <1>9, <1>10, <1>11 DEF Segment, At
<1> QED
    BY <1>1, <1>5, <1>12, RunKeeps

LEMMA ReplayInv == ASSUME IInv, Replay PROVE IInv'
<1>1. PICK n \in AtPointer : /\ Asserted(told[n])
                             /\ replay_ptr' = replay_ptr + ReplayCells(told[n].call)
    BY DEF Replay, ReplayCall
<1>2. stage = "replay" /\ stage' = "replay" /\ UNCHANGED <<dry, fetch, verifier, told, syscall_ptr, output>>
    BY DEF Replay, ReplayCall, At
<1>3. IsSequence(told) /\ Segment
    BY DEF IInv, TypeOK
<1>4. DOMAIN told = 1..Len(told) /\ Len(told) \in Nat
    BY <1>3, AppendIsSequence
<1>5. n \in DOMAIN told /\ told[n].at = replay_ptr /\ replay_ptr' = End(told[n]) /\ replay_ptr' \in Nat
    BY <1>1, <1>3, SizesAgree DEF AtPointer, End, Segment
<1>6. ASSUME NEW m \in DOMAIN told, told[m].at < replay_ptr' PROVE Asserted(told[m])
    <2>1. CASE m < n
        <3>1. End(told[m]) <= replay_ptr
            BY <1>3, <1>5, <2>1 DEF Segment
        <3>2. told[m].at \in Nat /\ told[m].at < End(told[m]) /\ End(told[m]) \in Nat /\ replay_ptr \in Nat
            BY <1>3, SizesAgree DEF Segment, End
        <3>3. told[m].at < replay_ptr
            BY <3>1, <3>2
        <3> QED
            BY <1>3, <3>3 DEF Segment
    <2>2. CASE m = n
        BY <1>1, <2>2
    <2>3. CASE n < m
        <3>1. End(told[n]) <= told[m].at /\ told[m].at \in Nat
            BY <1>3, <1>5, <2>3 DEF Segment
        <3> QED
            BY <1>5, <1>6, <3>1
    <2> QED
        BY <1>4, <1>5, <2>1, <2>2, <2>3
<1>7. \A m \in DOMAIN told' : told'[m].at < replay_ptr' => Asserted(told[m])
    BY <1>2, <1>6
<1>8. \A m \in DOMAIN told' : Asserted(told[m]) <=> Asserted(told[m])'
    BY <1>2 DEF Asserted, Opens, verifier, memorizers
<1>9. Segment'
    BY <1>2, <1>3, <1>5, <1>7, <1>8 DEF Segment, At
<1> QED
    BY <1>2, <1>3, <1>9, RunKeeps

LEMMA RunStepInv ==
    ASSUME IInv, ModuleCall \/ ModuleDies \/ ModuleEnds \/ Replay \/ ReplayDies \/ Publish
    PROVE  IInv'
<1>1. CASE ModuleCall
    BY <1>1, ModuleCallInv
<1>2. CASE Replay
    BY <1>2, ReplayInv
<1>3. CASE ModuleDies \/ ModuleEnds \/ ReplayDies \/ Publish
    <2>1. /\ stage \in {"run", "replay"} /\ stage' \in {"replay", "failed", "published"}
          /\ UNCHANGED <<dry, fetch, verifier, told, syscall_ptr, replay_ptr>>
          /\ stage' = "published" =>
                replay_ptr = syscall_ptr /\ output' = WriteOutput(mmr_metas_poseidon, mmr_metas_keccak)
        BY <1>3 DEF ModuleDies, ModuleEnds, ReplayDies, Publish, At, Enter, SoundCallFails, ReplayFails, run,
                    sound, Replaying
    <2>2. IsSequence(told) /\ Segment
        BY DEF IInv, TypeOK
    <2>3. \A n \in DOMAIN told' : Asserted(told[n]) <=> Asserted(told[n])'
        BY <2>1 DEF Asserted, Opens, verifier, memorizers
    <2>4. mmr_metas_poseidon' = mmr_metas_poseidon /\ mmr_metas_keccak' = mmr_metas_keccak
        BY <2>1 DEF verifier, mmr_metas
    <2>5. Segment'
        BY <2>1, <2>2, <2>3, <2>4 DEF Segment, At
    <2> QED
        BY <2>1, <2>2, <2>5, RunKeeps
<1> QED
    BY <1>1, <1>2, <1>3

-----------------------------------------------------------------------------
(* The theorems. *)

(* Every step of every command keeps the invariant. *)
LEMMA StepInv == IInv /\ [Next]_vars => IInv'
<1> SUFFICES ASSUME IInv, [Next]_vars PROVE IInv'
    OBVIOUS
<1>1. CASE DryStep
    BY <1>1, DryStepInv
<1>2. CASE RunFetcher \/ Fetching \/ Grow \/ GiveUp \/ RunSound \/ LoadFails
    BY <1>2, FetchStepInv
<1>3. CASE VerifyProofs \/ VerifyDies \/ RunModule
    BY <1>3, VerifyStepInv
<1>4. CASE ModuleCall \/ ModuleDies \/ ModuleEnds \/ Replay \/ ReplayDies \/ Publish
    BY <1>4, RunStepInv
<1>5. CASE UNCHANGED vars
    <2> USE <1>5 DEF vars, dry, key_sets, fetch, collectors, sound, verifier, memorizers, mmr_metas, run
    <2>1. TypeOK' /\ NothingForgotten' /\ chain_id' = chain_id
        BY DEF IInv, TypeOK, NothingForgotten, chain_id
    <2>2. FileInUse' /\ MemorizersTyped' /\ MemorizersTrue'
        BY <2>1 DEF IInv, FileInUse, Loaded, CanBeRead, MemorizersTyped, MemorizersTrue, NotStarted
    <2>3. HeadersCommitted'
        BY DEF IInv, HeadersCommitted, Metas, NotStarted, Accumulators
    <2>4. \A n \in DOMAIN told' : Asserted(told[n]) <=> Asserted(told[n])'
        BY DEF Asserted, Opens
    <2>5. Segment'
        BY <2>4 DEF IInv, Segment, At
    <2> QED
        BY <2>1, <2>2, <2>3, <2>5 DEF IInv
<1> QED
    BY <1>1, <1>2, <1>3, <1>4, <1>5 DEF Next, SoundStep

(* The invariant the others rest on. *)
THEOREM InvCorrect == Spec => []IInv
BY InitInv, StepInv, PTL DEF Spec

(* Whatever is in a memorizer is of the block its key names, as the         *)
(* accumulators have it: the verifiers let nothing else in.                 *)
THEOREM MemorizersCorrect == Spec => []MemorizersTrue
<1>1. IInv => MemorizersTrue
    BY DEF IInv
<1> QED
    BY <1>1, InvCorrect, PTL

LEMMA FileStep == IInv /\ FileIsWhole /\ [Next]_vars => FileIsWhole'
<1> SUFFICES ASSUME IInv, FileIsWhole, [Next]_vars PROVE FileIsWhole'
    OBVIOUS
<1> USE DEF vars, dry, key_sets, fetch, collectors
<1>1. Loaded' => CanBeRead(file')
    BY StepInv DEF IInv, FileInUse
<1>2. CASE DryStep
    <2>1. UNCHANGED fetch /\ stage = "dry"
        BY <1>2 DEF DryStep, DryRunCall, DryRunDies, NodeIsDown, DryRunEnds, At
    <2> QED
        BY <1>1, <2>1 DEF IInv, FileInUse, FileIsWhole
<1>3. CASE UNCHANGED <<file, fresh, evm_keys, starknet_keys>>
    BY <1>1, <1>3 DEF FileIsWhole
<1>4. CASE RunFetcher \/ Grow \/ GiveUp \/ RunSound \/ LoadFails \/ (Fetching /\ FetchFails)
    BY <1>4, <1>3 DEF RunFetcher, StartFetch, Grow, AccumulatorGrows, GiveUp, RunSound, LoadFails, Fetching, FetchFails
<1>5. CASE Fetching /\ FetchOne(evm_keys)
    BY <1>5, <1>3, ZenonT(60) DEF Fetching, FetchOne, FetchEvmHeader, FetchStarknetHeader, CollectHeader, FetchAccount,
             FetchStorage, FetchStarknetStorage, FetchReceipts, FetchTxs, FetchBytecode, Got
<1>6. CASE Fetching /\ WriteProofs
    <2>1. fetching /\ pending = {} /\ file' = fetched /\ fresh' = TRUE
          /\ evm_keys' = evm_keys /\ starknet_keys' = starknet_keys
        BY <1>6 DEF Fetching, WriteProofs
    <2>2. \A key \in evm_keys \union starknet_keys : HasHeader(fetched, key) /\ HasItem(fetched, key)
        BY <2>1 DEF IInv, NothingForgotten
    <2> QED
        BY <1>1, <2>1, <2>2 DEF FileIsWhole, HasHeader, HasItem
<1>7. CASE Fetching /\ WriteFails
    <2>1. ~fresh
        BY <1>7 DEF WriteFails, IInv, FileInUse
    <2> QED
        BY <1>1, <1>7, <2>1 DEF Fetching, WriteFails, FileIsWhole
<1>8. CASE SoundStep
    BY <1>8, <1>3 DEF SoundStep, VerifyProofs, VerifyDies, RunModule, ModuleCall, ModuleDies, ModuleEnds,
             Replay, ReplayDies, Publish
<1>9. CASE UNCHANGED vars
    BY <1>9, <1>3
<1> QED
    BY <1>2, <1>4, <1>5, <1>6, <1>7, <1>8, <1>9 DEF Next, Fetching

(* A finished fetch has left a proof for every key of the dry run; one that *)
(* failed before its write has left the old file, and of one whose write    *)
(* failed no sound run gets a part of the proofs.                           *)
THEOREM FileCorrect == Spec => []FileIsWhole
<1>1. Init => FileIsWhole
    BY DEF Init, FetchInit, FileIsWhole, Loaded
<1> QED
    BY <1>1, FileStep, InvCorrect, PTL DEF Spec

(* What is written can be read: from_iter finds what the program wrote.     *)
LEMMA ConcatenatedAt ==
    ASSUME NEW seq, NEW width \in {4, 5}, Len(seq) \in Nat
    PROVE  /\ Len(Concatenated(seq, width)) = width * Len(seq)
           /\ DOMAIN Concatenated(seq, width) = 1..(width * Len(seq))
           /\ Concatenated(seq, width) = [i \in 1..(width * Len(seq)) |-> Concatenated(seq, width)[i]]
           /\ \A n \in 1..Len(seq) :
                 /\ width * (n - 1) + 2 \in 1..(width * Len(seq)) /\ width * (n - 1) + 3 \in 1..(width * Len(seq))
                 /\ Concatenated(seq, width)[width * (n - 1) + 2] = seq[n][2]
                 /\ Concatenated(seq, width)[width * (n - 1) + 3] = seq[n][3]
<1> DEFINE l == width * Len(seq)
           c == Concatenated(seq, width)
<1>1. c = [i \in 1..l |-> seq[(i - 1) \div width + 1][((i - 1) % width) + 1]] /\ l \in Nat
    BY DEF Concatenated
<1>2. DOMAIN c = 1..l /\ Len(c) = l /\ c = [i \in 1..l |-> c[i]]
    BY <1>1
<1>3. ASSUME NEW n \in 1..Len(seq)
      PROVE  /\ width * (n - 1) + 2 \in 1..l /\ width * (n - 1) + 3 \in 1..l
             /\ c[width * (n - 1) + 2] = seq[n][2] /\ c[width * (n - 1) + 3] = seq[n][3]
    <2>1. CASE width = 4
        <3>1. 4 * (n - 1) + 2 \in 1..l /\ 4 * (n - 1) + 3 \in 1..l
            BY <2>1
        <3>2. /\ (4 * (n - 1) + 1) \div 4 = n - 1 /\ (4 * (n - 1) + 1) % 4 = 1
              /\ (4 * (n - 1) + 2) \div 4 = n - 1 /\ (4 * (n - 1) + 2) % 4 = 2
            OBVIOUS
        <3>3. /\ c[4 * (n - 1) + 2] = seq[(4 * (n - 1) + 1) \div 4 + 1][((4 * (n - 1) + 1) % 4) + 1]
              /\ c[4 * (n - 1) + 3] = seq[(4 * (n - 1) + 2) \div 4 + 1][((4 * (n - 1) + 2) % 4) + 1]
            BY <1>1, <2>1, <3>1
        <3> QED
            BY <2>1, <3>1, <3>2, <3>3
    <2>2. CASE width = 5
        <3>1. 5 * (n - 1) + 2 \in 1..l /\ 5 * (n - 1) + 3 \in 1..l
            BY <2>2
        <3>2. /\ (5 * (n - 1) + 1) \div 5 = n - 1 /\ (5 * (n - 1) + 1) % 5 = 1
              /\ (5 * (n - 1) + 2) \div 5 = n - 1 /\ (5 * (n - 1) + 2) % 5 = 2
            OBVIOUS
        <3>3. /\ c[5 * (n - 1) + 2] = seq[(5 * (n - 1) + 1) \div 5 + 1][((5 * (n - 1) + 1) % 5) + 1]
              /\ c[5 * (n - 1) + 3] = seq[(5 * (n - 1) + 2) \div 5 + 1][((5 * (n - 1) + 2) % 5) + 1]
            BY <1>1, <2>2, <3>1
        <3> QED
            BY <2>2, <3>1, <3>2, <3>3
    <2> QED
        BY <2>1, <2>2
<1> QED
    BY <1>2, <1>3

LEMMA ConcatenatedTyped ==
    ASSUME NEW width \in {4, 5}, NEW seq, Len(seq) \in Nat,
           \A n \in 1..Len(seq) : \A j \in 1..width : seq[n][j] \in Nat
    PROVE  Concatenated(seq, width) \in Seq(Nat)
<1> DEFINE l == width * Len(seq)
<1>1. Concatenated(seq, width) = [i \in 1..l |-> seq[(i - 1) \div width + 1][((i - 1) % width) + 1]] /\ l \in Nat
    BY DEF Concatenated
<1>2. ASSUME NEW i \in 1..l
      PROVE  (i - 1) \div width + 1 \in 1..Len(seq) /\ ((i - 1) % width) + 1 \in 1..width
    <2>1. CASE width = 4
        BY <2>1
    <2>2. CASE width = 5
        BY <2>2
    <2> QED
        BY <2>1, <2>2
<1>3. Concatenated(seq, width) \in [1..l -> Nat]
    BY <1>1, <1>2
<1>4. l \in Nat
    BY <1>1
<1> HIDE DEF l
<1> QED
    BY <1>3, <1>4, SeqDef

LEMMA Joined ==
    \A s, t \in Seq(Nat) :
        LET u == s \o t
        IN  /\ u \in Seq(Nat) /\ Len(s) \in Nat /\ Len(t) \in Nat /\ Len(u) = Len(s) + Len(t)
            /\ \A i \in 1..Len(s) : u[i] = s[i]
            /\ \A i \in 1..Len(t) : u[Len(s) + i] = t[i]
OBVIOUS

Words == Seq(Nat)
Layout(a, b, c, d) == TaskHash \o OutputRoot \o (<<a, b>> \o c \o d)

LaidOut(out, a, b, c, d) ==
    /\ out[5] = a /\ out[6] = b
    /\ \A i \in 1..Len(c) : out[6 + i] = c[i]
    /\ \A i \in 1..Len(d) : out[6 + Len(c) + i] = d[i]

LEMMA PartsOfOutput ==
    \A a, b \in Nat : \A c, d \in Words :
        LaidOut(Layout(a, b, c, d), a, b, c, d)
<1> TAKE a, b \in Nat
<1> TAKE c, d \in Words
<1>0. c \in Seq(Nat) /\ d \in Seq(Nat)
    BY DEF Words
<1> DEFINE out == TaskHash \o OutputRoot \o (<<a, b>> \o c \o d)
           head == TaskHash \o OutputRoot
           counts == <<a, b>>
           mid == counts \o c
           tail == mid \o d
<1>1. head \in Seq(Nat) /\ Len(head) = 4
    BY DEF TaskHash, OutputRoot
<1>2. counts \in Seq(Nat) /\ Len(counts) = 2 /\ counts[1] = a /\ counts[2] = b
    OBVIOUS
<1>3. mid = counts \o c /\ tail = mid \o d /\ out = head \o tail
    OBVIOUS
<1> HIDE DEF head, counts, mid, tail, out
<1>4. /\ mid \in Seq(Nat) /\ Len(c) \in Nat /\ Len(mid) = 2 + Len(c)
      /\ \A i \in 1..2 : mid[i] = counts[i]
      /\ \A i \in 1..Len(c) : mid[2 + i] = c[i]
    <2>1. /\ mid \in Seq(Nat) /\ Len(c) \in Nat /\ Len(mid) = Len(counts) + Len(c)
          /\ \A i \in 1..Len(counts) : mid[i] = counts[i]
          /\ \A i \in 1..Len(c) : mid[Len(counts) + i] = c[i]
        BY <1>0, <1>2, <1>3, Joined
    <2> QED
        BY <1>2, <2>1
<1>5. /\ tail \in Seq(Nat) /\ Len(d) \in Nat /\ Len(tail) = 2 + Len(c) + Len(d)
      /\ \A i \in 1..(2 + Len(c)) : tail[i] = mid[i]
      /\ \A i \in 1..Len(d) : tail[2 + Len(c) + i] = d[i]
    <2>1. /\ tail \in Seq(Nat) /\ Len(d) \in Nat /\ Len(tail) = Len(mid) + Len(d)
          /\ \A i \in 1..Len(mid) : tail[i] = mid[i]
          /\ \A i \in 1..Len(d) : tail[Len(mid) + i] = d[i]
        <3>1. mid \in Seq(Nat)
            BY <1>4
        <3> QED
            BY <1>0, <1>3, <3>1, Joined
    <2> QED
        BY <1>4, <2>1
<1>6. \A i \in 1..(2 + Len(c) + Len(d)) : out[4 + i] = tail[i]
    <2>1. \A i \in 1..Len(tail) : out[Len(head) + i] = tail[i]
        BY <1>1, <1>3, <1>5, Joined
    <2> QED
        BY <1>1, <1>5, <2>1
<1>7. out[5] = a /\ out[6] = b
    <2>1. 1 \in 1..(2 + Len(c) + Len(d)) /\ 2 \in 1..(2 + Len(c) + Len(d))
        BY <1>4, <1>5
    <2>2. out[4 + 1] = tail[1] /\ out[4 + 2] = tail[2]
        BY <1>6, <2>1
    <2>3. 1 \in 1..(2 + Len(c)) /\ 2 \in 1..(2 + Len(c)) /\ 1 \in 1..2 /\ 2 \in 1..2
        BY <1>4
    <2>4. tail[1] = mid[1] /\ tail[2] = mid[2]
        BY <1>5, <2>3
    <2>5. mid[1] = counts[1] /\ mid[2] = counts[2]
        BY <1>4, <2>3
    <2>6. 4 + 1 = 5 /\ 4 + 2 = 6
        OBVIOUS
    <2> QED
        BY <1>2, <2>2, <2>4, <2>5, <2>6
<1>8. ASSUME NEW i \in 1..Len(c) PROVE out[6 + i] = c[i]
    <2>1. 2 + i \in 1..(2 + Len(c) + Len(d)) /\ 2 + i \in 1..(2 + Len(c)) /\ 4 + (2 + i) = 6 + i
        BY <1>4, <1>5
    <2>2. out[4 + (2 + i)] = tail[2 + i] /\ tail[2 + i] = mid[2 + i]
        BY <1>5, <1>6, <2>1
    <2> QED
        BY <1>4, <2>1, <2>2
<1>9. ASSUME NEW i \in 1..Len(d) PROVE out[6 + Len(c) + i] = d[i]
    <2> DEFINE j == 2 + Len(c) + i
    <2>1. j \in 1..(2 + Len(c) + Len(d)) /\ 4 + j = 6 + Len(c) + i
        BY <1>4, <1>5
    <2>2. tail[j] = d[i]
        BY <1>5
    <2> HIDE DEF j
    <2>3. out[4 + j] = tail[j]
        BY <1>6, <2>1
    <2> QED
        BY <2>1, <2>2, <2>3
<1> QED
    BY <1>7, <1>8, <1>9 DEF out, Layout, LaidOut

(* hdp.cairo's layout of the accumulators and the reading of it in types    *)
(* agree, for any number of accumulators of either hash function.           *)
THEOREM OutputReadBack ==
    ASSUME NEW poseidon \in Seq(MetaSet("poseidon")), NEW keccak \in Seq(MetaSet("keccak"))
    PROVE  FromIter(WriteOutput(poseidon, keccak)) = [poseidon |-> poseidon, keccak |-> keccak]
<1> DEFINE out == WriteOutput(poseidon, keccak)
           ps == [n \in DOMAIN poseidon |-> PoseidonFelts(poseidon[n])]
           ks == [n \in DOMAIN keccak |-> KeccakFelts(keccak[n])]
           c == Concatenated(ps, 4)
           d == Concatenated(ks, 5)
           a == Len(poseidon)
           b == Len(keccak)
<1>1. /\ a \in Nat /\ DOMAIN poseidon = 1..a /\ b \in Nat /\ DOMAIN keccak = 1..b
      /\ \A n \in 1..a : poseidon[n] \in MetaSet("poseidon")
      /\ \A n \in 1..b : keccak[n] \in MetaSet("keccak")
    OBVIOUS
<1>2. /\ DOMAIN ps = 1..a /\ Len(ps) = a /\ DOMAIN ks = 1..b /\ Len(ks) = b
      /\ \A n \in 1..a : ps[n] = PoseidonFelts(poseidon[n])
      /\ \A n \in 1..b : ks[n] = KeccakFelts(keccak[n])
    BY <1>1
<1> HIDE DEF ps, ks
<1>3. Chain \subseteq Nat
    BY ChainAssumption DEF Chain
<1>4. /\ \A n \in 1..a : /\ \A j \in 1..4 : ps[n][j] \in Nat
                         /\ ps[n][2] = poseidon[n].size /\ ps[n][3] = poseidon[n].chain
      /\ \A n \in 1..b : /\ \A j \in 1..5 : ks[n][j] \in Nat
                         /\ ks[n][2] = keccak[n].size /\ ks[n][3] = keccak[n].chain
    <2>1. ASSUME NEW n \in 1..a
          PROVE  (\A j \in 1..4 : ps[n][j] \in Nat) /\ ps[n][2] = poseidon[n].size /\ ps[n][3] = poseidon[n].chain
        <3>1. ps[n] = <<205, poseidon[n].size, poseidon[n].chain, 206>>
            BY <1>2 DEF PoseidonFelts, MmrId, MmrRoot
        <3>2. poseidon[n].size \in Nat /\ poseidon[n].chain \in Nat
            BY <1>1, <1>3 DEF MetaSet
        <3> QED
            BY <3>1, <3>2
    <2>2. ASSUME NEW n \in 1..b
          PROVE  (\A j \in 1..5 : ks[n][j] \in Nat) /\ ks[n][2] = keccak[n].size /\ ks[n][3] = keccak[n].chain
        <3>1. ks[n] = <<205, keccak[n].size, keccak[n].chain, 206, 207>>
            BY <1>2 DEF KeccakFelts, MmrId, MmrRoot, MmrRootHigh
        <3>2. keccak[n].size \in Nat /\ keccak[n].chain \in Nat
            BY <1>1, <1>3 DEF MetaSet
        <3> QED
            BY <3>1, <3>2
    <2> QED
        BY <2>1, <2>2
<1>5. c \in Seq(Nat) /\ d \in Seq(Nat)
    BY <1>1, <1>2, <1>4, ConcatenatedTyped
<1>6. Len(c) = 4 * a /\ Len(d) = 5 * b
    BY <1>1, <1>2, ConcatenatedAt
<1>7. out = TaskHash \o OutputRoot \o (<<a, b>> \o c \o d)
    BY DEF WriteOutput, WriteMetas, ps, ks
<1> HIDE DEF c, d, a, b
<1>8. /\ out[5] = a /\ out[6] = b
      /\ \A i \in 1..(4 * a) : out[6 + i] = c[i]
      /\ \A i \in 1..(5 * b) : out[6 + 4 * a + i] = d[i]
    <2> DEFINE w == Layout(a, b, c, d)
    <2>1. a \in Nat /\ b \in Nat
        BY <1>1
    <2>2. LaidOut(w, a, b, c, d)
        <3>1. c \in Words /\ d \in Words
            BY <1>5 DEF Words
        <3> QED
            BY <2>1, <3>1, PartsOfOutput
    <2>3. out = w
        BY <1>7 DEF Layout
    <2> HIDE DEF w, out
    <2> QED
        BY <1>6, <2>2, <2>3 DEF LaidOut
<1> HIDE DEF out
<1>9. ASSUME NEW n \in 1..a
      PROVE  MetaAt(out, 7 + 4 * (n - 1), "poseidon") = poseidon[n]
    <2> DEFINE i == 4 * (n - 1)
    <2>1. i \in Nat
        BY <1>1
    <2>2. /\ i + 2 \in 1..(4 * a) /\ i + 3 \in 1..(4 * a)
          /\ c[i + 2] = ps[n][2] /\ c[i + 3] = ps[n][3]
        BY <1>1, <1>2, ConcatenatedAt DEF c
    <2> HIDE DEF i
    <2>3. 7 + i + 1 = 6 + (i + 2) /\ 7 + i + 2 = 6 + (i + 3)
        BY <2>1
    <2>4. out[7 + i + 1] = poseidon[n].size /\ out[7 + i + 2] = poseidon[n].chain
        BY <1>4, <1>8, <2>2, <2>3
    <2>5. poseidon[n] = [chain |-> poseidon[n].chain, size |-> poseidon[n].size, hasher |-> "poseidon"]
        BY <1>1 DEF MetaSet
    <2> QED
        BY <2>4, <2>5 DEF MetaAt, i
<1>10. ASSUME NEW n \in 1..b
       PROVE  MetaAt(out, 7 + 4 * a + 5 * (n - 1), "keccak") = keccak[n]
    <2> DEFINE i == 5 * (n - 1)
               at == 4 * a
    <2>1. i \in Nat /\ at \in Nat
        BY <1>1
    <2>2. /\ i + 2 \in 1..(5 * b) /\ i + 3 \in 1..(5 * b)
          /\ d[i + 2] = ks[n][2] /\ d[i + 3] = ks[n][3]
        BY <1>1, <1>2, ConcatenatedAt DEF d
    <2> HIDE DEF i
    <2>3. \A j \in 1..(5 * b) : out[6 + at + j] = d[j]
        BY <1>8
    <2> HIDE DEF at
    <2>4. 7 + at + i + 1 = 6 + at + (i + 2) /\ 7 + at + i + 2 = 6 + at + (i + 3)
        BY <2>1
    <2>5. out[7 + at + i + 1] = keccak[n].size /\ out[7 + at + i + 2] = keccak[n].chain
        BY <1>4, <2>2, <2>3, <2>4
    <2>6. keccak[n] = [chain |-> keccak[n].chain, size |-> keccak[n].size, hasher |-> "keccak"]
        BY <1>1 DEF MetaSet
    <2> QED
        BY <2>5, <2>6 DEF MetaAt, i, at
<1>11. poseidon = [n \in 1..a |-> poseidon[n]] /\ keccak = [n \in 1..b |-> keccak[n]]
    BY <1>1 DEF a, b
<1>12. FromIter(out) = [poseidon |-> [n \in 1..a |-> MetaAt(out, 7 + 4 * (n - 1), "poseidon")],
                        keccak |-> [n \in 1..b |-> MetaAt(out, 7 + 4 * a + 5 * (n - 1), "keccak")]]
    BY <1>8 DEF FromIter
<1> QED
    BY <1>9, <1>10, <1>11, <1>12 DEF out

(* The published output, read back, names an accumulator of the file for    *)
(* every header a memorizer holds, and writing what was read gives it again. *)
THEOREM OutputCorrect == Spec => []OutputCommits
<1>1. ASSUME IInv, At("published") PROVE OutputCommits
    <2> DEFINE p == mmr_metas_poseidon
               k == mmr_metas_keccak
    <2>1. output = WriteOutput(p, k) /\ p \in Seq(MetaSet("poseidon")) /\ k \in Seq(MetaSet("keccak"))
        BY <1>1 DEF IInv, TypeOK, Segment
    <2> DEFINE read == FromIter(output)
    <2>2. read = [poseidon |-> p, keccak |-> k]
        BY <2>1, OutputReadBack
    <2> HIDE DEF read
    <2>3. read.poseidon = p /\ read.keccak = k
        BY <2>2
    <2>4. ToFeltVec(read) = output
        BY <2>1, <2>3 DEF ToFeltVec, WriteOutput
    <2>5. ASSUME NEW dict \in {evm, starknet}, NEW h \in DOMAIN dict, dict[h].key.kind = "header"
          PROVE  \E meta \in Elements(read.poseidon) \union Elements(read.keccak) :
                     meta \in Accumulators(file) /\ Commits(meta, dict[h].root)
        <3>1. PICK meta \in Metas : Commits(meta, dict[h].root)
            BY <1>1, <2>5 DEF IInv, HeadersCommitted
        <3>2. meta \in Accumulators(file)
            BY <1>1, <3>1 DEF IInv, HeadersCommitted
        <3> QED
            BY <2>3, <3>1, <3>2 DEF Metas
    <2> QED
        BY <2>4, <2>5 DEF OutputCommits, read
<1>2. IInv => OutputCommits
    BY <1>1 DEF OutputCommits
<1> QED
    BY <1>2, InvCorrect, PTL

(* What the replay asserted is what the committed chain has.                *)
LEMMA AssertedIsRight ==
    ASSUME IInv, NEW cell, Callable(cell.call), Asserted(cell)
    PROVE  RightAnswer(cell.call, cell.answer)
<1> DEFINE call == cell.call
           key == KeyOf(call)
           hash == HashParams(key)
<1>1. MemorizersTyped /\ MemorizersTrue
    BY DEF IInv
<1>2. CASE HandlerOf(call) = "evm"
    <2>1. key \in EvmKeys
        BY <1>2 DEF Callable
    <2>2. /\ hash \in DOMAIN evm /\ ReadBy(CairoReads(call), evm[hash], call) = cell.answer.value
          /\ evm[hash].root.view = cell.answer.view
        BY <1>2 DEF Asserted, Opens
    <2> HIDE DEF call, key, hash
    <2>3. evm[hash].key \in EvmKeys /\ HashParams(evm[hash].key) = hash
        BY <1>1, <2>2 DEF MemorizersTyped, MemorizersTrue, ItemsOf
    <2>4. evm[hash].key = key
        BY <2>1, <2>3, KeysApart DEF hash
    <2>5. evm[hash].root.view = "committed"
        <3>1. \A h \in DOMAIN evm : evm[h].root = Header(evm[h].key.chain, evm[h].key.block, "committed")
            BY <1>1 DEF MemorizersTrue
        <3>2. hash \in DOMAIN evm
            BY <2>2
        <3>3. evm[hash].root = Header(evm[hash].key.chain, evm[hash].key.block, "committed")
            BY <3>1, <3>2, Zenon
        <3> QED
            BY <3>3 DEF Header
    <2> QED
        BY <2>2, <2>4, <2>5 DEF RightAnswer, ReadBy, key, call
<1>3. CASE HandlerOf(call) = "starknet"
    <2>1. key \in StarknetKeys
        BY <1>3 DEF Callable
    <2>2. /\ hash \in DOMAIN starknet /\ ReadBy(CairoReads(call), starknet[hash], call) = cell.answer.value
          /\ starknet[hash].root.view = cell.answer.view
        BY <1>3 DEF Asserted, Opens
    <2> HIDE DEF call, key, hash
    <2>3. starknet[hash].key \in StarknetKeys /\ HashParams(starknet[hash].key) = hash
        BY <1>1, <2>2 DEF MemorizersTyped, MemorizersTrue, ItemsOf
    <2>4. starknet[hash].key = key
        BY <2>1, <2>3, KeysApart DEF hash
    <2>5. starknet[hash].root.view = "committed"
        <3>1. \A h \in DOMAIN starknet : starknet[h].root = Header(starknet[h].key.chain, starknet[h].key.block, "committed")
            BY <1>1 DEF MemorizersTrue
        <3>2. hash \in DOMAIN starknet
            BY <2>2
        <3>3. starknet[hash].root = Header(starknet[hash].key.chain, starknet[hash].key.block, "committed")
            BY <3>1, <3>2, Zenon
        <3> QED
            BY <3>3 DEF Header
    <2> QED
        BY <2>2, <2>4, <2>5 DEF RightAnswer, ReadBy, key, call
<1>4. CASE HandlerOf(call) = "bytecode"
    <2>1. key \in BytecodeKeys
        BY <1>4 DEF Callable
    <2>2. hash \in DOMAIN bytecodes /\ ReadBy(CairoReads(call), bytecodes[hash], call) = cell.answer.value
        BY <1>4 DEF Asserted, Opens
    <2> HIDE DEF call, key, hash
    <2>3. bytecodes[hash].key \in BytecodeKeys /\ HashParams(bytecodes[hash].key) = hash
        BY <1>1, <2>2 DEF MemorizersTyped, ItemsOf
    <2>4. bytecodes[hash].key = key
        BY <2>1, <2>3, KeysApart DEF hash
    <2> QED
        BY <1>4, <2>2, <2>4 DEF RightAnswer, ReadBy, key, call
<1>5. CASE HandlerOf(call) \in {"keccak", "debug"}
    BY <1>5 DEF Asserted, RightAnswer
<1> QED
    BY <1>2, <1>3, <1>4, <1>5 DEF Asserted

(* The job implements TrueReads: with every step it reads, publishes only   *)
(* right answers, fails or does nothing that the promise is about.          *)
THEOREM PromiseKept == Spec => KeepsPromise
<1> DEFINE reads == [n \in DOMAIN told |-> [call |-> told[n].call, answer |-> told[n].answer]]
<1>1. Init => Promise!Init
    BY DEF Init, RunInit, Promise!Init, Status, At
<1>2. IInv /\ [Next]_vars => [Promise!Next]_<<reads, Status>>
    <2> SUFFICES ASSUME IInv, [Next]_vars PROVE [Promise!Next]_<<reads, Status>>
        OBVIOUS
    <2> USE DEF sound, run, At, Enter
    <2>1. CASE ModuleCall
        <3>1. PICK cell : told' = Append(told, cell)
            BY <2>1 DEF ModuleCall, SoundCall, SoundEvmCall, SoundStarknetCall, SoundBytecodeCall, SoundKeccakCall,
                        SoundDebugCall, Told
        <3>2. IsSequence(told)
            BY DEF IInv, TypeOK
        <3>3. /\ Len(told) \in Nat /\ DOMAIN told = 1..Len(told)
              /\ DOMAIN told' = 1..(Len(told) + 1)
              /\ \A n \in DOMAIN told : told'[n] = told[n]
            BY <3>1, <3>2, AppendIsSequence
        <3>4. Len(reads) = Len(told)
            BY <3>3
        <3>5. DOMAIN reads' = 1..(Len(reads) + 1) /\ \A n \in DOMAIN reads : reads'[n] = reads[n]
            BY <3>3, <3>4
        <3>6. Status = "running" /\ Status' = "running"
            BY <2>1 DEF ModuleCall, Status
        <3> QED
            BY <3>5, <3>6 DEF Promise!Next, Promise!Read
    <2>2. CASE Publish
        <3>1. replay_ptr = syscall_ptr /\ stage = "replay" /\ stage' = "published" /\ told' = told
            BY <2>2 DEF Publish, Replaying
        <3>2. ASSUME NEW n \in DOMAIN told PROVE RightAnswer(told[n].call, told[n].answer)
            <4>1. /\ told[n].at \in Nat /\ Callable(told[n].call) /\ End(told[n]) <= syscall_ptr
                  /\ syscall_ptr \in Nat
                BY DEF IInv, Segment
            <4>2. told[n].at < replay_ptr
                BY <3>1, <4>1, SizesAgree DEF End
            <4> QED
                BY <4>1, <4>2, AssertedIsRight DEF IInv, Segment
        <3>3. \A n \in DOMAIN reads : RightAnswer(reads[n].call, reads[n].answer)
            BY <3>2
        <3>4. Status = "running" /\ Status' = "published" /\ reads' = reads
            BY <3>1 DEF Status
        <3> QED
            BY <3>3, <3>4 DEF Promise!Next, Promise!Publish
    <2>3. CASE /\ told' = told /\ stage \in Stages \ {"failed", "gave_up", "published"}
               /\ stage' \in {"failed", "gave_up"}
        BY <2>3 DEF Promise!Next, Promise!Fail, Status, Stages
    <2>4. CASE /\ told' = told /\ stage' \in Stages \ {"failed", "gave_up", "published"}
               /\ stage \in Stages \ {"failed", "gave_up", "published"}
        BY <2>4 DEF Status, Stages
    <2>5. CASE UNCHANGED vars
        BY <2>5 DEF vars, Status
    <2>6. CASE DryStep
        BY <2>6, <2>3, <2>4 DEF DryStep, DryRunCall, DryRunDies, NodeIsDown, DryRunEnds, Stages
    <2>7. CASE RunFetcher \/ Fetching \/ Grow \/ GiveUp \/ RunSound \/ LoadFails
        BY <2>7, <2>3, <2>4 DEF RunFetcher, Fetching, Grow, GiveUp, RunSound, LoadFails, Stages
    <2>8. CASE VerifyProofs \/ VerifyDies \/ RunModule \/ ModuleDies \/ ModuleEnds \/ Replay \/ ReplayDies
        BY <2>8, <2>3, <2>4 DEF VerifyProofs, VerifyDies, RunModule, ModuleDies, ModuleEnds, Replay, ReplayDies,
                                SoundCallFails, ReplayCall, ReplayFails, Stages
    <2> QED
        BY <2>1, <2>2, <2>5, <2>6, <2>7, <2>8 DEF Next, SoundStep
<1> QED
    BY <1>1, <1>2, InvCorrect, PTL DEF Spec, KeepsPromise, Promise!Spec

-----------------------------------------------------------------------------
(* The readers of a call. *)

(* The verifier finds the index and the path of every transaction a block   *)
(* may have in the key the fetcher made of it.                              *)
THEOREM IndexReadBack ==
    \A n \in 0..Rlp!LastIndex :
        LET key == Rlp!RlpKey(n)
        IN  Rlp!IndexOf(key) = n /\ Rlp!WholePath(key, Rlp!RlpBytes(Rlp!IndexOf(key)))
<1> TAKE n \in 0..Rlp!LastIndex
<1>0. n \in Nat /\ n <= 65535
    <2>1. Rlp!LastIndex = 65535
        BY DEF Rlp!LastIndex
    <2> QED
        BY <2>1
<1> HIDE DEF Rlp!LastIndex
<1> USE <1>0
<1> DEFINE key == Rlp!RlpKey(n)
<1> SUFFICES Rlp!IndexOf(key) = n /\ Rlp!WholePath(key, Rlp!RlpBytes(n))
    OBVIOUS
<1>1. CASE n = 0
    <2>1. key = 128
        BY <1>1 DEF Rlp!RlpKey
    <2>2. Rlp!Hexadecimal(key) = 2 /\ Rlp!RlpBytes(n) = 1
        BY <2>1, <1>1 DEF Rlp!Hexadecimal, Rlp!RlpBytes
    <2> QED
        BY <2>1, <2>2, <1>1 DEF Rlp!IndexOf, Rlp!WholePath, Rlp!LeadingZeroNibbles
<1>2. CASE n > 0 /\ n < 128
    <2>1. key = n
        BY <1>2 DEF Rlp!RlpKey
    <2>2. Rlp!IndexOf(key) = n /\ Rlp!RlpBytes(n) = 1
        BY <2>1, <1>2 DEF Rlp!IndexOf, Rlp!RlpBytes
    <2>3. Rlp!Hexadecimal(key) \in {1, 2}
        BY <2>1, <1>2 DEF Rlp!Hexadecimal
    <2> QED
        BY <2>2, <2>3 DEF Rlp!WholePath, Rlp!LeadingZeroNibbles
<1>3. CASE n >= 128 /\ n < 256
    <2>1. key = 33024 + n
        BY <1>3 DEF Rlp!RlpKey
    <2>2. Rlp!IndexOf(key) = n /\ Rlp!RlpBytes(n) = 2
        BY <2>1, <1>3 DEF Rlp!IndexOf, Rlp!RlpBytes
    <2>3. Rlp!Hexadecimal(key) = 4
        BY <2>1, <1>3 DEF Rlp!Hexadecimal
    <2> QED
        BY <2>2, <2>3 DEF Rlp!WholePath, Rlp!LeadingZeroNibbles
<1>4. CASE n >= 256
    <2>1. key = 8519680 + n
        BY <1>4 DEF Rlp!RlpKey
    <2>2. Rlp!IndexOf(key) = n /\ Rlp!RlpBytes(n) = 3
        <3>1. key % 65536 = n
            BY <2>1
        <3> QED
            BY <2>1, <3>1, <1>4 DEF Rlp!IndexOf, Rlp!RlpBytes
    <2>3. Rlp!Hexadecimal(key) = 6
        BY <2>1, <1>4 DEF Rlp!Hexadecimal
    <2> QED
        BY <2>2, <2>3 DEF Rlp!WholePath, Rlp!LeadingZeroNibbles
<1> QED
    BY <1>1, <1>2, <1>3, <1>4

(* A handler looks up the memorizer where the verifier stored the key. *)
LEMMA LookedUpByKey ==
    ASSUME NEW call, Callable(call), HandlerOf(call) \in {"evm", "starknet", "bytecode"}
    PROVE  KeyHash(call) = HashParams(KeyOf(call))
<1>1. CASE HandlerOf(call) = "evm"
    <2>1. call.kind \in EvmKinds /\ call.chain \in EvmChain
        BY <1>1 DEF HandlerOf
    <2>2. KeyOf(call) \in EvmKeys
        BY <1>1 DEF Callable
    <2> USE <2>1, <2>2, EvmKeyCases DEF KeyHash, EvmHash, EvmKinds, KeyOf, Key, HashParams
    <2>3. CASE call.kind = "header"
        BY <2>3, <1>1 DEF HeaderHash
    <2>4. CASE call.kind = "account"
        BY <2>4, <1>1 DEF AccountHash
    <2>5. CASE call.kind = "storage"
        BY <2>5, <1>1 DEF StorageHash
    <2>6. CASE call.kind = "tx"
        BY <2>6, <1>1 DEF TxHash
    <2>7. CASE call.kind = "receipt"
        BY <2>7, <1>1 DEF ReceiptHash
    <2>8. CASE call.kind = "log"
        BY <2>8, <1>1 DEF LogHash
    <2> QED
        BY <2>3, <2>4, <2>5, <2>6, <2>7, <2>8
<1>2. CASE HandlerOf(call) = "starknet"
    <2>1. call.kind \in StarknetKinds /\ call.chain \in StarknetChain /\ call.chain \notin EvmChain
        BY <1>2, ChainAssumption DEF HandlerOf
    <2> QED
        BY <2>1, <1>2 DEF KeyHash, StarknetHash, StarknetKinds, KeyOf, Key, HashParams,
                          StarknetHeaderHash, StarknetStorageHash
<1>3. CASE HandlerOf(call) = "bytecode"
    <2>1. call.kind = "bytecode"
        BY <1>3 DEF HandlerOf
    <2> QED
        BY <2>1, <1>3 DEF KeyHash, AccountHash, KeyOf, Key, HashParams
<1> QED
    BY <1>1, <1>2, <1>3

(* What a call to a handler can be about. *)
LEMMA CallCases ==
    ASSUME NEW call, Callable(call), HandlerOf(call) \in {"evm", "starknet"}
    PROVE  /\ HandlerOf(call) = "evm" =>
                /\ call.kind \in EvmKinds /\ call.chain \in EvmChain /\ call.chain \notin StarknetChain
                /\ KeyOf(call) \in EvmKeys
           /\ HandlerOf(call) = "starknet" =>
                /\ call.kind \in StarknetKinds /\ call.chain \in StarknetChain /\ call.chain \notin EvmChain
                /\ KeyOf(call) \in StarknetKeys
           /\ call.block \in Block /\ call.field \in Fields(call)
<1>1. CASE HandlerOf(call) = "evm"
    <2>1. call.kind \in EvmKinds /\ call.chain \in EvmChain /\ KeyOf(call) \in EvmKeys
        BY <1>1 DEF HandlerOf, Callable
    <2>2. KeyOf(call).block = call.block
        BY DEF KeyOf, Key
    <2> QED
        BY <1>1, <2>1, <2>2, EvmKeyCases, ChainAssumption DEF Callable
<1>2. CASE HandlerOf(call) = "starknet"
    <2>1. call.kind \in StarknetKinds /\ call.chain \in StarknetChain /\ KeyOf(call) \in StarknetKeys
        BY <1>2 DEF HandlerOf, Callable
    <2>2. KeyOf(call).block = call.block
        BY DEF KeyOf, Key
    <2> QED
        BY <1>2, <2>1, <2>2, StarknetKeyCases, ChainAssumption DEF Callable
<1> QED
    BY <1>1, <1>2

(* The two readers of a header, of the fields a dry run may ask for. *)
LEMMA HeaderReaders ==
    ASSUME NEW age \in Nat, NEW f \in Evm!HeaderFields
    PROVE  SupportedHeader(age, f) <=>
               /\ Evm!RustHeader(age, f) # Evm!Unreadable
               /\ Evm!CairoHeader(age, f) = Evm!RustHeader(age, f)
<1> USE DEF SupportedHeader, Evm!HeaderFields, Evm!RustHeader, Evm!CairoHeader, Evm!If, Evm!Unreadable,
            Evm!ExtraData, Evm!BaseFeePerGas, Evm!RequestsHash, Evm!AddedBy
<1>1. CASE f \in 0..14
    BY <1>1
<1>2. CASE f \in 15..20
    BY <1>2
<1> QED
    BY <1>1, <1>2

(* Of the fields of a transaction, by its type. *)
LEMMA TxReaders ==
    ASSUME NEW tx, tx.type \in Evm!TxTypes, NEW f \in Evm!TxFields
    PROVE  SupportedTx(tx, f) <=>
               /\ Evm!RustTx(tx, f) # Evm!Unreadable
               /\ Evm!CairoTx(tx, f) = Evm!RustTx(tx, f)
<1> USE DEF SupportedTx, Evm!TxFields, Evm!TxTypes, Evm!RustTx, Evm!CairoTx, Evm!If, Evm!Unreadable,
            Evm!RustTxFields, Evm!CairoTxFields, Evm!TypeByte, Evm!EveryTx, Evm!LegacyTx, Evm!Eip155Tx,
            Evm!Eip2930Tx, Evm!Eip1559Tx, Evm!Eip4844Tx, Evm!Eip7702Tx, Evm!GasPrice, Evm!Receiver,
            Evm!TxData, Evm!TxV, Evm!ChainIdField, Evm!AccessList, Evm!MaxFeePerBlobGas,
            Evm!BlobVersionedHashes, Evm!Parity, Evm!RecoveryId, Evm!NoReceiver, Evm!WrongField
<1>1. CASE tx.type = "legacy"
    BY <1>1
<1>2. CASE tx.type = "eip155"
    BY <1>2
<1>3. CASE tx.type = "eip2930"
    BY <1>3
<1>4. CASE tx.type = "eip1559"
    BY <1>4
<1>5. CASE tx.type = "eip4844"
    BY <1>5
<1>6. CASE tx.type = "eip7702"
    BY <1>6
<1> QED
    BY <1>1, <1>2, <1>3, <1>4, <1>5, <1>6

(* Of receipts and logs: the sound reader has not learnt of the last type. *)
LEMMA ReceiptReaders ==
    ASSUME NEW type \in Evm!TxTypes, NEW f \in Evm!ReceiptFields
    PROVE  /\ Evm!DryReceipt(f) = f /\ f # Evm!Unreadable
           /\ type # "eip7702" <=> Evm!SoundReceipt(type, f) # Evm!Unreadable
           /\ type # "eip7702" => Evm!SoundReceipt(type, f) = f /\ Evm!CairoReceipt(type, f) = f
BY DEF Evm!DryReceipt, Evm!SoundReceipt, Evm!CairoReceipt, Evm!If, Evm!Unreadable, Evm!ReceiptFields,
       Evm!OpenReceipt, Evm!CairoOpenReceipt, Evm!TypeByte, Evm!TxTypes

LEMMA LogReaders ==
    ASSUME NEW type \in Evm!TxTypes, NEW log, NEW f \in Evm!LogFields, log.topics \in Nat
    PROVE  /\ type # "eip7702" /\ SupportedLog(log, f) <=>
                /\ Evm!SoundLog(type, log, f) # Evm!Unreadable
                /\ Evm!CairoLog(type, log, f) = Evm!SoundLog(type, log, f)
           /\ type # "eip7702" => Evm!SoundLog(type, log, f) = Evm!DryLog(log, f)
BY DEF SupportedLog, Evm!DryLog, Evm!SoundLog, Evm!CairoLog, Evm!If, Evm!Unreadable, Evm!LogFields,
       Evm!LogData, Evm!OpenLogs, Evm!CairoOpenReceipt, Evm!TypeByte, Evm!TxTypes

LEMMA LengthInFront ==
    ASSUME NEW S, NEW s \in Seq(S), NEW x \in S
    PROVE  Len(<<x>> \o s) = Len(s) + 1 /\ \A n \in 1..Len(s) : (<<x>> \o s)[n + 1] = s[n]
BY ConcatProperties

LEMMA SeventeenFelts ==
    ASSUME NEW s,
           s = <<1000, 100, 101, 102, 103, 2804, 109, 105, 107, 115, 111, 112, 113, 114, 117, 0, 108>>
    PROVE  s \in Seq(Nat) /\ Len(s) = 17
OBVIOUS

(* The felts of the version all three readers know. *)
LEMMA FirstVersion ==
    /\ Len(Sn!HashFields("hash0")) = 17 /\ Len(Sn!WithLength(Sn!HashFields("hash0"))) = 18
    /\ \A n \in 1..17 : Sn!WithLength(Sn!HashFields("hash0"))[n + 1] = Sn!HashFields("hash0")[n]
    /\ Sn!HashFields("hash0")
          = <<1000, 100, 101, 102, 103, 2804, 109, 105, 107, 115, 111, 112, 113, 114, 117, 0, 108>>
<1> DEFINE felts == Sn!HashFields("hash0")
           data == Sn!WithLength(felts)
<1>1. Sn!Counts = 2804
    BY DEF Sn!Counts, Sn!Pack, Sn!Content, Sn!TransactionCount, Sn!EventCount, Sn!StateDiffLength,
           Sn!L1DataMode, Sn!Word
<1>2. felts = <<1000, 100, 101, 102, 103, 2804, 109, 105, 107, 115, 111, 112, 113, 114, 117, 0, 108>>
    BY <1>1 DEF Sn!HashFields, Sn!Hash0, Sn!Content, Sn!TransactionCount, Sn!EventCount, Sn!StateDiffLength,
                Sn!L1DataMode
<1> HIDE DEF felts
<1>3. felts \in Seq(Nat) /\ Len(felts) = 17
    BY <1>2, SeventeenFelts
<1>4. data = <<17>> \o felts
    BY <1>3 DEF Sn!WithLength
<1> HIDE DEF data
<1>5. 17 \in Nat /\ 17 + 1 = 18
    OBVIOUS
<1>6. Len(<<17>> \o felts) = Len(felts) + 1 /\ \A n \in 1..Len(felts) : (<<17>> \o felts)[n + 1] = felts[n]
    BY <1>3, <1>5, LengthInFront, Zenon
<1>7. Len(data) = 18 /\ \A n \in 1..17 : data[n + 1] = felts[n]
    BY <1>3, <1>4, <1>5, <1>6, Zenon
<1>8. Len(felts) = 17
    BY <1>3
<1> QED
    BY <1>2, <1>7, <1>8 DEF felts, data

(* A field of it reads the same in the dry run, from the answer of the      *)
(* indexer, in the sound run and in the replay.                             *)
LEMMA FirstVersionReaders ==
    ASSUME NEW f \in Sn!HeaderFields
    PROVE  /\ Sn!Handle(Sn!HashFields("hash0"), 0, f) # Sn!Unreadable
           /\ Sn!Handle(Sn!WithLength(Sn!HashFields("hash0")), 1, f) = Sn!Handle(Sn!HashFields("hash0"), 0, f)
           /\ Sn!GetField(Sn!WithLength(Sn!HashFields("hash0")), f) = Sn!Handle(Sn!HashFields("hash0"), 0, f)
<1> DEFINE felts == Sn!HashFields("hash0")
           data == Sn!WithLength(felts)
           at == Sn!Hash0At[f + 1]
<1>1. /\ Len(felts) = 17 /\ Len(data) = 18
      /\ \A n \in 1..17 : data[n + 1] = felts[n]
      /\ felts = <<1000, 100, 101, 102, 103, 2804, 109, 105, 107, 115, 111, 112, 113, 114, 117, 0, 108>>
    BY FirstVersion
<1> HIDE DEF felts, data
<1>2. at \in 1..16 /\ Sn!Version2At[f + 1] = at + 1
    BY DEF Sn!HeaderFields, Sn!Hash0At, Sn!Version2At
<1>3. data[at + 2] = felts[at + 1] /\ data[2] = 1000
    <2>1. at + 1 \in 1..17 /\ (at + 1) + 1 = at + 2
        BY <1>2
    <2>2. data[(at + 1) + 1] = felts[at + 1] /\ data[1 + 1] = felts[1]
        BY <1>1, <2>1
    <2> QED
        BY <1>1, <2>1, <2>2
<1>4. felts[at + 1] \in Nat /\ felts[at + 1] < 3000
    <2>1. \A n \in 1..17 : felts[n] \in Nat /\ felts[n] < 3000
        BY <1>1
    <2> QED
        BY <1>2, <2>1
<1>5. f \in Sn!CountFields => felts[at + 1] = 2804
    <2>1. f \in Sn!CountFields => at = 5
        BY DEF Sn!CountFields, Sn!TransactionCount, Sn!EventCount, Sn!StateDiffLength, Sn!L1DataMode, Sn!Hash0At
    <2> QED
        BY <1>1, <2>1
<1> DEFINE Value == IF f \in Sn!CountFields THEN Sn!CountOf(felts[at + 1], f) ELSE felts[at + 1]
<1>6. Sn!Handle(felts, 0, f) = Value
    BY <1>1, <1>2 DEF Sn!Handle, Sn!HandleHash0
<1>7. Sn!Handle(data, 1, f) = Value
    BY <1>1, <1>2, <1>3 DEF Sn!Handle, Sn!HandleHash0
<1>8. Sn!GetField(data, f) = Value
    <2>1. Sn!Version2At[f + 1] # Sn!NotThere /\ ~(Sn!Version2At[f + 1] + 1 > Len(data))
        <3>1. Len(data) = 18
            BY <1>1
        <3> DEFINE v == Sn!Version2At[f + 1]
        <3>2. v = at + 1 /\ at \in 1..16
            BY <1>2, Zenon
        <3> HIDE DEF at, v
        <3>3. v # 99 /\ ~(v + 1 > 18)
            BY <3>2
        <3> QED
            BY <3>1, <3>3, Zenon DEF v, Sn!NotThere
    <2>2. Sn!Version2At[f + 1] + 1 = at + 2
        BY <1>2
    <2>3. data[2] \in {Sn!Hash0, Sn!Hash1}
        BY <1>3 DEF Sn!Hash0
    <2> HIDE DEF at
    <2> QED
        BY <1>3, <2>1, <2>2, <2>3 DEF Sn!GetField
<1>9. f \in Sn!CountFields => Sn!CountOf(2804, f) # Sn!Unreadable
    BY DEF Sn!CountFields, Sn!CountOf, Sn!Word, Sn!Unreadable, Sn!TransactionCount, Sn!EventCount,
           Sn!StateDiffLength, Sn!L1DataMode
<1>10. Value # Sn!Unreadable
    <2> HIDE DEF at
    <2> QED
        BY <1>4, <1>5, <1>9 DEF Sn!Unreadable
<1> HIDE DEF Value
<1> QED
    BY <1>6, <1>7, <1>8, <1>10 DEF felts, data

(* The three readers agree about a supported call. *)
LEMMA SupportedEvmIsRead ==
    ASSUME NEW call, Callable(call), HandlerOf(call) = "evm", SupportedEvm(call)
    PROVE  /\ Convertible(call) /\ DryReads(call) # Unreadable
           /\ SoundReads(call) = DryReads(call) /\ CairoReads(call) = DryReads(call)
<1>1. /\ call.kind \in EvmKinds /\ call.block \in Block /\ call.field \in Fields(call) /\ call.chain \in EvmChain
      /\ DryReads(call) = DryEvm(call) /\ SoundReads(call) = SoundEvm(call) /\ CairoReads(call) = CairoEvm(call)
    BY CallCases DEF DryReads, SoundReads, CairoReads
<1>2. CASE call.kind = "header"
    <2>1. Age[call.block] \in Nat /\ call.field \in Evm!HeaderFields
        BY <1>1, <1>2, DataAssumption DEF Fields
    <2>2. SupportedHeader(Age[call.block], call.field)
        BY <1>2 DEF SupportedEvm
    <2> QED
        BY <1>1, <1>2, <2>1, <2>2, HeaderReaders
           DEF Convertible, DryEvm, SoundEvm, CairoEvm, DryHeader, SoundHeader, Unreadable
<1>3. CASE call.kind \in {"account", "storage"}
    <2>1. call.at[1] \in Account /\ call.at[1] \notin ShortAddress
        BY <1>3 DEF SupportedEvm
    <2>2. call.field \in 0..3
        BY <1>1, <1>3 DEF Fields, Evm!AccountFields
    <2> QED
        BY <1>1, <1>3, <2>1, <2>2
           DEF Convertible, AccountConvertible, StorageConvertible, DryEvm, SoundEvm, CairoEvm, DryAccount,
               SoundAccount, DryStorage, SoundStorage, Evm!RustAccount, Evm!CairoAccount, Evm!RustStorage,
               Evm!CairoStorage, Evm!If, Unreadable, Evm!Unreadable
<1>4. CASE call.kind = "tx"
    <2>1. HasTx(call) /\ SupportedTx(TheTx(call), call.field) /\ call.field \in Evm!TxFields
        BY <1>1, <1>4 DEF SupportedEvm, Fields
    <2>2. TheTx(call).type \in Evm!TxTypes
        BY <2>1, DataAssumption DEF HasTx, TheTx
    <2> QED
        BY <1>1, <1>4, <2>1, <2>2, TxReaders DEF Convertible, DryEvm, SoundEvm, CairoEvm, DryTx, SoundTx, Unreadable
<1>5. CASE call.kind = "receipt"
    <2>1. HasTx(call) /\ TheTx(call).type # "eip7702" /\ call.field \in Evm!ReceiptFields
        BY <1>1, <1>5 DEF SupportedEvm, BeforeDelegations, Fields
    <2>2. TheTx(call).type \in Evm!TxTypes
        BY <2>1, DataAssumption DEF HasTx, TheTx
    <2> QED
        BY <1>1, <1>5, <2>1, <2>2, ReceiptReaders
           DEF Convertible, DryEvm, SoundEvm, CairoEvm, DryReceipt, SoundReceipt, Unreadable
<1>6. CASE call.kind = "log"
    <2>1. /\ HasTx(call) /\ TheTx(call).type # "eip7702" /\ SupportedLog(TheLog(call), call.field)
          /\ call.field \in Evm!LogFields
        BY <1>1, <1>6 DEF SupportedEvm, BeforeDelegations, Fields
    <2>2. TheTx(call).type \in Evm!TxTypes /\ TheLog(call).topics \in Nat
        BY <2>1, DataAssumption DEF HasTx, TheTx, TheLog
    <2> QED
        BY <1>1, <1>6, <2>1, <2>2, LogReaders
           DEF Convertible, DryEvm, SoundEvm, CairoEvm, DryLog, SoundLog, Unreadable
<1> QED
    BY <1>1, <1>2, <1>3, <1>4, <1>5, <1>6 DEF EvmKinds

LEMMA SupportedIsRead ==
    ASSUME NEW call, Callable(call), Supported(call)
    PROVE  /\ HandlerOf(call) \in {"evm", "starknet", "keccak", "debug", "bytecode"}
           /\ Convertible(call) /\ DryReads(call) # Unreadable
           /\ SoundReads(call) = DryReads(call) /\ CairoReads(call) = DryReads(call)
<1>1. CASE HandlerOf(call) = "debug"
    BY <1>1 DEF Convertible, DryReads, SoundReads, CairoReads, Unreadable, Evm!Unreadable
<1>2. CASE HandlerOf(call) = "bytecode"
    BY <1>2 DEF Supported, Convertible, AccountConvertible, DryReads, SoundReads, CairoReads, Unreadable,
                Evm!Unreadable
<1>3. CASE HandlerOf(call) = "keccak"
    BY <1>3 DEF Supported, Convertible, DryReads, SoundReads, CairoReads, Keccak, CairoKeccak, FullRate,
                Unreadable, Evm!Unreadable
<1>4. CASE HandlerOf(call) = "evm"
    BY <1>4, SupportedEvmIsRead DEF Supported
<1>5. CASE HandlerOf(call) = "starknet"
    <2>1. SupportedStarknet(call) /\ call.kind \in StarknetKinds /\ call.chain \notin EvmChain
          /\ call.field \in Fields(call)
        BY <1>5, CallCases DEF Supported
    <2>2. /\ Convertible(call)
          /\ DryReads(call) = DryStarknet(call) /\ SoundReads(call) = SoundStarknet(call)
          /\ CairoReads(call) = CairoStarknet(call)
        BY <1>5 DEF DryReads, SoundReads, CairoReads, Convertible
    <2>3. CASE call.kind = "header"
        <3>1. Version[call.block] = "hash0" /\ call.field \in Sn!HeaderFields
            BY <2>1, <2>3 DEF SupportedStarknet, Fields
        <3> QED
            BY <1>5, <2>2, <2>3, <3>1, FirstVersionReaders
               DEF DryStarknet, SoundStarknet, CairoStarknet, DryStarknetHeader, SoundStarknetHeader,
                   StarknetFelts, Unreadable, Evm!Unreadable, Sn!Unreadable
    <2>4. CASE call.kind = "storage"
        <3>1. call.field = 0
            BY <2>1, <2>4 DEF Fields
        <3> QED
            BY <1>5, <2>2, <2>4, <3>1
               DEF DryStarknet, SoundStarknet, CairoStarknet, DrySlot, SoundSlot, Unreadable, Evm!Unreadable
    <2> QED
        BY <2>1, <2>3, <2>4 DEF StarknetKinds
<1>6. CASE HandlerOf(call) \notin {"evm", "starknet", "keccak", "debug", "bytecode"}
    BY <1>6 DEF Supported
<1> QED
    BY <1>1, <1>2, <1>3, <1>4, <1>5, <1>6

(* And about no other, of what gets into a memorizer. *)
LEMMA AgreedIsSupportedEvm ==
    ASSUME NEW call, Callable(call), HandlerOf(call) = "evm",
           CairoReads(call) = SoundReads(call), SoundReads(call) # Unreadable,
           call.kind \in {"account", "storage"} => call.at[1] \notin ShortAddress,
           call.kind = "storage" => call.at[1] \in Account,
           call.kind \in {"tx", "receipt", "log"} => HasTx(call)
    PROVE  SupportedEvm(call)
<1>1. /\ call.kind \in EvmKinds /\ call.block \in Block /\ call.field \in Fields(call) /\ call.chain \in EvmChain
      /\ SoundReads(call) = SoundEvm(call) /\ CairoReads(call) = CairoEvm(call)
    BY CallCases DEF SoundReads, CairoReads
<1>2. CASE call.kind = "header"
    <2>1. Age[call.block] \in Nat /\ call.field \in Evm!HeaderFields
        BY <1>1, <1>2, DataAssumption DEF Fields
    <2> QED
        BY <1>1, <1>2, <2>1, HeaderReaders DEF SoundEvm, CairoEvm, SoundHeader, Unreadable, SupportedEvm
<1>3. CASE call.kind \in {"account", "storage"}
    BY <1>1, <1>3 DEF SoundEvm, SoundAccount, Evm!RustAccount, Evm!If, Unreadable, SupportedEvm
<1>4. CASE call.kind = "tx"
    <2>1. TheTx(call).type \in Evm!TxTypes /\ call.field \in Evm!TxFields
        BY <1>1, <1>4, DataAssumption DEF HasTx, TheTx, Fields
    <2> QED
        BY <1>1, <1>4, <2>1, TxReaders DEF SoundEvm, CairoEvm, SoundTx, Unreadable, SupportedEvm
<1>5. CASE call.kind = "receipt"
    <2>1. TheTx(call).type \in Evm!TxTypes /\ call.field \in Evm!ReceiptFields
        BY <1>1, <1>5, DataAssumption DEF HasTx, TheTx, Fields
    <2> QED
        BY <1>1, <1>5, <2>1, ReceiptReaders
           DEF SoundEvm, CairoEvm, SoundReceipt, Unreadable, SupportedEvm, BeforeDelegations
<1>6. CASE call.kind = "log"
    <2>1. TheTx(call).type \in Evm!TxTypes /\ call.field \in Evm!LogFields /\ TheLog(call).topics \in Nat
        BY <1>1, <1>6, DataAssumption DEF HasTx, TheTx, Fields, TheLog
    <2> QED
        BY <1>1, <1>6, <2>1, LogReaders DEF SoundEvm, CairoEvm, SoundLog, Unreadable, SupportedEvm, BeforeDelegations
<1> QED
    BY <1>1, <1>2, <1>3, <1>4, <1>5, <1>6 DEF EvmKinds

(* Two felt vectors no reader of the sound run has a case for. *)
LEMMA SecondVersion ==
    ASSUME NEW f
    PROVE  Sn!Handle(Sn!WithLength(Sn!HashFields("hash1")), 1, f) = Unreadable
<1> DEFINE felts == Sn!HashFields("hash1")
<1>1. felts = <<1001, 100, 101, 102, 103, Sn!Counts, 109, 105, 107, 115, 1002, 117, 0, 108>> /\ Sn!Counts \in Nat
    BY DEF Sn!HashFields, Sn!Hash1, Sn!GasPricesHash, Sn!Content, Sn!TransactionCount, Sn!EventCount,
           Sn!StateDiffLength, Sn!L1DataMode, Sn!Counts, Sn!Pack, Sn!Word
<1> HIDE DEF felts
<1>2. felts \in Seq(Nat) /\ Len(felts) = 14
    BY <1>1
<1>3. Sn!WithLength(felts) = <<14>> \o felts
    BY <1>2 DEF Sn!WithLength
<1>4. 14 \in Nat
    OBVIOUS
<1>5. Len(<<14>> \o felts) = Len(felts) + 1
    BY <1>2, <1>4, LengthInFront, Zenon
<1>6. Len(Sn!WithLength(felts)) = 15
    BY <1>2, <1>3, <1>5
<1>7. Sn!Handle(Sn!WithLength(felts), 1, f) = Unreadable
    BY <1>6 DEF Sn!Handle, Unreadable, Evm!Unreadable, Sn!Unreadable
<1> QED
    BY <1>7 DEF felts

LEMMA AgreedIsSupportedStarknet ==
    ASSUME NEW call, Callable(call), HandlerOf(call) = "starknet", SoundReads(call) # Unreadable,
           Version[call.block] # "legacy",
           call.kind = "storage" => call.at[2] \in SetSlot
    PROVE  SupportedStarknet(call)
<1>1. call.kind \in StarknetKinds /\ call.block \in Block
    BY CallCases
<1>2. CASE call.kind = "header"
    <2>1. Version[call.block] \in {"hash0", "hash1"}
        BY <1>1, DataAssumption DEF Sn!Versions
    <2>2. Version[call.block] # "hash1"
        BY <1>2, SecondVersion DEF SoundReads, SoundStarknet, SoundStarknetHeader, StarknetFelts
    <2> QED
        BY <1>2, <2>1, <2>2 DEF SupportedStarknet
<1> QED
    BY <1>1, <1>2 DEF StarknetKinds, SupportedStarknet

-----------------------------------------------------------------------------
(* Where the parts of the invariant are of. *)

(* After the dry run its trace is left alone; nothing happens when the job  *)
(* is over.                                                                 *)
LEMMA AfterDryRun ==
    ASSUME IInv, RunFetcher \/ Fetching \/ Grow \/ GiveUp \/ RunSound \/ LoadFails \/ SoundStep
    PROVE  UNCHANGED dry /\ stage \in {"fetch", "verify", "run", "replay"} /\ stage' # "dry"
<1> USE DEF dry, key_sets, At, Enter
<1>1. CASE RunFetcher \/ Fetching \/ Grow \/ GiveUp \/ RunSound \/ LoadFails
    BY <1>1 DEF RunFetcher, Fetching, Grow, GiveUp, RunSound, LoadFails
<1>2. CASE VerifyProofs \/ VerifyDies \/ RunModule
    BY <1>2 DEF VerifyProofs, VerifyDies, RunModule
<1>3. CASE ModuleCall \/ ModuleDies \/ ModuleEnds
    BY <1>3 DEF ModuleCall, ModuleDies, ModuleEnds
<1>4. CASE Replay \/ ReplayDies \/ Publish
    BY <1>4 DEF Replay, ReplayDies, Publish
<1> QED
    BY <1>1, <1>2, <1>3, <1>4 DEF SoundStep

LEMMA AfterFetch ==
    ASSUME IInv, SoundStep
    PROVE  UNCHANGED <<dry, fetch>> /\ stage \in {"verify", "run", "replay"} /\ stage' \notin {"dry", "fetch", "gave_up"}
<1> USE DEF At, Enter
<1>1. CASE VerifyProofs \/ VerifyDies \/ RunModule
    BY <1>1 DEF VerifyProofs, VerifyDies, RunModule
<1>2. CASE ModuleCall \/ ModuleDies \/ ModuleEnds
    BY <1>2 DEF ModuleCall, ModuleDies, ModuleEnds
<1>3. CASE Replay \/ ReplayDies \/ Publish
    BY <1>3 DEF Replay, ReplayDies, Publish
<1> QED
    BY <1>1, <1>2, <1>3 DEF SoundStep

LEMMA ProgramTyped ==
    ASSUME IInv
    PROVE  /\ Len(program) \in Nat /\ DOMAIN program = 1..Len(program)
           /\ Len(trace) \in Nat /\ DOMAIN trace = 1..Len(trace)
           /\ Len(told) \in Nat /\ DOMAIN told = 1..Len(told)
           /\ \A n \in DOMAIN program : Callable(program[n])
<1>1. IsSequence(program) /\ IsSequence(trace) /\ IsSequence(told)
    BY ProgramsAssumption DEF IInv, TypeOK
<1>2. \A n \in DOMAIN program : program[n] \in Elements(program)
    BY DEF Elements
<1>3. \A n \in DOMAIN program : Callable(program[n])
    BY <1>2, ProgramsAssumption DEF IInv, TypeOK
<1> QED
    BY <1>1, <1>3, AppendIsSequence

-----------------------------------------------------------------------------
(* The dry run. *)

LEMMA TraceInit == Init => TraceKept
<1> SUFFICES ASSUME Init PROVE TraceKept
    OBVIOUS
<1>1. trace = <<>> /\ Len(trace) = 0 /\ DOMAIN trace = {} /\ stage = "dry"
      /\ evm_keys = {} /\ starknet_keys = {} /\ bytecode_keys = {}
    BY DEF Init, DryInit
<1>2. Len(program) \in Nat
    BY InitInv, ProgramTyped
<1>3. \A handler : KeysAsked(handler) = {}
    BY <1>1 DEF KeysAsked
<1> QED
    BY <1>1, <1>2, <1>3 DEF TraceKept

(* An answer and the key behind it are recorded together. *)
LEMMA CallAnswered ==
    ASSUME IInv, TraceKept, DryRunCall
    PROVE  TraceKept'
<1> DEFINE call == NextCall
           m == Len(trace) + 1
<1>1. /\ Calling /\ stage = "dry" /\ stage' = "dry" /\ program' = program
      /\ Convertible(call) /\ DryReads(call) # Unreadable
      /\ \E view : trace' = Append(trace, Answer(DryReads(call), view))
    BY DEF DryRunCall, DryCall, DryEvmCall, DryStarknetCall, DryBytecodeCall, DryKeccakCall, DryDebugCall, Asked,
           Answered, At, Convertible, DryReads, Keccak, Failure, Unreadable, Evm!Unreadable
<1>2. PICK view : trace' = Append(trace, Answer(DryReads(call), view))
    BY <1>1
<1>3. IsSequence(trace) /\ Len(trace) \in Nat /\ DOMAIN trace = 1..Len(trace)
      /\ Len(program) \in Nat /\ call = program[m]
    BY ProgramTyped DEF IInv, TypeOK, NextCall
<1>4. /\ Len(trace') = m /\ DOMAIN trace' = (DOMAIN trace) \union {m} /\ m \notin DOMAIN trace
      /\ trace'[m] = Answer(DryReads(call), view)
      /\ \A n \in DOMAIN trace : trace'[n] = trace[n]
    BY <1>2, <1>3, AppendIsSequence
<1>5. Len(trace') <= Len(program')
    BY <1>1, <1>3, <1>4 DEF Calling
<1>6. \A handler : KeysAsked(handler)' = KeysAsked(handler)
                                           \union (IF HandlerOf(call) = handler THEN {KeyOf(call)} ELSE {})
    <2> TAKE handler
    <2>1. KeysAsked(handler)' = {KeyOf(program[n]) : n \in {k \in DOMAIN trace' : HandlerOf(program[k]) = handler}}
        BY <1>1 DEF KeysAsked
    <2> HIDE DEF call, m
    <2> QED
        BY <2>1, <1>3, <1>4 DEF KeysAsked
<1>7. /\ evm_keys' = KeysAsked("evm")' /\ starknet_keys' = KeysAsked("starknet")'
      /\ bytecode_keys' = KeysAsked("bytecode")'
    <2>1. /\ evm_keys' = evm_keys \union (IF HandlerOf(call) = "evm" THEN {KeyOf(call)} ELSE {})
          /\ starknet_keys' = starknet_keys \union (IF HandlerOf(call) = "starknet" THEN {KeyOf(call)} ELSE {})
          /\ bytecode_keys' = bytecode_keys \union (IF HandlerOf(call) = "bytecode" THEN {KeyOf(call)} ELSE {})
        BY DEF DryRunCall, DryCall, DryEvmCall, DryStarknetCall, DryBytecodeCall, DryKeccakCall, DryDebugCall,
               Asked, key_sets
    <2> HIDE DEF call
    <2> QED
        BY <1>6, <2>1 DEF TraceKept
<1>8. \A n \in DOMAIN trace' :
          /\ Convertible(program[n]) /\ DryReads(program[n]) # Unreadable
          /\ trace'[n] = Answer(DryReads(program[n]), trace'[n].view)
    <2>1. \A n \in DOMAIN trace :
            /\ Convertible(program[n]) /\ DryReads(program[n]) # Unreadable
            /\ trace[n] = Answer(DryReads(program[n]), trace[n].view)
        BY DEF TraceKept
    <2>2. trace'[m].view = view
        BY <1>4 DEF Answer
    <2> HIDE DEF call, m
    <2> QED
        BY <1>1, <1>3, <1>4, <2>1, <2>2
<1> HIDE DEF call, m
<1> QED
    BY <1>1, <1>5, <1>7, <1>8 DEF TraceKept

LEMMA TraceStep == ASSUME IInv, TraceKept, [Next]_vars PROVE TraceKept'
<1>1. CASE DryRunCall
    BY <1>1, CallAnswered
<1>2. ASSUME UNCHANGED dry, stage' \in {"dry", "failed", "gave_up"} \/ Len(trace) = Len(program)
      PROVE  TraceKept'
    BY <1>2 DEF TraceKept, KeysAsked, dry, key_sets
<1>3. CASE DryRunDies \/ NodeIsDown \/ DryRunEnds
    BY <1>2, <1>3 DEF DryRunDies, NodeIsDown, DryRunEnds, DryCallFails, DryDone, Enter
<1>4. CASE RunFetcher \/ Fetching \/ Grow \/ GiveUp \/ RunSound \/ LoadFails \/ SoundStep
    BY <1>2, <1>4, AfterDryRun DEF TraceKept
<1>5. CASE UNCHANGED vars
    BY <1>2, <1>5 DEF vars, TraceKept, KeysAsked, dry, key_sets
<1> QED
    BY <1>1, <1>3, <1>4, <1>5 DEF Next, DryStep

-----------------------------------------------------------------------------
(* The fetcher. *)

(* A request is for keys of the dry run. *)
LEMMA RequestOrigins ==
    ASSUME IInv, NEW r \in AllRequests(evm_keys, starknet_keys, bytecode_keys)
    PROVE  /\ r.part = "header" =>
                \E key \in evm_keys \union starknet_keys : key.chain = r.key.chain /\ key.block = r.key.block
           /\ r.part = "account" => r.key \in OfKind(evm_keys, "account", r.key.chain)
           /\ r.part = "storage" => r.key \in OfKind(evm_keys \union starknet_keys, "storage", r.key.chain)
           /\ r.part = "bytecode" => r.key \in bytecode_keys
<1> USE DEF Requests, Request
<1>1. ASSUME NEW keys \in {evm_keys, starknet_keys}, NEW c, r \in Requests("header", FlattenedKeys(keys, c))
      PROVE  r.part = "header" /\ \E key \in keys : key.chain = r.key.chain /\ key.block = r.key.block
    BY <1>1 DEF FlattenedKeys, HeaderKeysOf, HeaderKeyOf, HeaderKey, Key
<1>2. ASSUME NEW keys \in {evm_keys, starknet_keys}, NEW c, r \in Requests("storage", OfKind(keys, "storage", c))
      PROVE  r.part = "storage" /\ r.key \in OfKind(keys, "storage", r.key.chain)
    BY <1>2 DEF OfKind
<1>3. CASE r \in BytecodeRequests(bytecode_keys)
    BY <1>3 DEF BytecodeRequests
<1>4. ASSUME NEW c \in EvmChain, r \in EvmRequests(evm_keys, c)
      PROVE  /\ r.part = "header" =>
                  \E key \in evm_keys : key.chain = r.key.chain /\ key.block = r.key.block
             /\ r.part = "account" => r.key \in OfKind(evm_keys, "account", r.key.chain)
             /\ r.part = "storage" => r.key \in OfKind(evm_keys, "storage", r.key.chain)
             /\ r.part # "bytecode"
    <2>1. CASE r \in Requests("account", OfKind(evm_keys, "account", c))
        BY <2>1 DEF OfKind
    <2>2. CASE r \in Requests("receipt", HeaderKeysOf(OfKind(evm_keys, "receipt", c)))
                 \union Requests("tx", HeaderKeysOf(OfKind(evm_keys, "tx", c)))
        BY <2>2
    <2> QED
        BY <1>1, <1>2, <1>4, <2>1, <2>2 DEF EvmRequests
<1>5. ASSUME NEW c \in StarknetChain, r \in StarknetRequests(starknet_keys, c)
      PROVE  /\ r.part = "header" =>
                  \E key \in starknet_keys : key.chain = r.key.chain /\ key.block = r.key.block
             /\ r.part = "storage" => r.key \in OfKind(starknet_keys, "storage", r.key.chain)
             /\ r.part \in {"header", "storage"}
    BY <1>1, <1>2, <1>5 DEF StarknetRequests
<1>6. \/ r \in BytecodeRequests(bytecode_keys)
      \/ \E c \in EvmChain : r \in EvmRequests(evm_keys, c)
      \/ \E c \in StarknetChain : r \in StarknetRequests(starknet_keys, c)
    BY DEF AllRequests
<1> QED
    BY <1>3, <1>4, <1>5, <1>6 DEF OfKind

(* The keys of a dry run are by the kind of their chain. *)
LEMMA KeySets ==
    ASSUME IInv
    PROVE  /\ \A key \in evm_keys : key \in EvmKeys /\ key.chain \in EvmChain /\ key.chain \notin StarknetChain
           /\ \A key \in starknet_keys :
                key \in StarknetKeys /\ key.chain \in StarknetChain /\ key.chain \notin EvmChain
           /\ bytecode_keys \subseteq BytecodeKeys
BY EvmKeyCases, StarknetKeyCases, ChainAssumption DEF IInv, TypeOK

(* Proofs for keys of the dry run are added to those of one chain. *)
LEMMA ForKeysGrow ==
    ASSUME NEW p \in ProofSets, ProofsForKeys(p), NEW c \in Chain, NEW q, ChainForKeys(c, q),
           NEW s, s = [p EXCEPT !.chain[c] = q]
    PROVE  ProofsForKeys(s) /\ s.bytecode = p.bytecode
<1>1. /\ s.chain[c] = q /\ s.bytecode = p.bytecode
      /\ \A d \in Chain \ {c} : s.chain[d] = p.chain[d]
    BY DEF ProofSets
<1> QED
    BY <1>1 DEF ProofsForKeys

LEMMA HeaderForKey ==
    ASSUME IInv, FetchKept, NEW r \in pending, CollectHeader(r)
    PROVE  ProofsForKeys(fetched') /\ fetched'.bytecode = fetched.bytecode
<1> DEFINE c == r.key.chain
           old == fetched.chain[c]
           header == Header(c, r.key.block, "committed")
           meta == MmrProof(c)
           batches == AddHeader(old.batches, meta, header)
           q == [old EXCEPT !.batches = batches]
<1>0. /\ c \in Chain /\ fetched \in ProofSets /\ old \in ChainProofSets /\ fetching
      /\ ProofsForKeys(fetched) /\ ChainForKeys(c, old) /\ r.part = "header"
      /\ r \in AllRequests(evm_keys, starknet_keys, bytecode_keys)
    BY RequestCases DEF IInv, TypeOK, ProofSets, FetchKept, CollectHeader, Asking, ProofsForKeys
<1>1. fetched' = [fetched EXCEPT !.chain[c] = q]
    BY <1>0 DEF CollectHeader, ProofSets
<1>2. meta.hasher = Hasher[c] /\ Commits(meta, header) /\ header.block = r.key.block
    BY DEF CollectHeader, HeadersProof, MmrProof, Meta, Header
<1>3. ASSUME NEW b \in batches PROVE BatchForKeys(c, b)
    <2> DEFINE same == {d \in old.batches : d.meta = meta}
               new == [meta |-> meta,
                       headers |-> {header} \union (UNION {d.headers : d \in same}),
                       proven |-> {meta.size} \union (UNION {d.proven : d \in same})]
    <2>1. \A d \in old.batches : BatchForKeys(c, d)
        BY <1>0 DEF ChainForKeys
    <2>2. \E key \in evm_keys \union starknet_keys : key.chain = c /\ key.block = header.block
        BY <1>0, <1>2, RequestOrigins
    <2>3. b \in old.batches \/ b = new
        BY DEF AddHeader
    <2>4. new.meta = meta /\ new.proven = {meta.size} \union (UNION {d.proven : d \in same})
          /\ new.headers = {header} \union (UNION {d.headers : d \in same})
        OBVIOUS
    <2>5. \A d \in same : d.meta = meta /\ BatchForKeys(c, d)
        BY <2>1
    <2> HIDE DEF new, same, meta, header, c
    <2>6. new.proven \subseteq {new.meta.size}
        BY <2>4, <2>5 DEF BatchForKeys
    <2>7. \A h \in new.headers :
             /\ Commits(new.meta, h)
             /\ \E key \in evm_keys \union starknet_keys : key.chain = c /\ key.block = h.block
        BY <1>2, <2>2, <2>4, <2>5 DEF BatchForKeys
    <2> QED
        BY <1>2, <2>1, <2>3, <2>4, <2>6, <2>7 DEF BatchForKeys
<1>4. q.batches = batches /\ q.accounts = old.accounts /\ q.storages = old.storages
      /\ q.txs = old.txs /\ q.receipts = old.receipts
    BY <1>0 DEF ChainProofSets
<1>5. ChainForKeys(c, q)
    <2> HIDE DEF q, batches, c, old
    <2> QED
        BY <1>0, <1>3, <1>4 DEF ChainForKeys, EvmForKeys, StarknetForKeys
<1> HIDE DEF q, c
<1> QED
    BY <1>0, <1>1, <1>5, ForKeysGrow

(* The other answers: q is what the collector of the chain then has. *)
LEMMA ItemsForKeys ==
    ASSUME IInv, FetchKept, fetching, NEW r \in pending, NEW q,
           fetched' = [fetched EXCEPT !.chain[r.key.chain] = q],
           q.batches = fetched.chain[r.key.chain].batches,
           r.key.chain \in EvmChain => EvmForKeys(r.key.chain, q),
           r.key.chain \in StarknetChain => StarknetForKeys(r.key.chain, q)
    PROVE  ProofsForKeys(fetched') /\ fetched'.bytecode = fetched.bytecode
<1> DEFINE c == r.key.chain
<1>1. c \in Chain /\ fetched \in ProofSets /\ ProofsForKeys(fetched)
    BY RequestCases DEF IInv, TypeOK, FetchKept
<1>2. ChainForKeys(c, q) /\ fetched' = [fetched EXCEPT !.chain[c] = q]
    BY <1>1 DEF ProofsForKeys, ChainForKeys
<1> HIDE DEF c
<1> QED
    BY <1>1, <1>2, ForKeysGrow

LEMMA AnItemHas ==
    ASSUME NEW key, NEW view
    PROVE  ItemIn(key, view).key = key /\ ItemIn(key, view).root.view = view
BY DEF ItemIn, Item, Header

LEMMA OneForKeys ==
    ASSUME IInv, FetchKept, FetchOne(evm_keys)
    PROVE  /\ ProofsForKeys(fetched')
           /\ \A key \in bytecode_keys :
                Request("bytecode", key) \in pending' \/ HasBytecode(fetched', key)
<1> PICK r \in pending :
       \/ FetchEvmHeader(r) \/ FetchStarknetHeader(r)
       \/ \E view \in View :
             \/ FetchAccount(r, view) \/ FetchStorage(r, view) \/ FetchStarknetStorage(r, view)
             \/ FetchReceipts(r, view, evm_keys) \/ FetchTxs(r, view, evm_keys)
             \/ FetchBytecode(r, view)
    BY DEF FetchOne
<1> DEFINE c == r.key.chain
           old == fetched.chain[c]
<1>0. /\ c \in Chain /\ fetched \in ProofSets /\ old \in ChainProofSets /\ fetching /\ ProofsForKeys(fetched)
      /\ c \in EvmChain => EvmForKeys(c, old)
      /\ c \in StarknetChain => StarknetForKeys(c, old)
      /\ c \in EvmChain => c \notin StarknetChain
      /\ r \in AllRequests(evm_keys, starknet_keys, bytecode_keys) /\ pending' = pending \ {r}
      /\ \A key \in bytecode_keys : Request("bytecode", key) \in pending \/ HasBytecode(fetched, key)
    <2>1. fetching /\ Got(r)
        BY ZenonT(60) DEF FetchEvmHeader, FetchStarknetHeader, CollectHeader, FetchAccount, FetchStorage, FetchStarknetStorage,
               FetchReceipts, FetchTxs, FetchBytecode, Asking
    <2> QED
        BY <2>1, RequestCases, ChainAssumption
           DEF IInv, TypeOK, ProofSets, FetchKept, ProofsForKeys, ChainForKeys, Got
<1>1. ASSUME ProofsForKeys(fetched'), fetched'.bytecode = fetched.bytecode, r.part # "bytecode"
      PROVE  \A key \in bytecode_keys : Request("bytecode", key) \in pending' \/ HasBytecode(fetched', key)
    <2>1. \A key : r # Request("bytecode", key)
        BY <1>1 DEF Request
    <2>2. \A key : HasBytecode(fetched, key) => HasBytecode(fetched', key)
        BY <1>1 DEF HasBytecode
    <2> QED
        BY <1>0, <2>1, <2>2
<1>2. CASE FetchEvmHeader(r) \/ FetchStarknetHeader(r)
    BY <1>1, <1>2, HeaderForKey DEF FetchEvmHeader, FetchStarknetHeader, CollectHeader, Asking
<1>3. ASSUME NEW view \in View, FetchAccount(r, view)
      PROVE  ProofsForKeys(fetched') /\ fetched'.bytecode = fetched.bytecode /\ r.part # "bytecode"
    <2> DEFINE a == ItemIn(r.key, view)
               q == [old EXCEPT !.accounts = @ \union {a}]
    <2>1. r.part = "account" /\ r.key \in OfKind(evm_keys, "account", c)
        BY <1>0, <1>3, RequestOrigins DEF FetchAccount, Asking
    <2>2. fetched' = [fetched EXCEPT !.chain[c] = q]
        BY <1>3, <1>0 DEF FetchAccount, Collected, ProofSets, ChainProofSets
    <2>3. q.accounts = old.accounts \union {a} /\ q.batches = old.batches
          /\ q.storages = old.storages /\ q.txs = old.txs /\ q.receipts = old.receipts
        BY <1>0 DEF ChainProofSets
    <2>4. ForAccount(c, a) /\ c \in EvmChain
        <3>1. r.key \in AccountKeys
            BY <2>1, RequestCases
        <3>2. AccountKeyOf(r.key) = r.key
            BY <3>1, EvmKeyCases DEF AccountKeyOf, AccountKey, Key, AccountKeys, KeysOf, EvmKeys
        <3> QED
            BY <2>1, <3>2, AnItemHas, KeySets DEF ForAccount, OfKind
    <2> HIDE DEF q, a
    <2>5. EvmForKeys(c, q)
        BY <1>0, <2>3, <2>4 DEF EvmForKeys
    <2> QED
        BY <1>0, <2>1, <2>2, <2>3, <2>4, <2>5, ItemsForKeys
<1>4. ASSUME NEW view \in View, FetchStorage(r, view)
      PROVE  ProofsForKeys(fetched') /\ fetched'.bytecode = fetched.bytecode /\ r.part # "bytecode"
    <2> DEFINE a == ItemIn(AccountKeyOf(r.key), view)
               i == ItemIn(r.key, view)
               q == [old EXCEPT !.accounts = @ \union {a}, !.storages = @ \union {i}]
    <2>1. r.part = "storage" /\ c \in EvmChain /\ r.key \in OfKind(evm_keys, "storage", c)
        BY <1>0, <1>4, RequestOrigins, KeySets, ZenonT(60) DEF FetchStorage, Asking, OfKind
    <2>2. fetched' = [fetched EXCEPT !.chain[c] = q]
        BY <1>4, <1>0, ZenonT(60) DEF FetchStorage, ProofSets, ChainProofSets
    <2>3. q.accounts = old.accounts \union {a} /\ q.batches = old.batches
          /\ q.storages = old.storages \union {i} /\ q.txs = old.txs /\ q.receipts = old.receipts
        <3> HIDE DEF a, i
        <3> QED
            BY <1>0 DEF ChainProofSets
    <2>4. ForAccount(c, a) /\ ForSlot(evm_keys, c, i) /\ a.key = AccountKeyOf(i.key)
        BY <2>1, AnItemHas DEF ForAccount, ForSlot, OfKind
    <2> HIDE DEF q, a, i
    <2>5. EvmForKeys(c, q)
        BY <1>0, <2>1, <2>3, <2>4 DEF EvmForKeys
    <2> QED
        BY <1>0, <2>1, <2>2, <2>3, <2>5, ItemsForKeys
<1>5. ASSUME NEW view \in View, FetchStarknetStorage(r, view)
      PROVE  ProofsForKeys(fetched') /\ fetched'.bytecode = fetched.bytecode /\ r.part # "bytecode"
    <2> DEFINE i == ItemIn(r.key, view)
               q == [old EXCEPT !.storages = @ \union {i}]
    <2>1. r.part = "storage" /\ c \in StarknetChain /\ r.key \in OfKind(starknet_keys, "storage", c)
        BY <1>0, <1>5, RequestOrigins, KeySets DEF FetchStarknetStorage, Asking, OfKind
    <2>2. fetched' = [fetched EXCEPT !.chain[c] = q]
        BY <1>5, <1>0 DEF FetchStarknetStorage, Collected, ProofSets, ChainProofSets
    <2>3. q.accounts = old.accounts /\ q.batches = old.batches
          /\ q.storages = old.storages \union {i} /\ q.txs = old.txs /\ q.receipts = old.receipts
        BY <1>0 DEF ChainProofSets
    <2>4. ForSlot(starknet_keys, c, i)
        BY <2>1, AnItemHas DEF ForSlot, OfKind
    <2> HIDE DEF q, i
    <2>5. StarknetForKeys(c, q) /\ c \notin EvmChain
        BY <1>0, <2>1, <2>3, <2>4 DEF StarknetForKeys
    <2> QED
        BY <1>0, <2>1, <2>2, <2>3, <2>5, ItemsForKeys
<1>6. ASSUME NEW view \in View, NEW kind \in {"receipt", "tx"}, NEW k \in InBlock(evm_keys, r, kind)
      PROVE  ForIndex(kind, c, Item(TrieKey(k), Header(k.chain, k.block, view)))
    <2> DEFINE i == Item(TrieKey(k), Header(k.chain, k.block, view))
    <2>1. k \in OfKind(evm_keys, kind, c) /\ k.chain = c
        BY DEF InBlock, OfKind
    <2>2. i.root.view = view
        BY DEF Item, Header
    <2>3. i = Item(TrieKey(k), Header(c, k.block, i.root.view))
        BY <2>1, <2>2
    <2> HIDE DEF i, c
    <2>4. ForIndex(kind, c, i)
        BY <2>1, <2>3 DEF ForIndex
    <2> QED
        BY <2>4 DEF i
<1>7. ASSUME NEW view \in View, FetchReceipts(r, view, evm_keys)
      PROVE  ProofsForKeys(fetched') /\ fetched'.bytecode = fetched.bytecode /\ r.part # "bytecode"
    <2> DEFINE items == {ReceiptProof(k, view) : k \in InBlock(evm_keys, r, "receipt")}
               q == [old EXCEPT !.receipts = @ \union items]
    <2>1. r.part = "receipt" /\ c \in EvmChain
        BY <1>7, RequestCases DEF FetchReceipts, Asking
    <2>2. fetched' = [fetched EXCEPT !.chain[c] = q]
        BY <1>7, <1>0 DEF FetchReceipts, Collected, ProofSets, ChainProofSets
    <2>3. q.accounts = old.accounts /\ q.batches = old.batches
          /\ q.storages = old.storages /\ q.txs = old.txs /\ q.receipts = old.receipts \union items
        <3> HIDE DEF items
        <3> QED
            BY <1>0 DEF ChainProofSets
    <2>4. \A i \in items : ForIndex("receipt", c, i)
        BY <1>6 DEF ReceiptProof
    <2> HIDE DEF q, items
    <2>5. EvmForKeys(c, q)
        BY <1>0, <2>1, <2>3, <2>4 DEF EvmForKeys
    <2> QED
        BY <1>0, <2>1, <2>2, <2>3, <2>5, ItemsForKeys
<1>8. ASSUME NEW view \in View, FetchTxs(r, view, evm_keys)
      PROVE  ProofsForKeys(fetched') /\ fetched'.bytecode = fetched.bytecode /\ r.part # "bytecode"
    <2> DEFINE items == {TransactionProof(k, view) : k \in InBlock(evm_keys, r, "tx")}
               q == [old EXCEPT !.txs = @ \union items]
    <2>1. r.part = "tx" /\ c \in EvmChain
        BY <1>8, RequestCases DEF FetchTxs, Asking
    <2>2. fetched' = [fetched EXCEPT !.chain[c] = q]
        BY <1>8, <1>0 DEF FetchTxs, Collected, ProofSets, ChainProofSets
    <2>3. q.accounts = old.accounts /\ q.batches = old.batches
          /\ q.storages = old.storages /\ q.txs = old.txs \union items /\ q.receipts = old.receipts
        <3> HIDE DEF items
        <3> QED
            BY <1>0 DEF ChainProofSets
    <2>4. \A i \in items : ForIndex("tx", c, i)
        BY <1>6 DEF TransactionProof
    <2> HIDE DEF q, items
    <2>5. EvmForKeys(c, q)
        BY <1>0, <2>1, <2>3, <2>4 DEF EvmForKeys
    <2> QED
        BY <1>0, <2>1, <2>2, <2>3, <2>5, ItemsForKeys
<1>9. ASSUME NEW view \in View, FetchBytecode(r, view)
      PROVE  /\ ProofsForKeys(fetched')
             /\ \A key \in bytecode_keys : Request("bytecode", key) \in pending' \/ HasBytecode(fetched', key)
    <2> DEFINE i == ItemIn(r.key, view)
    <2>1. r.part = "bytecode" /\ r.key \in bytecode_keys /\ fetched' = [fetched EXCEPT !.bytecode = @ \union {i}]
        BY <1>0, <1>9, RequestOrigins DEF FetchBytecode, Asking
    <2>2. i.key = r.key
        BY AnItemHas
    <2> HIDE DEF i
    <2>3. fetched'.chain = fetched.chain /\ fetched'.bytecode = fetched.bytecode \union {i}
        BY <1>0, <2>1 DEF ProofSets
    <2>4. ProofsForKeys(fetched')
        BY <1>0, <2>1, <2>2, <2>3 DEF ProofsForKeys
    <2>5. \A key \in bytecode_keys : r = Request("bytecode", key) => key = r.key
        BY DEF Request
    <2> QED
        BY <1>0, <2>2, <2>3, <2>4, <2>5 DEF HasBytecode
<1> QED
    BY <1>1, <1>2, <1>3, <1>4, <1>5, <1>7, <1>8, <1>9, HeaderForKey
       DEF FetchEvmHeader, FetchStarknetHeader

(* What a dry run could read the calls of could be converted, and is there. *)
LEMMA KeysCollectable ==
    ASSUME IInv, TraceKept
    PROVE  /\ \A key \in evm_keys :
                /\ key.kind \in {"account", "storage"} => key.at[1] \notin ShortAddress
                /\ key.kind \in {"tx", "receipt"} => key.at[1] \in DOMAIN Tx
           /\ \A key \in bytecode_keys : key.at[1] \notin ShortAddress
<1>1. ASSUME NEW key \in evm_keys
      PROVE  /\ key.kind \in {"account", "storage"} => key.at[1] \notin ShortAddress
             /\ key.kind \in {"tx", "receipt"} => key.at[1] \in DOMAIN Tx
    <2>1. PICK n \in DOMAIN trace : HandlerOf(program[n]) = "evm" /\ key = KeyOf(program[n])
        BY DEF TraceKept, KeysAsked
    <2> DEFINE call == program[n]
    <2>2. Convertible(call) /\ DryReads(call) # Unreadable /\ HandlerOf(call) = "evm" /\ key = KeyOf(call)
        BY <2>1 DEF TraceKept
    <2> HIDE DEF call
    <2>3. /\ call.kind \in {"account", "storage"} => call.at[1] \notin ShortAddress
          /\ call.kind \in {"tx", "receipt", "log"} => call.at[1] \in DOMAIN Tx
        BY <2>2 DEF Convertible, AccountConvertible, StorageConvertible, DryReads, DryEvm, DryTx, DryReceipt, DryLog,
                    HasTx
    <2>4. /\ key.kind = IF call.kind = "log" THEN "receipt" ELSE call.kind
          /\ call.kind # "log" => key.at = call.at
          /\ call.kind = "log" => key.at[1] = call.at[1]
        BY <2>2 DEF KeyOf, Key
    <2> QED
        BY <2>3, <2>4
<1>2. ASSUME NEW key \in bytecode_keys PROVE key.at[1] \notin ShortAddress
    <2>1. PICK n \in DOMAIN trace : HandlerOf(program[n]) = "bytecode" /\ key = KeyOf(program[n])
        BY DEF TraceKept, KeysAsked
    <2>2. Convertible(program[n]) /\ program[n].kind = "bytecode"
        BY <2>1 DEF TraceKept, HandlerOf
    <2>3. key.at = program[n].at
        BY <2>1, <2>2 DEF KeyOf, Key
    <2> QED
        BY <2>1, <2>2, <2>3 DEF Convertible, AccountConvertible
<1> QED
    BY <1>1, <1>2

LEMMA ForKeysCollectable ==
    ASSUME IInv, TraceKept, NEW proofs, ProofsForKeys(proofs)
    PROVE  Collectable(proofs)
<1>1. ASSUME NEW c \in EvmChain, NEW i \in proofs.chain[c].accounts \union proofs.chain[c].storages
      PROVE  i.key.at[1] \notin ShortAddress
    <2>1. EvmForKeys(c, proofs.chain[c])
        BY ChainAssumption DEF ProofsForKeys, ChainForKeys
    <2>2. CASE i \in proofs.chain[c].accounts
        <3>1. PICK key \in evm_keys :
                  key.kind \in {"account", "storage"} /\ i = ItemIn(AccountKeyOf(key), i.root.view)
            BY <2>1, <2>2 DEF EvmForKeys, ForAccount
        <3>2. i.key = AccountKeyOf(key)
            BY <3>1, AnItemHas
        <3>3. i.key.at[1] = key.at[1]
            BY <3>2 DEF AccountKeyOf, AccountKey, Key
        <3> QED
            BY <3>1, <3>3, KeysCollectable
    <2>3. CASE i \in proofs.chain[c].storages
        <3>1. i.key \in evm_keys /\ i.key.kind = "storage"
            BY <2>1, <2>3 DEF EvmForKeys, ForSlot, OfKind
        <3> QED
            BY <3>1, KeysCollectable
    <2> QED
        BY <2>2, <2>3
<1>2. ASSUME NEW c \in EvmChain, NEW i \in proofs.chain[c].txs \union proofs.chain[c].receipts
      PROVE  \E n \in DOMAIN Tx : i.key.at[1] = Rlp!RlpKey(n)
    <2>1. EvmForKeys(c, proofs.chain[c])
        BY ChainAssumption DEF ProofsForKeys, ChainForKeys
    <2>2. PICK kind \in {"tx", "receipt"} : ForIndex(kind, c, i)
        BY <2>1 DEF EvmForKeys
    <2>3. PICK key \in evm_keys : key.kind \in {"tx", "receipt"} /\ i.key = TrieKey(key)
        BY <2>2 DEF ForIndex, OfKind, Item
    <2>4. key.at[1] \in DOMAIN Tx
        BY <2>3, KeysCollectable
    <2>5. key \in EvmKeys
        BY KeySets
    <2>6. i.key.at[1] = Rlp!RlpKey(key.at[1])
        BY <2>3, <2>5, EvmKeyCases DEF TrieKey
    <2> QED
        BY <2>4, <2>6
<1>3. \A i \in proofs.bytecode : i.key.at[1] \notin ShortAddress
    BY KeysCollectable DEF ProofsForKeys
<1> QED
    BY <1>1, <1>2, <1>3 DEF Collectable

LEMMA NothingForKeys == ProofsForKeys(NoProofs)
<1>1. \A c \in Chain : NoProofs.chain[c] = NoChainProofs
    BY DEF NoProofs
<1>2. \A c : ChainForKeys(c, NoChainProofs)
    BY DEF ChainForKeys, EvmForKeys, StarknetForKeys, NoChainProofs
<1> QED
    BY <1>1, <1>2 DEF ProofsForKeys, NoProofs

(* The keys are those of the dry run, before and after a step. *)
LEMMA SameKeys ==
    ASSUME UNCHANGED dry
    PROVE  /\ ProofsForKeys(fetched)' <=> ProofsForKeys(fetched')
           /\ ProofsForKeys(file)' <=> ProofsForKeys(file')
BY DEF dry, key_sets, ProofsForKeys, ChainForKeys, EvmForKeys, StarknetForKeys, ForAccount, ForSlot, ForIndex,
       BatchForKeys

LEMMA NothingFetched == Init => FetchKept
<1> SUFFICES ASSUME Init PROVE FetchKept
    OBVIOUS
<1>1. ~fetching /\ pending = {} /\ ~fresh /\ file \in {NoFile} \union OldFiles
    BY DEF Init, FetchInit
<1> QED
    BY <1>1, FetchAssumption DEF FetchKept, CanBeRead

LEMMA FetchStep == ASSUME IInv, TraceKept, FetchKept, [Next]_vars PROVE FetchKept'
<1> USE DEF fetch, collectors, At, Enter
<1>1. CASE DryStep
    <2>1. stage = "dry" /\ UNCHANGED fetch
        BY <1>1 DEF DryStep, DryRunCall, DryRunDies, NodeIsDown, DryRunEnds
    <2>2. ~fetching /\ ~fresh
        BY <2>1 DEF IInv, FileInUse
    <2> QED
        BY <2>1, <2>2 DEF FetchKept
<1>2. CASE RunFetcher
    <2>1. UNCHANGED dry /\ fetched' = NoProofs /\ fresh' = fresh /\ ~fresh /\ fetching' /\ file' = file
          /\ pending' = AllRequests(evm_keys, starknet_keys, bytecode_keys)
        BY <1>2 DEF RunFetcher, StartFetch
    <2>2. ProofsForKeys(fetched)'
        BY <2>1, NothingForKeys, SameKeys
    <2>3. \A key \in bytecode_keys : Request("bytecode", key) \in pending'
        BY <2>1 DEF AllRequests, BytecodeRequests, Requests
    <2> QED
        BY <2>1, <2>2, <2>3 DEF FetchKept, dry, key_sets
<1>3. CASE Fetching /\ FetchOne(evm_keys)
    <2>1. /\ pending' \subseteq pending /\ fetching
          /\ UNCHANGED <<dry, fetching, file, fresh>>
        BY <1>3, ZenonT(60) DEF Fetching, FetchOne, FetchEvmHeader, FetchStarknetHeader, CollectHeader, FetchAccount,
                    FetchStorage, FetchStarknetStorage, FetchReceipts, FetchTxs, FetchBytecode, Got, Asking
    <2>2. ProofsForKeys(fetched)' /\ (ProofsForKeys(file)' <=> ProofsForKeys(file))
        BY <1>3, <2>1, OneForKeys, SameKeys
    <2>3. \A key \in bytecode_keys : Request("bytecode", key) \in pending' \/ HasBytecode(fetched', key)
        BY <1>3, OneForKeys
    <2> QED
        BY <2>1, <2>2, <2>3 DEF FetchKept, dry, key_sets, HasBytecode
<1>4. CASE Fetching /\ FetchFails
    <2>1. UNCHANGED <<dry, file, fresh>> /\ fetching' = FALSE /\ pending' = {}
        BY <1>4 DEF Fetching, FetchFails
    <2>2. ProofsForKeys(file)' <=> ProofsForKeys(file)
        BY <2>1, SameKeys
    <2> QED
        BY <2>1, <2>2 DEF FetchKept, dry, key_sets, HasBytecode
<1>5. CASE Fetching /\ WriteProofs
    <2>1. UNCHANGED dry /\ fetching /\ fetching' = FALSE /\ pending = {} /\ pending' = {} /\ file' = fetched
        BY <1>5 DEF Fetching, WriteProofs
    <2>2. ProofsForKeys(fetched) /\ \A key \in bytecode_keys : HasBytecode(fetched, key)
        BY <2>1 DEF FetchKept
    <2>3. Collectable(fetched) /\ ProofsForKeys(file)'
        BY <2>1, <2>2, ForKeysCollectable, SameKeys
    <2> QED
        BY <2>1, <2>2, <2>3 DEF FetchKept, dry, key_sets, HasBytecode
<1>10. CASE Fetching /\ WriteFails
    <2>1. UNCHANGED dry /\ fetching' = FALSE /\ pending = {} /\ pending' = {} /\ file' \in {file, TornFile} /\ ~fresh'
        BY <1>10 DEF Fetching, WriteFails
    <2> QED
        BY <2>1 DEF FetchKept, dry, key_sets, CanBeRead
<1>6. ASSUME UNCHANGED <<dry, fetching, pending, fetched, file, fresh>> PROVE FetchKept'
    BY <1>6, SameKeys DEF FetchKept, dry, key_sets, HasBytecode
<1>7. CASE Grow \/ GiveUp \/ RunSound \/ LoadFails
    BY <1>6, <1>7 DEF Grow, AccumulatorGrows, GiveUp, RunSound, LoadFails
<1>8. CASE SoundStep
    BY <1>6, <1>8, AfterFetch
<1>9. CASE UNCHANGED vars
    BY <1>6, <1>9 DEF vars
<1> QED
    BY <1>1, <1>2, <1>3, <1>4, <1>5, <1>7, <1>8, <1>9, <1>10 DEF Next, Fetching

-----------------------------------------------------------------------------
(* How far the verifiers have come. *)

(* What is stored has a place in the memorizer, and what was there keeps it. *)
LEMMA StoredUnder ==
    ASSUME NEW dict, NEW items
    PROVE  /\ \A k \in DOMAIN dict : k \in DOMAIN Store(dict, items)
           /\ \A i \in items : HashParams(i.key) \in DOMAIN Store(dict, items)
BY DEF Store

LEMMA TurnsAre ==
    /\ DOMAIN Turns = {"headers", "accounts", "starknet_storages", "storages", "txs", "receipts"}
    /\ Turns["headers"] = 1 /\ Turns["accounts"] = 2 /\ Turns["starknet_storages"] = 2
    /\ Turns["storages"] = 3 /\ Turns["txs"] = 4 /\ Turns["receipts"] = 5
BY DEF Turns

(* The steps that are passed, by the part the verifiers are at. *)
PassedAsTurned ==
    \A n : \A step \in DOMAIN Turns :
        /\ part \in {"load", "chain", "headers"} => (Passed(n, step) <=> n > idx)
        /\ part \in {"accounts", "starknet_storages"} =>
             (Passed(n, step) <=> n > idx \/ (n = idx /\ step = "headers"))
        /\ part = "storages" =>
             (Passed(n, step) <=> n > idx \/ (n = idx /\ step \in {"headers", "accounts", "starknet_storages"}))
        /\ part = "txs" =>
             (Passed(n, step) <=>
                n > idx \/ (n = idx /\ step \in {"headers", "accounts", "starknet_storages", "storages"}))
        /\ part = "receipts" => (Passed(n, step) <=> n > idx \/ (n = idx /\ step # "receipts"))

LEMMA PassedByPart == PassedAsTurned
<1> SUFFICES ASSUME NEW n, NEW step \in DOMAIN Turns
             PROVE  /\ part \in {"load", "chain", "headers"} => (Passed(n, step) <=> n > idx)
                    /\ part \in {"accounts", "starknet_storages"} =>
                         (Passed(n, step) <=> n > idx \/ (n = idx /\ step = "headers"))
                    /\ part = "storages" =>
                         (Passed(n, step) <=>
                            n > idx \/ (n = idx /\ step \in {"headers", "accounts", "starknet_storages"}))
                    /\ part = "txs" =>
                         (Passed(n, step) <=>
                            n > idx \/ (n = idx /\ step \in {"headers", "accounts", "starknet_storages", "storages"}))
                    /\ part = "receipts" => (Passed(n, step) <=> n > idx \/ (n = idx /\ step # "receipts"))
    BY DEF PassedAsTurned
<1>1. step \in {"headers", "accounts", "starknet_storages", "storages", "txs", "receipts"}
    BY TurnsAre
<1>2. Turns[step] \in 1..5
    BY <1>1, TurnsAre
<1> QED
    BY <1>1, <1>2, TurnsAre DEF Passed

LEMMA PassedNext == PassedAsTurned'
BY PassedByPart, PTL

LEMMA StepsAreTurns ==
    ASSUME NEW c, NEW step \in StepsOf(c)
    PROVE  /\ step \in DOMAIN Turns
           /\ c \in EvmChain => step # "starknet_storages"
           /\ c \notin EvmChain => step \in {"headers", "starknet_storages"}
BY TurnsAre DEF StepsOf

LEMMA MemorizedStays ==
    ASSUME file' = file, \A k \in DOMAIN evm : k \in DOMAIN evm',
           \A k \in DOMAIN starknet : k \in DOMAIN starknet',
           NEW c, NEW step \in DOMAIN Turns, Memorized(step, c)
    PROVE  Memorized(step, c)'
<1>1. step \in {"headers", "accounts", "starknet_storages", "storages", "txs", "receipts"}
    BY TurnsAre
<1> QED
    BY <1>1 DEF Memorized, HeadersHeld, InMemorizer

(* A step of the verifiers passes at most what it has memorized. *)
LEMMA ChainsProgress ==
    ASSUME Progress, file' = file, \A k \in DOMAIN evm : k \in DOMAIN evm',
           \A k \in DOMAIN starknet : k \in DOMAIN starknet',
           \A n \in DOMAIN ChainOrder : \A step \in StepsOf(ChainOrder[n]) :
               Passed(n, step)' => Passed(n, step) \/ Memorized(step, ChainOrder[n])'
    PROVE  (\A n \in DOMAIN ChainOrder : \A step \in StepsOf(ChainOrder[n]) :
                Passed(n, step) => Memorized(step, ChainOrder[n]))'
<1> SUFFICES ASSUME NEW n \in DOMAIN ChainOrder, NEW step \in StepsOf(ChainOrder[n]), Passed(n, step)'
             PROVE  Memorized(step, ChainOrder[n])'
    OBVIOUS
<1>1. step \in DOMAIN Turns
    BY StepsAreTurns
<1>2. CASE Memorized(step, ChainOrder[n])'
    BY <1>2
<1>3. CASE Passed(n, step)
    <2>1. Memorized(step, ChainOrder[n])
        BY <1>3 DEF Progress
    <2> QED
        BY <1>1, <2>1, MemorizedStays
<1> QED
    BY <1>2, <1>3

(* The items of a chain, under the keys they are memorized by. *)
LEMMA UnderOwnKey ==
    ASSUME NEW items
    PROVE  /\ \A i \in items : \E j \in OfChain(items) : HashParams(j.key) = HashParams(KeyIn(chain_id, i.key))
           /\ \A i \in items : \E j \in Indexed(items) : HashParams(j.key) = HashParams(IndexedIn(chain_id, i.key))
<1>1. ASSUME NEW i \in items
      PROVE  \E j \in OfChain(items) : HashParams(j.key) = HashParams(KeyIn(chain_id, i.key))
    <2>1. Item(KeyIn(chain_id, i.key), i.root) \in OfChain(items)
        BY DEF OfChain, KeyIn
    <2> QED
        BY <2>1 DEF Item
<1>2. ASSUME NEW i \in items
      PROVE  \E j \in Indexed(items) : HashParams(j.key) = HashParams(IndexedIn(chain_id, i.key))
    <2>1. Item(IndexedIn(chain_id, i.key), i.root) \in Indexed(items)
        BY DEF Indexed, IndexedIn
    <2> QED
        BY <2>1 DEF Item
<1> QED
    BY <1>1, <1>2

LEMMA HeadersUnderOwnKey ==
    ASSUME NEW dict, NEW batch
    PROVE  \A h \in batch.headers :
               InMemorizer(Store(dict, HeaderItems(batch.headers)), HeaderKey(chain_id, h.block))
<1> SUFFICES ASSUME NEW h \in batch.headers
             PROVE  HashParams(HeaderKey(chain_id, h.block)) \in DOMAIN Store(dict, HeaderItems(batch.headers))
    BY DEF InMemorizer
<1>1. Item(HeaderKey(chain_id, h.block), h) \in HeaderItems(batch.headers)
    BY DEF HeaderItems
<1>2. Item(HeaderKey(chain_id, h.block), h).key = HeaderKey(chain_id, h.block)
    BY DEF Item
<1> QED
    BY <1>1, <1>2, StoredUnder

(* A step that ends a part of the chain in hand. *)
LEMMA PartDone ==
    ASSUME IInv, Progress, stage' = "verify", file' = file, bytecodes' = bytecodes,
           \A k \in DOMAIN evm : k \in DOMAIN evm', \A k \in DOMAIN starknet : k \in DOMAIN starknet',
           part \notin {"load", "chain"}, NEW done \in DOMAIN Turns, NEW c, c = chain_id, Memorized(done, c)',
           part' \notin {"load", "headers"},
           \A n \in DOMAIN ChainOrder : \A step \in StepsOf(ChainOrder[n]) :
               Passed(n, step)' => Passed(n, step) \/ (n = idx /\ step = done)
    PROVE  Progress'
<1>1. \A n \in DOMAIN ChainOrder : \A step \in StepsOf(ChainOrder[n]) :
          Passed(n, step)' => Passed(n, step) \/ Memorized(step, ChainOrder[n])'
    <2> SUFFICES ASSUME NEW n \in DOMAIN ChainOrder, NEW step \in StepsOf(ChainOrder[n]),
                        Passed(n, step)', n = idx, step = done
                 PROVE  Memorized(step, ChainOrder[n])'
        OBVIOUS
    <2>1. ChainOrder[n] = c
        BY DEF chain_id
    <2> QED
        BY <2>1
<1>2. (\A n \in DOMAIN ChainOrder : \A step \in StepsOf(ChainOrder[n]) :
            Passed(n, step) => Memorized(step, ChainOrder[n]))'
    BY <1>1, ChainsProgress
<1>3. (\A i \in file.bytecode : InMemorizer(bytecodes, i.key))'
    BY DEF Progress, InMemorizer
<1> QED
    BY <1>2, <1>3 DEF Progress

LEMMA HeadersPassed == ASSUME IInv, Progress, stage' = "verify", file' = file, HeadersDone PROVE Progress'
<1> SUFFICES ASSUME NEW c, c = chain_id PROVE Progress'
    OBVIOUS
<1>1. /\ part = "headers" /\ left = {} /\ UNCHANGED <<evm, starknet, bytecodes, idx>>
      /\ part' = IF chain_id \in EvmChain THEN "accounts" ELSE "starknet_storages"
    BY DEF HeadersDone, memorizers
<1>2. "headers" \in DOMAIN Turns
    BY TurnsAre
<1>3. Memorized("headers", c)'
    BY <1>1 DEF Progress, Memorized, HeadersHeld, BatchesOf, InMemorizer
<1>4. ASSUME NEW n \in DOMAIN ChainOrder, NEW step \in StepsOf(ChainOrder[n]), Passed(n, step)'
      PROVE  Passed(n, step) \/ (n = idx /\ step = "headers")
    <2>1. step \in DOMAIN Turns
        BY StepsAreTurns
    <2>2. Passed(n, step) <=> n > idx
        BY <1>1, <2>1, PassedByPart DEF PassedAsTurned
    <2>3. Passed(n, step)' => n > idx \/ (n = idx /\ step = "headers")
        BY <1>1, <2>1, PassedNext DEF PassedAsTurned
    <2> QED
        BY <1>4, <2>2, <2>3
<1>5. part' \notin {"load", "headers"}
    BY <1>1
<1> QED
    BY <1>1, <1>2, <1>3, <1>4, <1>5, PartDone

LEMMA AccountsPassed == ASSUME IInv, Progress, stage' = "verify", file' = file, VerifyAccounts(file) PROVE Progress'
<1> SUFFICES ASSUME NEW c, c = chain_id PROVE Progress'
    OBVIOUS
<1> DEFINE items == file.chain[chain_id].accounts
<1>1. /\ part = "accounts" /\ part' = "storages" /\ UNCHANGED <<starknet, bytecodes, idx>>
      /\ evm' = Store(evm, OfChain(items)) /\ c \in EvmChain
    BY DEF VerifyAccounts, AccountsOf, IInv, FileInUse
<1>2. "accounts" \in DOMAIN Turns
    BY TurnsAre
<1>3. \A i \in items : HashParams(KeyIn(c, i.key)) \in DOMAIN evm'
    BY <1>1, StoredUnder, UnderOwnKey
<1>4. Memorized("accounts", c)'
    BY <1>3 DEF Memorized, InMemorizer
<1>5. ASSUME NEW n \in DOMAIN ChainOrder, NEW step \in StepsOf(ChainOrder[n]), Passed(n, step)'
      PROVE  Passed(n, step) \/ (n = idx /\ step = "accounts")
    <2>1. step \in DOMAIN Turns /\ (n = idx => step # "starknet_storages")
        BY <1>1, StepsAreTurns DEF chain_id
    <2>2. Passed(n, step) <=> n > idx \/ (n = idx /\ step = "headers")
        BY <1>1, <2>1, PassedByPart DEF PassedAsTurned
    <2>3. Passed(n, step)' => n > idx \/ (n = idx /\ step \in {"headers", "accounts", "starknet_storages"})
        BY <1>1, <2>1, PassedNext DEF PassedAsTurned
    <2> QED
        BY <1>5, <2>1, <2>2, <2>3
<1>6. \A k \in DOMAIN evm : k \in DOMAIN evm'
    BY <1>1, StoredUnder
<1> QED
    BY <1>1, <1>2, <1>4, <1>5, <1>6, PartDone

LEMMA StoragesPassed == ASSUME IInv, Progress, stage' = "verify", file' = file, VerifyStorages(file) PROVE Progress'
<1> SUFFICES ASSUME NEW c, c = chain_id PROVE Progress'
    OBVIOUS
<1> DEFINE items == file.chain[chain_id].storages
<1>1. /\ part = "storages" /\ part' = "txs" /\ UNCHANGED <<starknet, bytecodes, idx>>
      /\ evm' = Store(evm, OfChain(items)) /\ c \in EvmChain
    BY DEF VerifyStorages, StoragesOf, IInv, FileInUse
<1>2. "storages" \in DOMAIN Turns
    BY TurnsAre
<1>3. \A i \in items : HashParams(KeyIn(c, i.key)) \in DOMAIN evm'
    BY <1>1, StoredUnder, UnderOwnKey
<1>4. Memorized("storages", c)'
    BY <1>3 DEF Memorized, InMemorizer
<1>5. ASSUME NEW n \in DOMAIN ChainOrder, NEW step \in StepsOf(ChainOrder[n]), Passed(n, step)'
      PROVE  Passed(n, step) \/ (n = idx /\ step = "storages")
    <2>1. step \in DOMAIN Turns
        BY StepsAreTurns
    <2>2. Passed(n, step) <=> n > idx \/ (n = idx /\ step \in {"headers", "accounts", "starknet_storages"})
        BY <1>1, <2>1, PassedByPart DEF PassedAsTurned
    <2>3. Passed(n, step)' =>
              n > idx \/ (n = idx /\ step \in {"headers", "accounts", "starknet_storages", "storages"})
        BY <1>1, <2>1, PassedNext DEF PassedAsTurned
    <2> QED
        BY <1>5, <2>2, <2>3
<1>6. \A k \in DOMAIN evm : k \in DOMAIN evm'
    BY <1>1, StoredUnder
<1> QED
    BY <1>1, <1>2, <1>4, <1>5, <1>6, PartDone

LEMMA TxsPassed == ASSUME IInv, Progress, stage' = "verify", file' = file, VerifyTxs(file) PROVE Progress'
<1> SUFFICES ASSUME NEW c, c = chain_id PROVE Progress'
    OBVIOUS
<1> DEFINE items == file.chain[chain_id].txs
<1>1. /\ part = "txs" /\ part' = "receipts" /\ UNCHANGED <<starknet, bytecodes, idx>>
      /\ evm' = Store(evm, Indexed(items)) /\ c \in EvmChain
    BY DEF VerifyTxs, TxsOf, IInv, FileInUse
<1>2. "txs" \in DOMAIN Turns
    BY TurnsAre
<1>3. \A i \in items : HashParams(IndexedIn(c, i.key)) \in DOMAIN evm'
    BY <1>1, StoredUnder, UnderOwnKey
<1>4. Memorized("txs", c)'
    BY <1>3 DEF Memorized, InMemorizer
<1>5. ASSUME NEW n \in DOMAIN ChainOrder, NEW step \in StepsOf(ChainOrder[n]), Passed(n, step)'
      PROVE  Passed(n, step) \/ (n = idx /\ step = "txs")
    <2>1. step \in DOMAIN Turns
        BY StepsAreTurns
    <2>2. Passed(n, step) <=>
              n > idx \/ (n = idx /\ step \in {"headers", "accounts", "starknet_storages", "storages"})
        BY <1>1, <2>1, PassedByPart DEF PassedAsTurned
    <2>3. Passed(n, step)' => n > idx \/ (n = idx /\ step # "receipts")
        BY <1>1, <2>1, PassedNext DEF PassedAsTurned
    <2> QED
        BY <1>5, <2>1, <2>2, <2>3, TurnsAre
<1>6. \A k \in DOMAIN evm : k \in DOMAIN evm'
    BY <1>1, StoredUnder
<1> QED
    BY <1>1, <1>2, <1>4, <1>5, <1>6, PartDone

LEMMA ReceiptsPassed == ASSUME IInv, Progress, stage' = "verify", file' = file, VerifyReceipts(file) PROVE Progress'
<1> SUFFICES ASSUME NEW c, c = chain_id PROVE Progress'
    OBVIOUS
<1> DEFINE items == file.chain[chain_id].receipts
<1>1. /\ part = "receipts" /\ part' = "chain" /\ idx' = idx - 1 /\ UNCHANGED <<starknet, bytecodes>>
      /\ evm' = Store(evm, Indexed(items)) /\ c \in EvmChain
    BY DEF VerifyReceipts, ReceiptsOf, IInv, FileInUse
<1>2. "receipts" \in DOMAIN Turns
    BY TurnsAre
<1>3. \A i \in items : HashParams(IndexedIn(c, i.key)) \in DOMAIN evm'
    BY <1>1, StoredUnder, UnderOwnKey
<1>4. Memorized("receipts", c)'
    BY <1>3 DEF Memorized, InMemorizer
<1>5. ASSUME NEW n \in DOMAIN ChainOrder, NEW step \in StepsOf(ChainOrder[n]), Passed(n, step)'
      PROVE  Passed(n, step) \/ (n = idx /\ step = "receipts")
    <2>1. step \in DOMAIN Turns
        BY StepsAreTurns
    <2>2. Passed(n, step) <=> n > idx \/ (n = idx /\ step # "receipts")
        BY <1>1, <2>1, PassedByPart DEF PassedAsTurned
    <2>3. n > idx - 1
        BY <1>1, <1>5, <2>1, PassedNext DEF PassedAsTurned
    <2>4. n \in Nat /\ idx \in Nat
        BY ChainAssumption DEF IInv, TypeOK
    <2> QED
        BY <2>2, <2>3, <2>4
<1>6. \A k \in DOMAIN evm : k \in DOMAIN evm'
    BY <1>1, StoredUnder
<1> QED
    BY <1>1, <1>2, <1>4, <1>5, <1>6, PartDone

LEMMA SlotsPassed ==
    ASSUME IInv, Progress, stage' = "verify", file' = file, VerifyStarknetStorages(file)
    PROVE  Progress'
<1> SUFFICES ASSUME NEW c, c = chain_id PROVE Progress'
    OBVIOUS
<1> DEFINE items == file.chain[chain_id].storages
<1>1. /\ part = "starknet_storages" /\ part' = "chain" /\ idx' = idx - 1 /\ UNCHANGED <<evm, bytecodes>>
      /\ starknet' = Store(starknet, OfChain(items)) /\ c \notin EvmChain
    BY ChainAssumption DEF VerifyStarknetStorages, SlotsOf, IInv, FileInUse
<1>2. "starknet_storages" \in DOMAIN Turns
    BY TurnsAre
<1>3. \A i \in items : HashParams(KeyIn(c, i.key)) \in DOMAIN starknet'
    BY <1>1, StoredUnder, UnderOwnKey
<1>4. Memorized("starknet_storages", c)'
    BY <1>3 DEF Memorized, InMemorizer
<1>5. ASSUME NEW n \in DOMAIN ChainOrder, NEW step \in StepsOf(ChainOrder[n]), Passed(n, step)'
      PROVE  Passed(n, step) \/ (n = idx /\ step = "starknet_storages")
    <2>1. step \in DOMAIN Turns /\ (n = idx => step \in {"headers", "starknet_storages"})
        BY <1>1, StepsAreTurns DEF chain_id
    <2>2. Passed(n, step) <=> n > idx \/ (n = idx /\ step = "headers")
        BY <1>1, <2>1, PassedByPart DEF PassedAsTurned
    <2>3. n > idx - 1
        BY <1>1, <1>5, <2>1, PassedNext DEF PassedAsTurned
    <2>4. n \in Nat /\ idx \in Nat
        BY ChainAssumption DEF IInv, TypeOK
    <2> QED
        BY <2>1, <2>2, <2>3, <2>4
<1>6. \A k \in DOMAIN starknet : k \in DOMAIN starknet'
    BY <1>1, StoredUnder
<1> QED
    BY <1>1, <1>2, <1>4, <1>5, <1>6, PartDone

(* Until the headers of the chain in hand are done, nothing of it is passed. *)
LEMMA NothingPassed ==
    ASSUME Progress, part \in {"load", "chain", "headers"}, part' \in {"load", "chain", "headers"},
           idx' = idx, file' = file,
           \A k \in DOMAIN evm : k \in DOMAIN evm', \A k \in DOMAIN starknet : k \in DOMAIN starknet'
    PROVE  (\A n \in DOMAIN ChainOrder : \A step \in StepsOf(ChainOrder[n]) :
                Passed(n, step) => Memorized(step, ChainOrder[n]))'
<1>1. ASSUME NEW n \in DOMAIN ChainOrder, NEW step \in StepsOf(ChainOrder[n]), Passed(n, step)'
      PROVE  Passed(n, step)
    <2>1. step \in DOMAIN Turns
        BY StepsAreTurns
    <2>2. Passed(n, step) <=> n > idx
        BY <2>1, PassedByPart DEF PassedAsTurned
    <2>3. Passed(n, step)' <=> n > idx
        BY <2>1, PassedNext DEF PassedAsTurned
    <2> QED
        BY <1>1, <2>2, <2>3
<1> QED
    BY <1>1, ChainsProgress

LEMMA BytecodesProgress == ASSUME IInv, Progress, stage' = "verify", file' = file, LoadBytecodes(file) PROVE Progress'
<1>1. /\ part = "load" /\ part' = "chain" /\ UNCHANGED <<evm, starknet, idx>>
      /\ bytecodes' = Store(bytecodes, file.bytecode)
    BY DEF LoadBytecodes
<1>2. (\A n \in DOMAIN ChainOrder : \A step \in StepsOf(ChainOrder[n]) :
            Passed(n, step) => Memorized(step, ChainOrder[n]))'
    BY <1>1, NothingPassed
<1>3. (\A i \in file.bytecode : InMemorizer(bytecodes, i.key))'
    BY <1>1, StoredUnder DEF InMemorizer
<1> QED
    BY <1>1, <1>2, <1>3 DEF Progress

LEMMA EnterProgress == ASSUME IInv, Progress, stage' = "verify", file' = file, EnterChain(file) PROVE Progress'
<1>1. /\ part = "chain" /\ part' = "headers" /\ UNCHANGED <<evm, starknet, bytecodes, idx>>
      /\ left' = file.chain[chain_id].batches
    BY DEF EnterChain, memorizers, BatchesOf
<1>2. (\A n \in DOMAIN ChainOrder : \A step \in StepsOf(ChainOrder[n]) :
            Passed(n, step) => Memorized(step, ChainOrder[n]))'
    BY <1>1, NothingPassed
<1>3. (BatchesOf(file) \ left = {})'
    BY <1>1 DEF BatchesOf, chain_id
<1>4. (HeadersHeld(IF chain_id \in EvmChain THEN evm ELSE starknet, chain_id, BatchesOf(file) \ left))'
    BY <1>3 DEF HeadersHeld
<1>5. (\A i \in file.bytecode : InMemorizer(bytecodes, i.key))'
    BY <1>1 DEF Progress, InMemorizer
<1> QED
    BY <1>1, <1>2, <1>4, <1>5 DEF Progress

LEMMA EvmBatchProgress ==
    ASSUME IInv, Progress, stage' = "verify", file' = file, NEW batch \in left, VerifyEvmBatch(batch)
    PROVE  Progress'
<1>1. /\ part = "headers" /\ chain_id \in EvmChain /\ UNCHANGED <<starknet, bytecodes, idx, part>>
      /\ evm' = Store(evm, HeaderItems(batch.headers)) /\ left' = left \ {batch}
    BY DEF VerifyEvmBatch
<1>2. \A k \in DOMAIN evm : k \in DOMAIN evm'
    BY <1>1, StoredUnder
<1>3. (\A n \in DOMAIN ChainOrder : \A step \in StepsOf(ChainOrder[n]) :
            Passed(n, step) => Memorized(step, ChainOrder[n]))'
    BY <1>1, <1>2, NothingPassed
<1>4. HeadersHeld(evm, chain_id, BatchesOf(file) \ left)
    BY <1>1 DEF Progress
<1>5. \A h \in batch.headers : HashParams(HeaderKey(chain_id, h.block)) \in DOMAIN evm'
    BY <1>1, HeadersUnderOwnKey DEF InMemorizer
<1>6. \A b \in BatchesOf(file) \ left' : \A h \in b.headers : HashParams(HeaderKey(chain_id, h.block)) \in DOMAIN evm'
    BY <1>1, <1>2, <1>4, <1>5 DEF HeadersHeld, InMemorizer
<1>7. (HeadersHeld(IF chain_id \in EvmChain THEN evm ELSE starknet, chain_id, BatchesOf(file) \ left))'
    BY <1>1, <1>6 DEF HeadersHeld, InMemorizer, chain_id, BatchesOf
<1>8. (\A i \in file.bytecode : InMemorizer(bytecodes, i.key))'
    BY <1>1 DEF Progress, InMemorizer
<1> QED
    BY <1>1, <1>3, <1>7, <1>8 DEF Progress

LEMMA StarknetBatchProgress ==
    ASSUME IInv, Progress, stage' = "verify", file' = file, NEW batch \in left, VerifyStarknetBatch(batch)
    PROVE  Progress'
<1>1. /\ part = "headers" /\ chain_id \notin EvmChain /\ UNCHANGED <<evm, bytecodes, idx, part>>
      /\ starknet' = Store(starknet, HeaderItems(batch.headers)) /\ left' = left \ {batch}
    BY ChainAssumption DEF VerifyStarknetBatch
<1>2. \A k \in DOMAIN starknet : k \in DOMAIN starknet'
    BY <1>1, StoredUnder
<1>3. (\A n \in DOMAIN ChainOrder : \A step \in StepsOf(ChainOrder[n]) :
            Passed(n, step) => Memorized(step, ChainOrder[n]))'
    BY <1>1, <1>2, NothingPassed
<1>4. HeadersHeld(starknet, chain_id, BatchesOf(file) \ left)
    BY <1>1 DEF Progress
<1>5. \A h \in batch.headers : HashParams(HeaderKey(chain_id, h.block)) \in DOMAIN starknet'
    BY <1>1, HeadersUnderOwnKey DEF InMemorizer
<1>6. \A b \in BatchesOf(file) \ left' : \A h \in b.headers :
          HashParams(HeaderKey(chain_id, h.block)) \in DOMAIN starknet'
    BY <1>1, <1>2, <1>4, <1>5 DEF HeadersHeld, InMemorizer
<1>7. (HeadersHeld(IF chain_id \in EvmChain THEN evm ELSE starknet, chain_id, BatchesOf(file) \ left))'
    BY <1>1, <1>6 DEF HeadersHeld, InMemorizer, chain_id, BatchesOf
<1>8. (\A i \in file.bytecode : InMemorizer(bytecodes, i.key))'
    BY <1>1 DEF Progress, InMemorizer
<1> QED
    BY <1>1, <1>3, <1>7, <1>8 DEF Progress

LEMMA VerifyProgress == ASSUME IInv, Progress, VerifyProofs PROVE Progress'
<1>1. stage' = "verify" /\ file' = file /\ Verify(file)
    BY DEF VerifyProofs, At, fetch
<1> QED
    BY <1>1, BytecodesProgress, EnterProgress, EvmBatchProgress, StarknetBatchProgress, HeadersPassed,
       AccountsPassed, StoragesPassed, TxsPassed, ReceiptsPassed, SlotsPassed DEF Verify

(* Before the sound run nothing is passed, whatever file it will be given. *)
LEMMA ProgressInit == ASSUME Init PROVE Progress
<1>1. part = "load" /\ idx = Len(ChainOrder) /\ stage = "dry"
    BY DEF Init, VerifierInit
<1>2. \A n \in DOMAIN ChainOrder : ~(n > idx)
    BY <1>1, ChainAssumption
<1> QED
    BY <1>1, <1>2, PassedByPart, StepsAreTurns DEF Progress, PassedAsTurned

(* The verifiers work in a verification only, and the file is written by a  *)
(* fetcher only.                                                            *)
LEMMA ElsewhereUnchanged == ASSUME [Next]_vars, ~VerifyProofs, ~Fetching PROVE UNCHANGED <<verifier, file>>
<1>1. CASE UNCHANGED vars \/ DryStep \/ RunFetcher \/ Grow \/ GiveUp \/ RunSound \/ LoadFails
    BY <1>1 DEF vars, sound, DryStep, DryRunCall, DryRunDies, NodeIsDown, DryRunEnds, RunFetcher, StartFetch,
                Grow, AccumulatorGrows, GiveUp, RunSound, LoadFails, fetch
<1>2. CASE SoundStep
    BY <1>2 DEF SoundStep, VerifyDies, VerifyFails, RunModule, ModuleCall, SoundCall, SoundEvmCall,
                SoundStarknetCall, SoundBytecodeCall, SoundKeccakCall, SoundDebugCall, Told, ModuleDies,
                SoundCallFails, ModuleEnds, Replay, ReplayCall, ReplayDies, ReplayFails, Publish, fetch, sound
<1> QED
    BY <1>1, <1>2 DEF Next

LEMMA ProgressStep == ASSUME IInv, Progress, [Next]_vars PROVE Progress'
<1>1. CASE VerifyProofs
    BY <1>1, VerifyProgress
<1>2. CASE /\ UNCHANGED <<verifier, file>>
           /\ stage' \in {"run", "replay", "published"} => stage \in {"run", "replay", "published"} \/ Verified
    <2>1. UNCHANGED <<evm, starknet, bytecodes, part, idx, left, file>>
        BY <1>2 DEF verifier, memorizers
    <2> QED
        BY <1>2, <2>1, ZenonT(60) DEF Progress, Passed, Memorized, HeadersHeld, InMemorizer, chain_id, BatchesOf, Verified
<1>3. CASE part = "load" /\ UNCHANGED <<part, idx>> /\ stage' \notin {"run", "replay", "published"}
    <2>1. idx' = Len(ChainOrder) /\ part' = "load"
        BY <1>3 DEF Progress
    <2>2. \A n \in DOMAIN ChainOrder : ~(n > idx')
        BY <2>1, ChainAssumption
    <2> QED
        BY <1>3, <2>1, <2>2, PassedNext, StepsAreTurns DEF Progress, PassedAsTurned
<1>4. CASE Fetching
    BY <1>3, <1>4 DEF Fetching, At, IInv, FileInUse, NotStarted, sound, verifier
<1>5. CASE ~VerifyProofs /\ ~Fetching
    <2>1. UNCHANGED <<verifier, file>>
        BY <1>5, ElsewhereUnchanged
    <2>2. stage' \in {"run", "replay", "published"} => stage \in {"run", "replay", "published"} \/ Verified
        BY <1>5 DEF vars, Next, DryStep, DryRunCall, DryRunDies, NodeIsDown, DryRunEnds, RunFetcher, Grow, GiveUp,
                    RunSound, LoadFails, SoundStep, VerifyDies, RunModule, ModuleCall, ModuleDies, ModuleEnds, Replay,
                    ReplayDies, Publish, Enter, At
    <2> QED
        BY <1>2, <2>1, <2>2
<1> QED
    BY <1>1, <1>4, <1>5

-----------------------------------------------------------------------------
(* What is memorized was opened. *)

LEMMA StoredFrom ==
    ASSUME NEW dict, NEW items, NEW k \in DOMAIN Store(dict, items)
    PROVE  Store(dict, items)[k] \in items \/ (k \in DOMAIN dict /\ Store(dict, items)[k] = dict[k])
<1> DEFINE written == {HashParams(i.key) : i \in items}
           chosen == CHOOSE i \in items : HashParams(i.key) = k
<1>1. CASE k \in written
    <2>1. chosen \in items
        BY <1>1
    <2>2. Store(dict, items)[k] = chosen
        BY <1>1 DEF Store
    <2> HIDE DEF chosen
    <2> QED
        BY <2>1, <2>2
<1>2. CASE k \notin written
    BY <1>2 DEF Store
<1> QED
    BY <1>1, <1>2

(* A block that is hashed from too few felts has no header in the memorizer. *)
LEMMA LegacyIsNotHashable ==
    ASSUME NEW block \in Block, Sn!Hashable(Sn!HashFields(Version[block]))
    PROVE  Version[block] # "legacy"
<1> SUFFICES ASSUME Version[block] = "legacy" PROVE FALSE
    OBVIOUS
<1> DEFINE felts == Sn!HashFields(Version[block])
<1>1. felts = <<Sn!Content(0), Sn!Content(1), Sn!Content(2), Sn!Content(3), Sn!Content(4), Sn!Content(5),
                Sn!Content(6), Sn!Content(7), 0, 0, Sn!Content(8)>>
    BY DEF Sn!HashFields
<1>2. Len(felts) = 11 /\ felts[1] = Sn!Content(0)
    BY <1>1
<1>3. Sn!Content(0) = 100
    BY DEF Sn!Content, Sn!TransactionCount, Sn!EventCount, Sn!StateDiffLength, Sn!L1DataMode
<1> HIDE DEF felts
<1>4. Sn!HashedFelts(felts) = 13
    BY <1>2, <1>3 DEF Sn!HashedFelts, Sn!Hash0, Sn!Hash1
<1>5. Len(felts) >= Sn!HashedFelts(felts)
    BY DEF Sn!Hashable, felts
<1> QED
    BY <1>2, <1>4, <1>5

(* The items of the file under the keys they can be asked for. *)
LEMMA FileCollectable ==
    ASSUME IInv, FetchKept, stage = "verify", idx > 0
    PROVE  /\ chain_id \in EvmChain =>
                /\ \A i \in OfChain(file.chain[chain_id].accounts) : i.key.at[1] \notin ShortAddress
                /\ \A i \in OfChain(file.chain[chain_id].storages) : i.key.at[1] \notin ShortAddress
                /\ \A i \in Indexed(file.chain[chain_id].txs) : i.key.at[1] \in DOMAIN Tx
                /\ \A i \in Indexed(file.chain[chain_id].receipts) : i.key.at[1] \in DOMAIN Tx
<1> SUFFICES ASSUME chain_id \in EvmChain
             PROVE  /\ \A i \in OfChain(file.chain[chain_id].accounts) : i.key.at[1] \notin ShortAddress
                    /\ \A i \in OfChain(file.chain[chain_id].storages) : i.key.at[1] \notin ShortAddress
                    /\ \A i \in Indexed(file.chain[chain_id].txs) : i.key.at[1] \in DOMAIN Tx
                    /\ \A i \in Indexed(file.chain[chain_id].receipts) : i.key.at[1] \in DOMAIN Tx
    OBVIOUS
<1>0. chain_id \in Chain /\ file \in ProofSets /\ InOwnChain(file) /\ file.chain[chain_id] \in ChainProofSets
    BY FileOfChain
<1>1. Collectable(file)
    BY DEF FetchKept, IInv, FileInUse, Loaded
<1>2. /\ file.chain[chain_id].accounts \subseteq ItemsOf(AccountKeys)
      /\ file.chain[chain_id].storages \subseteq ItemsOf(StorageKeys)
      /\ file.chain[chain_id].txs \subseteq ItemsOf(IndexKeys("tx"))
      /\ file.chain[chain_id].receipts \subseteq ItemsOf(IndexKeys("receipt"))
    BY <1>0 DEF ChainProofSets, InOwnChain
<1>3. ASSUME NEW items, items \subseteq ItemsOf(AccountKeys) \/ items \subseteq ItemsOf(StorageKeys),
             \A i \in items : i.key.at[1] \notin ShortAddress,
             NEW j \in OfChain(items)
      PROVE  j.key.at[1] \notin ShortAddress
    <2>1. PICK i \in items : j = Item([i.key EXCEPT !.chain = chain_id], i.root)
        BY DEF OfChain
    <2>2. j.key.at = i.key.at
        BY <1>3, <2>1 DEF Item, ItemsOf, AccountKeys, StorageKeys, KeysOf
    <2> QED
        BY <1>3, <2>2
<1>4. ASSUME NEW kind, NEW items, items \subseteq ItemsOf(IndexKeys(kind)),
             \A i \in items : \E n \in DOMAIN Tx : i.key.at[1] = Rlp!RlpKey(n),
             NEW j \in Indexed(items)
      PROVE  j.key.at[1] \in DOMAIN Tx
    <2>1. PICK i \in items :
              j = Item([i.key EXCEPT !.chain = chain_id, !.at = <<Rlp!IndexOf(@[1])>>], i.root)
        BY DEF Indexed
    <2>2. j.key.at = <<Rlp!IndexOf(i.key.at[1])>>
        BY <1>4, <2>1 DEF Item, ItemsOf, IndexKeys, KeysOf
    <2>3. PICK n \in DOMAIN Tx : i.key.at[1] = Rlp!RlpKey(n)
        BY <1>4
    <2>4. Rlp!IndexOf(Rlp!RlpKey(n)) = n
        BY DataAssumption, IndexReadBack
    <2> QED
        BY <2>2, <2>3, <2>4
<1> QED
    BY <1>1, <1>2, <1>3, <1>4 DEF Collectable

LEMMA EvmStoreOpened ==
    ASSUME MemorizersOpened, file' = file, UNCHANGED <<starknet, bytecodes>>,
           NEW items, evm' = Store(evm, items), \A i \in items : EvmOpened(i.key)
    PROVE  MemorizersOpened'
<1>1. ASSUME NEW k \in DOMAIN evm' PROVE EvmOpened(evm'[k].key)
    <2>1. evm'[k] \in items \/ (k \in DOMAIN evm /\ evm'[k] = evm[k])
        BY StoredFrom
    <2> QED
        BY <2>1 DEF MemorizersOpened
<1> QED
    BY <1>1 DEF MemorizersOpened, EvmOpened, StarknetOpened

LEMMA StarknetStoreOpened ==
    ASSUME MemorizersOpened, file' = file, UNCHANGED <<evm, bytecodes>>,
           NEW items, starknet' = Store(starknet, items), \A i \in items : StarknetOpened(i.key)
    PROVE  MemorizersOpened'
<1>1. ASSUME NEW k \in DOMAIN starknet' PROVE StarknetOpened(starknet'[k].key)
    <2>1. starknet'[k] \in items \/ (k \in DOMAIN starknet /\ starknet'[k] = starknet[k])
        BY StoredFrom
    <2> QED
        BY <2>1 DEF MemorizersOpened
<1> QED
    BY <1>1 DEF MemorizersOpened, EvmOpened, StarknetOpened

LEMMA VerifyOpens == ASSUME IInv, FetchKept, MemorizersOpened, VerifyProofs PROVE MemorizersOpened'
<1>1. stage = "verify" /\ file' = file /\ Verify(file) /\ CanBeRead(file)
    BY DEF VerifyProofs, At, fetch, IInv, FileInUse, Loaded
<1>2. Collectable(file)
    BY <1>1 DEF FetchKept
<1>3. CASE LoadBytecodes(file)
    <2>1. UNCHANGED <<evm, starknet>> /\ bytecodes' = Store(bytecodes, file.bytecode)
        BY <1>3 DEF LoadBytecodes
    <2>2. ASSUME NEW k \in DOMAIN bytecodes'
          PROVE  bytecodes'[k] \in file.bytecode /\ bytecodes'[k].key.at[1] \notin ShortAddress
        <3>1. bytecodes'[k] \in file.bytecode \/ (k \in DOMAIN bytecodes /\ bytecodes'[k] = bytecodes[k])
            BY <2>1, StoredFrom
        <3> QED
            BY <1>2, <3>1 DEF MemorizersOpened, Collectable
    <2> QED
        BY <1>1, <2>1, <2>2 DEF MemorizersOpened, EvmOpened, StarknetOpened
<1>4. CASE EnterChain(file) \/ HeadersDone
    BY <1>1, <1>4 DEF EnterChain, HeadersDone, memorizers, MemorizersOpened, EvmOpened, StarknetOpened
<1>5. ASSUME NEW batch \in left, VerifyEvmBatch(batch) PROVE MemorizersOpened'
    <2>1. UNCHANGED <<starknet, bytecodes>> /\ evm' = Store(evm, HeaderItems(batch.headers))
        BY <1>5 DEF VerifyEvmBatch
    <2>2. \A i \in HeaderItems(batch.headers) : EvmOpened(i.key)
        BY DEF HeaderItems, Item, HeaderKey, Key, EvmOpened
    <2> QED
        BY <1>1, <2>1, <2>2, EvmStoreOpened
<1>6. ASSUME NEW batch \in left, VerifyStarknetBatch(batch) PROVE MemorizersOpened'
    <2>1. UNCHANGED <<evm, bytecodes>> /\ starknet' = Store(starknet, HeaderItems(batch.headers))
        BY <1>6 DEF VerifyStarknetBatch
    <2>2. ASSUME NEW i \in HeaderItems(batch.headers) PROVE StarknetOpened(i.key)
        <3>1. PICK h \in batch.headers : i = Item(HeaderKey(chain_id, h.block), h)
            BY DEF HeaderItems
        <3>2. i.key.kind = "header" /\ i.key.block = h.block
            BY <3>1 DEF Item, HeaderKey, Key
        <3>3. h.block \in Block /\ Sn!Hashable(Sn!HashFields(Version[h.block]))
            BY <1>6 DEF VerifyStarknetBatch, StarknetBatchVerifies, Commits, StarknetFeltsOf
        <3> QED
            BY <3>2, <3>3, LegacyIsNotHashable DEF StarknetOpened
    <2> QED
        BY <1>1, <2>1, <2>2, StarknetStoreOpened
<1>7. CASE VerifyAccounts(file)
    <2>1. /\ idx > 0 /\ chain_id \in EvmChain
          /\ UNCHANGED <<starknet, bytecodes>> /\ evm' = Store(evm, OfChain(file.chain[chain_id].accounts))
        BY <1>7 DEF VerifyAccounts, AccountsOf, IInv, FileInUse
    <2>2. OfChain(file.chain[chain_id].accounts) \subseteq ItemsOf(AccountKeys)
        BY <1>1, <2>1, FileOfChain, ItemsOfChain DEF ChainProofSets
    <2>3. \A i \in OfChain(file.chain[chain_id].accounts) :
              i.key.kind = "account" /\ i.key.at[1] \notin ShortAddress
        BY <1>1, <2>1, <2>2, FileCollectable DEF ItemsOf, AccountKeys, KeysOf
    <2>4. \A i \in OfChain(file.chain[chain_id].accounts) : EvmOpened(i.key)
        BY <2>3 DEF EvmOpened
    <2> QED
        BY <1>1, <2>1, <2>4, EvmStoreOpened
<1>8. CASE VerifyStorages(file)
    <2>1. /\ idx > 0 /\ chain_id \in EvmChain
          /\ UNCHANGED <<starknet, bytecodes>> /\ evm' = Store(evm, OfChain(file.chain[chain_id].storages))
          /\ \A i \in OfChain(file.chain[chain_id].storages) : i.key.at[1] \in Account
        BY <1>8 DEF VerifyStorages, StoragesOf, StoragesVerify, IInv, FileInUse
    <2>2. OfChain(file.chain[chain_id].storages) \subseteq ItemsOf(StorageKeys)
        BY <1>1, <2>1, FileOfChain, ItemsOfChain DEF InOwnChain
    <2>3. \A i \in OfChain(file.chain[chain_id].storages) :
              i.key.kind = "storage" /\ i.key.at[1] \notin ShortAddress
        BY <1>1, <2>1, <2>2, FileCollectable DEF ItemsOf, StorageKeys, KeysOf
    <2>4. \A i \in OfChain(file.chain[chain_id].storages) : EvmOpened(i.key)
        BY <2>1, <2>3 DEF EvmOpened
    <2> QED
        BY <1>1, <2>1, <2>4, EvmStoreOpened
<1>9. CASE VerifyTxs(file)
    <2>1. /\ idx > 0 /\ chain_id \in EvmChain
          /\ UNCHANGED <<starknet, bytecodes>> /\ evm' = Store(evm, Indexed(file.chain[chain_id].txs))
        BY <1>9 DEF VerifyTxs, TxsOf, IInv, FileInUse
    <2>2. Indexed(file.chain[chain_id].txs) \subseteq ItemsOf(IndexKeys("tx"))
        BY <1>1, <2>1, FileOfChain, ItemsIndexed DEF ChainProofSets
    <2>3. \A i \in Indexed(file.chain[chain_id].txs) : i.key.kind = "tx" /\ i.key.at[1] \in DOMAIN Tx
        BY <1>1, <2>1, <2>2, FileCollectable DEF ItemsOf, IndexKeys, KeysOf
    <2>4. \A i \in Indexed(file.chain[chain_id].txs) : EvmOpened(i.key)
        BY <2>3 DEF EvmOpened
    <2> QED
        BY <1>1, <2>1, <2>4, EvmStoreOpened
<1>10. CASE VerifyReceipts(file)
    <2>1. /\ idx > 0 /\ chain_id \in EvmChain
          /\ UNCHANGED <<starknet, bytecodes>> /\ evm' = Store(evm, Indexed(file.chain[chain_id].receipts))
        BY <1>10 DEF VerifyReceipts, ReceiptsOf, IInv, FileInUse
    <2>2. Indexed(file.chain[chain_id].receipts) \subseteq ItemsOf(IndexKeys("receipt"))
        BY <1>1, <2>1, FileOfChain, ItemsIndexed DEF ChainProofSets
    <2>3. \A i \in Indexed(file.chain[chain_id].receipts) : i.key.kind = "receipt" /\ i.key.at[1] \in DOMAIN Tx
        BY <1>1, <2>1, <2>2, FileCollectable DEF ItemsOf, IndexKeys, KeysOf
    <2>4. \A i \in Indexed(file.chain[chain_id].receipts) : EvmOpened(i.key)
        BY <2>3 DEF EvmOpened
    <2> QED
        BY <1>1, <2>1, <2>4, EvmStoreOpened
<1>11. CASE VerifyStarknetStorages(file)
    <2> DEFINE items == OfChain(file.chain[chain_id].storages)
    <2>1. /\ idx > 0 /\ chain_id \in StarknetChain
          /\ UNCHANGED <<evm, bytecodes>> /\ starknet' = Store(starknet, items)
          /\ StarknetStoragesVerify(items)
        BY <1>11 DEF VerifyStarknetStorages, SlotsOf, IInv, FileInUse
    <2>2. items \subseteq ItemsOf(SlotKeys)
        BY <1>1, <2>1, FileOfChain, ItemsOfChain DEF InOwnChain
    <2> HIDE DEF items
    <2>3. ASSUME NEW i \in items PROVE StarknetOpened(i.key)
        <3> DEFINE key == HeaderKeyOf(i.key)
        <3>1. HashParams(key) \in DOMAIN starknet /\ i.key.at[2] \in SetSlot
            BY <2>1 DEF StarknetStoragesVerify, InMemorizer
        <3>2. key \in HeaderKeys(StarknetChain)
            BY <2>2 DEF ItemsOf, SlotKeys, KeysOf, HeaderKeyOf, HeaderKey, Key, HeaderKeys
        <3>3. starknet[HashParams(key)].key \in StarknetKeys
              /\ HashParams(starknet[HashParams(key)].key) = HashParams(key)
            BY <3>1 DEF IInv, MemorizersTyped, MemorizersTrue, ItemsOf
        <3>4. starknet[HashParams(key)].key = key
            BY <3>2, <3>3, KeysApart DEF StarknetKeys
        <3>5. key.block = i.key.block
            BY DEF HeaderKeyOf, HeaderKey, Key
        <3> QED
            BY <3>1, <3>4, <3>5 DEF MemorizersOpened, StarknetOpened
    <2> QED
        BY <1>1, <2>1, <2>3, StarknetStoreOpened
<1> QED
    BY <1>1, <1>3, <1>4, <1>5, <1>6, <1>7, <1>8, <1>9, <1>10, <1>11 DEF Verify

LEMMA NothingOpened == ASSUME evm = Empty, starknet = Empty, bytecodes = Empty PROVE MemorizersOpened
BY DEF MemorizersOpened, Empty

LEMMA OpenedStep == ASSUME IInv, FetchKept, MemorizersOpened, [Next]_vars PROVE MemorizersOpened'
<1>1. CASE VerifyProofs
    BY <1>1, VerifyOpens
<1>2. CASE Fetching
    <2>1. UNCHANGED <<evm, starknet, bytecodes>> /\ evm = Empty /\ starknet = Empty /\ bytecodes = Empty
        BY <1>2 DEF Fetching, sound, verifier, memorizers, At, IInv, MemorizersTyped, NotStarted
    <2> QED
        BY <2>1 DEF MemorizersOpened, Empty
<1>3. CASE ~VerifyProofs /\ ~Fetching
    <2>1. UNCHANGED <<verifier, file>>
        BY <1>3, ElsewhereUnchanged
    <2> QED
        BY <2>1 DEF verifier, memorizers, MemorizersOpened, EvmOpened, StarknetOpened
<1> QED
    BY <1>1, <1>2, <1>3

-----------------------------------------------------------------------------
(* The answers of the module's calls. *)

(* Only a call of the module adds an answer. *)
LEMMA OnlyCallsTell == ASSUME IInv, [Next]_vars, ~ModuleCall PROVE UNCHANGED <<told, syscall_ptr>>
<1>1. CASE UNCHANGED vars \/ DryStep \/ RunFetcher \/ Fetching \/ Grow \/ GiveUp \/ RunSound \/ LoadFails
    BY <1>1 DEF vars, sound, run, DryStep, DryRunCall, DryRunDies, NodeIsDown, DryRunEnds, RunFetcher, Fetching,
                Grow, GiveUp, RunSound, LoadFails
<1>2. CASE SoundStep
    BY <1>2 DEF SoundStep, VerifyProofs, VerifyDies, RunModule, ModuleDies, SoundCallFails, ModuleEnds, Replay,
                ReplayCall, ReplayDies, ReplayFails, Publish, sound, run
<1> QED
    BY <1>1, <1>2 DEF Next

LEMMA CallTold ==
    ASSUME IInv, ModuleCall
    PROVE  /\ stage = "run" /\ stage' = "run" /\ UNCHANGED <<dry, fetch, verifier, replay_ptr>>
           /\ \E call \in NextCalls : \E answer :
                 /\ told' = Append(told, Cell(syscall_ptr, call, answer))
                 /\ syscall_ptr' = syscall_ptr + Cells(call)
                 /\ SoundAnswer(Cell(syscall_ptr, call, answer))
<1> PICK call \in NextCalls : SoundCall(call)
    BY DEF ModuleCall
<1>1. stage = "run" /\ stage' = "run" /\ UNCHANGED <<dry, fetch, verifier, replay_ptr>>
    BY DEF ModuleCall, At, SoundCall, SoundEvmCall, SoundStarknetCall, SoundBytecodeCall, SoundKeccakCall,
           SoundDebugCall, Told
<1> SUFFICES \E answer : /\ told' = Append(told, Cell(syscall_ptr, call, answer))
                         /\ syscall_ptr' = syscall_ptr + Cells(call)
                         /\ SoundAnswer(Cell(syscall_ptr, call, answer))
    BY <1>1
<1>2. \A answer : Cell(syscall_ptr, call, answer).call = call /\ Cell(syscall_ptr, call, answer).answer = answer
    BY DEF Cell
<1>3. \A value, view : Answer(value, view).value = value
    BY DEF Answer
<1>4. CASE SoundEvmCall(call)
    <2> DEFINE item == evm[KeyHash(call)]
               answer == Answer(ReadBy(SoundReads(call), item, call), item.root.view)
    <2>1. /\ HandlerOf(call) = "evm" /\ HasEntry(evm, call) /\ ReadBy(SoundReads(call), item, call) # Unreadable
          /\ told' = Append(told, Cell(syscall_ptr, call, answer)) /\ syscall_ptr' = syscall_ptr + Cells(call)
        BY <1>4 DEF SoundEvmCall, Told
    <2>2. answer.value # Unreadable
        BY <1>3, <2>1
    <2>3. SoundAnswer(Cell(syscall_ptr, call, answer))
        BY <1>2, <2>1, <2>2 DEF SoundAnswer, ReadFrom
    <2> QED
        BY <2>1, <2>3
<1>5. CASE SoundStarknetCall(call)
    <2> DEFINE item == starknet[KeyHash(call)]
               answer == Answer(ReadBy(SoundReads(call), item, call), item.root.view)
    <2>1. /\ HandlerOf(call) = "starknet" /\ HasEntry(starknet, call)
          /\ ReadBy(SoundReads(call), item, call) # Unreadable
          /\ told' = Append(told, Cell(syscall_ptr, call, answer)) /\ syscall_ptr' = syscall_ptr + Cells(call)
        BY <1>5 DEF SoundStarknetCall, Told
    <2>2. answer.value # Unreadable
        BY <1>3, <2>1
    <2>3. SoundAnswer(Cell(syscall_ptr, call, answer))
        BY <1>2, <2>1, <2>2 DEF SoundAnswer, ReadFrom
    <2> QED
        BY <2>1, <2>3
<1>6. CASE SoundBytecodeCall(call)
    <2> DEFINE item == bytecodes[KeyHash(call)]
               answer == Answer(ReadBy(SoundReads(call), item, call), item.root.view)
    <2>1. /\ HandlerOf(call) = "bytecode" /\ HasEntry(bytecodes, call)
          /\ told' = Append(told, Cell(syscall_ptr, call, answer)) /\ syscall_ptr' = syscall_ptr + Cells(call)
        BY <1>6 DEF SoundBytecodeCall, Told
    <2>2. SoundAnswer(Cell(syscall_ptr, call, answer))
        BY <1>2, <2>1 DEF SoundAnswer, ReadFrom
    <2> QED
        BY <2>1, <2>2
<1>7. CASE SoundKeccakCall(call) \/ SoundDebugCall(call)
    <2>1. /\ HandlerOf(call) \in {"keccak", "debug"}
          /\ told' = Append(told, Cell(syscall_ptr, call, Answer(SoundReads(call), "committed")))
          /\ syscall_ptr' = syscall_ptr + Cells(call)
        BY <1>7 DEF SoundKeccakCall, SoundDebugCall, Told, SoundReads
    <2>2. SoundAnswer(Cell(syscall_ptr, call, Answer(SoundReads(call), "committed")))
        BY <1>2, <2>1 DEF SoundAnswer
    <2> QED
        BY <2>1, <2>2
<1> QED
    BY <1>4, <1>5, <1>6, <1>7 DEF SoundCall

LEMMA ToldAsReadStep == ASSUME IInv, ToldAsRead, [Next]_vars PROVE ToldAsRead'
<1>1. CASE ModuleCall
    <2>1. UNCHANGED <<evm, starknet, bytecodes>>
        BY <1>1, CallTold DEF verifier, memorizers
    <2>2. PICK cell : told' = Append(told, cell) /\ SoundAnswer(cell)
        BY <1>1, CallTold
    <2>3. /\ DOMAIN told = 1..Len(told) /\ DOMAIN told' = 1..(Len(told) + 1) /\ Len(told) \in Nat
          /\ \A n \in DOMAIN told : told'[n] = told[n]
          /\ told'[Len(told) + 1] = cell
        BY <2>2, AppendIsSequence DEF IInv, TypeOK
    <2>4. \A n \in DOMAIN told' : SoundAnswer(told'[n])
        BY <2>2, <2>3 DEF ToldAsRead
    <2> QED
        BY <2>1, <2>4 DEF ToldAsRead, SoundAnswer, ReadFrom, HasEntry
<1>2. CASE ~ModuleCall /\ told = <<>>
    BY <1>2, OnlyCallsTell DEF ToldAsRead
<1>3. CASE ~ModuleCall /\ told # <<>>
    <2>1. told' = told /\ stage \notin {"dry", "fetch", "verify"}
        BY <1>3, OnlyCallsTell DEF IInv, Segment
    <2>2. UNCHANGED verifier
        BY <2>1, ElsewhereUnchanged DEF VerifyProofs, Fetching, At
    <2> QED
        BY <2>1, <2>2 DEF verifier, memorizers, ToldAsRead, SoundAnswer, ReadFrom, HasEntry
<1> QED
    BY <1>1, <1>2, <1>3

LEMMA ContiguousStep == ASSUME IInv, Contiguous, [Next]_vars PROVE Contiguous'
<1>0. /\ DOMAIN told = 1..Len(told) /\ Len(told) \in Nat /\ (told = <<>> <=> Len(told) = 0)
      /\ \A n \in DOMAIN told : told[n].at \in Nat /\ End(told[n]) \in Nat
    <2>1. \A n \in DOMAIN told : told[n].at \in Nat
        BY DEF IInv, Segment
    <2>2. \A n \in DOMAIN told : End(told[n]) \in Nat
        BY <2>1, SizesAgree DEF End
    <2>3. told \in Seq(Elements(told))
        BY DEF IInv, TypeOK, IsSequence
    <2> QED
        BY <2>1, <2>2, <2>3, ProgramTyped
<1>1. CASE ModuleCall
    <2>1. PICK call, answer :
              /\ told' = Append(told, Cell(syscall_ptr, call, answer))
              /\ syscall_ptr' = syscall_ptr + Cells(call)
        BY <1>1, CallTold
    <2> DEFINE cell == Cell(syscall_ptr, call, answer)
    <2>2. cell.at = syscall_ptr /\ cell.call = call /\ End(cell) = syscall_ptr'
        BY <2>1 DEF Cell, End
    <2> HIDE DEF cell
    <2>3. /\ DOMAIN told' = 1..(Len(told) + 1) /\ Len(told') = Len(told) + 1
          /\ \A n \in DOMAIN told : told'[n] = told[n]
          /\ told'[Len(told) + 1] = cell
        BY <2>1, AppendIsSequence DEF IInv, TypeOK, cell
    <2>4. replay_ptr' = replay_ptr
        BY <1>1, CallTold
    <2>5. ASSUME NEW n \in DOMAIN told' PROVE told'[n].at = IF n = 1 THEN 0 ELSE End(told'[n - 1])
        <3>1. CASE n \in DOMAIN told
            BY <1>0, <2>3, <3>1 DEF Contiguous
        <3>2. CASE n = Len(told) + 1
            BY <1>0, <2>2, <2>3, <3>2 DEF Contiguous
        <3> QED
            BY <1>0, <2>3, <3>1, <3>2
    <2>6. syscall_ptr' = IF told' = <<>> THEN 0 ELSE End(told'[Len(told')])
        <3>1. told' # <<>>
            BY <1>0, <2>3
        <3> QED
            BY <2>2, <2>3, <3>1
    <2>7. replay_ptr \in {told'[n].at : n \in DOMAIN told'}
        <3>1. CASE replay_ptr = syscall_ptr
            BY <1>0, <2>2, <2>3, <3>1
        <3>2. CASE \E n \in DOMAIN told : replay_ptr = told[n].at
            BY <1>0, <2>3, <3>2
        <3> QED
            BY <3>1, <3>2 DEF Contiguous
    <2> QED
        BY <2>4, <2>5, <2>6, <2>7 DEF Contiguous, End
<1>2. CASE Replay
    <2>1. PICK n \in DOMAIN told : told[n].at = replay_ptr /\ replay_ptr' = End(told[n])
        BY <1>2, SizesAgree DEF Replay, ReplayCall, AtPointer, End
    <2>2. UNCHANGED <<told, syscall_ptr>>
        BY <1>2 DEF Replay, ReplayCall
    <2>3. replay_ptr' \in {told[m].at : m \in DOMAIN told} \union {syscall_ptr}
        <3>1. CASE n = Len(told)
            BY <1>0, <2>1, <3>1 DEF Contiguous
        <3>2. CASE n # Len(told)
            <4>1. n + 1 \in DOMAIN told /\ n + 1 # 1 /\ (n + 1) - 1 = n
                BY <1>0, <2>1, <3>2
            <4> QED
                BY <2>1, <4>1 DEF Contiguous
        <3> QED
            BY <3>1, <3>2
    <2> QED
        BY <2>2, <2>3 DEF Contiguous, End
<1>3. CASE ~ModuleCall /\ ~Replay
    <2>1. UNCHANGED <<told, syscall_ptr>>
        BY <1>3, OnlyCallsTell
    <2>2. replay_ptr' = replay_ptr
        <3>1. CASE UNCHANGED vars \/ DryStep \/ RunFetcher \/ Fetching \/ Grow \/ GiveUp \/ RunSound \/ LoadFails
            BY <3>1 DEF vars, sound, run, DryStep, DryRunCall, DryRunDies, NodeIsDown, DryRunEnds, RunFetcher,
                        Fetching, Grow, GiveUp, RunSound, LoadFails
        <3>2. CASE SoundStep
            BY <1>3, <3>2 DEF SoundStep, VerifyProofs, VerifyDies, RunModule, ModuleDies, SoundCallFails,
                              ModuleEnds, ReplayDies, ReplayFails, Publish, sound, run
        <3> QED
            BY <3>1, <3>2 DEF Next
    <2> QED
        BY <2>1, <2>2 DEF Contiguous, End
<1> QED
    BY <1>1, <1>2, <1>3

-----------------------------------------------------------------------------
(* The answers of an undisturbed job are those of its dry run. *)

(* What a call finds under its hash is what it asked for. *)
LEMMA EntryIsTheKey ==
    ASSUME IInv, NEW call, Callable(call)
    PROVE  /\ HandlerOf(call) = "evm" /\ HasEntry(evm, call) =>
                evm[KeyHash(call)].key = KeyOf(call) /\ evm[KeyHash(call)].root.view = "committed"
           /\ HandlerOf(call) = "starknet" /\ HasEntry(starknet, call) =>
                starknet[KeyHash(call)].key = KeyOf(call) /\ starknet[KeyHash(call)].root.view = "committed"
           /\ HandlerOf(call) = "bytecode" /\ HasEntry(bytecodes, call) =>
                bytecodes[KeyHash(call)].key = KeyOf(call)
<1>1. CASE HandlerOf(call) = "evm" /\ HasEntry(evm, call)
    <2> DEFINE item == evm[KeyHash(call)]
    <2>1. /\ item.key \in EvmKeys /\ HashParams(item.key) = KeyHash(call)
          /\ item.root = Header(item.key.chain, item.key.block, "committed")
        BY <1>1 DEF HasEntry, IInv, MemorizersTyped, MemorizersTrue, ItemsOf
    <2>2. KeyOf(call) \in EvmKeys /\ KeyHash(call) = HashParams(KeyOf(call))
        BY <1>1, LookedUpByKey DEF Callable
    <2>3. item.key = KeyOf(call)
        BY <2>1, <2>2, KeysApart
    <2> QED
        BY <1>1, <2>1, <2>3 DEF Header
<1>2. CASE HandlerOf(call) = "starknet" /\ HasEntry(starknet, call)
    <2> DEFINE item == starknet[KeyHash(call)]
    <2>1. /\ item.key \in StarknetKeys /\ HashParams(item.key) = KeyHash(call)
          /\ item.root = Header(item.key.chain, item.key.block, "committed")
        BY <1>2 DEF HasEntry, IInv, MemorizersTyped, MemorizersTrue, ItemsOf
    <2>2. KeyOf(call) \in StarknetKeys /\ KeyHash(call) = HashParams(KeyOf(call))
        BY <1>2, LookedUpByKey DEF Callable
    <2>3. item.key = KeyOf(call)
        BY <2>1, <2>2, KeysApart
    <2> QED
        BY <1>2, <2>1, <2>3 DEF Header
<1>3. CASE HandlerOf(call) = "bytecode" /\ HasEntry(bytecodes, call)
    <2> DEFINE item == bytecodes[KeyHash(call)]
    <2>1. item.key \in BytecodeKeys /\ HashParams(item.key) = KeyHash(call)
        BY <1>3 DEF HasEntry, IInv, MemorizersTyped, ItemsOf
    <2>2. KeyOf(call) \in BytecodeKeys /\ KeyHash(call) = HashParams(KeyOf(call))
        BY <1>3, LookedUpByKey DEF Callable
    <2>3. item.key = KeyOf(call)
        BY <2>1, <2>2, KeysApart
    <2> QED
        BY <1>3, <2>3
<1> QED
    BY <1>1, <1>2, <1>3

(* A bytecode is of the view the file has it in. *)
LEMMA BytecodeIsOfFile ==
    ASSUME MemorizersOpened, Undisturbed, NEW k \in DOMAIN bytecodes
    PROVE  bytecodes[k].root.view = "committed"
BY DEF MemorizersOpened, Undisturbed, Items

LEMMA AnsweredAsBefore ==
    ASSUME IInv, MemorizersOpened, Undisturbed, TraceKept,
           NEW n \in DOMAIN program, n \in DOMAIN trace,
           NEW cell, cell.call = program[n], SoundAnswer(cell)
    PROVE  cell.answer = trace[n]
<1> DEFINE call == cell.call
<1>1. Callable(call) /\ Supported(call)
    BY ProgramTyped DEF Undisturbed
<1>2. /\ HandlerOf(call) \in {"evm", "starknet", "keccak", "debug", "bytecode"}
      /\ SoundReads(call) = DryReads(call)
    BY <1>1, SupportedIsRead
<1>3. trace[n] = Answer(DryReads(call), "committed")
    BY DEF TraceKept, Undisturbed
<1> HIDE DEF call
<1>4. CASE HandlerOf(call) = "evm"
    <2>1. HasEntry(evm, call)
          /\ cell.answer = Answer(ReadBy(SoundReads(call), evm[KeyHash(call)], call), evm[KeyHash(call)].root.view)
        BY <1>4 DEF SoundAnswer, ReadFrom, call
    <2> QED
        BY <1>1, <1>2, <1>3, <1>4, <2>1, EntryIsTheKey DEF ReadBy
<1>5. CASE HandlerOf(call) = "starknet"
    <2>1. HasEntry(starknet, call)
          /\ cell.answer = Answer(ReadBy(SoundReads(call), starknet[KeyHash(call)], call),
                                  starknet[KeyHash(call)].root.view)
        BY <1>5 DEF SoundAnswer, ReadFrom, call
    <2> QED
        BY <1>1, <1>2, <1>3, <1>5, <2>1, EntryIsTheKey DEF ReadBy
<1>6. CASE HandlerOf(call) = "bytecode"
    <2>1. HasEntry(bytecodes, call)
          /\ cell.answer = Answer(ReadBy(SoundReads(call), bytecodes[KeyHash(call)], call),
                                  bytecodes[KeyHash(call)].root.view)
        BY <1>6 DEF SoundAnswer, ReadFrom, call
    <2>2. bytecodes[KeyHash(call)].root.view = "committed"
        BY <2>1, BytecodeIsOfFile DEF HasEntry
    <2> QED
        BY <1>1, <1>2, <1>3, <1>6, <2>1, <2>2, EntryIsTheKey DEF ReadBy
<1>7. CASE HandlerOf(call) \in {"keccak", "debug"}
    BY <1>2, <1>3, <1>7 DEF SoundAnswer, call
<1> QED
    BY <1>2, <1>4, <1>5, <1>6, <1>7

LEMMA ToldAsAskedStep ==
    ASSUME IInv, TraceKept, MemorizersOpened, ToldAsAsked, [Next]_vars PROVE ToldAsAsked'
<1>1. CASE told' = <<>>
    <2>1. Len(program') \in Nat
        BY StepInv, <1>1 DEF IInv, TypeOK
    <2> QED
        BY <1>1, <2>1 DEF ToldAsAsked, AsBefore
<1>2. CASE ~ModuleCall /\ told # <<>>
    <2>1. told' = told /\ stage \notin {"dry", "fetch", "verify"}
        BY <1>2, OnlyCallsTell DEF IInv, Segment
    <2>2. UNCHANGED <<dry, fetch>>
        BY <2>1, AfterFetch DEF Next, DryStep, DryRunCall, DryRunDies, NodeIsDown, DryRunEnds, RunFetcher, Fetching,
                          Grow, GiveUp, RunSound, LoadFails, At, vars
    <2> QED
        BY <2>1, <2>2 DEF dry, fetch, ToldAsAsked, Undisturbed, AsBefore, Items
<1>3. CASE ModuleCall
    <2> SUFFICES ASSUME Undisturbed'
                 PROVE  (Len(told) <= Len(program) /\ AsBefore /\ \A n \in DOMAIN told : told[n].call = program[n])'
        BY DEF ToldAsAsked
    <2>1. stage = "run" /\ UNCHANGED <<dry, fetch>>
        BY <1>3, CallTold
    <2>0. PICK call \in NextCalls : \E answer :
              /\ told' = Append(told, Cell(syscall_ptr, call, answer))
              /\ SoundAnswer(Cell(syscall_ptr, call, answer))
        BY <1>3, CallTold
    <2>2. PICK answer :
              /\ told' = Append(told, Cell(syscall_ptr, call, answer))
              /\ SoundAnswer(Cell(syscall_ptr, call, answer))
        BY <2>0
    <2>3. Undisturbed
        BY <2>1 DEF dry, fetch, Undisturbed, Items
    <2>4. AsBefore /\ Len(told) <= Len(program) /\ \A n \in DOMAIN told : told[n].call = program[n]
        BY <2>3 DEF ToldAsAsked
    <2> DEFINE cell == Cell(syscall_ptr, call, answer)
               n == Len(told) + 1
    <2>5. n \in DOMAIN program /\ call = program[n]
        BY <2>2, <2>4 DEF NextCalls
    <2>6. n \in DOMAIN trace
        BY <2>1, <2>5, ProgramTyped DEF TraceKept
    <2>7. cell.call = call /\ cell.answer = answer
        BY DEF Cell
    <2>8. /\ DOMAIN told' = 1..n /\ Len(told') = n /\ \A m \in DOMAIN told : told'[m] = told[m]
          /\ told'[n] = cell /\ DOMAIN told = 1..Len(told) /\ Len(told) \in Nat
        BY <2>2, AppendIsSequence DEF IInv, TypeOK
    <2> HIDE DEF cell
    <2>9. cell.answer = trace[n]
        BY <2>2, <2>3, <2>5, <2>6, <2>7, AnsweredAsBefore DEF cell
    <2>10. \A m \in DOMAIN told' : m \in DOMAIN told \/ m = n
        BY <2>8
    <2> HIDE DEF n
    <2>11. \A m \in DOMAIN told' : told'[m].call = program[m] /\ m \in DOMAIN trace /\ told'[m].answer = trace[m]
        BY <2>4, <2>5, <2>6, <2>7, <2>8, <2>9, <2>10 DEF AsBefore
    <2>12. Len(told') <= Len(program)
        BY <2>5, <2>8, ProgramTyped
    <2> QED
        BY <2>1, <2>11, <2>12 DEF dry, AsBefore
<1> QED
    BY <1>1, <1>2, <1>3, OnlyCallsTell

-----------------------------------------------------------------------------
(* An undisturbed job is not stopped. *)

LEMMA TraceInProgram == ASSUME IInv, TraceKept PROVE DOMAIN trace \subseteq DOMAIN program
<1>1. Len(trace) <= Len(program)
    BY DEF TraceKept
<1> QED
    BY <1>1, ProgramTyped

(* What the calls of the module name, when they are supported. *)
LEMMA KeysSupported ==
    ASSUME IInv, TraceKept, Undisturbed
    PROVE  /\ \A key \in evm_keys : key.kind = "storage" => key.at[1] \in Account
           /\ \A key \in starknet_keys :
                /\ Version[key.block] \in {"hash0", "hash1"}
                /\ key.kind = "storage" => key.at[2] \in SetSlot
<1>1. ASSUME NEW key \in evm_keys, key.kind = "storage" PROVE key.at[1] \in Account
    <2>1. PICK n \in DOMAIN trace : key = KeyOf(program[n]) /\ HandlerOf(program[n]) = "evm"
        BY DEF TraceKept, KeysAsked
    <2> DEFINE call == program[n]
    <2>2. n \in DOMAIN program
        BY TraceInProgram
    <2>3. Supported(call)
        BY <2>2 DEF Undisturbed
    <2>4. call.kind = "storage" /\ key.at = call.at
        BY <1>1, <2>1 DEF KeyOf, Key
    <2>5. SupportedEvm(call)
        BY <2>1, <2>3 DEF Supported
    <2> QED
        BY <2>4, <2>5 DEF SupportedEvm
<1>2. ASSUME NEW key \in starknet_keys
      PROVE  /\ Version[key.block] \in {"hash0", "hash1"}
             /\ key.kind = "storage" => key.at[2] \in SetSlot
    <2>1. PICK n \in DOMAIN trace : key = KeyOf(program[n]) /\ HandlerOf(program[n]) = "starknet"
        BY DEF TraceKept, KeysAsked
    <2> DEFINE call == program[n]
    <2>2. n \in DOMAIN program /\ Callable(call)
        BY TraceInProgram, ProgramTyped
    <2>3. Supported(call)
        BY <2>2 DEF Undisturbed
    <2>4. SupportedStarknet(call)
        BY <2>1, <2>3 DEF Supported
    <2>5. call.kind \in StarknetKinds /\ call.block \in Block
        BY <2>1, <2>2, CallCases
    <2>6. key.kind = call.kind /\ key.at = call.at /\ key.block = call.block
        BY <2>1, <2>5 DEF KeyOf, Key, StarknetKinds
    <2>7. Version[call.block] \in {"legacy", "hash0", "hash1"}
        BY <2>5, DataAssumption DEF Sn!Versions
    <2> QED
        BY <2>4, <2>6, <2>7 DEF SupportedStarknet
<1> QED
    BY <1>1, <1>2

(* The file is the one of this job. *)
LEMMA FileOfJob ==
    ASSUME JobInv, Undisturbed, stage \in {"verify", "run", "replay"}
    PROVE  /\ file \in ProofSets /\ InOwnChain(file) /\ Collectable(file) /\ ProofsForKeys(file)
           /\ \A key \in evm_keys \union starknet_keys :
                 /\ \E h \in Headers(file) : h.chain = key.chain /\ h.block = key.block
                 /\ key.kind \in {"tx", "receipt"} => \E i \in Items(file) : i.key = TrieKey(key)
                 /\ key.kind \in {"account", "storage"} => \E i \in Items(file) : i.key = key
           /\ \A key \in bytecode_keys : HasBytecode(file, key)
<1>1. fresh /\ FileIsWhole /\ FetchKept /\ TypeOK /\ CanBeRead(file)
    BY DEF Undisturbed, JobInv, IInv, FileInUse
<1> QED
    BY <1>1 DEF FileIsWhole, FetchKept, TypeOK, CanBeRead

(* A header that is asked for is in the memorizer, once those of its chain  *)
(* are passed.                                                              *)
LEMMA HeadersReady ==
    ASSUME JobInv, Undisturbed, stage \in {"verify", "run", "replay"},
           NEW key \in evm_keys \union starknet_keys,
           NEW n \in DOMAIN ChainOrder, ChainOrder[n] = key.chain, Passed(n, "headers")
    PROVE  /\ key \in evm_keys =>
                /\ HashParams(HeaderKeyOf(key)) \in DOMAIN evm
                /\ evm[HashParams(HeaderKeyOf(key))].root = Header(key.chain, key.block, "committed")
           /\ key \in starknet_keys =>
                /\ HashParams(HeaderKeyOf(key)) \in DOMAIN starknet
                /\ starknet[HashParams(HeaderKeyOf(key))].root = Header(key.chain, key.block, "committed")
<1>1. PICK h \in Headers(file) : h.chain = key.chain /\ h.block = key.block
    BY FileOfJob
<1>2. PICK c \in Chain : \E b \in file.chain[c].batches : h \in b.headers
    BY DEF Headers
<1> PICK b \in file.chain[c].batches : h \in b.headers
    BY <1>2
<1>3. BatchForKeys(c, b) /\ b.meta.chain = c
    BY FileOfJob DEF ProofsForKeys, ChainForKeys, InOwnChain
<1>4. h.chain = c
    BY <1>2, <1>3 DEF BatchForKeys, Commits
<1>5. "headers" \in StepsOf(c)
    BY DEF StepsOf
<1>6. HeadersHeld(IF c \in EvmChain THEN evm ELSE starknet, c, file.chain[c].batches)
    BY <1>1, <1>4, <1>5 DEF JobInv, Progress, Memorized
<1>7. HashParams(HeaderKey(c, h.block)) \in DOMAIN (IF c \in EvmChain THEN evm ELSE starknet)
    BY <1>2, <1>6 DEF HeadersHeld, InMemorizer
<1>8. HeaderKey(c, h.block) = HeaderKeyOf(key)
    BY <1>1, <1>4 DEF HeaderKeyOf
<1>9. /\ key \in evm_keys => c \in EvmChain /\ HeaderKeyOf(key) \in EvmKeys
      /\ key \in starknet_keys => c \notin EvmChain /\ HeaderKeyOf(key) \in StarknetKeys
    <2>1. key \in evm_keys => key \in EvmKeys /\ key.chain \in EvmChain /\ key.block \in Block
        BY KeySets, EvmKeyCases DEF JobInv
    <2>2. key \in starknet_keys =>
              key \in StarknetKeys /\ key.chain \in StarknetChain /\ key.chain \notin EvmChain /\ key.block \in Block
        BY KeySets, StarknetKeyCases DEF JobInv
    <2> QED
        BY <1>1, <1>4, <2>1, <2>2 DEF HeaderKeyOf, HeaderKey, Key, EvmKeys, StarknetKeys, HeaderKeys, KeysOf
<1>10. ASSUME key \in evm_keys
       PROVE  /\ HashParams(HeaderKeyOf(key)) \in DOMAIN evm
              /\ evm[HashParams(HeaderKeyOf(key))].root = Header(key.chain, key.block, "committed")
    <2> DEFINE item == evm[HashParams(HeaderKeyOf(key))]
    <2>1. HashParams(HeaderKeyOf(key)) \in DOMAIN evm
        BY <1>7, <1>8, <1>9, <1>10
    <2>2. /\ item.key \in EvmKeys /\ HashParams(item.key) = HashParams(HeaderKeyOf(key))
          /\ item.root = Header(item.key.chain, item.key.block, "committed")
        BY <2>1 DEF JobInv, IInv, MemorizersTyped, MemorizersTrue, ItemsOf
    <2>3. item.key = HeaderKeyOf(key)
        BY <1>9, <1>10, <2>2, KeysApart
    <2> QED
        BY <2>1, <2>2, <2>3 DEF HeaderKeyOf, HeaderKey, Key
<1>11. ASSUME key \in starknet_keys
       PROVE  /\ HashParams(HeaderKeyOf(key)) \in DOMAIN starknet
              /\ starknet[HashParams(HeaderKeyOf(key))].root = Header(key.chain, key.block, "committed")
    <2> DEFINE item == starknet[HashParams(HeaderKeyOf(key))]
    <2>1. HashParams(HeaderKeyOf(key)) \in DOMAIN starknet
        BY <1>7, <1>8, <1>9, <1>11
    <2>2. /\ item.key \in StarknetKeys /\ HashParams(item.key) = HashParams(HeaderKeyOf(key))
          /\ item.root = Header(item.key.chain, item.key.block, "committed")
        BY <2>1 DEF JobInv, IInv, MemorizersTyped, MemorizersTrue, ItemsOf
    <2>3. item.key = HeaderKeyOf(key)
        BY <1>9, <1>11, <2>2, KeysApart
    <2> QED
        BY <2>1, <2>2, <2>3 DEF HeaderKeyOf, HeaderKey, Key
<1> QED
    BY <1>10, <1>11

(* Under its own chain and its index, the key of an item is that of a call. *)
LEMMA OwnChain ==
    ASSUME NEW key, key = [kind |-> key.kind, chain |-> key.chain, block |-> key.block, at |-> key.at]
    PROVE  KeyIn(key.chain, key) = key
BY DEF KeyIn

LEMMA OwnIndex ==
    ASSUME IInv, TraceKept, NEW key \in evm_keys, key.kind \in {"tx", "receipt"}
    PROVE  /\ IndexedIn(key.chain, TrieKey(key)) = key
           /\ TrieKey(key).kind = key.kind /\ TrieKey(key).chain = key.chain /\ TrieKey(key).block = key.block
           /\ Rlp!WholePath(TrieKey(key).at[1], Rlp!RlpBytes(Rlp!IndexOf(TrieKey(key).at[1])))
<1>1. /\ key = [kind |-> key.kind, chain |-> key.chain, block |-> key.block, at |-> key.at]
      /\ key.at = <<key.at[1]>>
    BY KeySets, EvmKeyCases
<1>2. key.at[1] \in 0..Rlp!LastIndex
    BY KeysCollectable, DataAssumption
<1> DEFINE n == key.at[1]
<1>3. Rlp!IndexOf(Rlp!RlpKey(n)) = n /\ Rlp!WholePath(Rlp!RlpKey(n), Rlp!RlpBytes(Rlp!IndexOf(Rlp!RlpKey(n))))
    BY <1>2, IndexReadBack
<1>4. TrieKey(key) = [kind |-> key.kind, chain |-> key.chain, block |-> key.block, at |-> <<Rlp!RlpKey(n)>>]
    BY <1>1 DEF TrieKey
<1>5. TrieKey(key).at[1] = Rlp!RlpKey(n)
    BY <1>4
<1>6. IndexedIn(key.chain, TrieKey(key)) =
          [kind |-> key.kind, chain |-> key.chain, block |-> key.block, at |-> <<Rlp!IndexOf(Rlp!RlpKey(n))>>]
    <2> DEFINE k == TrieKey(key)
               r == IndexedIn(key.chain, k)
    <2>1. k \in [kind : {key.kind}, chain : {key.chain}, block : {key.block}, at : {<<Rlp!RlpKey(n)>>}]
        BY <1>4
    <2>2. r = [k EXCEPT !.chain = key.chain, !.at = <<Rlp!IndexOf(@[1])>>]
        BY DEF IndexedIn
    <2> HIDE DEF k, r
    <2>3. r = [kind |-> k.kind, chain |-> key.chain, block |-> k.block, at |-> <<Rlp!IndexOf(k.at[1])>>]
        BY <2>1, <2>2
    <2>4. k.kind = key.kind /\ k.block = key.block /\ k.at[1] = Rlp!RlpKey(n)
        BY <1>4, <1>5 DEF k
    <2> QED
        BY <2>3, <2>4 DEF r, k
<1> QED
    BY <1>1, <1>3, <1>4, <1>5, <1>6

(* The chain the verifiers have in hand. *)
LEMMA InHand ==
    ASSUME JobInv, Undisturbed, stage = "verify", part \notin {"load", "chain"}
    PROVE  /\ idx \in DOMAIN ChainOrder /\ chain_id = ChainOrder[idx] /\ chain_id \in Chain
           /\ ChainForKeys(chain_id, file.chain[chain_id])
           /\ part = "headers" => left \subseteq file.chain[chain_id].batches
           /\ part \in {"accounts", "storages", "txs", "receipts"} => chain_id \in EvmChain
           /\ part = "starknet_storages" => chain_id \in StarknetChain
           /\ part # "headers" => Passed(idx, "headers")
           /\ part = "storages" => Passed(idx, "accounts")
<1>1. /\ idx > 0 /\ idx \in 0..Len(ChainOrder) /\ IInv
      /\ part \in {"load", "chain", "headers", "accounts", "storages", "txs", "receipts", "starknet_storages"}
    BY DEF JobInv, IInv, TypeOK, FileInUse
<1>2. idx \in DOMAIN ChainOrder /\ chain_id = ChainOrder[idx] /\ chain_id \in Chain
    BY <1>1, ChainAssumption DEF chain_id, Chain
<1>3. ChainForKeys(chain_id, file.chain[chain_id])
    BY <1>2, FileOfJob DEF ProofsForKeys
<1>4. /\ part # "headers" => Passed(idx, "headers")
      /\ part = "storages" => Passed(idx, "accounts")
    BY <1>1, PassedByPart, TurnsAre DEF PassedAsTurned
<1> QED
    BY <1>1, <1>2, <1>3, <1>4 DEF IInv, FileInUse

LEMMA HeadersDoVerify ==
    ASSUME JobInv, Undisturbed, stage = "verify", part = "headers", NEW batch \in left
    PROVE  IF chain_id \in EvmChain THEN EvmBatchVerifies(batch) ELSE StarknetBatchVerifies(batch)
<1>1. chain_id \in Chain /\ batch \in file.chain[chain_id].batches /\ BatchForKeys(chain_id, batch)
    BY InHand DEF ChainForKeys
<1>2. CASE chain_id \in EvmChain
    BY <1>1, <1>2, FetchAssumption DEF EvmBatchVerifies, BatchForKeys, HashingFunction
<1>3. CASE chain_id \notin EvmChain
    <2>1. chain_id \in StarknetChain
        BY <1>1, <1>3, ChainAssumption
    <2>2. batch.meta.hasher = "poseidon"
        BY <1>1, <2>1 DEF BatchForKeys, Undisturbed
    <2>3. ASSUME NEW h \in batch.headers PROVE Sn!Hashable(StarknetFeltsOf(h))
        <3>1. PICK key \in evm_keys \union starknet_keys : key.chain = chain_id /\ key.block = h.block
            BY <1>1 DEF BatchForKeys
        <3>2. key \in starknet_keys
            BY <1>3, <3>1, KeySets DEF JobInv
        <3>3. Version[h.block] \in {"hash0", "hash1"}
            BY <3>1, <3>2, KeysSupported DEF JobInv
        <3>4. CASE Version[h.block] = "hash0"
            BY <3>4 DEF StarknetFeltsOf, Sn!Hashable, Sn!HashFields, Sn!HashedFelts, Sn!Hash0, Sn!Hash1
        <3>5. CASE Version[h.block] = "hash1"
            BY <3>5 DEF StarknetFeltsOf, Sn!Hashable, Sn!HashFields, Sn!HashedFelts, Sn!Hash0, Sn!Hash1
        <3> QED
            BY <3>3, <3>4, <3>5
    <2> QED
        BY <1>1, <1>3, <2>2, <2>3 DEF StarknetBatchVerifies, BatchForKeys
<1> QED
    BY <1>2, <1>3

(* An item of the file that is of the chain in hand stays as it is. *)
LEMMA OfOwnChain ==
    ASSUME NEW items, \A i \in items : \E kind, block, at : i.key = Key(kind, chain_id, block, at),
           NEW j \in OfChain(items)
    PROVE  \E i \in items : j.key = i.key /\ j.root = i.root
<1>1. PICK i \in items : j = Item([i.key EXCEPT !.chain = chain_id], i.root)
    BY DEF OfChain
<1>2. PICK kind, block, at : i.key = Key(kind, chain_id, block, at)
    OBVIOUS
<1>3. [i.key EXCEPT !.chain = chain_id] = i.key
    BY <1>2 DEF Key
<1> QED
    BY <1>1, <1>3 DEF Item

LEMMA AccountsDoVerify ==
    ASSUME JobInv, Undisturbed, stage = "verify", part = "accounts"
    PROVE  AccountsVerify(AccountsOf(file))
<1> DEFINE items == file.chain[chain_id].accounts
<1>1. /\ idx \in DOMAIN ChainOrder /\ chain_id = ChainOrder[idx] /\ chain_id \in Chain /\ chain_id \in EvmChain
      /\ Passed(idx, "headers") /\ \A i \in items : ForAccount(chain_id, i)
    BY InHand DEF ChainForKeys, EvmForKeys
<1>2. \A i \in items : i.root.view = "committed"
    BY <1>1 DEF Undisturbed, Items
<1> HIDE DEF items
<1>3. ASSUME NEW i \in items PROVE \E kind, block, at : i.key = Key(kind, chain_id, block, at)
    <2>1. PICK key \in evm_keys : key.chain = chain_id /\ i = ItemIn(AccountKeyOf(key), i.root.view)
        BY <1>1 DEF ForAccount
    <2>2. i.key = Key("account", chain_id, key.block, <<key.at[1]>>)
        BY <2>1 DEF ItemIn, Item, AccountKeyOf, AccountKey
    <2> QED
        BY <2>2
<1> SUFFICES ASSUME NEW j \in OfChain(items) PROVE OpensHeader(j)
    BY DEF AccountsVerify, AccountsOf, items
<1>4. PICK i \in items : j.key = i.key /\ j.root = i.root
    BY <1>3, OfOwnChain
<1>5. PICK key \in evm_keys : key.chain = chain_id /\ i = ItemIn(AccountKeyOf(key), "committed")
    BY <1>1, <1>2 DEF ForAccount
<1>6. /\ HeaderKeyOf(j.key) = HeaderKeyOf(key)
      /\ j.root = Header(key.chain, key.block, "committed")
    BY <1>4, <1>5 DEF ItemIn, Item, AccountKeyOf, AccountKey, HeaderKeyOf, HeaderKey, Key, Header
<1>7. /\ HashParams(HeaderKeyOf(key)) \in DOMAIN evm
      /\ evm[HashParams(HeaderKeyOf(key))].root = Header(key.chain, key.block, "committed")
    BY <1>1, <1>5, HeadersReady
<1> QED
    BY <1>6, <1>7 DEF OpensHeader, InMemorizer

LEMMA StoragesDoVerify ==
    ASSUME JobInv, Undisturbed, stage = "verify", part = "storages"
    PROVE  StoragesVerify(StoragesOf(file))
<1> DEFINE items == file.chain[chain_id].storages
           accounts == file.chain[chain_id].accounts
<1>1. /\ idx \in DOMAIN ChainOrder /\ chain_id = ChainOrder[idx] /\ chain_id \in Chain /\ chain_id \in EvmChain
      /\ Passed(idx, "headers") /\ Passed(idx, "accounts")
      /\ \A i \in accounts : ForAccount(chain_id, i)
      /\ \A i \in items : ForSlot(evm_keys, chain_id, i) /\ \E a \in accounts : a.key = AccountKeyOf(i.key)
    BY InHand DEF ChainForKeys, EvmForKeys
<1>2. \A i \in items : i.root.view = "committed"
    BY <1>1 DEF Undisturbed, Items
<1>3. \A a \in accounts : HashParams(KeyIn(chain_id, a.key)) \in DOMAIN evm
    <2>1. "accounts" \in StepsOf(chain_id)
        BY <1>1 DEF StepsOf
    <2>2. Memorized("accounts", chain_id)
        BY <1>1, <2>1 DEF JobInv, Progress
    <2> QED
        BY <2>2 DEF Memorized, InMemorizer
<1> HIDE DEF items, accounts
<1>4. \A i \in items : \E kind, block, at : i.key = Key(kind, chain_id, block, at)
    <2> SUFFICES ASSUME NEW i \in items PROVE \E kind, block, at : i.key = Key(kind, chain_id, block, at)
        OBVIOUS
    <2>1. i.key \in EvmKeys /\ i.key.chain = chain_id
        BY <1>1, KeySets DEF JobInv, ForSlot, OfKind
    <2>2. i.key = Key(i.key.kind, chain_id, i.key.block, i.key.at)
        BY <2>1, EvmKeyCases DEF Key
    <2> QED
        BY <2>2
<1> SUFFICES ASSUME NEW j \in OfChain(items)
             PROVE  /\ HashParams(AccountKeyOf(j.key)) \in DOMAIN evm
                    /\ j.key.at[1] \in Account
                    /\ j.root = evm[HashParams(AccountKeyOf(j.key))].root
    BY DEF StoragesVerify, StoragesOf, InMemorizer, items
<1>5. PICK i \in items : j.key = i.key /\ j.root = i.root
    BY <1>4, OfOwnChain
<1> DEFINE key == i.key
           account == AccountKeyOf(key)
           held == evm[HashParams(account)]
<1>6. /\ key \in evm_keys /\ key.kind = "storage" /\ key.chain = chain_id
      /\ i = ItemIn(key, "committed")
    BY <1>1, <1>2 DEF ForSlot, OfKind
<1>7. i.root = Header(key.chain, key.block, "committed")
    BY <1>6 DEF ItemIn, Item
<1>8. key \in EvmKeys /\ account \in AccountKeys /\ account \in EvmKeys
    <2>1. key \in EvmKeys /\ key.at[1] \in Place /\ key.chain \in EvmChain /\ key.block \in Block
        BY <1>6, KeySets, EvmKeyCases DEF JobInv
    <2>2. <<key.at[1]>> \in [1..1 -> Place]
        BY <2>1
    <2>3. account \in AccountKeys
        BY <2>1, <2>2 DEF AccountKeyOf, AccountKey, Key, AccountKeys, KeysOf, Places
    <2> QED
        BY <2>1, <2>3 DEF EvmKeys
<1>9. HashParams(account) \in DOMAIN evm
    <2>1. PICK a \in accounts : a.key = account
        BY <1>1
    <2>2. KeyIn(chain_id, account) = account
        BY <1>6 DEF KeyIn, AccountKeyOf, AccountKey, Key
    <2> QED
        BY <1>3, <2>1, <2>2
<1>10. /\ held.key \in EvmKeys /\ HashParams(held.key) = HashParams(account)
       /\ held.root = Header(held.key.chain, held.key.block, "committed")
    BY <1>9 DEF JobInv, IInv, MemorizersTyped, MemorizersTrue, ItemsOf
<1>11. held.key = account
    BY <1>8, <1>10, KeysApart
<1>12. account.chain = key.chain /\ account.block = key.block
    BY DEF AccountKeyOf, AccountKey, Key
<1>13. key.at[1] \in Account
    BY <1>6, KeysSupported DEF JobInv
<1> QED
    BY <1>5, <1>7, <1>9, <1>10, <1>11, <1>12, <1>13

(* The transactions and the receipts of the file, by the keys of the calls. *)
LEMMA IndexedDoVerify ==
    ASSUME JobInv, Undisturbed, stage = "verify", part \in {"txs", "receipts"},
           NEW kind \in {"tx", "receipt"}, NEW items,
           \A i \in items : ForIndex(kind, chain_id, i) /\ i.root.view = "committed"
    PROVE  PathsWhole(items) /\ \A i \in Indexed(items) : OpensHeader(i)
<1>1. /\ idx \in DOMAIN ChainOrder /\ chain_id = ChainOrder[idx] /\ Passed(idx, "headers")
      /\ IInv /\ TraceKept
    BY InHand DEF JobInv
<1>2. ASSUME NEW i \in items
      PROVE  \E key \in evm_keys :
                /\ key.kind \in {"tx", "receipt"} /\ key.chain = chain_id
                /\ i.key = TrieKey(key) /\ i.root = Header(key.chain, key.block, "committed")
    <2>1. PICK key \in OfKind(evm_keys, kind, chain_id) :
              i = Item(TrieKey(key), Header(chain_id, key.block, "committed"))
        BY DEF ForIndex
    <2>2. key \in evm_keys /\ key.kind \in {"tx", "receipt"} /\ key.chain = chain_id
        BY DEF OfKind
    <2> QED
        BY <2>1, <2>2 DEF Item
<1>3. PathsWhole(items)
    BY <1>1, <1>2, OwnIndex DEF PathsWhole
<1>4. ASSUME NEW j \in Indexed(items) PROVE OpensHeader(j)
    <2>1. PICK i \in items : j = Item(IndexedIn(chain_id, i.key), i.root)
        BY DEF Indexed, IndexedIn
    <2>2. PICK key \in evm_keys :
              /\ key.kind \in {"tx", "receipt"} /\ key.chain = chain_id
              /\ i.key = TrieKey(key) /\ i.root = Header(key.chain, key.block, "committed")
        BY <1>2
    <2>3. j.key = key /\ j.root = Header(key.chain, key.block, "committed")
        BY <1>1, <2>1, <2>2, OwnIndex DEF Item
    <2>4. /\ HashParams(HeaderKeyOf(key)) \in DOMAIN evm
          /\ evm[HashParams(HeaderKeyOf(key))].root = Header(key.chain, key.block, "committed")
        BY <1>1, <2>2, HeadersReady
    <2> QED
        BY <2>3, <2>4 DEF OpensHeader, InMemorizer
<1> QED
    BY <1>3, <1>4

LEMMA SlotsDoVerify ==
    ASSUME JobInv, Undisturbed, stage = "verify", part = "starknet_storages"
    PROVE  StarknetStoragesVerify(SlotsOf(file))
<1> DEFINE items == file.chain[chain_id].storages
<1>1. /\ idx \in DOMAIN ChainOrder /\ chain_id = ChainOrder[idx] /\ chain_id \in Chain
      /\ Passed(idx, "headers") /\ IInv
      /\ \A i \in items : ForSlot(starknet_keys, chain_id, i)
    BY InHand DEF ChainForKeys, StarknetForKeys, JobInv
<1>2. \A i \in items : i.root.view = "committed"
    BY <1>1 DEF Undisturbed, Items
<1> HIDE DEF items
<1>3. \A i \in items : \E kind, block, at : i.key = Key(kind, chain_id, block, at)
    <2> SUFFICES ASSUME NEW i \in items PROVE \E kind, block, at : i.key = Key(kind, chain_id, block, at)
        OBVIOUS
    <2>1. i.key \in StarknetKeys /\ i.key.chain = chain_id
        BY <1>1, KeySets DEF ForSlot, OfKind
    <2>2. i.key = Key(i.key.kind, chain_id, i.key.block, i.key.at)
        BY <2>1, StarknetKeyCases DEF Key
    <2> QED
        BY <2>2
<1> SUFFICES ASSUME NEW j \in OfChain(items)
             PROVE  /\ HashParams(HeaderKeyOf(j.key)) \in DOMAIN starknet
                    /\ j.key.at[2] \in SetSlot
                    /\ j.root = starknet[HashParams(HeaderKeyOf(j.key))].root
    BY DEF StarknetStoragesVerify, SlotsOf, InMemorizer, items
<1>4. PICK i \in items : j.key = i.key /\ j.root = i.root
    BY <1>3, OfOwnChain
<1> DEFINE key == i.key
<1>5. /\ key \in starknet_keys /\ key.kind = "storage" /\ key.chain = chain_id
      /\ i = ItemIn(key, "committed")
    BY <1>1, <1>2 DEF ForSlot, OfKind
<1>6. i.root = Header(key.chain, key.block, "committed")
    BY <1>5 DEF ItemIn, Item
<1>7. /\ HashParams(HeaderKeyOf(key)) \in DOMAIN starknet
      /\ starknet[HashParams(HeaderKeyOf(key))].root = Header(key.chain, key.block, "committed")
    BY <1>1, <1>5, HeadersReady
<1>8. key.at[2] \in SetSlot
    BY <1>5, KeysSupported DEF JobInv
<1> QED
    BY <1>4, <1>6, <1>7, <1>8

LEMMA VerifiesUndisturbed == ASSUME JobInv, Undisturbed, stage = "verify" PROVE ~VerifyFails(file)
<1>1. CASE part = "headers"
    BY <1>1, HeadersDoVerify DEF VerifyFails
<1>2. CASE part = "accounts"
    BY <1>2, AccountsDoVerify DEF VerifyFails
<1>3. CASE part = "storages"
    BY <1>3, StoragesDoVerify DEF VerifyFails
<1>4. CASE part = "txs"
    <2>1. \A i \in TxsOf(file) : ForIndex("tx", chain_id, i) /\ i.root.view = "committed"
        BY <1>4, InHand DEF ChainForKeys, EvmForKeys, TxsOf, Undisturbed, Items
    <2>2. TxsVerify(TxsOf(file))
        BY <1>4, <2>1, IndexedDoVerify DEF TxsVerify
    <2> QED
        BY <1>4, <2>2 DEF VerifyFails
<1>5. CASE part = "receipts"
    <2>1. \A i \in ReceiptsOf(file) : ForIndex("receipt", chain_id, i) /\ i.root.view = "committed"
        BY <1>5, InHand DEF ChainForKeys, EvmForKeys, ReceiptsOf, Undisturbed, Items
    <2>2. ReceiptsVerify(ReceiptsOf(file))
        BY <1>5, <2>1, IndexedDoVerify DEF ReceiptsVerify
    <2> QED
        BY <1>5, <2>2 DEF VerifyFails
<1>6. CASE part = "starknet_storages"
    BY <1>6, SlotsDoVerify DEF VerifyFails
<1> QED
    BY <1>1, <1>2, <1>3, <1>4, <1>5, <1>6 DEF VerifyFails, JobInv, IInv, TypeOK

(* With everything verified, every key of the dry run is in a memorizer. *)
LEMMA EverythingPassed ==
    ASSUME JobInv, stage \in {"run", "replay"}, NEW c \in Chain
    PROVE  \E n \in DOMAIN ChainOrder : ChainOrder[n] = c /\ \A step \in DOMAIN Turns : Passed(n, step)
<1>1. part = "chain" /\ idx = 0
    BY DEF JobInv, Progress, Verified
<1>2. PICK n \in DOMAIN ChainOrder : ChainOrder[n] = c
    BY DEF Chain
<1>3. n > 0
    BY ChainAssumption
<1> QED
    BY <1>1, <1>2, <1>3, PassedByPart DEF PassedAsTurned

LEMMA HeaderMemorized ==
    ASSUME JobInv, Undisturbed, stage \in {"run", "replay"}, NEW key, key.kind = "header"
    PROVE  /\ key \in evm_keys => HashParams(key) \in DOMAIN evm
           /\ key \in starknet_keys => HashParams(key) \in DOMAIN starknet
<1>1. ASSUME key \in evm_keys PROVE HashParams(key) \in DOMAIN evm
    <2>1. key \in EvmKeys
        BY <1>1, KeySets DEF JobInv
    <2>2. key = HeaderKeyOf(key) /\ key.chain \in Chain
        BY <2>1, EvmKeyCases DEF HeaderKeyOf, HeaderKey, Key
    <2>3. PICK n \in DOMAIN ChainOrder : ChainOrder[n] = key.chain /\ \A step \in DOMAIN Turns : Passed(n, step)
        BY <2>2, EverythingPassed
    <2>4. Passed(n, "headers")
        BY <2>3, TurnsAre
    <2> QED
        BY <1>1, <2>2, <2>3, <2>4, HeadersReady
<1>2. ASSUME key \in starknet_keys PROVE HashParams(key) \in DOMAIN starknet
    <2>1. key \in StarknetKeys
        BY <1>2, KeySets DEF JobInv
    <2>2. key = HeaderKeyOf(key) /\ key.chain \in Chain
        BY <2>1, StarknetKeyCases DEF HeaderKeyOf, HeaderKey, Key
    <2>3. PICK n \in DOMAIN ChainOrder : ChainOrder[n] = key.chain /\ \A step \in DOMAIN Turns : Passed(n, step)
        BY <2>2, EverythingPassed
    <2>4. Passed(n, "headers")
        BY <2>3, TurnsAre
    <2> QED
        BY <1>2, <2>2, <2>3, <2>4, HeadersReady
<1> QED
    BY <1>1, <1>2

(* An item of the file is in the memorizer of its chain. *)
LEMMA ItemMemorized ==
    ASSUME JobInv, Undisturbed, stage \in {"run", "replay"}, NEW c \in Chain
    PROVE  /\ c \in EvmChain =>
                /\ \A i \in file.chain[c].accounts \union file.chain[c].storages :
                      HashParams(KeyIn(c, i.key)) \in DOMAIN evm
                /\ \A i \in file.chain[c].txs \union file.chain[c].receipts :
                      HashParams(IndexedIn(c, i.key)) \in DOMAIN evm
           /\ c \notin EvmChain => \A i \in file.chain[c].storages : HashParams(KeyIn(c, i.key)) \in DOMAIN starknet
<1>1. \A step \in StepsOf(c) : Memorized(step, c)
    <2>1. PICK n \in DOMAIN ChainOrder : ChainOrder[n] = c /\ \A step \in DOMAIN Turns : Passed(n, step)
        BY EverythingPassed
    <2>2. \A step \in StepsOf(c) : step \in DOMAIN Turns
        BY StepsAreTurns
    <2> QED
        BY <2>1, <2>2 DEF JobInv, Progress
<1>2. CASE c \in EvmChain
    <2>1. Memorized("accounts", c) /\ Memorized("storages", c) /\ Memorized("txs", c) /\ Memorized("receipts", c)
        BY <1>1, <1>2 DEF StepsOf
    <2>2. \A i \in file.chain[c].accounts : HashParams(KeyIn(c, i.key)) \in DOMAIN evm
        BY <2>1 DEF Memorized, InMemorizer
    <2>3. \A i \in file.chain[c].storages : HashParams(KeyIn(c, i.key)) \in DOMAIN evm
        BY <2>1 DEF Memorized, InMemorizer
    <2>4. \A i \in file.chain[c].txs : HashParams(IndexedIn(c, i.key)) \in DOMAIN evm
        BY <2>1 DEF Memorized, InMemorizer
    <2>5. \A i \in file.chain[c].receipts : HashParams(IndexedIn(c, i.key)) \in DOMAIN evm
        BY <2>1 DEF Memorized, InMemorizer
    <2> QED
        BY <1>2, <2>2, <2>3, <2>4, <2>5
<1>3. CASE c \notin EvmChain
    <2>1. Memorized("starknet_storages", c)
        BY <1>1, <1>3 DEF StepsOf
    <2> QED
        BY <1>3, <2>1 DEF Memorized, InMemorizer
<1> QED
    BY <1>2, <1>3

(* The items of a chain have its keys. *)
LEMMA ItemsOfOwnChain ==
    ASSUME JobInv, Undisturbed, stage \in {"run", "replay"}, NEW c \in Chain
    PROVE  /\ \A i \in file.chain[c].accounts : i.key.kind = "account" /\ i.key.chain = c
           /\ \A i \in file.chain[c].storages : i.key.kind = "storage" /\ i.key.chain = c
           /\ \A i \in file.chain[c].txs : i.key.kind = "tx" /\ i.key.chain = c
           /\ \A i \in file.chain[c].receipts : i.key.kind = "receipt" /\ i.key.chain = c
           /\ c \notin EvmChain =>
                file.chain[c].accounts = {} /\ file.chain[c].txs = {} /\ file.chain[c].receipts = {}
<1>1. ChainForKeys(c, file.chain[c]) /\ IInv /\ TraceKept
    BY FileOfJob DEF ProofsForKeys, JobInv
<1>2. CASE c \in EvmChain
    <2>1. ASSUME NEW i \in file.chain[c].accounts PROVE i.key.kind = "account" /\ i.key.chain = c
        BY <1>1, <1>2 DEF ChainForKeys, EvmForKeys, ForAccount, ItemIn, Item, AccountKeyOf, AccountKey, Key
    <2>2. ASSUME NEW i \in file.chain[c].storages PROVE i.key.kind = "storage" /\ i.key.chain = c
        BY <1>1, <1>2 DEF ChainForKeys, EvmForKeys, ForSlot, OfKind
    <2>3. ASSUME NEW kind \in {"tx", "receipt"}, NEW i, ForIndex(kind, c, i)
          PROVE  i.key.kind = kind /\ i.key.chain = c
        <3>1. PICK key \in OfKind(evm_keys, kind, c) : i = Item(TrieKey(key), Header(c, key.block, i.root.view))
            BY <2>3 DEF ForIndex
        <3>2. key \in evm_keys /\ key.kind = kind /\ key.chain = c
            BY DEF OfKind
        <3>3. TrieKey(key).kind = kind /\ TrieKey(key).chain = c
            BY <1>1, <3>2, OwnIndex
        <3>4. i.key = TrieKey(key)
            BY <3>1 DEF Item
        <3> QED
            BY <3>3, <3>4
    <2> QED
        BY <1>1, <1>2, <2>1, <2>2, <2>3 DEF ChainForKeys, EvmForKeys
<1>3. CASE c \notin EvmChain
    <2>1. c \in StarknetChain
        BY <1>3, ChainAssumption
    <2> QED
        BY <1>1, <1>3, <2>1 DEF ChainForKeys, StarknetForKeys, ForSlot, OfKind
<1> QED
    BY <1>2, <1>3

LEMMA ItemOfKey ==
    ASSUME JobInv, Undisturbed, stage \in {"run", "replay"}, NEW i \in Items(file), i.key.kind # "bytecode"
    PROVE  /\ i.key.chain \in Chain
           /\ i.key.kind = "account" => i \in file.chain[i.key.chain].accounts
           /\ i.key.kind = "storage" => i \in file.chain[i.key.chain].storages
           /\ i.key.kind = "tx" => i \in file.chain[i.key.chain].txs
           /\ i.key.kind = "receipt" => i \in file.chain[i.key.chain].receipts
<1>1. \A j \in file.bytecode : j.key.kind = "bytecode"
    BY FileOfJob DEF ProofSets, ItemsOf, BytecodeKeys, KeysOf
<1>2. PICK c \in Chain : \/ i \in file.chain[c].accounts \/ i \in file.chain[c].storages
                         \/ i \in file.chain[c].txs \/ i \in file.chain[c].receipts
    BY <1>1 DEF Items
<1> QED
    BY <1>2, ItemsOfOwnChain

LEMMA KeysMemorized ==
    ASSUME JobInv, Undisturbed, stage \in {"run", "replay"}
    PROVE  /\ \A key \in evm_keys : HashParams(key) \in DOMAIN evm
           /\ \A key \in starknet_keys : HashParams(key) \in DOMAIN starknet
           /\ \A key \in bytecode_keys : HashParams(key) \in DOMAIN bytecodes
<1>0. IInv /\ TraceKept
    BY DEF JobInv
<1>1. ASSUME NEW key \in evm_keys PROVE HashParams(key) \in DOMAIN evm
    <2>1. /\ key.kind \in {"header", "account", "storage", "tx", "receipt"} /\ key.chain \in EvmChain
          /\ key = [kind |-> key.kind, chain |-> key.chain, block |-> key.block, at |-> key.at]
        BY <1>0, KeySets, EvmKeyCases
    <2>2. CASE key.kind = "header"
        BY <1>1, <2>2, HeaderMemorized
    <2>3. CASE key.kind \in {"account", "storage"}
        <3>1. PICK i \in Items(file) : i.key = key
            BY <2>3, FileOfJob
        <3>2. key.chain \in Chain /\ i \in file.chain[key.chain].accounts \union file.chain[key.chain].storages
            BY <2>3, <3>1, ItemOfKey
        <3>3. KeyIn(key.chain, key) = key
            BY <2>1, OwnChain
        <3> QED
            BY <2>1, <3>1, <3>2, <3>3, ItemMemorized
    <2>4. CASE key.kind \in {"tx", "receipt"}
        <3>1. PICK i \in Items(file) : i.key = TrieKey(key)
            BY <2>4, FileOfJob
        <3>2. i.key.kind = key.kind /\ i.key.chain = key.chain /\ IndexedIn(key.chain, i.key) = key
            BY <1>0, <2>4, <3>1, OwnIndex
        <3>3. key.chain \in Chain /\ i \in file.chain[key.chain].txs \union file.chain[key.chain].receipts
            BY <2>4, <3>2, ItemOfKey
        <3> QED
            BY <2>1, <3>2, <3>3, ItemMemorized
    <2> QED
        BY <2>1, <2>2, <2>3, <2>4
<1>2. ASSUME NEW key \in starknet_keys PROVE HashParams(key) \in DOMAIN starknet
    <2>1. /\ key.kind \in {"header", "storage"} /\ key.chain \notin EvmChain
          /\ key = [kind |-> key.kind, chain |-> key.chain, block |-> key.block, at |-> key.at]
        BY <1>0, KeySets, StarknetKeyCases
    <2>2. CASE key.kind = "header"
        BY <1>2, <2>2, HeaderMemorized
    <2>3. CASE key.kind = "storage"
        <3>1. PICK i \in Items(file) : i.key = key
            BY <2>3, FileOfJob
        <3>2. key.chain \in Chain /\ i \in file.chain[key.chain].storages
            BY <2>3, <3>1, ItemOfKey
        <3>3. KeyIn(key.chain, key) = key
            BY <2>1, OwnChain
        <3> QED
            BY <2>1, <3>1, <3>2, <3>3, ItemMemorized
    <2> QED
        BY <2>1, <2>2, <2>3
<1>3. ASSUME NEW key \in bytecode_keys PROVE HashParams(key) \in DOMAIN bytecodes
    <2>1. PICK i \in file.bytecode : i.key = key
        BY FileOfJob DEF HasBytecode
    <2>2. part # "load"
        BY DEF JobInv, Progress, Verified
    <2> QED
        BY <2>1, <2>2 DEF JobInv, Progress, InMemorizer
<1> QED
    BY <1>1, <1>2, <1>3

(* The module's calls find their data. *)
LEMMA CallsUndisturbed ==
    ASSUME JobInv, Undisturbed, stage = "run", NEW call \in NextCalls
    PROVE  ~SoundCallFails(call)
<1>0. IInv /\ TraceKept /\ AsBefore
    BY DEF JobInv, ToldAsAsked
<1>1. PICK n \in DOMAIN program : call = program[n]
    BY <1>0 DEF NextCalls
<1>2. n \in DOMAIN trace
    <2>1. Len(trace) = Len(program)
        BY <1>0 DEF TraceKept
    <2> QED
        BY <1>0, <2>1, ProgramTyped
<1>3. Callable(call) /\ Supported(call)
    BY <1>0, <1>1, ProgramTyped DEF Undisturbed
<1>4. /\ HandlerOf(call) \in {"evm", "starknet", "keccak", "debug", "bytecode"}
      /\ SoundReads(call) # Unreadable
    BY <1>3, SupportedIsRead
<1>5. /\ HandlerOf(call) = "evm" => KeyOf(call) \in evm_keys
      /\ HandlerOf(call) = "starknet" => KeyOf(call) \in starknet_keys
      /\ HandlerOf(call) = "bytecode" => KeyOf(call) \in bytecode_keys
    BY <1>0, <1>1, <1>2 DEF TraceKept, KeysAsked
<1>6. /\ HandlerOf(call) = "evm" => HasEntry(evm, call)
      /\ HandlerOf(call) = "starknet" => HasEntry(starknet, call)
      /\ HandlerOf(call) = "bytecode" => HasEntry(bytecodes, call)
    BY <1>3, <1>5, KeysMemorized, LookedUpByKey DEF HasEntry
<1> QED
    BY <1>4, <1>6 DEF SoundCallFails

(* Their answers are asserted. *)
LEMMA AnswersAsserted ==
    ASSUME JobInv, Undisturbed, NEW n \in DOMAIN told
    PROVE  Asserted(told[n])
<1> DEFINE cell == told[n]
           call == cell.call
<1>0. IInv /\ SoundAnswer(cell)
    BY DEF JobInv, ToldAsRead
<1>1. call = program[n] /\ n \in DOMAIN program
    <2>1. Len(told) <= Len(program) /\ call = program[n]
        BY DEF JobInv, ToldAsAsked
    <2> QED
        BY <1>0, <2>1, ProgramTyped
<1>2. Callable(call) /\ Supported(call)
    BY <1>0, <1>1, ProgramTyped DEF Undisturbed
<1>3. /\ HandlerOf(call) \in {"evm", "starknet", "keccak", "debug", "bytecode"}
      /\ SoundReads(call) = CairoReads(call) /\ SoundReads(call) # Unreadable
    BY <1>2, SupportedIsRead
<1> HIDE DEF cell, call
<1>4. \A value, view : Answer(value, view).value = value /\ Answer(value, view).view = view
    BY DEF Answer
<1>5. HandlerOf(call) \in {"evm", "starknet", "bytecode"} => KeyHash(call) = HashParams(KeyOf(call))
    BY <1>2, LookedUpByKey
<1>6. CASE HandlerOf(call) = "evm"
    <2> DEFINE item == evm[KeyHash(call)]
    <2>1. HasEntry(evm, call) /\ cell.answer = Answer(ReadBy(SoundReads(call), item, call), item.root.view)
        BY <1>0, <1>6 DEF SoundAnswer, ReadFrom, call
    <2>2. item.key = KeyOf(call)
        BY <1>0, <1>2, <1>6, <2>1, EntryIsTheKey
    <2>3. Opens(evm, cell)
        BY <1>3, <1>4, <1>5, <1>6, <2>1, <2>2 DEF Opens, HasEntry, ReadBy, call
    <2> QED
        BY <1>6, <2>3 DEF Asserted, call, cell
<1>7. CASE HandlerOf(call) = "starknet"
    <2> DEFINE item == starknet[KeyHash(call)]
    <2>1. HasEntry(starknet, call) /\ cell.answer = Answer(ReadBy(SoundReads(call), item, call), item.root.view)
        BY <1>0, <1>7 DEF SoundAnswer, ReadFrom, call
    <2>2. item.key = KeyOf(call)
        BY <1>0, <1>2, <1>7, <2>1, EntryIsTheKey
    <2>3. Opens(starknet, cell)
        BY <1>3, <1>4, <1>5, <1>7, <2>1, <2>2 DEF Opens, HasEntry, ReadBy, call
    <2> QED
        BY <1>7, <2>3 DEF Asserted, call, cell
<1>8. CASE HandlerOf(call) = "bytecode"
    <2> DEFINE item == bytecodes[KeyHash(call)]
    <2>1. HasEntry(bytecodes, call) /\ cell.answer = Answer(ReadBy(SoundReads(call), item, call), item.root.view)
        BY <1>0, <1>8 DEF SoundAnswer, ReadFrom, call
    <2>2. item.key = KeyOf(call)
        BY <1>0, <1>2, <1>8, <2>1, EntryIsTheKey
    <2>3. Opens(bytecodes, cell)
        BY <1>3, <1>4, <1>5, <1>8, <2>1, <2>2 DEF Opens, HasEntry, ReadBy, call
    <2> QED
        BY <1>8, <2>3 DEF Asserted, call, cell
<1>9. CASE HandlerOf(call) \in {"keccak", "debug"}
    <2>1. cell.answer.value = SoundReads(call)
        BY <1>0, <1>4, <1>9 DEF SoundAnswer, call
    <2> QED
        BY <1>3, <1>9, <2>1 DEF Asserted, call, cell
<1> QED
    BY <1>3, <1>6, <1>7, <1>8, <1>9

LEMMA ReplaysUndisturbed == ASSUME JobInv, Undisturbed PROVE ~ReplayFails
<1> SUFFICES ASSUME ReplayFails PROVE FALSE
    OBVIOUS
<1>1. PICK n \in DOMAIN told : told[n].at = replay_ptr
    BY DEF JobInv, Contiguous, ReplayFails, Replaying
<1> QED
    BY <1>1, AnswersAsserted DEF ReplayFails, AtPointer

LEMMA CompletesStep == ASSUME JobInv, [Next]_vars PROVE Completes'
<1> SUFFICES ASSUME stage' = "failed", Undisturbed' PROVE FALSE
    BY DEF Completes, At
<1>0. IInv
    BY DEF JobInv
<1>1. ASSUME UNCHANGED <<dry, fetch>> PROVE Undisturbed
    BY <1>1 DEF dry, fetch, Undisturbed, Items
<1>2. CASE UNCHANGED vars
    BY <1>1, <1>2 DEF vars, JobInv, Completes, At
<1>3. CASE DryStep
    <2>1. UNCHANGED fresh /\ stage = "dry"
        BY <1>3 DEF DryStep, DryRunCall, DryRunDies, NodeIsDown, DryRunEnds, At, fetch
    <2> QED
        BY <1>0, <2>1 DEF Undisturbed, IInv, FileInUse
<1>4. CASE RunFetcher \/ Fetching \/ Grow \/ GiveUp \/ RunSound
    BY <1>4 DEF RunFetcher, Fetching, Grow, GiveUp, RunSound, At, Enter
<1>6. CASE LoadFails
    BY <1>0, <1>6 DEF LoadFails, fetch, Undisturbed, IInv, FileInUse
<1>5. CASE SoundStep
    <2>1. Undisturbed
        BY <1>0, <1>1, <1>5, AfterFetch
    <2>2. VerifyDies \/ ModuleDies \/ ReplayDies
        BY <1>5 DEF SoundStep, VerifyProofs, RunModule, ModuleCall, ModuleEnds, Replay, Publish, At, Enter
    <2> QED
        BY <2>1, <2>2, VerifiesUndisturbed, CallsUndisturbed, ReplaysUndisturbed
           DEF VerifyDies, ModuleDies, ReplayDies, At
<1> QED
    BY <1>2, <1>3, <1>4, <1>5, <1>6 DEF Next

-----------------------------------------------------------------------------
(* The theorems. *)

LEMMA JobInit == Init => JobInv
<1> SUFFICES ASSUME Init PROVE JobInv
    OBVIOUS
<1>1. IInv
    BY InitInv
<1>2. told = <<>> /\ syscall_ptr = 0 /\ replay_ptr = 0 /\ stage = "dry" /\ fresh = FALSE
    BY DEF Init, RunInit, FetchInit
<1>3. evm = Empty /\ starknet = Empty /\ bytecodes = Empty
    BY DEF Init, VerifierInit
<1>4. FileIsWhole
    BY <1>2 DEF FileIsWhole, Loaded, Init, FetchInit
<1>5. ToldAsRead /\ Contiguous
    BY <1>2 DEF ToldAsRead, Contiguous
<1>6. ToldAsAsked
    BY <1>2 DEF ToldAsAsked, Undisturbed
<1>7. Completes
    BY <1>2 DEF Completes, At
<1> QED
    BY <1>1, <1>3, <1>4, <1>5, <1>6, <1>7, TraceInit, NothingFetched, ProgressInit, NothingOpened DEF JobInv

LEMMA JobStep == JobInv /\ [Next]_vars => JobInv'
<1> SUFFICES ASSUME JobInv, [Next]_vars PROVE JobInv'
    OBVIOUS
<1>1. /\ IInv /\ FileIsWhole /\ TraceKept /\ FetchKept /\ Progress /\ MemorizersOpened
      /\ ToldAsRead /\ Contiguous /\ ToldAsAsked
    BY DEF JobInv
<1>2. IInv' /\ FileIsWhole'
    BY <1>1, StepInv, FileStep
<1>3. TraceKept' /\ FetchKept'
    BY <1>1, TraceStep, FetchStep
<1>4. Progress' /\ MemorizersOpened'
    BY <1>1, ProgressStep, OpenedStep
<1>5. ToldAsRead' /\ Contiguous' /\ ToldAsAsked'
    BY <1>1, ToldAsReadStep, ContiguousStep, ToldAsAskedStep
<1>6. Completes'
    BY CompletesStep
<1> QED
    BY <1>2, <1>3, <1>4, <1>5, <1>6 DEF JobInv

(* The inductive invariant of the job: what the keys, the file, the         *)
(* memorizers and the segment have to do with each other at every step.     *)
THEOREM JobInvCorrect == Spec => []JobInv
BY JobInit, JobStep, PTL DEF Spec

(* A job of supported calls whose nodes answered in the committed view does *)
(* not fail once its file is written, whatever the module calls, the        *)
(* accumulators do and the order of the proofs is.                          *)
THEOREM CompletesCorrect == Spec => []Completes
<1>1. JobInv => Completes
    BY DEF JobInv
<1> QED
    BY <1>1, JobInvCorrect, PTL

(* An answer the replay asserted is to a supported call. *)
LEMMA AssertedIsSupported ==
    ASSUME IInv, MemorizersOpened, NEW cell, Callable(cell.call), SoundAnswer(cell), Asserted(cell)
    PROVE  Supported(cell.call)
<1> DEFINE call == cell.call
<1>1. \A value, view : Answer(value, view).value = value
    BY DEF Answer
<1>2. HandlerOf(call) \in {"evm", "starknet", "bytecode"} => KeyHash(call) = HashParams(KeyOf(call))
    BY LookedUpByKey
<1> HIDE DEF call
<1>3. CASE HandlerOf(call) = "evm"
    <2> DEFINE item == evm[KeyHash(call)]
    <2>1. /\ HasEntry(evm, call) /\ cell.answer = Answer(ReadBy(SoundReads(call), item, call), item.root.view)
          /\ cell.answer.value # Unreadable
        BY <1>3 DEF SoundAnswer, ReadFrom, call
    <2>2. item.key = KeyOf(call)
        BY <1>3, <2>1, EntryIsTheKey DEF call
    <2>3. cell.answer.value = SoundReads(call)
        BY <1>1, <2>1, <2>2 DEF ReadBy
    <2>4. Opens(evm, cell)
        BY <1>3 DEF Asserted, call
    <2>5. CairoReads(call) = SoundReads(call) /\ SoundReads(call) # Unreadable
        BY <1>2, <1>3, <2>1, <2>2, <2>3, <2>4 DEF Opens, ReadBy, call
    <2>6. EvmOpened(KeyOf(call))
        BY <2>1, <2>2 DEF MemorizersOpened, HasEntry
    <2>7. /\ call.kind \in {"account", "storage"} => call.at[1] \notin ShortAddress
          /\ call.kind = "storage" => call.at[1] \in Account
          /\ call.kind \in {"tx", "receipt", "log"} => HasTx(call)
        BY <2>6 DEF EvmOpened, KeyOf, Key, HasTx
    <2>8. SupportedEvm(call)
        BY <1>3, <2>5, <2>7, AgreedIsSupportedEvm DEF call
    <2> QED
        BY <1>3, <2>8 DEF Supported, call
<1>4. CASE HandlerOf(call) = "starknet"
    <2> DEFINE item == starknet[KeyHash(call)]
    <2>1. /\ HasEntry(starknet, call) /\ cell.answer = Answer(ReadBy(SoundReads(call), item, call), item.root.view)
          /\ cell.answer.value # Unreadable
        BY <1>4 DEF SoundAnswer, ReadFrom, call
    <2>2. item.key = KeyOf(call)
        BY <1>4, <2>1, EntryIsTheKey DEF call
    <2>3. SoundReads(call) # Unreadable
        BY <1>1, <2>1, <2>2 DEF ReadBy
    <2>4. StarknetOpened(KeyOf(call))
        BY <2>1, <2>2 DEF MemorizersOpened, HasEntry
    <2>5. call.kind \in StarknetKinds
        BY <1>4, CallCases DEF call
    <2>6. Version[call.block] # "legacy" /\ (call.kind = "storage" => call.at[2] \in SetSlot)
        BY <2>4, <2>5 DEF StarknetOpened, KeyOf, Key, StarknetKinds
    <2>7. SupportedStarknet(call)
        BY <1>4, <2>3, <2>6, AgreedIsSupportedStarknet DEF call
    <2> QED
        BY <1>4, <2>7 DEF Supported, call
<1>5. CASE HandlerOf(call) = "bytecode"
    <2> DEFINE item == bytecodes[KeyHash(call)]
    <2>1. HasEntry(bytecodes, call)
        BY <1>5 DEF SoundAnswer, ReadFrom, call
    <2>2. item.key = KeyOf(call) /\ item.key.at[1] \notin ShortAddress
        BY <1>5, <2>1, EntryIsTheKey DEF call, MemorizersOpened, HasEntry
    <2>3. KeyOf(call).at = call.at
        <3>1. call.kind = "bytecode"
            BY <1>5 DEF HandlerOf
        <3> QED
            BY <3>1 DEF KeyOf, Key
    <2> QED
        BY <1>5, <2>2, <2>3 DEF Supported, call
<1>6. CASE HandlerOf(call) = "keccak"
    <2>1. cell.answer.value = SoundReads(call) /\ CairoReads(call) = cell.answer.value
        BY <1>1, <1>6 DEF SoundAnswer, Asserted, call
    <2>2. Keccak(call) = CairoKeccak(call)
        BY <1>6, <2>1 DEF SoundReads, CairoReads
    <2>3. call.at[1] > 0 /\ call.at[1] % 17 = 0 /\ call.at[2] = LastPadding
        BY <2>2 DEF Keccak, CairoKeccak, FullRate, Failure, Unreadable, Evm!Unreadable
    <2> QED
        BY <1>6, <2>3 DEF Supported, call
<1>7. CASE HandlerOf(call) = "debug"
    BY <1>7 DEF Supported, call
<1> QED
    BY <1>3, <1>4, <1>5, <1>6, <1>7 DEF Asserted, call

(* No published output rests on a call that the three readers do not agree  *)
(* about.                                                                   *)
THEOREM OnlySupportedCorrect == Spec => []OnlySupported
<1>1. JobInv => OnlySupported
    <2> SUFFICES ASSUME JobInv, At("published"), NEW n \in DOMAIN told PROVE Supported(told[n].call)
        BY DEF OnlySupported
    <2>1. IInv /\ MemorizersOpened /\ SoundAnswer(told[n])
        BY DEF JobInv, ToldAsRead
    <2>2. Segment
        BY <2>1 DEF IInv
    <2>3. /\ told[n].at \in Nat /\ Callable(told[n].call) /\ told[n].at + Cells(told[n].call) <= syscall_ptr
          /\ syscall_ptr \in Nat /\ replay_ptr = syscall_ptr
        BY <2>2 DEF Segment, End
    <2>4. told[n].at < replay_ptr
        BY <2>3, SizesAgree
    <2>5. Asserted(told[n])
        BY <2>2, <2>4 DEF Segment
    <2> QED
        BY <2>1, <2>3, <2>5, AssertedIsSupported
<1> QED
    BY <1>1, JobInvCorrect, PTL
=============================================================================
