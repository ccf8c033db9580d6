------------------------------ MODULE ChainJob ------------------------------
(***************************************************************************)
(* A job over on-chain data, from the dry run to the published output: the *)
(* dry run writes its keys, the fetcher the proofs of these, and the sound *)
(* run verifies the proofs, runs the module on what they prove, replays    *)
(* the run and writes the output.  The three are commands (crates/cli); a  *)
(* user runs the fetcher again when it failed, or goes on with a file that *)
(* an earlier job left.  Nodes and the indexer may be down at any time,    *)
(* and the write of the proofs may fail.                                   *)
(***************************************************************************)
EXTENDS DryRun, ProofFetch, SoundRun, HdpOutput

CONSTANT OtherCalls     \* what a module may ask once an answer is not the one of the dry run

ASSUME OtherCallsAssumption == \A call \in OtherCalls : Callable(call)

VARIABLES
    stage,              \* "dry", "fetch", "verify", "run", "replay", or how the job ended
    output              \* the output segment of the sound run

sound == <<verifier, run>>
vars == <<dry, fetch, sound, stage, output>>

NoOutput == <<>>

Init ==
    /\ DryInit /\ FetchInit
    /\ VerifierInit /\ RunInit
    /\ stage = "dry" /\ output = NoOutput

Enter(s) == stage' = s
At(s) == stage = s

-----------------------------------------------------------------------------
(* hdp dry-run *)
DryRunCall == At("dry") /\ DryCall /\ UNCHANGED <<fetch, sound, stage, output>>

DryRunDies == At("dry") /\ DryCallFails /\ Enter("failed") /\ UNCHANGED <<fetch, sound, output>>

NodeIsDown ==
    /\ At("dry") /\ Calling
    /\ HandlerOf(NextCall) \in {"evm", "starknet", "bytecode"}
    /\ Enter("gave_up")
    /\ UNCHANGED <<dry, fetch, sound, output>>

DryRunEnds == At("dry") /\ DryDone /\ Enter("fetch") /\ UNCHANGED <<dry, fetch, sound, output>>

(* hdp fetch-proofs *)
RunFetcher ==
    /\ At("fetch")
    /\ StartFetch(evm_keys, starknet_keys, bytecode_keys)
    /\ UNCHANGED <<dry, sound, stage, output>>

Fetching ==
    /\ At("fetch")
    /\ FetchOne(evm_keys) \/ FetchFails \/ WriteProofs \/ WriteFails
    /\ UNCHANGED <<dry, sound, stage, output>>

Grow ==
    /\ At("fetch")
    /\ \E chain \in Chain : AccumulatorGrows(chain)
    /\ UNCHANGED <<dry, sound, stage, output>>

GiveUp ==
    /\ At("fetch") /\ ~fetching /\ ~fresh
    /\ Enter("gave_up")
    /\ UNCHANGED <<dry, fetch, sound, output>>

-----------------------------------------------------------------------------
(* hdp sound-run *)
RunSound ==
    /\ At("fetch") /\ ~fetching /\ CanBeRead(file)
    /\ Enter("verify")
    /\ UNCHANGED <<dry, fetch, sound, output>>

LoadFails ==
    /\ At("fetch") /\ ~fetching /\ ~CanBeRead(file)
    /\ Enter("failed")
    /\ UNCHANGED <<dry, fetch, sound, output>>

VerifyProofs ==
    /\ At("verify") /\ Verify(file)
    /\ UNCHANGED <<dry, fetch, run, stage, output>>

VerifyDies ==
    /\ At("verify") /\ VerifyFails(file)
    /\ Enter("failed")
    /\ UNCHANGED <<dry, fetch, run, output>>

RunModule ==
    /\ At("verify") /\ Verified
    /\ Enter("run")
    /\ UNCHANGED <<dry, fetch, sound, output>>

(* The module makes the calls of the dry run as long as it gets its answers. *)
AsBefore == \A n \in DOMAIN told : n \in DOMAIN trace /\ told[n].answer = trace[n]
NextCalls ==
    CASE AsBefore -> {program[n] : n \in DOMAIN program \intersect {Len(told) + 1}}
      [] OTHER -> IF Len(told) < Len(program) THEN OtherCalls ELSE {}
MayEnd == AsBefore => Len(told) = Len(program)

ModuleCall ==
    /\ At("run")
    /\ \E call \in NextCalls : SoundCall(call)
    /\ UNCHANGED <<dry, fetch, stage, output>>

ModuleDies ==
    /\ At("run")
    /\ \E call \in NextCalls : SoundCallFails(call)
    /\ Enter("failed")
    /\ UNCHANGED <<dry, fetch, output>>

ModuleEnds ==
    /\ At("run") /\ MayEnd
    /\ Enter("replay")
    /\ UNCHANGED <<dry, fetch, sound, output>>

Replay == At("replay") /\ ReplayCall /\ UNCHANGED <<dry, fetch, stage, output>>

ReplayDies ==
    /\ At("replay") /\ ReplayFails
    /\ Enter("failed")
    /\ UNCHANGED <<dry, fetch, output>>

(* Mutant: the output is written before the end of the segment is reached. *)
PublishEarly ==
    /\ At("replay")
    /\ output' = WriteOutput(mmr_metas_poseidon, mmr_metas_keccak)
    /\ Enter("published")
    /\ UNCHANGED <<dry, fetch, sound>>

Publish ==
    /\ At("replay") /\ ~Replaying
    /\ output' = WriteOutput(mmr_metas_poseidon, mmr_metas_keccak)
    /\ Enter("published")
    /\ UNCHANGED <<dry, fetch, sound>>

-----------------------------------------------------------------------------
DryStep == DryRunCall \/ DryRunDies \/ NodeIsDown \/ DryRunEnds
SoundStep ==
    \/ VerifyProofs \/ VerifyDies \/ RunModule
    \/ ModuleCall \/ ModuleDies \/ ModuleEnds
    \/ Replay \/ ReplayDies \/ Publish

Next == DryStep \/ RunFetcher \/ Fetching \/ Grow \/ GiveUp \/ RunSound \/ LoadFails \/ SoundStep

(* A command that is running takes its steps; when it ends, the user's next *)
(* command is not promised.                                                 *)
Fairness == WF_vars(DryStep) /\ WF_vars(Fetching) /\ WF_vars(SoundStep)

Spec == Init /\ [][Next]_vars /\ Fairness

-----------------------------------------------------------------------------
(* What a module may rely on: the calls all readers agree about. *)
SupportedHeader(age, f) ==
    \/ f \in 0..14 \ {Evm!ExtraData}
    \/ f = Evm!BaseFeePerGas /\ age >= 1
    \/ f = Evm!RequestsHash /\ age >= 4

SupportedTx(tx, f) ==
    LET untyped == tx.type \in {"legacy", "eip155"}
    IN  \/ f \in {0, 2, 4, 7, 8, 16, 17, 18}
        \/ f = Evm!Receiver /\ ~tx.creates
        \/ f \in {Evm!TxV, Evm!ChainIdField} /\ ~untyped
        \/ f = Evm!GasPrice /\ (untyped \/ tx.type = "eip2930")
        \/ f \in {11, 12} /\ tx.type \in {"eip1559", "eip4844", "eip7702"}
        \/ f = Evm!MaxFeePerBlobGas /\ tx.type = "eip4844"

SupportedLog(log, f) == log.exists /\ (f \in 1..5 => f <= log.topics) /\ (f = Evm!LogData => log.words)

BeforeDelegations(call) == HasTx(call) /\ TheTx(call).type # "eip7702"

SupportedEvm(call) ==
    CASE call.kind = "header" -> SupportedHeader(Age[call.block], call.field)
      [] call.kind \in {"account", "storage"} -> call.at[1] \in Account \ ShortAddress
      [] call.kind = "tx" -> HasTx(call) /\ SupportedTx(TheTx(call), call.field)
      [] call.kind = "receipt" -> BeforeDelegations(call)
      [] call.kind = "log" -> BeforeDelegations(call) /\ SupportedLog(TheLog(call), call.field)

SupportedStarknet(call) ==
    \/ call.kind = "header" /\ Version[call.block] = "hash0"
    \/ call.kind = "storage" /\ Version[call.block] # "legacy" /\ call.at[2] \in SetSlot

Supported(call) ==
    CASE HandlerOf(call) = "evm" -> SupportedEvm(call)
      [] HandlerOf(call) = "starknet" -> SupportedStarknet(call)
      [] HandlerOf(call) = "bytecode" -> call.at[1] \notin ShortAddress
      [] HandlerOf(call) = "keccak" -> call.at[1] > 0 /\ call.at[1] % 17 = 0 /\ call.at[2] = LastPadding
      [] HandlerOf(call) = "debug" -> TRUE
      [] OTHER -> FALSE

Items(proofs) ==
    proofs.bytecode
      \union (UNION {UNION {proofs.chain[c].accounts, proofs.chain[c].storages,
                            proofs.chain[c].txs, proofs.chain[c].receipts} : c \in Chain})
Headers(proofs) == UNION {UNION {b.headers : b \in proofs.chain[c].batches} : c \in Chain}

(* Supported calls, nodes that answered in the committed view throughout,   *)
(* and Starknet accumulators by the hash their verifier takes.              *)
Undisturbed ==
    /\ \A n \in DOMAIN program : Supported(program[n])
    /\ \A n \in DOMAIN trace : trace[n].view = "committed"
    /\ fresh
    /\ \A i \in Items(file) : i.root.view = "committed"
    /\ \A c \in StarknetChain : Hasher[c] = "poseidon"

(* A sound run on the proofs of this job does not fail then: whatever the   *)
(* accumulators did between the requests, the order of the proofs or the    *)
(* number of attempts.  It is what dry run, fetcher, verifiers, sound       *)
(* handlers and replay have to agree about, each in its own reading of the  *)
(* same data.                                                               *)
Completes == At("failed") => ~Undisturbed

(* No output rests on a call outside of that: one of the three readings     *)
(* stopped the job.                                                         *)
OnlySupported == At("published") => \A n \in DOMAIN told : Supported(told[n].call)

(* A datum the module may read is of the block and the committed view its   *)
(* key names, from the moment it is in a memorizer.                         *)
MemorizersTrue ==
    \A dict \in {evm, starknet} : \A k \in DOMAIN dict :
        /\ HashParams(dict[k].key) = k
        /\ dict[k].root = Header(dict[k].key.chain, dict[k].key.block, "committed")

Accumulators(proofs) == {b.meta : b \in UNION {proofs.chain[c].batches : c \in Chain}}

(* Who reads the output finds an accumulator of the file in it for every    *)
(* header the run relied on, by the layout hdp.cairo wrote, and nothing the *)
(* program wrote is lost in reading.                                        *)
OutputCommits ==
    At("published") =>
        LET read == FromIter(output)
        IN  /\ ToFeltVec(read) = output
            /\ \A dict \in {evm, starknet} : \A k \in DOMAIN dict :
                  dict[k].key.kind = "header" =>
                      \E meta \in Elements(read.poseidon) \union Elements(read.keccak) :
                          meta \in Accumulators(file) /\ Commits(meta, dict[k].root)

(* The file of a finished fetch has a proof for every key of the dry run    *)
(* and the header to verify it against.  One that ended with an error left  *)
(* the old file whole, or, where the write was cut, what no sound run gets  *)
(* past loading: no sound run is on a part of the proofs.                   *)
Loaded == stage \in {"verify", "run", "replay", "published"}
FileIsWhole ==
    /\ fresh => \A key \in evm_keys \union starknet_keys :
          /\ \E h \in Headers(file) : h.chain = key.chain /\ h.block = key.block
          /\ key.kind \in {"tx", "receipt"} => \E i \in Items(file) : i.key = TrieKey(key)
          /\ key.kind \in {"account", "storage"} => \E i \in Items(file) : i.key = key
    /\ ~fresh => file \in OldFiles \union {NoFile, TornFile}
    /\ Loaded => CanBeRead(file)

(* The answers a published output rests on are those of the committed       *)
(* chain; only a bytecode is not proven.                                    *)
RightAnswer(call, answer) ==
    HandlerOf(call) # "debug" =>
        /\ answer.value = CairoReads(call)
        /\ HandlerOf(call) \in {"evm", "starknet"} => answer.view = "committed"

Status ==
    CASE At("published") -> "published"
      [] At("failed") \/ At("gave_up") -> "failed"
      [] OTHER -> "running"

Promise == INSTANCE TrueReads WITH
    Right <- RightAnswer,
    reads <- [n \in DOMAIN told |-> [call |-> told[n].call, answer |-> told[n].answer]],
    status <- Status

(* The job keeps the promise of TrueReads: the sound handlers answer from   *)
(* memorizers filled from any file that loads, an old one or one of an      *)
(* unsettled block, and what the chain does not have, or they read          *)
(* otherwise than it, the replay does not assert.                           *)
KeepsPromise == Promise!Spec

-----------------------------------------------------------------------------
(* The inductive invariant of the proofs. *)

MetaSet(hasher) == [chain : Chain, size : Nat, hasher : {hasher}]
Stages == {"dry", "fetch", "verify", "run", "replay", "published", "failed", "gave_up"}

RequestSet ==
    [part : {"header"}, key : HeaderKeys(Chain)]
      \union [part : {"receipt", "tx"}, key : HeaderKeys(EvmChain)]
      \union [part : {"account"}, key : AccountKeys]
      \union [part : {"storage"}, key : StorageKeys \union SlotKeys]
      \union [part : {"bytecode"}, key : BytecodeKeys]

TypeOK ==
    /\ program \in Programs /\ IsSequence(trace) /\ IsSequence(told)
    /\ evm_keys \subseteq EvmKeys /\ starknet_keys \subseteq StarknetKeys
    /\ bytecode_keys \subseteq BytecodeKeys
    /\ accumulated \in [Chain -> 0..MaxSize]
    /\ fetching \in BOOLEAN /\ fresh \in BOOLEAN /\ fetches \in 0..MaxFetches
    /\ pending \subseteq RequestSet
    /\ fetched \in ProofSets /\ InOwnChain(fetched)
    /\ file \in ProofSets \union {NoFile, TornFile} /\ (CanBeRead(file) => InOwnChain(file))
    /\ idx \in 0..Len(ChainOrder)
    /\ mmr_metas_poseidon \in Seq(MetaSet("poseidon")) /\ mmr_metas_keccak \in Seq(MetaSet("keccak"))
    /\ part \in {"load", "chain", "headers", "accounts", "storages", "txs", "receipts", "starknet_storages"}
    /\ stage \in Stages

(* A fetcher that runs still asks for what it does not have. *)
HasHeader(proofs, key) ==
    \E h \in Headers(proofs) : h.chain = key.chain /\ h.block = key.block
HasItem(proofs, key) ==
    CASE key.kind \in {"account", "storage"} -> \E i \in Items(proofs) : i.key = key
      [] key.kind \in {"tx", "receipt"} -> \E i \in Items(proofs) : i.key = TrieKey(key)
      [] OTHER -> TRUE
RequestFor(key) == Request(key.kind, IF key.kind \in {"tx", "receipt"} THEN HeaderKeyOf(key) ELSE key)
NothingForgotten ==
    fetching => \A key \in evm_keys \union starknet_keys :
        /\ Request("header", HeaderKeyOf(key)) \in pending \/ HasHeader(fetched, key)
        /\ RequestFor(key) \in pending \/ HasItem(fetched, key)

(* What is verified is verified in the file the sound run was started with. *)
NotStarted == stage \in {"dry", "fetch"}
FileInUse ==
    /\ fetching => stage = "fetch" /\ ~fresh
    /\ fresh => stage # "dry"
    /\ fresh \/ Loaded => CanBeRead(file)
    /\ NotStarted => part = "load"
    /\ part \notin {"load", "chain"} => idx > 0
    /\ part = "headers" => left \subseteq file.chain[chain_id].batches
    /\ part \in {"accounts", "storages", "txs", "receipts"} => chain_id \in EvmChain
    /\ part = "starknet_storages" => chain_id \in StarknetChain

MemorizersTyped ==
    /\ NotStarted => evm = Empty /\ starknet = Empty /\ bytecodes = Empty
    /\ \A k \in DOMAIN evm : evm[k] \in ItemsOf(EvmKeys)
    /\ \A k \in DOMAIN starknet : starknet[k] \in ItemsOf(StarknetKeys)
    /\ \A k \in DOMAIN bytecodes : bytecodes[k] \in ItemsOf(BytecodeKeys) /\ HashParams(bytecodes[k].key) = k

(* The headers that are verified are committed to by an accumulator of the  *)
(* file.                                                                    *)
Metas == Elements(mmr_metas_poseidon) \union Elements(mmr_metas_keccak)
HeadersCommitted ==
    /\ NotStarted => mmr_metas_poseidon = <<>> /\ mmr_metas_keccak = <<>>
    /\ Metas # {} => Metas \subseteq Accumulators(file)
    /\ \A dict \in {evm, starknet} : \A k \in DOMAIN dict :
          dict[k].key.kind = "header" => \E meta \in Metas : Commits(meta, dict[k].root)

(* The answers lie one after the other in the segment, and those the replay *)
(* has passed are the ones it asserted.                                     *)
End(cell) == cell.at + Cells(cell.call)
Segment ==
    /\ \A n \in DOMAIN told : told[n].at \in Nat /\ Callable(told[n].call) /\ End(told[n]) <= syscall_ptr
    /\ \A m, n \in DOMAIN told : m < n => End(told[m]) <= told[n].at
    /\ syscall_ptr \in Nat /\ replay_ptr \in Nat
    /\ stage \in {"dry", "fetch", "verify"} => told = <<>>
    /\ stage \in {"dry", "fetch", "verify", "run"} => replay_ptr = 0
    /\ \A n \in DOMAIN told : told[n].at < replay_ptr => Asserted(told[n])
    /\ At("published") => replay_ptr = syscall_ptr /\ output = WriteOutput(mmr_metas_poseidon, mmr_metas_keccak)

IInv ==
    /\ TypeOK
    /\ NothingForgotten /\ FileInUse
    /\ MemorizersTyped /\ MemorizersTrue /\ HeadersCommitted
    /\ Segment

(* Every command ends: the dry run, a run of the fetcher and the sound run  *)
(* find a next step or an error at every point.                             *)
CommandsEnd ==
    /\ At("dry") ~> ~At("dry")
    /\ fetching ~> ~fetching
    /\ stage \in {"verify", "run", "replay"} ~> stage \in {"published", "failed"}
=============================================================================
