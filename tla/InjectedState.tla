--------------------------- MODULE InjectedState ---------------------------
(***************************************************************************)
(* Injected state through the three stages of an HDP job.                  *)
(*   dry     the module runs against the state server; every call is       *)
(*           answered from the server or a read cache and recorded in      *)
(*           key_set (crates/dry_hint_processor, injected_state)           *)
(*   fetch   one request per trie label turns the recorded actions into    *)
(*           state proofs (crates/fetcher, collect_state_proofs)           *)
(*   verify  hdp.cairo loads the injected roots and verifies the proofs    *)
(*           from the last to the first, filling the memorizer             *)
(*   sound   the module runs again, answered from the memorizer alone      *)
(*           (crates/sound_hint_processor, injected_state)                 *)
(*   replay  execute_syscalls.cairo goes through the calls once more and   *)
(*           asserts every answer against the memorizer, with a root of    *)
(*           its own per label                                             *)
(*                                                                         *)
(* A root is what it commits to, a function from keys to values.  The      *)
(* server is the store TrieClient and TrieStore show it to be for clients  *)
(* that keep its rules: a write answers the updated root, a read the value *)
(* at the root, and every proof verifies.  The memorizer is one dictionary *)
(* whose keys are Poseidon hashes of a tag and the arguments; a tag is a   *)
(* map of its own here.                                                    *)
(***************************************************************************)
EXTENDS Naturals, Sequences

CONSTANTS Label, Key, Value,
          Zero,         \* the value of a key that is not in the trie
          NoRoot,       \* of a label that was not injected
          Injectable,   \* what a label may be injected with: roots, or NoRoot
          Rules,        \* what the module keeps to: a subset of AllRules
          MaxCalls      \* bound on the calls of the module

Root == [Key -> Value]

AllRules == {"known_label",  \* no call on a label that was not injected
             "no_delete",    \* no key is deleted, by the module or before it
             "one_value"}    \* two writes to a key at the same root write the same value

ASSUME InjectedAssumption ==
    /\ Zero \in Value
    /\ NoRoot \notin Root
    /\ Injectable \subseteq Root \union {NoRoot}
    /\ Rules \subseteq AllRules
    /\ MaxCalls \in Nat

VARIABLES
    stage,
    injected,       \* injected[label]: the root in the input file
    runtime,        \* memorizer, tag LABEL_RUNTIME: moved by the syscall handlers
    execute,        \* memorizer, tag LABEL_EXECUTE: moved by the replay
    inclusion, non_inclusion,  \* memorizer: (label, root, key) to the value
    write,          \* memorizer, tag WRITE: (label, root, key) to the new root
    trace,          \* the calls of the module, the roots they met, the dry answers
    read_cache,     \* (label, key) to an answer
    key_set,        \* key_set[label]: the actions recorded for the fetcher
    waiting,        \* labels the fetcher has not asked for
    state_proofs,
    idx,            \* proofs left to verify
    answers,        \* the answers of the sound run
    replayed        \* calls replayed

memorizer == <<runtime, execute, inclusion, non_inclusion, write>>
dry == <<trace, read_cache, key_set>>
proofs == <<waiting, state_proofs, idx>>
sound == <<answers, replayed>>
vars == <<stage, injected, memorizer, dry, proofs, sound>>

-----------------------------------------------------------------------------
LabelCall(l) == [op |-> "label", label |-> l]
ReadCall(l, k) == [op |-> "read", label |-> l, key |-> k]
WriteCall(l, k, v) == [op |-> "write", label |-> l, key |-> k, value |-> v]

Update(root, k, v) == [root EXCEPT ![k] = v]
Found(exist, v) == [exist |-> exist, value |-> v]

Empty == [x \in {} |-> Zero]
Add(dict, key, data) == [x \in DOMAIN dict \union {key} |-> IF x = key THEN data ELSE dict[x]]

Init ==
    /\ stage = "dry"
    /\ injected \in [Label -> Injectable]
    /\ runtime = injected /\ execute = injected
    /\ inclusion = Empty /\ non_inclusion = Empty /\ write = Empty
    /\ trace = <<>> /\ read_cache = Empty /\ key_set = [l \in Label |-> <<>>]
    /\ waiting = {} /\ state_proofs = <<>> /\ idx = 0
    /\ answers = <<>> /\ replayed = 0

-----------------------------------------------------------------------------
(* The dry run. *)

Calling(l) ==
    /\ stage = "dry" /\ Len(trace) < MaxCalls
    /\ "known_label" \in Rules => runtime[l] # NoRoot

Record(call, answer) ==
    trace' = Append(trace, [call |-> call, roots |-> runtime, answer |-> answer])

Push(action) == key_set' = [key_set EXCEPT ![action.label] = Append(@, action)]
ReadAction(l, k) == [op |-> "read", label |-> l, root |-> runtime[l], key |-> k]
WriteAction(l, k, v) ==
    [op |-> "write", label |-> l, root |-> runtime[l], key |-> k, value |-> v]

DryLabel(l) ==
    /\ Calling(l)
    /\ Record(LabelCall(l), runtime[l])
    /\ UNCHANGED <<stage, injected, memorizer, read_cache, key_set, proofs, sound>>

(* Mutant: a cached answer is not recorded for the fetcher. *)
DryReadQuietly(l, k) ==
    /\ Calling(l) /\ runtime[l] # NoRoot
    /\ <<l, k>> \in DOMAIN read_cache
    /\ Record(ReadCall(l, k), read_cache[<<l, k>>])
    /\ UNCHANGED <<stage, injected, memorizer, read_cache, key_set, proofs, sound>>

DryReadCached(l, k) ==
    /\ Calling(l) /\ runtime[l] # NoRoot
    /\ <<l, k>> \in DOMAIN read_cache
    /\ Push(ReadAction(l, k))
    /\ Record(ReadCall(l, k), read_cache[<<l, k>>])
    /\ UNCHANGED <<stage, injected, memorizer, read_cache, proofs, sound>>

(* A key that was deleted once has a leaf row with the value zero. *)
ServerReply(root, k) ==
    {Found(root[k] # Zero, root[k])}
        \union (IF "no_delete" \in Rules THEN {} ELSE {Found(TRUE, root[k])})

DryRead(l, k) ==
    /\ Calling(l) /\ runtime[l] # NoRoot
    /\ <<l, k>> \notin DOMAIN read_cache
    /\ \E reply \in ServerReply(runtime[l], k) :
          /\ Record(ReadCall(l, k), reply)
          /\ read_cache' = Add(read_cache, <<l, k>>, reply)
    /\ Push(ReadAction(l, k))
    /\ UNCHANGED <<stage, injected, memorizer, proofs, sound>>

(* What the module may write under its rules. *)
MayWrite(l, k, v) ==
    /\ "no_delete" \in Rules => v # Zero
    /\ "one_value" \in Rules =>
          \A n \in DOMAIN trace :
             /\ trace[n].call.op = "write"
             /\ trace[n].call.label = l /\ trace[n].call.key = k
             /\ trace[n].roots[l] = runtime[l]
             => trace[n].call.value = v

(* Mutant: the cache keeps the value from before the write. *)
DryWriteUncached(l, k, v) ==
    /\ Calling(l) /\ runtime[l] # NoRoot /\ MayWrite(l, k, v)
    /\ runtime' = [runtime EXCEPT ![l] = Update(runtime[l], k, v)]
    /\ Push(WriteAction(l, k, v))
    /\ Record(WriteCall(l, k, v), Update(runtime[l], k, v))
    /\ UNCHANGED <<stage, injected, execute, inclusion, non_inclusion, write, read_cache, proofs, sound>>

DryWrite(l, k, v) ==
    /\ Calling(l) /\ runtime[l] # NoRoot /\ MayWrite(l, k, v)
    /\ runtime' = [runtime EXCEPT ![l] = Update(runtime[l], k, v)]
    /\ Push(WriteAction(l, k, v))
    /\ read_cache' = Add(read_cache, <<l, k>>, Found(TRUE, v))
    /\ Record(WriteCall(l, k, v), Update(runtime[l], k, v))
    /\ UNCHANGED <<stage, injected, execute, inclusion, non_inclusion, write, proofs, sound>>

(* A read or a write of a label without a root ends the run, and so does    *)
(* an error of the server.                                                  *)
DryFails(l) ==
    /\ Calling(l)
    /\ stage' = "failed"
    /\ UNCHANGED <<injected, memorizer, dry, proofs, sound>>

DryEnds ==
    /\ stage = "dry"
    /\ stage' = "fetch"
    /\ waiting' = {l \in Label : key_set[l] # <<>>}
    /\ UNCHANGED <<injected, memorizer, dry, state_proofs, idx, sound>>

-----------------------------------------------------------------------------
(* Fetching: the labels come in the order of a HashMap, the actions of a    *)
(* label in the order they were recorded.                                   *)

ProofOf(action) ==
    IF action.op = "read"
    THEN [op |-> "read", label |-> action.label, root |-> action.root, key |-> action.key,
          value |-> action.root[action.key]]
    ELSE [op |-> "write", label |-> action.label, root |-> action.root, key |-> action.key,
          new_root |-> Update(action.root, action.key, action.value)]

Fetch(l) ==
    /\ stage = "fetch" /\ l \in waiting
    /\ waiting' = waiting \ {l}
    /\ state_proofs' = state_proofs \o [i \in DOMAIN key_set[l] |-> ProofOf(key_set[l][i])]
    /\ UNCHANGED <<stage, injected, memorizer, dry, idx, sound>>

FetchFails ==
    /\ stage = "fetch" /\ waiting # {}
    /\ stage' = "failed"
    /\ UNCHANGED <<injected, memorizer, dry, proofs, sound>>

-----------------------------------------------------------------------------
(* Mutant: the proofs numbered from one. *)
LoadFromOne ==
    /\ stage = "fetch" /\ waiting = {}
    /\ stage' = "verify"
    /\ runtime' = injected /\ execute' = injected
    /\ inclusion' = Empty /\ non_inclusion' = Empty /\ write' = Empty
    /\ idx' = Len(state_proofs) + 1
    /\ UNCHANGED <<injected, dry, waiting, state_proofs, sound>>

(* The start of hdp.cairo: roots are loaded into a new memorizer. *)
Load ==
    /\ stage = "fetch" /\ waiting = {}
    /\ stage' = "verify"
    /\ runtime' = injected /\ execute' = injected
    /\ inclusion' = Empty /\ non_inclusion' = Empty /\ write' = Empty
    /\ idx' = Len(state_proofs)
    /\ UNCHANGED <<injected, dry, waiting, state_proofs, sound>>

At(p) == <<p.label, p.root, p.key>>

(* Mutant: the label left out of the key of a write. *)
VerifyWriteAnyLabel ==
    /\ stage = "verify" /\ idx > 0 /\ state_proofs[idx].op = "write"
    /\ write' = [x \in DOMAIN write \union {At(state_proofs[idx])} |->
                    IF x[2] = state_proofs[idx].root /\ x[3] = state_proofs[idx].key
                    THEN state_proofs[idx].new_root ELSE write[x]]
    /\ idx' = idx - 1
    /\ UNCHANGED <<stage, injected, runtime, execute, inclusion, non_inclusion, dry, waiting,
                   state_proofs, sound>>

VerifyWrite ==
    /\ stage = "verify" /\ idx > 0 /\ state_proofs[idx].op = "write"
    /\ write' = Add(write, At(state_proofs[idx]), state_proofs[idx].new_root)
    /\ idx' = idx - 1
    /\ UNCHANGED <<stage, injected, runtime, execute, inclusion, non_inclusion, dry, waiting,
                   state_proofs, sound>>

(* Whether the proof ends at the key decides which tag it is kept under. *)
VerifyRead ==
    LET p == state_proofs[idx]
    IN  /\ stage = "verify" /\ idx > 0 /\ p.op = "read"
        /\ \/ /\ p.value # Zero
              /\ inclusion' = Add(inclusion, At(p), p.value)
              /\ UNCHANGED non_inclusion
           \/ /\ p.value = Zero
              /\ non_inclusion' = Add(non_inclusion, At(p), Zero)
              /\ UNCHANGED inclusion
        /\ idx' = idx - 1
        /\ UNCHANGED <<stage, injected, runtime, execute, write, dry, waiting, state_proofs, sound>>

VerifyEnds ==
    /\ stage = "verify" /\ idx = 0
    /\ stage' = "sound"
    /\ UNCHANGED <<injected, memorizer, dry, proofs, sound>>

-----------------------------------------------------------------------------
(* The sound run.  The module is deterministic: while its answers are those *)
(* of the dry run, its next call is the one in the trace.                   *)

SoundCall(op) ==
    /\ stage = "sound" /\ Len(answers) < Len(trace)
    /\ trace[Len(answers) + 1].call.op = op

NextCall == trace[Len(answers) + 1].call
Respond(answer) == answers' = Append(answers, answer) /\ UNCHANGED <<stage, replayed>>
Reject == stage' = "rejected" /\ UNCHANGED <<answers, replayed>>

SoundLabel ==
    /\ SoundCall("label")
    /\ Respond(runtime[NextCall.label])
    /\ UNCHANGED <<injected, memorizer, dry, proofs>>

SoundRead ==
    LET x == <<NextCall.label, runtime[NextCall.label], NextCall.key>>
    IN  /\ SoundCall("read")
        /\ \/ /\ x \in DOMAIN inclusion
              /\ Respond(Found(TRUE, inclusion[x]))
           \/ /\ x \notin DOMAIN inclusion /\ x \in DOMAIN non_inclusion
              /\ Respond(Found(FALSE, non_inclusion[x]))
           \/ /\ x \notin DOMAIN inclusion \union DOMAIN non_inclusion
              /\ Reject
        /\ UNCHANGED <<injected, memorizer, dry, proofs>>

SoundWrite ==
    LET l == NextCall.label
        x == <<l, runtime[l], NextCall.key>>
    IN  /\ SoundCall("write")
        /\ \/ /\ x \in DOMAIN write
              /\ runtime' = [runtime EXCEPT ![l] = write[x]]
              /\ Respond(write[x])
           \/ /\ x \notin DOMAIN write
              /\ Reject
              /\ UNCHANGED runtime
        /\ UNCHANGED <<injected, execute, inclusion, non_inclusion, write, dry, proofs>>

SoundEnds ==
    /\ stage = "sound" /\ Len(answers) = Len(trace)
    /\ stage' = "replay"
    /\ UNCHANGED <<injected, memorizer, dry, proofs, sound>>

-----------------------------------------------------------------------------
(* The replay: execute_syscall asserts the answers of the sound run. *)

ReplayCall(op) ==
    /\ stage = "replay" /\ replayed < Len(trace)
    /\ trace[replayed + 1].call.op = op

Replayed == trace[replayed + 1].call

(* A failed assertion makes the run fail, and so does following the pointer *)
(* of an entry that is not there.                                           *)
Asserted(condition) ==
    \/ condition /\ replayed' = replayed + 1 /\ UNCHANGED stage
    \/ ~ condition /\ stage' = "rejected" /\ UNCHANGED replayed

ReplayLabel ==
    /\ ReplayCall("label")
    /\ Asserted(execute[Replayed.label] # NoRoot /\ execute[Replayed.label] = answers[replayed + 1])
    /\ UNCHANGED <<injected, memorizer, dry, proofs, answers>>

Confirmed(x, answer) ==
    IF answer.exist
    THEN x \in DOMAIN inclusion /\ inclusion[x] = answer.value /\ x \notin DOMAIN non_inclusion
    ELSE x \in DOMAIN non_inclusion /\ non_inclusion[x] = answer.value /\ x \notin DOMAIN inclusion

ReplayRead ==
    LET l == Replayed.label
    IN  /\ ReplayCall("read")
        /\ Asserted(execute[l] # NoRoot /\ Confirmed(<<l, execute[l], Replayed.key>>, answers[replayed + 1]))
        /\ UNCHANGED <<injected, memorizer, dry, proofs, answers>>

(* Mutant: the root of the replay stays where it is. *)
ReplayWriteInPlace ==
    /\ ReplayCall("write")
    /\ Asserted(execute[Replayed.label] # NoRoot)
    /\ UNCHANGED <<injected, memorizer, dry, proofs, answers>>

(* The new root is not compared with the answer; an entry that is missing   *)
(* leaves the label without a root.                                         *)
ReplayWrite ==
    LET l == Replayed.label
        x == <<l, execute[l], Replayed.key>>
    IN  /\ ReplayCall("write")
        /\ Asserted(execute[l] # NoRoot)
        /\ execute' = [execute EXCEPT ![l] = IF x \in DOMAIN write THEN write[x] ELSE NoRoot]
        /\ UNCHANGED <<injected, runtime, inclusion, non_inclusion, write, dry, proofs, answers>>

ReplayEnds ==
    /\ stage = "replay" /\ replayed = Len(trace)
    /\ stage' = "done"
    /\ UNCHANGED <<injected, memorizer, dry, proofs, sound>>

-----------------------------------------------------------------------------
DryStep ==
    \/ \E l \in Label : DryLabel(l) \/ DryFails(l)
    \/ \E l \in Label, k \in Key : DryReadCached(l, k) \/ DryRead(l, k)
    \/ \E l \in Label, k \in Key, v \in Value : DryWrite(l, k, v)
    \/ DryEnds

FetchStep == (\E l \in Label : Fetch(l)) \/ FetchFails \/ Load
VerifyStep == VerifyRead \/ VerifyWrite \/ VerifyEnds
SoundStep == SoundLabel \/ SoundRead \/ SoundWrite \/ SoundEnds
ReplayStep == ReplayLabel \/ ReplayRead \/ ReplayWrite \/ ReplayEnds

Next == DryStep \/ FetchStep \/ VerifyStep \/ SoundStep \/ ReplayStep

Spec == Init /\ [][Next]_vars

-----------------------------------------------------------------------------
Calls == [op : {"label"}, label : Label]
            \union [op : {"read"}, label : Label, key : Key]
            \union [op : {"write"}, label : Label, key : Key, value : Value]
Replies == Root \union {NoRoot} \union [exist : BOOLEAN, value : Value]
Entries == [call : Calls, roots : [Label -> Root \union {NoRoot}], answer : Replies]
Actions == [op : {"read"}, label : Label, root : Root, key : Key]
              \union [op : {"write"}, label : Label, root : Root, key : Key, value : Value]
Proofs == [op : {"read"}, label : Label, root : Root, key : Key, value : Value]
             \union [op : {"write"}, label : Label, root : Root, key : Key, new_root : Root]
Place == Label \X Root \X Key
IsDict(dict, Keys, Data) == DOMAIN dict \subseteq Keys /\ \A x \in DOMAIN dict : dict[x] \in Data

TypeOK ==
    /\ stage \in {"dry", "fetch", "verify", "sound", "replay", "done", "failed", "rejected"}
    /\ injected \in [Label -> Root \union {NoRoot}]
    /\ runtime \in [Label -> Root \union {NoRoot}] /\ execute \in [Label -> Root \union {NoRoot}]
    /\ IsDict(inclusion, Place, Value) /\ IsDict(non_inclusion, Place, Value)
    /\ IsDict(write, Place, Root)
    /\ trace \in Seq(Entries)
    /\ IsDict(read_cache, Label \X Key, [exist : BOOLEAN, value : Value])
    /\ key_set \in [Label -> Seq(Actions)]
    /\ waiting \subseteq Label /\ state_proofs \in Seq(Proofs)
    /\ idx \in 0..Len(state_proofs)
    /\ answers \in Seq(Replies) /\ Len(answers) <= Len(trace)
    /\ replayed \in 0..Len(trace)

(* The module computes on what the dry run told it: the sound run gives     *)
(* every call the answer the dry run gave, so that it takes the same path,  *)
(* in whatever order the labels were fetched and however their proofs       *)
(* overwrite one another in the memorizer.                                  *)
SoundAgrees == \A n \in DOMAIN answers : answers[n] = trace[n].answer

(* A module that ran dry and whose proofs were fetched is proved: neither   *)
(* the handlers of the sound run miss an entry, nor does an assertion of    *)
(* the replay fail.                                                         *)
Completes == stage # "rejected"

(* A read gives the value of the key at the root its label has now, though  *)
(* the cache is not told which root an answer belongs to.                   *)
DryReadsTrue ==
    \A n \in DOMAIN trace :
        LET call == trace[n].call
        IN  call.op = "read" => trace[n].answer.value = trace[n].roots[call.label][call.key]

(* The replay, which moves a root of its own and never looks at the one of  *)
(* the handlers, ends at the roots the module ended at.                     *)
RootsMeet == stage = "done" => execute = runtime

(* What one proof put into the memorizer another proof does not change: the *)
(* order of the proofs is of no account.                                    *)
Kept(dict, later) == \A x \in DOMAIN dict : x \in DOMAIN later /\ later[x] = dict[x]
FactsStay ==
    [][/\ Kept(inclusion, inclusion') /\ Kept(non_inclusion, non_inclusion')
       /\ Kept(write, write')]_vars

-----------------------------------------------------------------------------
(* The inductive invariant, for a module that keeps all the rules. *)

(* The roots after a call and before the n-th one. *)
After(e) ==
    IF e.call.op = "write"
    THEN [e.roots EXCEPT ![e.call.label] = Update(e.roots[e.call.label], e.call.key, e.call.value)]
    ELSE e.roots
RootsAt(n) == IF n = 1 THEN injected ELSE After(trace[n - 1])

Met(e) == e.roots[e.call.label]
IsAccess(e) == e.call.op # "label"
IsWrite(e) == e.call.op = "write"

(* The answer a call should have. *)
Truth(e) ==
    IF e.call.op = "label" THEN Met(e)
    ELSE IF e.call.op = "read" THEN Found(Met(e)[e.call.key] # Zero, Met(e)[e.call.key])
    ELSE Update(Met(e), e.call.key, e.call.value)

ActionOf(e) ==
    IF e.call.op = "read"
    THEN [op |-> "read", label |-> e.call.label, root |-> Met(e), key |-> e.call.key]
    ELSE [op |-> "write", label |-> e.call.label, root |-> Met(e), key |-> e.call.key,
          value |-> e.call.value]

(* The dry answers are true and the roots follow from the writes. *)
TraceTrue ==
    \A n \in DOMAIN trace :
        /\ trace[n].roots = RootsAt(n)
        /\ Met(trace[n]) # NoRoot
        /\ trace[n].answer = Truth(trace[n])

(* Two writes to a key at the same root wrote the same value. *)
OneValue ==
    \A m, n \in DOMAIN trace :
        /\ IsWrite(trace[m]) /\ IsWrite(trace[n])
        /\ trace[m].call.label = trace[n].call.label /\ trace[m].call.key = trace[n].call.key
        /\ Met(trace[m]) = Met(trace[n])
        => trace[m].call.value = trace[n].call.value

(* What is cached is the value at the root the label has now. *)
CacheFresh ==
    stage = "dry" =>
        /\ runtime = RootsAt(Len(trace) + 1)
        /\ \A x \in DOMAIN read_cache :
              /\ runtime[x[1]] # NoRoot
              /\ read_cache[x] = Found(runtime[x[1]][x[2]] # Zero, runtime[x[1]][x[2]])

(* key_set holds the reads and writes of the trace and nothing else. *)
AllRecorded ==
    \A n \in DOMAIN trace :
        IsAccess(trace[n]) =>
            \E i \in DOMAIN key_set[trace[n].call.label] :
                key_set[trace[n].call.label][i] = ActionOf(trace[n])
OnlyRecorded ==
    \A l \in Label : \A i \in DOMAIN key_set[l] :
        \E n \in DOMAIN trace : IsAccess(trace[n]) /\ key_set[l][i] = ActionOf(trace[n])

(* The proofs are those of the reads and writes, once their label is fetched. *)
AllFetched ==
    stage \notin {"dry", "failed"} =>
        \A n \in DOMAIN trace :
            IsAccess(trace[n]) =>
                \/ stage = "fetch" /\ trace[n].call.label \in waiting
                \/ \E i \in DOMAIN state_proofs : state_proofs[i] = ProofOf(ActionOf(trace[n]))
OnlyFetched ==
    \A i \in DOMAIN state_proofs :
        \E n \in DOMAIN trace :
            IsAccess(trace[n]) /\ state_proofs[i] = ProofOf(ActionOf(trace[n]))

Proving == stage \in {"verify", "sound", "replay", "done"}

(* Every fact of the memorizer is true, and every proof passed is a fact. *)
FactsTrue ==
    /\ \A x \in DOMAIN inclusion : inclusion[x] = x[2][x[3]] /\ x[2][x[3]] # Zero
    /\ \A x \in DOMAIN non_inclusion : non_inclusion[x] = Zero /\ x[2][x[3]] = Zero
    /\ \A x \in DOMAIN write :
          \E n \in DOMAIN trace :
             /\ IsWrite(trace[n])
             /\ x = <<trace[n].call.label, Met(trace[n]), trace[n].call.key>>
             /\ write[x] = Truth(trace[n])
IsFact(p) ==
    IF p.op = "write" THEN At(p) \in DOMAIN write
    ELSE IF p.value = Zero THEN At(p) \in DOMAIN non_inclusion ELSE At(p) \in DOMAIN inclusion
ProofsPassed ==
    Proving => \A i \in DOMAIN state_proofs : i > idx => IsFact(state_proofs[i])

(* How far each stage has come. *)
Progress ==
    /\ stage \in {"dry", "fetch"} =>
          /\ answers = <<>> /\ replayed = 0
          /\ DOMAIN inclusion = {} /\ DOMAIN non_inclusion = {} /\ DOMAIN write = {}
    /\ stage = "dry" => state_proofs = <<>>
    /\ stage = "verify" => answers = <<>>
    /\ stage \in {"sound", "replay", "done"} => idx = 0
    /\ stage \in {"verify", "sound"} => replayed = 0
    /\ stage \in {"replay", "done"} => Len(answers) = Len(trace)
    /\ stage = "done" => replayed = Len(trace)
    /\ Proving => runtime = RootsAt(Len(answers) + 1) /\ execute = RootsAt(replayed + 1)

IInv ==
    /\ TypeOK /\ TraceTrue /\ OneValue /\ CacheFresh
    /\ AllRecorded /\ OnlyRecorded /\ AllFetched /\ OnlyFetched
    /\ FactsTrue /\ ProofsPassed /\ Progress
    /\ SoundAgrees /\ Completes

-----------------------------------------------------------------------------
(* hdp_cairo/src/injected_state/state.cairo:47, of write_key: "@notice      *)
(* Returns the updated trie root" - in the sound run, at the root the dry   *)
(* run met there.                                                           *)
WriteReturnsUpdatedRoot ==
    \A n \in DOMAIN answers :
        LET call == trace[n].call
        IN  call.op = "write" =>
               answers[n] = Update(trace[n].roots[call.label], call.key, call.value)
=============================================================================
