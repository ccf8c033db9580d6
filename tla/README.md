# TLA+ models of HDP

HDP (Herodotus Data Processor) proves the result of a Cairo program, the
*module*, that reads on-chain data and its own *injected state*. This directory
holds TLA+ models of the parts whose correctness depends on the order of steps,
TLC configurations that check them on small instances, and TLAPS proofs for
instances of any size.

Paths below are relative to the repository root.

## The system

A job has three programs, run one after the other (`README.md`,
`crates/dry_run`, `crates/fetcher`, `crates/sound_run`):

1. **dry run** - the module runs against live services; every syscall is
   answered by an RPC node or the state server and recorded as a *key*;
2. **fetch proofs** - the keys become header, account, storage, transaction and
   receipt proofs, and the recorded state actions become state proofs;
3. **sound run** - `src/hdp.cairo` verifies the proofs, which fills the
   *memorizers* (dictionaries from a hash of the request to the verified data),
   runs the module again with syscalls answered from the memorizers alone, and
   then replays every syscall in Cairo, asserting its answer.

Two more programs serve these: the **state server** (`crates/state_server`)
holds the tries of the injected state in SQLite, and an **indexer** (external)
holds Merkle mountain ranges of block headers.

### Components

| component | state | operations | interacts with |
|---|---|---|---|
| state server: `mpt/trie`, `mpt/db` | tables `trie_nodes`, `leafs` of each label | `persist_nodes`, `persist_updates`, `persist_leafs`, `get_node_idx_by_hash`, `get_leaf_at`, `get_leaf_proof`, `verify_proof` | SQLite; `pathfinder_merkle_tree` calls back into its storage |
| state server: `api/*` | pools and connections per label; one task per request | `write`, `create_trie`, `read`, `get_state_proofs`, `get_trie_root_node_idx` | the dry run (HTTP), the fetcher (HTTP) |
| dry handler, injected state | read cache, `key_set`, the roots in the memorizer | label, read, write | state server, memorizer |
| dry handlers, EVM / Starknet / unconstrained | `key_set`, RPC caches | one call per field of a header, account, storage slot, transaction, receipt; bytecode | RPC nodes |
| fetcher, state proofs | list of proofs | `collect_state_proofs` | state server |
| fetcher, on-chain proofs | proof maps, MMR metas | `collect_evm_*`, `collect_starknet_*`, range coverage, choice of the hashing function, `try_join!` | indexer, RPC nodes |
| `hdp.cairo`, verifiers | the memorizers | load roots, chain verification, `run_injected_state_verification` | proofs from the file |
| sound handlers | the roots in the memorizer | the same calls, read from the memorizer | memorizer |
| contract bootloader | a syscall pointer, a root of its own per label | `execute_syscalls` | memorizer, the calls the module made |
| `crates/syscall_handler` | syscall pointer | dispatch of `call_contract`, keccak | the handlers above |
| decoders, `utils` (RLP, MPT, MMR, Merkle) | - | pure functions on words | verifiers |
| `hdp_cairo` | EVM interpreter of `eth_call` | gas, memory, stack, call frames | the module |

### What is hard about it

- **Interleaving and atomicity.** A write of the state server is a sequence of
  SQL statements outside a transaction; requests to one label run concurrently
  on their own connections, and there is no UNIQUE constraint on `trie_idx`.
- **Faults.** A failed statement or a stopped process leaves a prefix of those
  statements. The client sends a request once: an error ends its run, and the
  rows stay for the runs that come after. The write of the proofs file truncates
  the old file first, and may be cut.
- **Old states must stay readable.** Proofs are asked for long after later
  writes, at roots that are not the newest.
- **Three runs have to agree.** The sound run must make the calls the dry run
  made, find an entry for each, and give the same answer; the replay keeps a
  root pointer of its own next to the one the handlers keep.
- **Keys that leave something out.** The read cache of the dry run is keyed
  without the root, the memorizer key of a write without the value. Each is
  right only under a condition that is nowhere written down.
- **Order.** State proofs are concatenated in the order of a `HashMap` and
  verified from the last to the first.
- **A moving chain.** The dry run and the fetcher ask for a block by its number,
  several times and of several services; a reorganisation may end in between,
  and the indexer's accumulator grows from one answer to the next.
- **Every datum has three readers.** The dry handler reads a node's JSON, the
  sound handler the verified bytes, the replay the same bytes in Cairo. A field
  is usable only where the three agree.
- **Hints.** What a hint writes is bound by nothing but the assertions that
  follow: the syscall segment by the replay, the walk of a Patricia update by
  the comparison of two lists of siblings.

`PROJECT.json` lists each of these at its line, under `hazards`, with the
properties that watch it.

### What makes each component correct

- *State server*: a root that was acknowledged opens, and reads and proofs at
  it give the content it commits to, for ever; a proof that verifies is true
  whatever the tables hold; calls end.
- *Dry handler*: an answer is the value at the label's current root; every
  access is recorded.
- *Fetcher (state)*: there is a proof for every recorded action.
- *Verifier*: a fact in the memorizer is true, and no later proof changes it.
- *Sound handler, replay*: same answers as the dry run, no missing entry, no
  failed assertion, both root pointers end at the same root.
- *Fetcher (on-chain)*: the file has a proof and a header for every recorded
  key, each header under the accumulator its proof was made in, or it is the
  file that was there before, or one that cannot be loaded.
- *Chain verifiers*: a datum in a memorizer is of the block its key names, as an
  accumulator of the output commits to it.
- *Patricia update*: an accepted write changed one leaf; an honest write is
  accepted.
- *The whole on-chain job*: nothing is published unless every answer the module
  was told is right.

## Modules

```
MerkleTree  <-  Trie  <-  StateServer  <-  ServerLoad            (any load)
                                       <-  TrieClient            (one client with rules)
                                               | implements
                                           TrieStore
                                               | read and write as promised there
                                           InjectedState
PatriciaTree  <-  PatriciaHints           (the hints of the Rust code)
              <-  PatriciaUpdate          (the check of one write)

StarknetHeader, EvmFields, RlpIndex
     |  readings of the data
ChainData  <-  DryRun                                      \
           <-  ProofFetch                                   >  ChainJob  <-  SupportedJob
           <-  ChainVerifier  <-  SoundRun;    HdpOutput   /      | implements
                                                              TrueReads

Proofs:
Trie  <-  MerkleTreeProofs  <-  TrieMeaningProofs  \
                         ServerLoad, TrieClient     >  StateServerProofs
TrieStore  <-  TrieStoreProofs            InjectedState  <-  InjectedStateProofs
SupportedJob  <-  ChainJobProofs
PatriciaUpdate, PatriciaHints  <-  PatriciaProofs
LeastElement                              (induction over numbers)
```

`MC*` modules hold the definitions TLC needs for small instances.

| module | models | how |
|---|---|---|
| `MerkleTree` | `pathfinder_merkle_tree` as the server uses it, and `Storage` in `mpt/db/trie.rs` | Operators. A node hash is the set of (key, value) pairs below the node, so equal hashes mean equal content (no collisions). A tree in memory is a function from places (paths from the root) to nodes, so setting a key, deleting it and committing are definitions over sets of places and not a recursion over the tree. `TrieUpdate` gives the new nodes with their children as stored indices or references to other new nodes, `GetProof` the nodes on the path. Keys are bit sequences of one small length instead of 251. |
| `Trie` | `mpt/trie/mod.rs` | Numbering of new nodes (`NodesToPersist`), opening a root (`CanOpen`, `RootIdx`), `GetLeafProof`, `VerifyProof`, and the records of `get_state_proofs`. |
| `StateServer` | `api/*.rs`, `mpt/db` | `db[label]` is the pair of tables; `call[client]` is the handler serving a client, with the program counter of `persist_updates`; one action per SQL statement. `Crash` and `StatementFails` are bounded by `MaxFaults`. |
| `ServerLoad` | several clients that use all the API accepts | `BeginUpdate` at any root a client was given; read handlers appear as what they would answer in each state. |
| `TrieClient` | the requests of dry runs and fetchers, one job after the other | `Submit` is the write of a run: it is sent once, and `want` is cleared by its answer only. A fault ends the run; `SubmitInNextRun` is the first write of a run started later. Reads and proofs are asked at every root of `chain`, after a write that was lost as well. `Rules` says which writes there are. |
| `TrieStore` | what the server promises | The two tables without the tree shape: rows, leaf rows, the chain of states. `TrieClient!ImplementsStore` is the refinement. |
| `InjectedState` | dry handler, `collect_state_proofs`, `hdp.cairo` / verifier, sound handler, replay | See below. |
| `PatriciaTree` | the nodes both sides of a Patricia update take apart | Operators: `GetChildren`, the nodes and siblings on the way down a path, the content of a tree. |
| `PatriciaHints` | `crates/hints/src/patricia`, over the write proof of the server | Operators: what `build_descent_map` and the preimage answer for one write (`HonestUpdate`). The tree of a content is built level by level from its leaves (`Levels`), and `get_descents` is a function of how far down the key it is. |
| `PatriciaUpdate` | `patricia_update` of `utils/patricia_with_keccak.cairo` with one update, and the steps of its hints | A stack machine: `stack` holds the calls of the traverse functions still to run, `pass` which of the two trees is walked, `siblings` the list each walk makes. An update is guided by honest hints over the two proofs of the server, or by any hints over any two trees. |
| `ChainData` | `crates/types/src/keys`, the memorizer keys, `crates/types/src/proofs` | Keys, what they hash to, calls, and the three readings (`DryReads`, `SoundReads`, `CairoReads`) of each. A block has a committed view and perhaps another; a root is the block and the view it commits to. |
| `EvmFields`, `StarknetHeader`, `RlpIndex` | `types/cairo/*`, `decoders/*`, the keys of the transaction tries | Operators: what each reader makes of each field. `StarknetHeader` has the felts of all three header versions and the four counts packed into one felt, with words of 8 values; `RlpIndex` has the exact numbers. |
| `DryRun` | the dry handlers, `crates/syscall_handler` | `trace`, and the `key_set` of the three handlers. |
| `ProofFetch` | `crates/fetcher`, `crates/indexer_client` | `pending` requests answered in any order within their collector's turn, against `accumulated`, which grows; `file` and whether it is `fresh`. `WriteProofs` is the write that succeeds, `WriteFails` the one that cannot open the file or is cut after truncating it (`TornFile`). |
| `ChainVerifier` | `hdp.cairo`, `verifiers/*`, `memorizers/*` for on-chain data | `idx`, `part` and `left` say where the loops are; the memorizers are `evm`, `starknet`, `bytecodes`. |
| `SoundRun` | the sound handlers and `execute_syscalls.cairo` | `told`, the answers in the syscall segment at their offsets; `syscall_ptr` and `replay_ptr`, each advanced by the sizes its program gives a syscall. |
| `HdpOutput` | the output segment, written in Cairo and read in Rust | Operators on sequences of felts. |
| `ChainJob` | `crates/cli`, `dry_run`, `sound_run`: the commands of a job | Composes the five; `stage` and `output`. A user may run the fetcher again, or go on with an old file; a file that is not there or torn ends the sound run at once (`LoadFails`). |
| `SupportedJob` | what ties one stage of an on-chain job to the next | No action of its own: the invariant `JobInv`, from which it follows which calls a job can be about. |
| `TrueReads` | what an on-chain job promises | Answers, right ones or not; `Publish` only when all are right. |

`InjectedState` follows one job through its stages `dry`, `fetch`, `verify`,
`sound`, `replay`, `done`. A root is what it commits to: a function from keys to
values. Variables and code:

| variable | code |
|---|---|
| `runtime` | memorizer entries under `LABEL_RUNTIME`, moved by the handlers |
| `execute` | memorizer entries under `LABEL_EXECUTE`, moved by the replay |
| `inclusion`, `non_inclusion`, `write` | memorizer entries under those tags |
| `read_cache`, `key_set` | fields of the dry handler |
| `waiting`, `state_proofs` | the labels left and the result of `collect_state_proofs` |
| `idx` | argument of `run_injected_state_verification_inner` |
| `answers`, `replayed` | the responses of the sound run, how many the replay has checked |
| `trace` | no variable of the code: the calls of the module, with the roots they met and the answer of the dry run |

Actions carry the stage in their name: `DryRead` is the arm `Read` of the dry
handler, `SoundRead` that of the sound handler, `ReplayRead` the branch
`call_handler_id == 1` of `execute_syscall`. The module is deterministic: as long
as its answers are those of the dry run, its next call in the sound run is the
one in the trace. `trace` is what the two runs have in common, and `SoundAgrees`
justifies its use.

`ChainJob` follows one on-chain job through the commands: `dry`, `fetch`,
`verify`, `run`, `replay`, and how it ended. A module is its calls: it makes
those of its dry run as long as it gets the same answers, and any of
`OtherCalls` after that. What lies between two observable points is one action:
one call of a handler, one request of a collector with its answer, one group of
headers or one loop over proofs of a kind, one syscall of the replay. A loop over
proofs only adds to a dictionary that nothing reads before the loop after it, so
a step each would show nothing more; the groups of headers are steps of their
own, in any order, because the file's order of them is that of a `HashMap`.

A module may rely on the calls its three readers agree about. These are the
definitions `Supported*` in `ChainJob`, and they are exact: inside the table a
job is not rejected (`Completes`), outside of it nothing is published
(`OnlySupported`). Outside of it are

| call | why |
|---|---|
| header: extra data; withdrawals root and the blob fields | the Rust reader has no such field |
| `tx_data`, access list, blob hashes | no reader has them as a felt |
| `v` of an untyped transaction | the Rust readers answer the parity, the Cairo one reads the recovery id |
| receiver of a contract creation | the Rust readers fail, the Cairo one reads the empty string |
| chain id of an EIP-155 transaction | only the Rust readers have it |
| receipts and logs of EIP-7702 transactions | the sound handler leaves their type byte on |
| log data that is not whole words | the Cairo decoder wants words of 32 bytes |
| addresses that begin with a zero byte | their bytes are too few to convert |
| an account, a slot of an account, or a Starknet slot that is not there | the dry run reads zero, the verifier or the sound handler has nothing to open |
| Starknet headers of the legacy and the second hash version, slots of legacy blocks | a header of the first has fewer felts than the verifier hashes, one of the second a number of felts the Rust reader does not know |
| a transaction, log or topic that is not there; a fee field its type does not have | no reader has a value |
| keccak of no words or with one byte of padding | the replay finds the length from the byte 0x80 at the end |

### Rules

The code is right under conditions it does not check. They are constants
(`Rules`) of the two modules that have a client. Those of `TrieClient` are about
the writes of all the jobs that use a trie, so they are rules for whoever starts
the jobs; a job run again from its first root, for one, breaks `newest_root`.
Taking a rule out of `Rules` in
`linear_chain.cfg` or `job.cfg` makes TLC show what the rule is for; four of
these outcomes are runs of their own, each against a sentence of the
documentation.

| rule | module | without it |
|---|---|---|
| `newest_root` | `TrieClient` | a write at an older root computes indices that are taken, its rows are skipped, and the root it returns cannot be opened: `AckedRootsOpen` fails |
| `new_pair` | `TrieClient` | run `repeated_value` |
| `not_empty` | `TrieClient` | after the last key is deleted the placeholder row holds the index the next write starts with, whose root cannot be opened: `AckedRootsOpen` fails |
| `lost_first` | `TrieClient` | the first write after one that failed is not that write: run `lost_write` |
| `new_root` | `TrieClient` | a state reached twice has two rows for its root; `TrieStore` has one |
| `one_value` | `InjectedState` | run `same_root_write` |
| `no_delete` | `InjectedState` | a key deleted by writing zero reads as existing in the dry run and as absent in the sound run: `SoundAgrees` fails |
| `known_label` | `InjectedState` | run `missing_label` |

Two things hold of a single client only. With a second client in
`linear_chain.cfg` a run may be started while the write of one that was stopped
is still being served; that write then adds its leaf row after a later one, and
`ReadsMatchRoots` fails. And two writes at one root that interleave between the SELECT and the INSERT of
`persist_nodes` store two rows at one `trie_idx`, which the comment there means
to avoid (`mpt/db/trie.rs:80`); `RootsDoNotMove`, `ChildrenStored` and
`VerifiedProofsAreTrue` are what remains true then.

## Runs

| run | checks | shows |
|---|---|---|
| `linear_chain` | `TypeOK` `RootsCommitToMeaning` `AckedRootsOpen` `ReadsMatchRoots` `ReadProofsVerify` `WriteProofsVerify` `ImplementsStore` | across a fault that ends a run, with all rules, every acknowledged state stays readable and provable, in the middle of a write and after a lost one, and the tables refine `TrieStore` |
| `any_load` | `TypeOK` `ChildrenStored` `VerifiedProofsAreTrue` `RootsDoNotMove` | whatever clients write, node rows never dangle, the index of a root never moves, and proofs that verify are true even over corrupted tables |
| `faults_under_load` | `ChildrenStored` `RootsDoNotMove` `CallsEnd` | the same with `create_trie` and a fault, and every call ends |
| `trie_store` | `IInv` `SnapshotReads` `SnapshotsImmutable` | the invariant of `TrieStoreProofs` on a small instance |
| `job` | `TypeOK` `IInv` `SoundAgrees` `Completes` `DryReadsTrue` `RootsMeet` `FactsStay` | a job whose module keeps the rules is proved with the answers of its dry run, with two tries, one of them perhaps not injected, fetched in either order |
| `chain_job` | `JobInv` `Completes` `OnlySupported` `MemorizersTrue` `OutputCommits` `FileIsWhole` `KeepsPromise` `CommandsEnd` | an on-chain job, for each field of each kind of datum and for pairs of calls, under reorganisations, growing accumulators, failing fetches, cut writes of the file and old files: what is supported is proved, the rest is rejected, and what is published is right |
| `patricia_update` | `OnlyTheKeyChanged` `HonestWritesAreAccepted` `DescentsAreLongest` | any hints over any two trees: an accepted write changed its own leaf only; the hints of the Rust code: every write is accepted but the deletions that leave the key beside a binary node |
| `repeated_value` | `ReadsMatchRoots` | *violated*: writing a, b, a reads b |
| `lost_write` | `AckedRootsOpen` | *violated*: the write after one that failed is lost, unless it is the same |
| `same_root_write` | `WriteReturnsUpdatedRoot` | *violated*: two values written to one key at the same root share one entry |
| `missing_label` | `Completes` | *violated*: asking for a label that is not there cannot be replayed |

### Bounds

- `linear_chain`: keys `00`, `01`, `11`: a pair that shares its first edge and
  one that does not, so insertions split edges, extend them, and turn edges into
  binary nodes; values 1 and 2, and 0 to delete; four writes are enough for
  insert, overwrite, delete and an insert into the shrunk tree. One fault can
  hit any statement of any of them; after it the tables hold any first part of
  what a write adds, and a second fault would leave such a part as well.
- `any_load`: two clients, two keys, three updates, each at any root known so
  far: the interleavings of two statement sequences from the same and from
  different roots, with a third update over what they left. A third client
  brings no new pair of statements. It has no faults: a write that was cut short
  is also a prefix of a write still in progress.
- `faults_under_load`: two updates, one of them perhaps a `create_trie` of two
  leaves, and a stop of the process or a failed statement anywhere.
- `job`: two labels and two keys, each trie absent, empty or holding one pair,
  so that the labels reach the same roots and only the label keeps their facts
  apart; three calls: write, write back and write again is the collision of
  memorizer keys, write and read of one key uses the cache.
- `trie_store`: three writes and six rows; the proof has no bound.
- `chain_job`: one EVM and one Starknet chain; three blocks, of the EVM ages
  before and after the base fee and with requests, and of the three Starknet
  header versions; a transaction of every type, at indices on both sides of each
  step of their RLP; every field of everything as a module of one call, and all
  pairs of nine calls as modules of two, which meet the same header, another
  header of the chain, the other chain, and a failing call after a good one. One
  block may be served in either view (`Unsettled`), accumulators hold one block
  more or less at the start (`MaxSize`), the fetcher runs twice (`MaxFetches`),
  and an old file with one account may lie at the output path. The two runs of
  the fetcher are a write that is cut and one after it; every part of a file is
  one `TornFile`, since no part of a JSON object is one.
- `patricia_update`: honest writes of every value (zero, new, unchanged) to every
  key of every tree with up to three leaves of height 4: an edge, a node, an
  edge and a node below each other, with descents of one to four levels. Any
  hints: every tree of height 2, with the forms the server never makes (empty
  children, zero leaves, edges over edges), every key, value and second tree.
  A step of a walk looks at one node and its children, so height 2 has every
  pair of consecutive steps.

### Fairness

`FairLoadSpec` assumes weak fairness of the steps of a handler: a tokio task
that can run is run, and SQLite answers. Faults, new updates and crashes have no
fairness. `TrieClient` assumes none: the dry run does not send a write again, so
that one is acknowledged in the end is nothing the code promises.
`ChainJob` assumes weak fairness of the steps of a command that runs: the Cairo
VM goes on, and every request of the fetcher is answered or fails
(`crates/fetcher` sets no other limit, so a request that hangs for ever is
excluded). That the user starts the next command is not assumed; `CommandsEnd`
is about each command alone, and `MaxFetches` bounds how often one is started.
Deadlock is off in runs whose bounded load or job ends.

## Proofs

### `TrieStoreProofs`

For any keys, values, number of inner nodes and number of writes: `Spec =>
[]SnapshotReads` (a read at the n-th acknowledged root gives the n-th state) and
`Spec => SnapshotsImmutable` (no step changes it). `SnapshotReads` alone is not
inductive: a read depends on which row a root was found at and which leaf rows
are at or below it. `IInv` adds

- `RootsUnique`: a state is stored at one row, so the first row is the row;
- `LeafsBelow`, `WriteLast`: leaf rows point at rows that exist, and the root
  being written is the last row, so a new leaf row is above every older root;
- `RowsAreStates`: a row that is not an inner node belongs to a state of the
  chain or to the write in progress;
- `LatestLeafs`: the newest leaf rows are the newest state, or the one being
  written once its leaf is in.

`AddLeaf` is the interesting case: the new row has an index greater than that
of every acknowledged root, so it is in no older read's range, and at the new
root it hides exactly the older value of its key.

### `InjectedStateProofs`

`TypeCorrect` holds whatever the module does. The rest assumes that it keeps
the three rules (`Rules = AllRules`) and holds for any labels, keys, values and
number of calls, and for every order in which labels are fetched: the sound run
agrees with the dry run (`SoundRunAgrees`), the job is not rejected
(`JobCompletes`), the read cache is right (`DryRunReadsTrue`), the two root
pointers meet (`RootsMeetAtTheEnd`), and no proof changes an earlier one's fact
(`FactsNeverChange`).

None of these is inductive: that the n-th sound answer is right depends on an
entry put there by a proof, fetched for an action, recorded for a call of the
dry run. `IInv` is that chain, a conjunct per link:

- `TraceTrue`, `CacheFresh`: the roots in the trace follow from its writes, and
  its answers are what those roots hold; the cache holds values of the current
  roots. A write moves one key of one root and refreshes that cache entry, which
  is why leaving the root out of the cache key is right - as long as no one
  deletes: the cache would say that the key exists;
- `AllRecorded` / `OnlyRecorded`, `AllFetched` / `OnlyFetched`: the actions are
  those of the trace, and the proofs those of the actions;
- `FactsTrue`, `ProofsPassed`: an entry of the memorizer is true of the root in
  its key, and every proof passed has one. For writes this needs `OneValue`: an
  entry has no value in its key, and belongs to the call it is read for because
  every write there wrote the same value;
- `Progress`: how far each stage has come, and that `runtime` and `execute` are
  the roots after as many calls as the sound run has answered and the replay
  has checked.

The proof has a lemma per stage, and in each a step per action. A call of the
sound run or the replay is the same argument every time: its entry is in the
memorizer (`ReadFact`, `WriteFact`), so it gives the dry answer and moves the
root as the dry run did.

### `ChainJobProofs`

For any chains, blocks, upgrades, modules, reorganisations, growth of the
accumulators, and for old files that are a fetcher's (`FetchAssumption`: their
groups name accumulators of their own chain, `InOwnChain`):

- `MemorizersCorrect`: a datum in a memorizer is of the block its key names, in
  the committed view. The dictionaries are keyed by a hash of the request;
  `KeysApart` shows that no two data of one dictionary share a key, which needs
  the tags of transactions and receipts, and the number of words for the rest.
- `FileCorrect`: a finished fetch left a proof of every key. One that ended with
  an error left the old file, or, when the write was cut, a torn one, and no
  sound run gets past loading that. The invariant behind it is
  `NothingForgotten`: while the fetcher runs, what is not collected yet is asked
  for; `FileInUse` has what can be loaded.
- `OutputCorrect`: the published output, read back, has an accumulator of the
  file for every header; `OutputReadBack` is the lemma that the two layouts are
  inverse, for any number of accumulators.
- `PromiseKept`: `ChainJob` implements `TrueReads`. What the handlers tell the
  module is not trusted in this argument: `Segment` says that answers lie behind
  one another in the segment and that the replay has asserted all before its
  pointer, so when both pointers meet every answer was asserted against a
  memorizer, and those hold the truth by `MemorizersTrue`.

`IInv` joins these: `TypeOK`, `NothingForgotten`, `FileInUse` (the loops go
through the file the sound run was started with), `MemorizersTyped`,
`MemorizersTrue`, `HeadersCommitted`, `Segment`. There is a lemma per command
and a step per action in it.

### `ChainJobProofs`: supported jobs

The two halves of the table of supported calls, for modules of any length over
any of the calls the handlers understand:

- `CompletesCorrect`: a job in the state `failed` was disturbed. `Undisturbed`
  says what it may be disturbed by, and nothing else: a call outside the table,
  a node that served the other view of a block, a fetcher that did not finish
  or whose write failed (so that the sound run took an old file, or had none it
  could load), or an accumulator of a
  Starknet chain that was built with keccak, which
  `verifiers/starknet/header_verifier.cairo` does not read.
- `OnlySupportedCorrect`: no published output rests on a call outside the table.
- `IndexReadBack`: every index up to `LastIndex` (two bytes of RLP; no block
  holds as many transactions) comes back from its trie key, with its whole path.

`JobInv` is the chain from a call to the assertion of its answer, a conjunct per
link, on top of `IInv`:

- `TraceKept`: the keys are those of the calls the dry run could read, and its
  answers are what it read. `Completes` would be false otherwise: a call that
  is supported but was not recorded has no proof.
- `FetchKept`: every proof is for such a key, a slot comes with its account, a
  header of the accumulator that its group names; bytecode is complete. Without
  it a verifier could meet a proof of something it cannot open.
- `Progress`: where the loops are, all that was passed is in a memorizer. It
  joins `FileIsWhole` (the file has a proof of every key) to the sound run
  (every key is found).
- `MemorizersOpened`: what is in a memorizer was there to be opened: the account
  exists, the slot was written, the header is of a version with enough felts.
  `OnlySupported` rests on it.
- `ToldAsRead`, `Contiguous`, `ToldAsAsked`: an answer is what the sound handler
  reads off the entry, the answers fill the segment, and an undisturbed module
  makes the calls of its dry run and no other. So the replay, which starts at
  the first answer and moves by sizes of its own, is always at the begin of an
  answer to a call of the program.

Then a supported call has one reading, since `Supported*` compares the tables of
the three readers (`DryReads`, `SoundReads`, `CairoReads`): that they agree inside
it and that two of them differ outside of it are lemmas per kind of datum, each
a finite table of fields and of ages, versions or types, but for any number of
logs and topics and any content of a block. What is assumed of the constants is
`DataAssumption` (a transaction has one of the five types, its index has at most
two bytes), `FetchAssumption` (old files are a fetcher's: `InOwnChain`,
`Collectable`) and `ChainAssumption` (no chain is twice in a file).

### `PatriciaProofs`

For any hints, `OnlyTheKeyChangedCorrect`: whatever the hints answer, whatever the two roots
hash and however long the key is, an accepted update changed the leaf of its key
from the old value to the new one, and no other. `UpdatesAssumption` is all
that is assumed: a key is bits, a descent of an honest hint is at least one bit,
and what stands for the hash of a node above the leaves is not taken for a
number, "a hash (which we assume to be > MAX_LENGTH)"
(`patricia_with_keccak.cairo:64`). The trees need not be well formed: empty
children, edges over edges and nodes that open as nothing are in it. Nor is it
assumed that a walk stays on the way to the key; that it did follows from where
it ends.

`IInv` says of a walk:

- `AtOneCall`: it is at one call, the node it is about (`Meaning`) is the node at
  the end of its path, and the siblings it has listed are those beside the path
  (`Lists`: for some division of the path, each entry is the sibling at one bit,
  or the number of two or more empty ones);
- or `Parted`: it went both ways once. Calls and updates together are then two
  or more for good, as a leaf is one update and a second update is not there, so
  this walk never comes to an end. That is why going both ways, which the code
  allows at every node, needs no invariant of two paths;
- or `AtTheEnd`: it has reached the leaf of the key, with the value of the update.

`OutcomesGo` (with a lemma per traverse function) says that a call reaches the
leaf, parts, or goes down a word listing its siblings; down an edge or an empty
tree the word has any length. When both walks have ended with one list,
`SameOffset` shows that the list divides the path in one way only: an entry that
is a number of two or more is no sibling above the leaves, and at the last bit
there is no room for a run. So the siblings are the same (`SameSiblings`), every
other leaf is below one of them (`OtherLeaves`), and the contents differ at the
key alone (`ContentAfter`). Remove the comparison of entries, the check that a
leaf is at the key, or the two lists' equal length, and a lemma fails.

For the hints of the Rust code, over the two proofs the state server makes of a
write, and for keys of any length and contents of any size:

- `AWriteIsAnUpdate`: the two trees hold the content and the content with the
  value put, the two values are those of the key in them, and all that
  `UpdatesAssumption` asks of an update is so. It is not assumed of a write.
- `DescentsAreLongestCorrect`: the descents recorded are those that can be made,
  each as far as it goes.
- `HonestWritesAreAcceptedCorrect`: only a write of zero that leaves its key
  beside a binary node is rejected, and such a write is never accepted.

The last two have one hypothesis, `HonestUpdatesAreWrites`: an update with
honest hints is `HonestUpdate` of a content, a key and a value. The constant of
the run is that by its definition (`MCHonestUpdates`). The argument:

- *The tree of a content.* Every place of it is well formed (`NodeShape`: no
  empty child, no edge over an edge), its children are the places after it
  (`ChildAt`), and it is empty exactly when no leaf is below (`EmptyPlace`). So
  the tree holds the content (`ContentOfTree`), a write changes nothing beside
  the way to its key (`SiblingsStay`), and something is beside the way exactly
  where a leaf parts from it (`BesideTheWay`).
- *Descents.* `DescentsSoFar` is the invariant of `get_descents` on its way down
  the key: the map has all descents that start before the one it is in, and
  `PartsAreParts` says that the places where it stops are those where a leaf of
  either tree leaves the key.
- *One route.* The walk has no choice left. It visits the places where a descent
  starts or ends, which are the same in both trees, and at each it lists what is
  beside the key there, or the number of empty levels (`Entry`). `Route` says
  that a list is what has been listed up to a place; two lists of one route are
  prefixes of each other (`RoutesAgree`), so the second walk always meets the
  entry it compares with, and both lists have one length in the end.
- *No call fails*, with one exception. There is a lemma per traverse function
  (`HonestEmpty`, `HonestBinaryOrLeaf`, `HonestEdge`, ...): the node is in the
  preimage since it is a stored node of a proof (`Proved`), the recorded descent
  stays within the edge, and the leaf has the value of the update. The exception
  is the second walk at an edge of one bit that the key leaves, to a binary
  node: `Stuck`.
- *The exception is the property's.* `ExposedIs`: the tree after the write has
  such an edge on the way exactly when the leaves are as `BesideABinaryNode`
  says, which is about paths and not about nodes.

`HInv`, the invariant behind it (`HonestWalksKeepTheirWay`), says that a walk is
at a place of the route with the list of that place, that the second has not
gone by an exposed node, and what a verdict means.

The induction over the length of a word or a path is `UpTo` in `LeastElement`: a
set that holds 0, and with each number the next, holds them all. It follows from
the library's theorem that a well-founded relation has minimal elements, which
is about sets and so, unlike the theorems about operators, can be used.

### `MerkleTreeProofs`, and the server under any load (`StateServerProofs`)

For any labels, clients, keys (of any length), values, batches and numbers of
updates, steps and faults, on tables that other writers may have spoilt:

- `ChildrenAreStored`: no row refers to an index without a row;
- `RootsStay`: the index a root opens at never changes;
- `GivenProofsAreTrue`: a proof that the server would answer with and that
  `verify_proof` accepts is true;
- `LoadTyped`: the types of the tables and the handlers.

`ChildrenStored` is not inductive. Between two statements of a write it rests on
the rows that are still to come: each must refer to a row that is stored or to
one that comes before it. `LoadInv` says that (`Pending`) of every call that
inserts nodes, next to the form of rows, roots and calls. A row that is skipped
because its index is taken leaves `Pending` true of the rest, since all it needs
is that the index has a row, whoever wrote it; that is why a lost race cannot
leave a child missing, although it can give a parent a child of the wrong
content.

`Pending` holds when a write begins because of what a commit returns
(`TrieUpdateGood`, `RowsArePending`). The argument is about a tree in memory
while keys are set and deleted, and the invariant of the tree is `Good`: the
root is there and every node has its children (`Closed`), what lies below a node
lies below one of its children (`Laminar`), an edge is not empty, and what is
unresolved is an index with a row (`FromStore`). Resolving, splitting an edge, cutting a leaf and merging edges each keep it
(`TraverseGood`, `SplitGood`, `CutLeafGood`), for any stored nodes. Then
`Before`, the order in which a commit adds nodes, is a total order of the places
(`BeforeTotal`) with children before their parents, so `Position` numbers the
added nodes without gaps (`PositionOnto`) and a reference in a node is to an
index with a row or to a smaller position.

`ProofsAreTrue` is about `verify_proof` alone, for any list of nodes: a walk
that has reached height `h` expects a hash, and that hash holds exactly the rest
of the pairs of the root whose keys agree with the key of the leaf up to `h`. So
a hash of one leaf at the end means the pair is in the root, and an edge that
leaves the key means no pair of the key is. `TrieUpdateGood` adds that what a
write commits to is a hash at all, and `GetProofIs` that the nodes handed out
are nodes whatever the tables hold. Hashes are what they commit to, so it is
assumed that two contents have different hashes. Of the constants only
`ServerAssumption` and `LoadAssumption` are used: keys are of one length and not
empty, values are numbers.

### `TrieMeaningProofs`, and one client with rules (`StateServerProofs`)

For one client that keeps all the rules (`Rules = AllRules`, `Client = {c}`), and
any labels, keys of any length, values, number of writes and faults, every
invariant of `linear_chain` and its refinement:

- `RootsCommit`: the root of a write is the content before it with the key set;
- `AckedRootsStayOpen`: an acknowledged root opens ever after;
- `ReadsMatch`, `ReadProofsHold`, `WriteProofsHold`: what a read answers, and
  the proofs that `get_state_proofs` gives, are right at every state of the trie;
- `ServerImplementsStore`: the tables of a trie implement `TrieStore`, given that
  there is a label and that the mapping's `Inner` is not itself a state. Inner
  rows, the root, the leaf row and the answer are its steps; a fault, a lost
  write sent by a later run, a row found stored, a read and everything done to
  other labels are stutters;
- `ClientTyped`: the types, as under any load.

None of these is inductive. A root is right because the siblings `commit` reads
from the tables stand for what they say, and these were stored by earlier writes,
one statement at a time. `ClientInv` says of each label that it is in one of two
conditions (`LabelState`):

- no write is on its way or was lost, and the tables are `Settled` at the states acknowledged:
  every row stands at the index it carries and is true of its children
  (`TrueTables`), each state but the empty one has one row for its root and no
  other row covers whole keys (`RootsAt`), and for each state the newest leaf row
  at or below its root's index has the value of that state (`LeafsAt`);
- or there is one: then there are settled tables on which it began, and the
  tables now are those with the first `m` rows of what the write adds, and with
  its leaf row at most when all of them are in (`Begun`). If a call serves the
  write, what it has still to insert is the rest (`Serving`); if there is none -
  a fault took it, and with it the run - nothing else is known, and nothing else is
  needed: when a later run sends the write, it computes the same rows from a
  grown table (`UpdateSame`), skips those that are stored and goes on. Until
  then, and if no run ever does, what is read and proved at the states
  acknowledged is as it was (`ToldProof`, `ToldWriteProof`).

The proof is in layers, each about any tables:

- *What a table means.* `Below(C, p)` is the part of a content below a place.
  `TrueNode` says a row's hash is made of those of its children. A tree in memory
  `Means` a content when its leaves are keys of it, each unresolved place has the
  hash of what lies below, and nothing is left out. Resolving, splitting an edge,
  cutting a leaf and merging edges each keep that or change it by the one key
  (`ResolvedMeans`, `SetInTreeMeans`), and the ends of a tree commit to the
  content (`HashAtMeans`), so an update does what it should and its new nodes are
  true (`UpdateMeans`).
- *Proofs.* `get_proof` walks down true rows while `verify_proof` faces the hash
  of what lies below (`ProofStepHonest`), for every form of node, so its answer is
  the right one (`ProofMeans`).
- *Tables in the middle of a write.* They are true themselves, and all that
  was readable and provable in them still is; with the last row they are settled
  at the longer history (`WriteSettles`). This is where the rules enter. Without
  `new_pair` the leaf row is not added, without `new_root` the root has two rows,
  and without
  `not_empty` the placeholder row of the empty root takes the next write's index.
- *The steps of server and client.* One lemma per action that `ClientInv` is
  kept, and, with the same facts, one per step of `TrieStore`.

`LeafsAt` is about every key, also of those without a value (no leaf row, or one
of zero), and says besides that a content gives a key one value, so that
`Lookup` has one to choose. The induction over the steps of a walk is `UpTo`
again.

### Not proved

Every invariant and every action property of the passing runs is a theorem. What
is left:

- Liveness under fairness (`CallsEnd`, `CommandsEnd`): TLC only; the
  prover has no rules for it that its backends can carry out.
- That the server's answers in `InjectedState` are right (`ServerReply`,
  `ProofOf`) is a definition there. What it says is what `StateServerProofs`
  proves of the server, for a client that keeps the rules of `TrieClient`. The
  two sets of rules are not the same: a job that is right by `InjectedState` may
  still lose a write in the server if it repeats a pair or returns to a root.
- That a job's writes are the writes of `HonestUpdatesAreWrites`: the server
  module proves what its roots and proofs mean (`StateServerProofs`), the
  Patricia modules have trees of nodes. The two are joined by what each says of
  contents, not by a theorem.
- Theorems of `TrieStoreProofs` hold of the server's tables by
  `ServerImplementsStore`; the prover does not instantiate theorems of another
  module, so they are not stated again.

## Findings

The four violations are documented in `PROJECT.json` with the line of the code
and the sentence it disagrees with. On the server, rows are keyed by an index
computed from the root written at, and a write is no transaction, so a write
that failed and ended its run loses the next run's (`lost_write`); leaf rows are
unique by key and value, so a value written again reads as the one in between
(`repeated_value`). In a job, the memorizer keeps one new root for all writes to
a key at a root (`same_root_write`), and asking for a label that is not there
passes the dry and the sound run and fails in the replay (`missing_label`). The
other conditions under which the code is right are in the table of rules.

## Not modelled

- Bytes: JSON, SQL, encodings of nodes, felts as integers, hashing (a hash is
  what it commits to). Hash collisions are therefore excluded, and that a Merkle,
  MPT or MMR proof opens its root is one comparison of roots. `PatriciaUpdate`
  and `MerkleTree` do have the nodes of their trees.
- The check of a read proof in Cairo (`mpt.cairo`'s `traverse`) in
  `InjectedState`: a read proof there is true. Writes are in `PatriciaUpdate`.
- Deletions in `InjectedState`: the rule `no_delete`. The two things that go
  wrong with them are in the model of the part they belong to: the answer of the
  dry run's cache (`SoundAgrees` without the rule), and the check of a write in
  Cairo, which asks for the preimage of an edge's bottom by a hint that no crate
  registers (`crates/hints/src/lib.rs`). `HonestWritesAreAccepted` says exactly
  which writes of zero are lost to it.
- `hdp_cairo`: the API of a module is calls, each in `ChainJob` or
  `InjectedState`; the EVM interpreter of `eth_call` runs inside the module and
  changes no state of a job.
- `infer_mmr_sources_from_indexer` with its block ranges (`crates/fetcher`) and
  `TrieDB::delete_leaf`: neither has a caller.
- `arbitrary_type` calls are `debug` calls: both are answered with something no
  proof is about, and the replay skips both.
- The Cairo VM, the bootloader's loading of a class, PIE and STARK proofs;
  `main.rs`, argument parsing, tracing, metrics, Docker, tests and examples.
- A node row's buffer of 256 bytes (the largest node fits by its size) and the
  double lock of `get_connection` (both operations are idempotent) were looked
  at and hold nothing to check.

## Plan

What could come next:

1. **`EvmFrames`** - `hdp_cairo`'s EVM: call frames, gas, memory growth, revert.
2. **`Mmr`, `MptPath`** - the verifiers' walks along an accumulator and along a
   Merkle Patricia path, against reference definitions over bounded inputs.
3. **One job of both kinds** - `ChainJob` and `InjectedState` share the segment
   and the replay; a module with calls of both is each of them in turn today.
4. More proofs: `InjectedState` over the promises of `TrieStore` instead of
   `ServerReply`, so that one argument reaches from the tables to the replay.
