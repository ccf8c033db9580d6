---------------------------- MODULE SupportedJob ----------------------------
(***************************************************************************)
(* The inductive invariant behind Completes and OnlySupported: which keys  *)
(* a proofs file is about, how far the verifiers have come with it, and    *)
(* what the answers in the segment were read from.                         *)
(***************************************************************************)
EXTENDS ChainJob

(* The keys of the dry run are those of the calls it could read. *)
KeysAsked(handler) == {KeyOf(program[n]) : n \in {m \in DOMAIN trace : HandlerOf(program[m]) = handler}}
TraceKept ==
    /\ Len(trace) <= Len(program)
    /\ stage \notin {"dry", "failed", "gave_up"} => Len(trace) = Len(program)
    /\ evm_keys = KeysAsked("evm")
    /\ starknet_keys = KeysAsked("starknet")
    /\ bytecode_keys = KeysAsked("bytecode")
    /\ \A n \in DOMAIN trace :
         /\ Convertible(program[n]) /\ DryReads(program[n]) # Unreadable
         /\ trace[n] = Answer(DryReads(program[n]), trace[n].view)

(* Every proof is for such a key, and a slot comes with its account. *)
BatchForKeys(chain, batch) ==
    /\ batch.meta.hasher = Hasher[chain] /\ batch.proven \subseteq {batch.meta.size}
    /\ \A h \in batch.headers :
         /\ Commits(batch.meta, h)
         /\ \E key \in evm_keys \union starknet_keys : key.chain = chain /\ key.block = h.block
ForAccount(chain, i) ==
    \E key \in evm_keys : /\ key.kind \in {"account", "storage"} /\ key.chain = chain
                          /\ i = ItemIn(AccountKeyOf(key), i.root.view)
ForSlot(keys, chain, i) == i.key \in OfKind(keys, "storage", chain) /\ i = ItemIn(i.key, i.root.view)
ForIndex(kind, chain, i) ==
    \E key \in OfKind(evm_keys, kind, chain) : i = Item(TrieKey(key), Header(chain, key.block, i.root.view))
EvmForKeys(chain, p) ==
    /\ \A i \in p.accounts : ForAccount(chain, i)
    /\ \A i \in p.storages :
          ForSlot(evm_keys, chain, i) /\ \E a \in p.accounts : a.key = AccountKeyOf(i.key)
    /\ \A i \in p.txs : ForIndex("tx", chain, i)
    /\ \A i \in p.receipts : ForIndex("receipt", chain, i)
StarknetForKeys(chain, p) ==
    /\ p.accounts = {} /\ p.txs = {} /\ p.receipts = {}
    /\ \A i \in p.storages : ForSlot(starknet_keys, chain, i)
ChainForKeys(chain, p) ==
    /\ \A b \in p.batches : BatchForKeys(chain, b)
    /\ chain \in EvmChain => EvmForKeys(chain, p)
    /\ chain \in StarknetChain => StarknetForKeys(chain, p)
ProofsForKeys(proofs) ==
    /\ \A c \in Chain : ChainForKeys(c, proofs.chain[c])
    /\ \A i \in proofs.bytecode : i.key \in bytecode_keys

HasBytecode(proofs, key) == \E i \in proofs.bytecode : i.key = key
FetchKept ==
    /\ ~fetching => pending = {}
    /\ pending \subseteq AllRequests(evm_keys, starknet_keys, bytecode_keys)
    /\ fetching => /\ ProofsForKeys(fetched)
                   /\ \A key \in bytecode_keys : Request("bytecode", key) \in pending \/ HasBytecode(fetched, key)
    /\ fresh => /\ ProofsForKeys(file)
                /\ \A key \in bytecode_keys : HasBytecode(file, key)
    /\ CanBeRead(file) => Collectable(file)

-----------------------------------------------------------------------------
(* Of the chains that are left, the verifiers have the last in hand.        *)
Turns == [headers |-> 1, accounts |-> 2, starknet_storages |-> 2, storages |-> 3, txs |-> 4, receipts |-> 5]
Passed(n, step) == n > idx \/ (n = idx /\ part \in DOMAIN Turns /\ Turns[part] > Turns[step])
KeyIn(chain, key) == [key EXCEPT !.chain = chain]
IndexedIn(chain, key) == [key EXCEPT !.chain = chain, !.at = <<Rlp!IndexOf(@[1])>>]
HeadersHeld(dict, chain, batches) ==
    \A b \in batches : \A h \in b.headers : InMemorizer(dict, HeaderKey(chain, h.block))

StepsOf(c) ==
    IF c \in EvmChain THEN {"headers", "accounts", "storages", "txs", "receipts"}
    ELSE {"headers", "starknet_storages"}
Memorized(step, c) ==
    CASE step = "headers" -> HeadersHeld(IF c \in EvmChain THEN evm ELSE starknet, c, file.chain[c].batches)
      [] step = "accounts" -> \A i \in file.chain[c].accounts : InMemorizer(evm, KeyIn(c, i.key))
      [] step = "storages" -> \A i \in file.chain[c].storages : InMemorizer(evm, KeyIn(c, i.key))
      [] step = "txs" -> \A i \in file.chain[c].txs : InMemorizer(evm, IndexedIn(c, i.key))
      [] step = "receipts" -> \A i \in file.chain[c].receipts : InMemorizer(evm, IndexedIn(c, i.key))
      [] step = "starknet_storages" ->
            \A i \in file.chain[c].storages : InMemorizer(starknet, KeyIn(c, i.key))
Progress ==
    /\ part = "load" => idx = Len(ChainOrder)
    /\ part # "load" => \A i \in file.bytecode : InMemorizer(bytecodes, i.key)
    /\ part = "headers" =>
         HeadersHeld(IF chain_id \in EvmChain THEN evm ELSE starknet, chain_id, BatchesOf(file) \ left)
    /\ \A n \in DOMAIN ChainOrder : \A step \in StepsOf(ChainOrder[n]) :
         Passed(n, step) => Memorized(step, ChainOrder[n])
    /\ stage \in {"run", "replay", "published"} => Verified

(* What got into a memorizer could be asked for and was opened. *)
EvmOpened(key) ==
    /\ key.kind \in {"account", "storage"} => key.at[1] \notin ShortAddress
    /\ key.kind = "storage" => key.at[1] \in Account
    /\ key.kind \in {"tx", "receipt"} => key.at[1] \in DOMAIN Tx
StarknetOpened(key) == Version[key.block] # "legacy" /\ (key.kind = "storage" => key.at[2] \in SetSlot)
MemorizersOpened ==
    /\ \A k \in DOMAIN evm : EvmOpened(evm[k].key)
    /\ \A k \in DOMAIN starknet : StarknetOpened(starknet[k].key)
    /\ \A k \in DOMAIN bytecodes : bytecodes[k] \in file.bytecode /\ bytecodes[k].key.at[1] \notin ShortAddress

-----------------------------------------------------------------------------
(* An answer is what the sound handler reads off its memorizer. *)
ReadFrom(dict, cell) ==
    LET item == dict[KeyHash(cell.call)]
    IN  /\ HasEntry(dict, cell.call)
        /\ cell.answer = Answer(ReadBy(SoundReads(cell.call), item, cell.call), item.root.view)
SoundAnswer(cell) ==
    CASE HandlerOf(cell.call) = "evm" -> ReadFrom(evm, cell) /\ cell.answer.value # Unreadable
      [] HandlerOf(cell.call) = "starknet" -> ReadFrom(starknet, cell) /\ cell.answer.value # Unreadable
      [] HandlerOf(cell.call) = "bytecode" -> ReadFrom(bytecodes, cell)
      [] OTHER -> cell.answer = Answer(SoundReads(cell.call), "committed")
ToldAsRead == \A n \in DOMAIN told : SoundAnswer(told[n])

(* The answers fill the segment, and the replay is at the begin of one. *)
Contiguous ==
    /\ \A n \in DOMAIN told : told[n].at = IF n = 1 THEN 0 ELSE End(told[n - 1])
    /\ syscall_ptr = IF told = <<>> THEN 0 ELSE End(told[Len(told)])
    /\ replay_ptr \in {told[n].at : n \in DOMAIN told} \union {syscall_ptr}

(* The module makes the calls of the dry run and gets its answers. *)
ToldAsAsked ==
    Undisturbed => Len(told) <= Len(program) /\ AsBefore /\ \A n \in DOMAIN told : told[n].call = program[n]

JobInv ==
    /\ IInv /\ FileIsWhole
    /\ TraceKept /\ FetchKept
    /\ Progress /\ MemorizersOpened
    /\ ToldAsRead /\ Contiguous /\ ToldAsAsked
    /\ Completes
=============================================================================
