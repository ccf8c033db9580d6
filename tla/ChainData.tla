----------------------------- MODULE ChainData -----------------------------
(***************************************************************************)
(* What an HDP module can ask of the chains, and how it is named: the keys *)
(* of crates/types/keys and the memorizer keys they hash to, the calls of  *)
(* the module and what each reader makes of the data behind one.           *)
(*                                                                         *)
(* A block has a view: the committed one, or another one a node may serve  *)
(* before a reorganisation ends.  Everything a call can read differs       *)
(* between the two.  A root (of a state, of the receipts) is what it       *)
(* commits to, so all the roots of a block are the block and its view.     *)
(***************************************************************************)
EXTENDS Naturals, Sequences

CONSTANTS
    ChainOrder,      \* the chains of a proofs file, in its order
    EvmChain,        \* those the EVM handlers know
    StarknetChain,   \* those the Starknet handlers know
    Block,           \* block numbers
    Age,             \* Age[block]: the upgrades before an EVM block
    Version,         \* Version[block]: the hash version of a Starknet block
    Place,           \* addresses and slots: what names a datum of a block
    Account,         \* the addresses with an account
    ShortAddress,    \* the addresses that begin with a zero byte
    SetSlot,         \* the Starknet storage slots that were written
    Tx,              \* Tx[index]: the transactions of an EVM block
    Log,             \* Log[index]: the logs of a transaction
    Unsettled        \* <<chain, block>> a node may serve in the other view

Sn == INSTANCE StarknetHeader
Evm == INSTANCE EvmFields
Rlp == INSTANCE RlpIndex

Elements(seq) == {seq[n] : n \in DOMAIN seq}
IsSequence(seq) == seq \in Seq(Elements(seq))

View == {"committed", "other"}
Served(chain, block) == IF <<chain, block>> \in Unsettled THEN View ELSE {"committed"}
Chain == {ChainOrder[n] : n \in DOMAIN ChainOrder}

ASSUME ChainAssumption ==
    /\ ChainOrder \in Seq(Nat)
    /\ \A i, j \in DOMAIN ChainOrder : ChainOrder[i] = ChainOrder[j] => i = j
    /\ EvmChain \union StarknetChain = Chain
    /\ EvmChain \intersect StarknetChain = {}
    /\ Block \subseteq Nat

ASSUME DataAssumption ==
    /\ \A b \in Block : Age[b] \in Nat /\ Version[b] \in Sn!Versions
    /\ DOMAIN Tx \subseteq 0..Rlp!LastIndex
    /\ \A n \in DOMAIN Tx : Tx[n].type \in Evm!TxTypes
    /\ \A n \in DOMAIN Log : Log[n].topics \in Nat

-----------------------------------------------------------------------------
(* A key names data by its place: an account by its address, a slot by the  *)
(* address and the slot (high and low word on EVM chains), a transaction or *)
(* a receipt by its index.                                                  *)
Key(kind, chain, block, at) == [kind |-> kind, chain |-> chain, block |-> block, at |-> at]
HeaderKey(chain, block) == Key("header", chain, block, <<>>)
AccountKey(chain, block, address) == Key("account", chain, block, <<address>>)

HeaderKeyOf(key) == HeaderKey(key.chain, key.block)
AccountKeyOf(key) == AccountKey(key.chain, key.block, key.at[1])

(* at is one place for an account, three for a slot on an EVM chain and two *)
(* on a Starknet chain; transactions and receipts have an index.            *)
KeysOf(kinds, chains, ats) == [kind : kinds, chain : chains, block : Block, at : ats]
Places(n) == [1..n -> Place]
HeaderKeys(chains) == KeysOf({"header"}, chains, {<<>>})
AccountKeys == KeysOf({"account"}, EvmChain, Places(1))
StorageKeys == KeysOf({"storage"}, EvmChain, Places(3))
SlotKeys == KeysOf({"storage"}, StarknetChain, Places(2))
IndexKeys(kind) == KeysOf({kind}, EvmChain, [1..1 -> Nat])
BytecodeKeys == KeysOf({"bytecode"}, Chain, Places(1))

EvmKeys ==
    HeaderKeys(EvmChain) \union AccountKeys \union StorageKeys
      \union IndexKeys("tx") \union IndexKeys("receipt")
StarknetKeys == HeaderKeys(StarknetChain) \union SlotKeys

(* The key of a datum in the memorizer, before it is hashed, as the Cairo   *)
(* program stores it.                                                       *)
HashParams(key) ==
    CASE key.kind = "header" -> <<key.chain, key.block>>
      [] key.kind \in {"account", "bytecode"} -> <<key.chain, key.block, key.at[1]>>
      [] key.kind = "storage" /\ key.chain \in EvmChain ->
            <<key.chain, key.block, key.at[1], key.at[2], key.at[3]>>
      [] key.kind = "storage" /\ key.chain \in StarknetChain ->
            <<key.chain, key.block, key.at[1], key.at[2]>>
      [] key.kind = "tx" -> <<key.chain, "block_tx", key.block, key.at[1]>>
      [] key.kind = "receipt" -> <<key.chain, "block_receipt", key.block, key.at[1]>>

-----------------------------------------------------------------------------
(* Calls.  kind is the contract address of the syscall, at the rest of the  *)
(* calldata, field the selector; a call to the keccak handler has the words *)
(* of its input and its last byte there, one to the debug contract nothing. *)
Call(kind, chain, block, at, field) ==
    [kind |-> kind, chain |-> chain, block |-> block, at |-> at, field |-> field]

EvmKinds == {"header", "account", "storage", "tx", "receipt", "log"}
StarknetKinds == {"header", "storage"}

HandlerOf(call) ==
    CASE call.kind \in {"keccak", "debug", "bytecode"} -> call.kind
      [] call.kind \in EvmKinds /\ call.chain \in EvmChain -> "evm"
      [] call.kind \in StarknetKinds /\ call.chain \in StarknetChain -> "starknet"
      [] OTHER -> "none"

(* CairoKey::hash of each kind of key, of the calldata of a call: where the *)
(* sound handlers look the datum up.  A log is looked up in its receipt.    *)
HeaderHash(call) == <<call.chain, call.block>>
AccountHash(call) == <<call.chain, call.block, call.at[1]>>
StorageHash(call) == <<call.chain, call.block, call.at[1], call.at[2], call.at[3]>>
TxHash(call) == <<call.chain, "block_tx", call.block, call.at[1]>>
ReceiptHash(call) == <<call.chain, "block_receipt", call.block, call.at[1]>>
LogHash(call) == <<call.chain, "block_receipt", call.block, call.at[1]>>
StarknetHeaderHash(call) == <<call.chain, call.block>>
StarknetStorageHash(call) == <<call.chain, call.block, call.at[1], call.at[2]>>

EvmHash(call) ==
    CASE call.kind = "header" -> HeaderHash(call)
      [] call.kind = "account" -> AccountHash(call)
      [] call.kind = "storage" -> StorageHash(call)
      [] call.kind = "tx" -> TxHash(call)
      [] call.kind = "receipt" -> ReceiptHash(call)
      [] call.kind = "log" -> LogHash(call)

StarknetHash(call) ==
    IF call.kind = "header" THEN StarknetHeaderHash(call) ELSE StarknetStorageHash(call)

KeyHash(call) ==
    CASE HandlerOf(call) = "evm" -> EvmHash(call)
      [] HandlerOf(call) = "starknet" -> StarknetHash(call)
      [] HandlerOf(call) = "bytecode" -> AccountHash(call)

(* An address is converted from its bytes without leading zeros: too few    *)
(* bytes are an error.  The block, the index and the slot always convert.   *)
AccountConvertible(call) == call.at[1] \notin ShortAddress
StorageConvertible(call) == call.at[1] \notin ShortAddress

Convertible(call) ==
    CASE HandlerOf(call) = "bytecode" \/ (HandlerOf(call) = "evm" /\ call.kind = "account") ->
            AccountConvertible(call)
      [] HandlerOf(call) = "evm" /\ call.kind = "storage" -> StorageConvertible(call)
      [] OTHER -> TRUE

(* The key a dry run records of a call; of a log, the one of its receipt.   *)
KeyOf(call) ==
    IF call.kind = "log" THEN Key("receipt", call.chain, call.block, <<call.at[1]>>)
    ELSE Key(call.kind, call.chain, call.block, call.at)

(* The function ids of a datum; a slot has one. *)
Fields(call) ==
    CASE call.kind = "header" -> IF call.chain \in EvmChain THEN Evm!HeaderFields ELSE Sn!HeaderFields
      [] call.kind = "account" -> Evm!AccountFields
      [] call.kind = "storage" -> {0}
      [] call.kind = "tx" -> Evm!TxFields
      [] call.kind = "receipt" -> Evm!ReceiptFields
      [] call.kind = "log" -> Evm!LogFields

(* The calls the handlers understand name data that way. *)
Callable(call) ==
    CASE HandlerOf(call) = "evm" -> KeyOf(call) \in EvmKeys /\ call.field \in Fields(call)
      [] HandlerOf(call) = "starknet" -> KeyOf(call) \in StarknetKeys /\ call.field \in Fields(call)
      [] HandlerOf(call) = "bytecode" -> KeyOf(call) \in BytecodeKeys
      [] OTHER -> TRUE

-----------------------------------------------------------------------------
(* What the readers make of the data: a number, or Unreadable. *)
Unreadable == Evm!Unreadable
Answer(value, view) == [value |-> value, view |-> view]
Nothing == 104        \* the zero a node answers for an account that is not there
Failure == 105        \* the failure flag of a syscall, and its error data

HasTx(call) == call.at[1] \in DOMAIN Tx
TheTx(call) == Tx[call.at[1]]
TheLog(call) ==
    IF call.at[2] \in DOMAIN Log THEN Log[call.at[2]] ELSE [exists |-> FALSE, topics |-> 0, words |-> TRUE]

(* The input of keccak is padded by the program, to blocks of 17 words.  A  *)
(* number of words that is no block makes the syscall fail; the replay      *)
(* finds the padding from the end, where it expects the byte 0x80: not in   *)
(* an input of no words, nor where one byte is all of the padding, 0x81.    *)
FullRate == 17
LastPadding == 128
Keccak(call) == IF call.at[1] % FullRate = 0 THEN 0 ELSE Failure
CairoKeccak(call) ==
    IF call.at[1] % FullRate = 0 /\ call.at[1] > 0 /\ call.at[2] = LastPadding THEN 0 ELSE Unreadable

(* The dry handlers, on the answer of a node, which knows the transactions  *)
(* by their index: one that is not there cannot be read.                    *)
DryHeader(call) == Evm!RustHeader(Age[call.block], call.field)
DryAccount(call) == IF call.at[1] \in Account THEN call.field ELSE Nothing
DryStorage(call) == IF call.at[1] \in Account THEN Evm!RustStorage(call.field) ELSE Nothing
DryTx(call) == IF HasTx(call) THEN Evm!RustTx(TheTx(call), call.field) ELSE Unreadable
DryReceipt(call) == IF HasTx(call) THEN Evm!DryReceipt(call.field) ELSE Unreadable
DryLog(call) == IF HasTx(call) THEN Evm!DryLog(TheLog(call), call.field) ELSE Unreadable

DryEvm(call) ==
    CASE call.kind = "header" -> DryHeader(call)
      [] call.kind = "account" -> DryAccount(call)
      [] call.kind = "storage" -> DryStorage(call)
      [] call.kind = "tx" -> DryTx(call)
      [] call.kind = "receipt" -> DryReceipt(call)
      [] call.kind = "log" -> DryLog(call)

(* The sound handlers, on the bytes behind the pointer of the memorizer. *)
SoundHeader(call) == Evm!RustHeader(Age[call.block], call.field)
SoundAccount(call) == Evm!RustAccount(call.at[1] \in Account, call.field)
SoundStorage(call) == Evm!RustStorage(call.field)
SoundTx(call) == Evm!RustTx(TheTx(call), call.field)
SoundReceipt(call) == Evm!SoundReceipt(TheTx(call).type, call.field)
SoundLog(call) == Evm!SoundLog(TheTx(call).type, TheLog(call), call.field)

SoundEvm(call) ==
    CASE call.kind = "header" -> SoundHeader(call)
      [] call.kind = "account" -> SoundAccount(call)
      [] call.kind = "storage" -> SoundStorage(call)
      [] call.kind = "tx" -> SoundTx(call)
      [] call.kind = "receipt" -> SoundReceipt(call)
      [] call.kind = "log" -> SoundLog(call)

CairoEvm(call) ==
    CASE call.kind = "header" -> Evm!CairoHeader(Age[call.block], call.field)
      [] call.kind = "account" -> Evm!CairoAccount(call.at[1] \in Account, call.field)
      [] call.kind = "storage" -> Evm!CairoStorage(call.field)
      [] call.kind = "tx" -> Evm!CairoTx(TheTx(call), call.field)
      [] call.kind = "receipt" -> Evm!CairoReceipt(TheTx(call).type, call.field)
      [] call.kind = "log" -> Evm!CairoLog(TheTx(call).type, TheLog(call), call.field)

(* A slot of a Starknet contract has one field, whoever reads it. *)
StarknetFelts(call) == Sn!HashFields(Version[call.block])
DryStarknetHeader(call) == Sn!Handle(StarknetFelts(call), 0, call.field)
DrySlot(call) == call.field
SoundStarknetHeader(call) == Sn!Handle(Sn!WithLength(StarknetFelts(call)), 1, call.field)
SoundSlot(call) == call.field

DryStarknet(call) == IF call.kind = "header" THEN DryStarknetHeader(call) ELSE DrySlot(call)
SoundStarknet(call) == IF call.kind = "header" THEN SoundStarknetHeader(call) ELSE SoundSlot(call)
CairoStarknet(call) ==
    IF call.kind = "header" THEN Sn!GetField(Sn!WithLength(StarknetFelts(call)), call.field) ELSE call.field

DryReads(call) ==
    CASE HandlerOf(call) = "evm" -> DryEvm(call)
      [] HandlerOf(call) = "starknet" -> DryStarknet(call)
      [] HandlerOf(call) = "keccak" -> Keccak(call)
      [] OTHER -> 0

SoundReads(call) ==
    CASE HandlerOf(call) = "evm" -> SoundEvm(call)
      [] HandlerOf(call) = "starknet" -> SoundStarknet(call)
      [] HandlerOf(call) = "keccak" -> Keccak(call)
      [] OTHER -> 0

(* What the replay asserts of an answer; it has none for a failed syscall.  *)
CairoReads(call) ==
    CASE HandlerOf(call) = "evm" -> CairoEvm(call)
      [] HandlerOf(call) = "starknet" -> CairoStarknet(call)
      [] HandlerOf(call) = "keccak" -> CairoKeccak(call)
      [] OTHER -> 0

-----------------------------------------------------------------------------
(* A header in a view, and an item of a proofs file: data under a key and   *)
(* the block its proof opens.                                               *)
Header(chain, block, view) == [chain |-> chain, block |-> block, view |-> view]
Item(key, root) == [key |-> key, root |-> root]
TrieKey(key) == [key EXCEPT !.at = <<Rlp!RlpKey(@[1])>>]
ItemIn(key, view) == Item(key, Header(key.chain, key.block, view))

(* An accumulator commits to the headers of the blocks up to its size.      *)
Meta(chain, size, hasher) == [chain |-> chain, size |-> size, hasher |-> hasher]
Commits(meta, header) ==
    /\ header.chain = meta.chain
    /\ header.block \in Block /\ header.block <= meta.size
    /\ header.view = "committed"

(* A group of headers names one accumulator; proven are the sizes it had    *)
(* when the proofs of the headers were made.                                *)
HashingFunction == {"poseidon", "keccak"}
HeaderSet == [chain : Chain, block : Block, view : View]
ItemsOf(keys) == [key : keys, root : HeaderSet]
Batches == [meta : [chain : Chain, size : Nat, hasher : HashingFunction], headers : SUBSET HeaderSet,
            proven : SUBSET Nat]
ChainProofSets ==
    [batches : SUBSET Batches,
     accounts : SUBSET ItemsOf(AccountKeys),
     storages : SUBSET ItemsOf(StorageKeys \union SlotKeys),
     txs : SUBSET ItemsOf(IndexKeys("tx")),
     receipts : SUBSET ItemsOf(IndexKeys("receipt"))]
ProofSets == [chain : [Chain -> ChainProofSets], bytecode : SUBSET ItemsOf(BytecodeKeys)]

(* The proofs of a chain are about its own blocks. *)
InOwnChain(proofs) ==
    /\ \A c \in Chain : \A b \in proofs.chain[c].batches : b.meta.chain = c
    /\ \A c \in EvmChain : proofs.chain[c].storages \subseteq ItemsOf(StorageKeys)
    /\ \A c \in StarknetChain : proofs.chain[c].storages \subseteq ItemsOf(SlotKeys)

(* What a proofs file can be about: keys that were converted, transactions  *)
(* that are there.                                                          *)
Collectable(proofs) ==
    /\ \A c \in EvmChain :
         /\ \A i \in proofs.chain[c].accounts \union proofs.chain[c].storages : i.key.at[1] \notin ShortAddress
         /\ \A i \in proofs.chain[c].txs \union proofs.chain[c].receipts :
               \E n \in DOMAIN Tx : i.key.at[1] = Rlp!RlpKey(n)
    /\ \A i \in proofs.bytecode : i.key.at[1] \notin ShortAddress

NoChainProofs == [batches |-> {}, accounts |-> {}, storages |-> {}, txs |-> {}, receipts |-> {}]
NoProofs == [chain |-> [c \in Chain |-> NoChainProofs], bytecode |-> {}]

Empty == [x \in {} |-> x]
=============================================================================
