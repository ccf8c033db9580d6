----------------------------- MODULE EvmFields -----------------------------
(***************************************************************************)
(* The fields of Ethereum headers, accounts, storage slots, transactions,  *)
(* receipts and logs, by the function ids of types/cairo/evm, as their two *)
(* readers see them: the Rust one that answers the module's calls and the  *)
(* Cairo decoders of the replay, which assert the answer.  The value of a  *)
(* field is its number; what else a reader can make of one has a number    *)
(* of its own.                                                             *)
(***************************************************************************)
LOCAL INSTANCE Naturals

Unreadable == 10000   \* a panic of the Rust reader, a failed assertion of the Cairo one
Parity == 100         \* 0 or 1
RecoveryId == 101     \* 27, 28 or 35 + 2 * chain id + parity
NoReceiver == 102     \* the empty receiver of a transaction that creates a contract
WrongField == 103     \* the value of another field

If(readable, value) == IF readable THEN value ELSE Unreadable

-----------------------------------------------------------------------------
(* Headers.  age counts the upgrades that had added fields when the block   *)
(* was made: the base fee, withdrawals, blobs, requests.                    *)
HeaderFields == 0..20
ExtraData == 12
BaseFeePerGas == 15
RequestsHash == 20
AddedBy(f) == CASE f = BaseFeePerGas -> 1 [] f = 16 -> 2 [] f \in 17..19 -> 3 [] f = RequestsHash -> 4 [] OTHER -> 0

RustHeader(age, f) ==
    If(f \in (0..15 \ {ExtraData}) \union {RequestsHash} /\ AddedBy(f) <= age, f)

CairoHeader(age, f) == If(f # ExtraData /\ AddedBy(f) <= age, f)

(* Accounts: nonce, balance, storage root, code hash.  The proof that an    *)
(* account does not exist leaves the empty string, which is no account.     *)
AccountFields == 0..3
RustAccount(exists, f) == If(exists, f)
CairoAccount(exists, f) == If(exists, f)

RustStorage(f) == f
CairoStorage(f) == f

-----------------------------------------------------------------------------
(* Transactions. *)
TxFields == 0..18
GasPrice == 1
Receiver == 3
TxData == 5
TxV == 6
ChainIdField == 9
AccessList == 10
MaxFeePerBlobGas == 13
BlobVersionedHashes == 14

TxTypes == {"legacy", "eip155", "eip2930", "eip1559", "eip4844", "eip7702"}
TypeByte(type) ==
    CASE type \in {"legacy", "eip155"} -> 0
      [] type = "eip2930" -> 1 [] type = "eip1559" -> 2
      [] type = "eip4844" -> 3 [] type = "eip7702" -> 4

EveryTx == {0, 2, Receiver, 4, TxV, 7, 8, 16, 17, 18}
LegacyTx == EveryTx \union {GasPrice}
Eip155Tx == LegacyTx \union {ChainIdField}
Eip2930Tx == EveryTx \union {ChainIdField, GasPrice}
Eip1559Tx == EveryTx \union {ChainIdField, 11, 12}
Eip4844Tx == EveryTx \union {ChainIdField, 11, 12, MaxFeePerBlobGas}
Eip7702Tx == EveryTx \union {ChainIdField, 11, 12}

RustTxFields(type) ==
    CASE type = "legacy" -> LegacyTx [] type = "eip155" -> Eip155Tx
      [] type = "eip2930" -> Eip2930Tx [] type = "eip1559" -> Eip1559Tx
      [] type = "eip4844" -> Eip4844Tx [] type = "eip7702" -> Eip7702Tx

RustTx(tx, f) ==
    IF f = TxV THEN Parity
    ELSE If(f \in RustTxFields(tx.type) /\ (f = Receiver => ~tx.creates), f)

(* TxTypeFieldMap: a row of 15 per type, the last one a field short.        *)
CairoTxFields(type) ==
    CASE type \in {"legacy", "eip155"} -> LegacyTx \ {16, 17, 18}
      [] type = "eip2930" -> Eip2930Tx \ {16, 17, 18}
      [] type = "eip1559" -> Eip1559Tx \ {16, 17, 18}
      [] type = "eip4844" -> Eip4844Tx \ {16, 17, 18}
      [] type = "eip7702" -> (Eip7702Tx \ {16, 17, 18}) \union {MaxFeePerBlobGas}

CairoTx(tx, f) ==
    CASE f \in {16, 17, 18} -> f
      [] f \in {TxData, AccessList, BlobVersionedHashes} \/ f = 15 -> Unreadable
      [] f = Receiver /\ tx.creates -> NoReceiver
      [] f = TxV -> IF TypeByte(tx.type) = 0 THEN RecoveryId ELSE Parity
      [] f = MaxFeePerBlobGas /\ tx.type = "eip7702" -> WrongField
      [] OTHER -> If(f \in CairoTxFields(tx.type), f)

-----------------------------------------------------------------------------
(* Receipts and their logs.  The dry run has the receipt from a node, the   *)
(* sound run its bytes: there a type byte has to be taken off first.        *)
ReceiptFields == 0..2
LogFields == 0..6
LogData == 6

OpenReceipt(type) == TypeByte(type) < 4
OpenLogs(type) == TypeByte(type) < 4
CairoOpenReceipt(type) == TypeByte(type) <= 4

DryReceipt(f) == f
SoundReceipt(type, f) == If(OpenReceipt(type), f)
CairoReceipt(type, f) == If(CairoOpenReceipt(type), f)

(* A log with topics many topics; it may not be there at all.  The data are *)
(* words of 32 bytes to the Cairo decoder.                                  *)
DryLog(log, f) == If(log.exists /\ (f \in 1..5 => f <= log.topics), f)
SoundLog(type, log, f) == If(OpenLogs(type), DryLog(log, f))
CairoLog(type, log, f) ==
    If(CairoOpenReceipt(type) /\ log.exists /\ (f = LogData => log.words)
         /\ (f \in 1..5 => f <= log.topics), f)
=============================================================================
