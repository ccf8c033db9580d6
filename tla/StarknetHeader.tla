--------------------------- MODULE StarknetHeader ---------------------------
(***************************************************************************)
(* A Starknet block header as a vector of felts, and its two readers: the  *)
(* Rust one of the hint processors (types/cairo/starknet/header.rs) and    *)
(* the Cairo one of the replay and the verifiers (header_decoder.cairo).   *)
(* A felt is a number; a count is a word of Word values in place of 64     *)
(* bits, so that the four parts packed into one felt can overflow into one *)
(* another and be told apart.                                              *)
(***************************************************************************)
LOCAL INSTANCE Naturals
LOCAL INSTANCE Sequences

Word == 8

Versions == {"legacy", "hash0", "hash1"}

(* The function ids 0..17 of a header, by name where one is needed. *)
HeaderFields == 0..17
BlockNumber == 0
StateRoot == 1
TransactionCount == 4
EventCount == 6
StateDiffLength == 10
L1DataMode == 16
CountFields == {TransactionCount, EventCount, StateDiffLength, L1DataMode}
LegacyFields == 0..8

(* What a block says of a field: counts of their own, another number for    *)
(* every other field.                                                       *)
Content(f) ==
    CASE f = TransactionCount -> 5
      [] f = EventCount -> 3
      [] f = StateDiffLength -> 6
      [] f = L1DataMode -> 1
      [] OTHER -> 100 + f

Pack(txs, events, length, blob) == ((txs * Word + events) * Word + length) * Word + blob * (Word \div 2)
Counts == Pack(Content(TransactionCount), Content(EventCount), Content(StateDiffLength), Content(L1DataMode))

Hash0 == 1000
Hash1 == 1001
GasPricesHash == 1002

(* The felts a block is hashed from, in the order of the version. *)
HashFields(version) ==
    CASE version = "legacy" ->
           <<Content(0), Content(1), Content(2), Content(3), Content(4), Content(5), Content(6),
             Content(7), 0, 0, Content(8)>>
      [] version = "hash0" ->
           <<Hash0, Content(0), Content(1), Content(2), Content(3), Counts, Content(9), Content(5),
             Content(7), Content(15), Content(11), Content(12), Content(13), Content(14),
             Content(17), 0, Content(8)>>
      [] version = "hash1" ->
           <<Hash1, Content(0), Content(1), Content(2), Content(3), Counts, Content(9), Content(5),
             Content(7), Content(15), GasPricesHash, Content(17), 0, Content(8)>>

-----------------------------------------------------------------------------
(* The Rust reader.  The number of fields decides what they are; offset is  *)
(* 1 where the vector begins with its length, as in the memorizer.          *)

LegacyAt == <<0, 1, 2, 3, 4, 5, 6, 7, 10>>
Hash0At == <<1, 2, 3, 4, 5, 7, 5, 8, 16, 6, 5, 10, 11, 12, 13, 9, 5, 14>>

Unreadable == 10000   \* no felt: a panic of the reader, a failed assertion of the program

CountOf(packed, f) ==
    CASE f = TransactionCount -> packed \div (Word * Word * Word)
      [] f = EventCount -> (packed \div (Word * Word)) % Word
      [] f = StateDiffLength -> (packed \div Word) % Word
      [] f = L1DataMode -> (packed % Word) \div (Word \div 2)

HandleLegacy(felts, offset, f) ==
    IF f \in LegacyFields THEN felts[LegacyAt[f + 1] + offset + 1] ELSE 0

HandleHash0(felts, offset, f) ==
    LET felt == felts[Hash0At[f + 1] + offset + 1]
    IN  IF f \in CountFields THEN CountOf(felt, f) ELSE felt

Handle(felts, offset, f) ==
    CASE Len(felts) = 11 + offset -> HandleLegacy(felts, offset, f)
      [] Len(felts) = 17 + offset -> HandleHash0(felts, offset, f)
      [] OTHER -> Unreadable

-----------------------------------------------------------------------------
(* The Cairo reader, of the felts behind their length. *)

WithLength(felts) == <<Len(felts)>> \o felts

(* The felts compute_blockhash reads; one that is not there stops the run.  *)
HashedFelts(felts) ==
    CASE felts[1] = Hash0 -> 17
      [] felts[1] = Hash1 -> 14
      [] OTHER -> 13
Hashable(felts) == Len(felts) >= HashedFelts(felts)

NotThere == 99
Version1At == <<1, 2, 3, 4, 5, 6, 7, 8, 11>> \o [i \in 1..9 |-> NotThere]
Version2At == <<2, 3, 4, 5, 6, 8, 6, 9, 17, 7, 6, 11, 12, 13, 14, 10, 6, 15>>

GetField(data, f) ==
    LET at == (IF data[2] \in {Hash0, Hash1} THEN Version2At ELSE Version1At)[f + 1]
    IN  IF at = NotThere \/ at + 1 > Len(data) THEN Unreadable
        ELSE IF f \in CountFields THEN CountOf(data[at + 1], f)
        ELSE data[at + 1]
=============================================================================
