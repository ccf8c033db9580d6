------------------------------ MODULE RlpIndex ------------------------------
(***************************************************************************)
(* The key of a transaction or a receipt in the trie of its block: the RLP *)
(* encoding of its index, handed on as a number.  What the number has lost *)
(* of the path, its leading zero nibble, is counted from its hexadecimal   *)
(* form; the Cairo verifier has to find the same path, and the index.      *)
(* Indices have up to two bytes.                                           *)
(***************************************************************************)
LOCAL INSTANCE Naturals

LastIndex == 65535

RlpBytes(index) == CASE index < 128 -> 1 [] index \in 128..255 -> 2 [] OTHER -> 3

RlpKey(index) ==
    CASE index = 0 -> 128
      [] index \in 1..127 -> index
      [] index \in 128..255 -> 129 * 256 + index
      [] OTHER -> 130 * 65536 + index

Hexadecimal(key) ==
    CASE key < 16 -> 1
      [] key >= 16 /\ key < 256 -> 2
      [] key >= 256 /\ key < 4096 -> 3
      [] key >= 4096 /\ key < 65536 -> 4
      [] key >= 65536 /\ key < 1048576 -> 5
      [] OTHER -> 6
LeadingZeroNibbles(key) == Hexadecimal(key) % 2

(* The path the verifier goes down has the nibbles of the encoding. *)
WholePath(key, bytes) == LeadingZeroNibbles(key) + Hexadecimal(key) = 2 * bytes

IndexOf(key) ==
    CASE key = 128 -> 0
      [] key < 256 /\ key # 128 -> key
      [] key >= 256 /\ key < 65536 -> key % 256
      [] OTHER -> key % 65536
=============================================================================
