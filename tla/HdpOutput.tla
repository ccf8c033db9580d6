------------------------------ MODULE HdpOutput ------------------------------
(***************************************************************************)
(* The output of a sound run: the task hash and the root of what the       *)
(* module returned, two felts each, how many accumulators were verified    *)
(* against with either hash function, and these, poseidon before keccak.   *)
(* hdp.cairo writes it, crates/types reads it back.  The identifier and    *)
(* the root of an accumulator are one felt here, the root of a keccak one  *)
(* two.                                                                    *)
(***************************************************************************)
EXTENDS Naturals, Sequences

TaskHash == <<201, 202>>
OutputRoot == <<203, 204>>
MmrId == 205
MmrRoot == 206
MmrRootHigh == 207

PoseidonFelts(meta) == <<MmrId, meta.size, meta.chain, MmrRoot>>
KeccakFelts(meta) == <<MmrId, meta.size, meta.chain, MmrRoot, MmrRootHigh>>

Concatenated(seq, width) ==
    [i \in 1..(width * Len(seq)) |-> seq[(i - 1) \div width + 1][((i - 1) % width) + 1]]

(* mmr_metas_write_output_ptr_mixed: either array is written from where the *)
(* one before it ends.                                                      *)
WriteMetas(poseidon, keccak) ==
    <<Len(poseidon), Len(keccak)>>
      \o Concatenated([n \in DOMAIN poseidon |-> PoseidonFelts(poseidon[n])], 4)
      \o Concatenated([n \in DOMAIN keccak |-> KeccakFelts(keccak[n])], 5)

WriteOutput(poseidon, keccak) == TaskHash \o OutputRoot \o WriteMetas(poseidon, keccak)

-----------------------------------------------------------------------------
(* HDPOutput::from_iter. *)
MetaAt(felts, at, hasher) == [chain |-> felts[at + 2], size |-> felts[at + 1], hasher |-> hasher]

(* Mutant: the counts swapped. *)
FromIterSwapped(felts) ==
    LET poseidon == felts[6]
        keccak == felts[5]
    IN  IF Len(felts) < 6 + 4 * poseidon + 5 * keccak THEN [poseidon |-> <<>>, keccak |-> <<>>]
        ELSE [poseidon |-> [n \in 1..poseidon |-> MetaAt(felts, 7 + 4 * (n - 1), "poseidon")],
              keccak |-> [n \in 1..keccak |-> MetaAt(felts, 7 + 4 * poseidon + 5 * (n - 1), "keccak")]]

FromIter(felts) ==
    LET poseidon == felts[5]
        keccak == felts[6]
    IN  [poseidon |-> [n \in 1..poseidon |-> MetaAt(felts, 7 + 4 * (n - 1), "poseidon")],
         keccak |-> [n \in 1..keccak |-> MetaAt(felts, 7 + 4 * poseidon + 5 * (n - 1), "keccak")]]

(* HDPOutput::to_felt_vec of what was read. *)
ToFeltVec(read) == TaskHash \o OutputRoot \o WriteMetas(read.poseidon, read.keccak)
=============================================================================
