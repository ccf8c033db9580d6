----------------------------- MODULE TrieStore -----------------------------
(***************************************************************************)
(* What the two tables of one trie label look like while the jobs follow   *)
(* the rules of TrieClient, with the shape of the tree taken away: a write *)
(* adds some inner nodes, then the root, then the leaf row under the       *)
(* root's index, and is acknowledged. A fault is a stutter; so is a lost   *)
(* write sent by a later run, which adds what is missing. TrieClient       *)
(* implements this specification (run linear_chain); here the promise of   *)
(* the server is stated, and TrieStoreProofs proves it for every set of    *)
(* keys and values and any number of nodes and writes.                     *)
(***************************************************************************)
EXTENDS Integers, Sequences, FiniteSetsExt

CONSTANTS Key, Value,
          Zero,    \* the value of an absent key
          Inner    \* the hash of a node that is not a root

Content == [Key -> Value]
Leaf == [key : Key, value : Value]

ASSUME StoreAssumption == Zero \in Value /\ Inner \notin Content

VARIABLES rows,    \* table trie_nodes: rows[i] is the hash stored at trie index i
          leafs,   \* table leafs, in the order of insertion
          chain,   \* the states acknowledged
          want     \* the write in progress: {} or {leaf}

vars == <<rows, leafs, chain, want>>

Empty == [k \in Key |-> Zero]
Newest == chain[Len(chain)]
Target(w) == [Newest EXCEPT ![w.key] = w.value]

Stored(c) == \E i \in DOMAIN rows : rows[i] = c
PairStored(w) == \E j \in DOMAIN leafs : leafs[j].key = w.key /\ leafs[j].value = w.value

(* get_node_idx_by_hash: the first row with the hash. *)
FirstRow(table, c) == Min({i \in DOMAIN table : table[i] = c})
RootIdx(c) == FirstRow(rows, c)

(* Mutant: the bound forgotten. *)
AllHits(table, k, m) == {j \in DOMAIN table : table[j].key = k}

(* get_leaf_at: the newest leaf row of the key not above a root index. *)
Hits(table, k, m) == {j \in DOMAIN table : table[j].key = k /\ table[j].root_idx <= m}
LeafAt(table, k, m) ==
    LET hits == Hits(table, k, m)
    IN  IF hits = {} THEN Zero ELSE table[Max(hits)].value

ReadAt(c, k) == LeafAt(leafs, k, RootIdx(c))

Init == rows = <<>> /\ leafs = <<>> /\ chain = <<Empty>> /\ want = {}

Decide(w) ==
    /\ want = {}
    /\ \A n \in DOMAIN chain : chain[n] # Target(w)
    /\ ~ PairStored(w)
    /\ want' = {w}
    /\ UNCHANGED <<rows, leafs, chain>>

(* Mutant: the root stored again. *)
AddNodeAgain(w, hash) ==
    /\ hash \in {Inner, Target(w)}
    /\ ~ PairStored(w)
    /\ rows' = Append(rows, hash)
    /\ UNCHANGED <<leafs, chain, want>>

AddNode(w, hash) ==
    /\ hash \in {Inner, Target(w)}
    /\ ~ Stored(Target(w))
    /\ rows' = Append(rows, hash)
    /\ UNCHANGED <<leafs, chain, want>>

AddLeaf(w) ==
    /\ Stored(Target(w)) /\ ~ PairStored(w)
    /\ leafs' = Append(leafs, [key |-> w.key, value |-> w.value, root_idx |-> RootIdx(Target(w))])
    /\ UNCHANGED <<rows, chain, want>>

(* Mutant: answered before the leaf row is in. *)
AcknowledgeEarly(w) ==
    /\ Stored(Target(w))
    /\ chain' = Append(chain, Target(w))
    /\ want' = {}
    /\ UNCHANGED <<rows, leafs>>

Acknowledge(w) ==
    /\ PairStored(w)
    /\ chain' = Append(chain, Target(w))
    /\ want' = {}
    /\ UNCHANGED <<rows, leafs>>

Next ==
    \/ \E w \in Leaf : Decide(w)
    \/ \E w \in want :
          \/ AddNode(w, Inner) \/ AddNode(w, Target(w))
          \/ AddLeaf(w)
          \/ Acknowledge(w)

Spec == Init /\ [][Next]_vars

-----------------------------------------------------------------------------
TypeOK ==
    /\ rows \in Seq(Content \union {Inner})
    /\ leafs \in Seq([key : Key, value : Value, root_idx : Nat])
    /\ chain \in Seq(Content) /\ Len(chain) >= 1
    /\ want \in SUBSET Leaf /\ \A v, w \in want : v = w

(* A state that was acknowledged reads back exactly as it was, at every key, *)
(* whatever was written since and in the middle of the next write too: the   *)
(* row order of leafs and the root indices agree on which values belong to   *)
(* which state.                                                              *)
SnapshotReads ==
    \A n \in 2..Len(chain) :
        /\ Stored(chain[n])
        /\ \A k \in Key : ReadAt(chain[n], k) = chain[n][k]

(* The values a read gives at an acknowledged root never change. *)
SnapshotsImmutable ==
    [][\A n \in 2..Len(chain) : \A k \in Key : ReadAt(chain[n], k)' = ReadAt(chain[n], k)]_vars

-----------------------------------------------------------------------------
(* The inductive invariant behind SnapshotReads. *)

(* No root is stored twice, and leaf rows point at stored rows. *)
RootsUnique ==
    \A i, j \in DOMAIN rows : rows[i] = rows[j] /\ rows[i] # Inner => i = j

LeafsBelow == \A j \in DOMAIN leafs : leafs[j].root_idx \in DOMAIN rows

(* The root of the write in progress is the last row, and a new state; its *)
(* leaf comes after it.                                                    *)
WriteLast ==
    \A w \in want :
        /\ \A n \in DOMAIN chain : chain[n] # Target(w)
        /\ Stored(Target(w)) => rows # <<>> /\ rows[Len(rows)] = Target(w)
        /\ PairStored(w) => Stored(Target(w))

(* A row that is not an inner node is the root of a state that was acknowledged or is being written. *)
RowsAreStates ==
    \A i \in DOMAIN rows :
        \/ rows[i] = Inner
        \/ \E n \in DOMAIN chain : chain[n] = rows[i]
        \/ \E w \in want : rows[i] = Target(w)

(* The newest leaf rows are the newest state, or the one being written once its leaf is in. *)
LatestLeafs ==
    \A k \in Key :
        /\ \A w \in want : PairStored(w) => LeafAt(leafs, k, Len(rows)) = Target(w)[k]
        /\ (\A w \in want : ~ PairStored(w)) => LeafAt(leafs, k, Len(rows)) = Newest[k]

IInv == TypeOK /\ RootsUnique /\ LeafsBelow /\ RowsAreStates /\ WriteLast /\ LatestLeafs /\ SnapshotReads
=============================================================================
