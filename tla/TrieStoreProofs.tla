-------------------------- MODULE TrieStoreProofs --------------------------
(***************************************************************************)
(* Proofs about TrieStore: under the rules of TrieClient every state the   *)
(* state server acknowledged reads back unchanged for ever.                *)
(***************************************************************************)
EXTENDS TrieStore, TLAPS, WellFoundedInduction

Row == Content \union {Inner}
LeafRow == [key : Key, value : Value, root_idx : Nat]

(* A hash that no two rows share is found at its row. *)
LEMMA FirstRowIsOnly ==
  ASSUME NEW table \in Seq(Row), NEW c, NEW i \in DOMAIN table, table[i] = c,
         \A j \in DOMAIN table : table[j] = c => j = i
  PROVE  FirstRow(table, c) = i
<1>1. {j \in DOMAIN table : table[j] = c} = {i}
  OBVIOUS
<1>2. Min({i}) = i
  BY DEF Min
<1> QED BY <1>1, <1>2 DEF FirstRow

(* Appending to a table leaves the rows it has where they are. *)
LEMMA AppendRow ==
  ASSUME NEW S, NEW table \in Seq(S), NEW r \in S
  PROVE  /\ Append(table, r) \in Seq(S)
         /\ Len(Append(table, r)) = Len(table) + 1
         /\ DOMAIN Append(table, r) = DOMAIN table \union {Len(table) + 1}
         /\ Len(table) + 1 \notin DOMAIN table
         /\ \A i \in DOMAIN table : Append(table, r)[i] = table[i]
         /\ Append(table, r)[Len(table) + 1] = r
  OBVIOUS

(* A nonempty set of row numbers has a greatest one: the row get_leaf_at     *)
(* orders first.                                                           *)
LEMMA LastOfRows ==
  ASSUME NEW n \in Nat, NEW S \in SUBSET (1..n), S # {}
  PROVE  Max(S) \in S /\ \A i \in S : i <= Max(S)
<1> DEFINE T == {n - j : j \in S}
           R == OpToRel(<, Nat)
<1>1. T \subseteq Nat /\ T # {}
  <2>1. \A j \in S : n - j \in Nat
    OBVIOUS
  <2>2. PICK j \in S : TRUE
    OBVIOUS
  <2>3. n - j \in T
    OBVIOUS
  <2> QED BY <2>1, <2>3
<1>2. \E x \in T : \A y \in T : ~ (<<y, x>> \in R)
  <2> HIDE DEF T, R
  <2>1. IsWellFoundedOn(R, Nat)
    BY NatLessThanWellFounded DEF R
  <2> QED BY <1>1, <2>1, WFMin
<1>3. PICK x \in T : \A y \in T : ~ (<<y, x>> \in R)
  BY <1>2
<1>4. ASSUME NEW y \in T PROVE x <= y
  <2>1. x \in Nat /\ y \in Nat
    BY <1>1
  <2>2. y < x => <<y, x>> \in R
    BY <2>1 DEF OpToRel
  <2>3. ~ (y < x)
    BY <1>3, <1>4, <2>2
  <2> QED BY <2>1, <2>3
<1>5. PICK j \in S : x = n - j
  OBVIOUS
<1>6. ASSUME NEW i \in S PROVE i <= j
  <2>1. n - i \in T
    OBVIOUS
  <2>2. n - j <= n - i
    BY <1>4, <1>5, <2>1
  <2> QED BY <2>2
<1>7. \E h \in S : \A i \in S : h >= i
  BY <1>6
<1>8. Max(S) \in S /\ \A i \in S : Max(S) >= i
  BY <1>7 DEF Max
<1> QED BY <1>8

(* A leaf row above the bound does not change what is read below it. *)
LEMMA ReadBelowNewLeaf ==
  ASSUME NEW table \in Seq(LeafRow), NEW r \in LeafRow, NEW k, NEW m \in Nat,
         m < r.root_idx
  PROVE  LeafAt(Append(table, r), k, m) = LeafAt(table, k, m)
<1> DEFINE new == Append(table, r)
<1>1. Hits(new, k, m) = Hits(table, k, m)
  <2>1. DOMAIN new = DOMAIN table \union {Len(table) + 1}
    BY AppendRow
  <2>2. \A j \in DOMAIN table : new[j] = table[j]
    BY AppendRow
  <2>3. new[Len(table) + 1] = r
    BY AppendRow
  <2>4. ~ (r.root_idx <= m)
    BY DEF LeafRow
  <2> QED BY <2>1, <2>2, <2>3, <2>4 DEF Hits
<1>2. \A j \in Hits(table, k, m) : new[j] = table[j]
  BY AppendRow DEF Hits
<1>3. CASE Hits(table, k, m) = {}
  BY <1>1, <1>3 DEF LeafAt
<1>4. CASE Hits(table, k, m) # {}
  <2> DEFINE hits == Hits(table, k, m)
             last == Max(hits)
  <2>1. hits \subseteq 1..Len(table)
    BY DEF Hits
  <2>2. last \in hits
    <3> HIDE DEF hits
    <3>1. hits # {} /\ Len(table) \in Nat
      BY <1>4 DEF hits
    <3> QED BY <2>1, <3>1, LastOfRows
  <2> QED BY <1>1, <1>2, <1>4, <2>2 DEF LeafAt
<1> QED BY <1>3, <1>4

(* A leaf row at or below the bound is the one that is read for its key, *)
(* and is not seen for the others.                                       *)
LEMMA ReadNewLeaf ==
  ASSUME NEW table \in Seq(LeafRow), NEW r \in LeafRow, NEW k, NEW m \in Nat,
         r.root_idx <= m
  PROVE  LeafAt(Append(table, r), k, m) = IF k = r.key THEN r.value ELSE LeafAt(table, k, m)
<1> DEFINE new == Append(table, r)
           n == Len(table) + 1
           hits == Hits(new, k, m)
<1>1. /\ DOMAIN new = DOMAIN table \union {n}
      /\ \A j \in DOMAIN table : new[j] = table[j]
      /\ new[n] = r
      /\ n \notin DOMAIN table
  BY AppendRow
<1>2. CASE k = r.key
  <2>1. n \in hits
    BY <1>1, <1>2 DEF Hits
  <2>2. \A i \in hits : i <= n
    BY <1>1 DEF Hits
  <2>3. hits \subseteq 1..n
    BY <1>1 DEF Hits
  <2>4. Max(hits) = n
    <3>1. Max(hits) \in hits /\ \A i \in hits : i <= Max(hits)
      <4>1. n \in Nat /\ hits # {}
        BY <2>1
      <4> HIDE DEF hits, n
      <4> QED BY <2>3, <4>1, LastOfRows
    <3> QED BY <2>1, <2>2, <2>3, <3>1
  <2>5. hits # {}
    BY <2>1
  <2> QED BY <1>1, <1>2, <2>4, <2>5 DEF LeafAt
<1>3. CASE k # r.key
  <2>1. hits = Hits(table, k, m)
    BY <1>1, <1>3 DEF Hits
  <2>2. \A j \in hits : new[j] = table[j]
    BY <1>1, <2>1 DEF Hits
  <2>3. CASE hits = {}
    BY <1>3, <2>1, <2>3 DEF LeafAt
  <2>4. CASE hits # {}
    <3>1. hits \subseteq 1..Len(table)
      BY <2>1 DEF Hits
    <3>2. Max(hits) \in hits
      BY <2>4, <3>1, LastOfRows
    <3> QED BY <1>3, <2>1, <2>2, <2>4, <3>2 DEF LeafAt
  <2> QED BY <2>3, <2>4
<1> QED BY <1>2, <1>3
-----------------------------------------------------------------------------
(* The empty tables and the empty state satisfy the invariant. *)
LEMMA InitInvariant == Init => IInv
<1> SUFFICES ASSUME Init PROVE IInv
  OBVIOUS
<1> USE StoreAssumption DEF Init
<1>1. TypeOK
  BY DEF TypeOK, Empty, Content, Leaf
<1>2. RootsUnique /\ LeafsBelow /\ RowsAreStates /\ WriteLast
  BY DEF RootsUnique, LeafsBelow, RowsAreStates, WriteLast
<1>3. LatestLeafs
  <2>1. \A k \in Key : Hits(leafs, k, Len(rows)) = {}
    BY DEF Hits
  <2> QED BY <2>1 DEF LatestLeafs, LeafAt, Newest, Empty
<1>4. SnapshotReads
  BY DEF SnapshotReads
<1> QED BY <1>1, <1>2, <1>3, <1>4 DEF IInv

(* The state a write leads to is a state. *)
LEMMA TargetType ==
  ASSUME TypeOK, NEW w \in want
  PROVE  Target(w) \in Content /\ w \in Leaf /\ Newest \in Content /\ want = {w}
  BY DEF TypeOK, Target, Newest, Content, Leaf

(* A stored state has one row, the one a read starts from. *)
LEMMA RootRow ==
  ASSUME TypeOK, RootsUnique, NEW c \in Content, Stored(c)
  PROVE  /\ RootIdx(c) \in DOMAIN rows
         /\ rows[RootIdx(c)] = c
         /\ \A j \in DOMAIN rows : rows[j] = c => j = RootIdx(c)
<1>1. PICK i \in DOMAIN rows : rows[i] = c
  BY DEF Stored
<1>2. c # Inner
  BY StoreAssumption
<1>3. \A j \in DOMAIN rows : rows[j] = c => j = i
  BY <1>1, <1>2 DEF RootsUnique
<1>4. RootIdx(c) = i
  BY <1>1, <1>3, FirstRowIsOnly DEF TypeOK, RootIdx, Row
<1> QED BY <1>1, <1>3, <1>4

(* The root of a write that is stored is the last row. *)
LEMMA WriteRow ==
  ASSUME IInv, NEW w \in want, Stored(Target(w))
  PROVE  RootIdx(Target(w)) = Len(rows) /\ Len(rows) \in DOMAIN rows
<1>1. rows # <<>> /\ rows[Len(rows)] = Target(w)
  BY DEF IInv, WriteLast
<1>2. Len(rows) \in DOMAIN rows
  BY <1>1 DEF IInv, TypeOK
<1> QED BY <1>1, <1>2, RootRow, TargetType DEF IInv
-----------------------------------------------------------------------------
(* Deciding on a write: its target is in no row, because a row is an inner *)
(* node or an acknowledged state.                                          *)
LEMMA DecideStep == ASSUME IInv, NEW w \in Leaf, Decide(w) PROVE IInv'
<1>1. want' = {w} /\ UNCHANGED <<rows, leafs, chain>> /\ want = {} /\ ~ PairStored(w)
  BY DEF Decide
<1>2. Target(w)' = Target(w) /\ Newest' = Newest /\ PairStored(w)' = PairStored(w)
  BY <1>1 DEF Target, Newest, PairStored
<1>3. Target(w) \in Content
  BY DEF IInv, TypeOK, Target, Newest, Content, Leaf
<1>4. TypeOK'
  BY <1>1 DEF IInv, TypeOK
<1>5. RootsUnique' /\ LeafsBelow'
  BY <1>1 DEF IInv, RootsUnique, LeafsBelow
<1>6. RowsAreStates'
  BY <1>1 DEF IInv, RowsAreStates
<1>7. ~ Stored(Target(w))
  <2>1. \A n \in DOMAIN chain : chain[n] # Target(w)
    BY DEF Decide
  <2>2. Target(w) # Inner
    BY <1>3, StoreAssumption
  <2> QED BY <1>1, <2>1, <2>2 DEF IInv, RowsAreStates, Stored
<1>8. WriteLast'
  <2>1. Stored(Target(w))' = Stored(Target(w))
    BY <1>1, <1>2 DEF Stored
  <2> QED BY <1>1, <1>2, <1>7, <2>1 DEF WriteLast, Decide
<1>9. LatestLeafs'
  BY <1>1, <1>2 DEF IInv, LatestLeafs
<1>10. SnapshotReads'
  BY <1>1 DEF IInv, SnapshotReads, Stored, ReadAt, RootIdx
<1> QED BY <1>4, <1>5, <1>6, <1>8, <1>9, <1>10 DEF IInv

(* Storing a node: an inner node or the root itself, which is stored last. *)
LEMMA AddNodeStep ==
  ASSUME IInv, NEW w \in want, NEW hash, AddNode(w, hash)
  PROVE  IInv' /\ \A n \in 2..Len(chain) : \A k \in Key : ReadAt(chain[n], k)' = ReadAt(chain[n], k)
<1> DEFINE len == Len(rows)
<1>0. /\ rows' = Append(rows, hash) /\ UNCHANGED <<leafs, chain, want>>
      /\ hash \in {Inner, Target(w)} /\ ~ Stored(Target(w))
  BY DEF AddNode
<1>1. Target(w) \in Content /\ want = {w} /\ Inner \notin Content /\ TypeOK
  BY TargetType, StoreAssumption DEF IInv
<1>2. /\ rows' \in Seq(Row) /\ Len(rows') = len + 1 /\ len \in Nat
      /\ DOMAIN rows' = DOMAIN rows \union {len + 1} /\ len + 1 \notin DOMAIN rows
      /\ \A i \in DOMAIN rows : rows'[i] = rows[i]
      /\ rows'[len + 1] = hash
  <2>1. rows \in Seq(Row) /\ hash \in Row
    BY <1>0, <1>1 DEF TypeOK, Row
  <2> QED BY <1>0, <2>1, AppendRow
<1>3. /\ Target(w)' = Target(w) /\ Newest' = Newest /\ PairStored(w)' = PairStored(w)
  BY <1>0 DEF Target, Newest, PairStored
<1>4. ~ PairStored(w)
  BY <1>0 DEF IInv, WriteLast
<1>5. TypeOK'
  BY <1>0, <1>1, <1>2 DEF TypeOK, Row
<1>6. RootsUnique'
  BY <1>0, <1>2 DEF IInv, RootsUnique, Stored
<1>7. LeafsBelow'
  BY <1>0, <1>2 DEF IInv, LeafsBelow
<1>8. RowsAreStates'
  <2>1. \A i \in DOMAIN rows :
           rows'[i] = Inner \/ (\E n \in DOMAIN chain : chain[n] = rows'[i]) \/ rows'[i] = Target(w)
    BY <1>1, <1>2 DEF IInv, RowsAreStates
  <2>2. rows'[len + 1] = Inner \/ rows'[len + 1] = Target(w)
    BY <1>0, <1>2
  <2>3. DOMAIN rows' = DOMAIN rows \union {len + 1} /\ chain' = chain /\ want' = {w}
    BY <1>0, <1>1, <1>2
  <2> QED BY <1>3, <2>1, <2>2, <2>3 DEF RowsAreStates
<1>9. WriteLast'
  <2>1. Stored(Target(w))' => hash = Target(w)
    BY <1>0, <1>2, <1>3 DEF Stored
  <2>2. \A n \in DOMAIN chain : chain[n] # Target(w)
    BY DEF IInv, WriteLast
  <2> QED BY <1>0, <1>1, <1>2, <1>3, <1>4, <2>1, <2>2 DEF WriteLast
<1>10. LatestLeafs'
  <2>1. \A k \in Key : Hits(leafs, k, len + 1) = Hits(leafs, k, len)
    <3>1. \A j \in DOMAIN leafs : leafs[j].root_idx \in 1..len
      BY <1>1 DEF IInv, LeafsBelow, TypeOK
    <3> QED BY <1>2, <3>1 DEF Hits
  <2>2. \A k \in Key : LeafAt(leafs, k, len + 1) = LeafAt(leafs, k, len)
    BY <2>1 DEF LeafAt
  <2>3. \A k \in Key : LeafAt(leafs, k, len) = Newest[k]
    BY <1>1, <1>4 DEF IInv, LatestLeafs
  <2>4. Len(rows)' = len + 1
    BY <1>2
  <2> QED BY <1>0, <1>1, <1>3, <1>4, <2>2, <2>3, <2>4 DEF LatestLeafs
<1>11. ASSUME NEW n \in 2..Len(chain)
       PROVE  Stored(chain[n])' /\ RootIdx(chain[n])' = RootIdx(chain[n])
  <2>1. chain[n] \in Content /\ Stored(chain[n]) /\ chain[n] # hash
    BY <1>0, <1>1 DEF IInv, SnapshotReads, WriteLast, TypeOK
  <2> DEFINE r == RootIdx(chain[n])
  <2>2. r \in DOMAIN rows /\ rows[r] = chain[n] /\ \A j \in DOMAIN rows : rows[j] = chain[n] => j = r
    BY <2>1, RootRow DEF IInv
  <2>3. FirstRow(rows', chain[n]) = r
    <3> HIDE DEF r
    <3>1. r \in DOMAIN rows' /\ rows'[r] = chain[n] /\ \A j \in DOMAIN rows' : rows'[j] = chain[n] => j = r
      BY <1>2, <2>1, <2>2
    <3> QED BY <1>2, <3>1, FirstRowIsOnly
  <2> QED BY <1>0, <1>2, <2>2, <2>3 DEF RootIdx, Stored
<1>12. \A n \in 2..Len(chain) : \A k \in Key : ReadAt(chain[n], k)' = ReadAt(chain[n], k)
  BY <1>0, <1>11 DEF ReadAt
<1>13. SnapshotReads'
  BY <1>0, <1>11, <1>12 DEF IInv, SnapshotReads
<1> QED BY <1>5, <1>6, <1>7, <1>8, <1>9, <1>10, <1>12, <1>13 DEF IInv

(* Storing the leaf row, under the index of the root stored before it: no *)
(* acknowledged state reaches that far.                                   *)
LEMMA AddLeafStep ==
  ASSUME IInv, NEW w \in want, AddLeaf(w)
  PROVE  IInv' /\ \A n \in 2..Len(chain) : \A k \in Key : ReadAt(chain[n], k)' = ReadAt(chain[n], k)
<1> DEFINE len == Len(rows)
           r == [key |-> w.key, value |-> w.value, root_idx |-> RootIdx(Target(w))]
<1>0. leafs' = Append(leafs, r) /\ UNCHANGED <<rows, chain, want>> /\ Stored(Target(w)) /\ ~ PairStored(w)
  BY DEF AddLeaf
<1>1. Target(w) \in Content /\ Newest \in Content /\ w \in Leaf /\ want = {w} /\ TypeOK
  BY TargetType DEF IInv
<1>2. r.root_idx = len /\ len \in DOMAIN rows /\ len \in Nat /\ r.key = w.key /\ r.value = w.value
  BY <1>0, <1>1, WriteRow DEF TypeOK
<1>3. leafs \in Seq(LeafRow) /\ r \in LeafRow
  BY <1>1, <1>2 DEF TypeOK, LeafRow, Leaf
<1>4. /\ leafs' \in Seq(LeafRow)
      /\ DOMAIN leafs' = DOMAIN leafs \union {Len(leafs) + 1}
      /\ \A i \in DOMAIN leafs : leafs'[i] = leafs[i]
      /\ leafs'[Len(leafs) + 1] = r
  <2> HIDE DEF r
  <2> QED BY <1>0, <1>3, AppendRow
<1>5. Target(w)' = Target(w) /\ Newest' = Newest /\ (\A c : Stored(c)' = Stored(c) /\ RootIdx(c)' = RootIdx(c))
  BY <1>0 DEF Target, Newest, Stored, RootIdx
<1>6. PairStored(w)'
  BY <1>2, <1>4 DEF PairStored
<1>7. TypeOK'
  BY <1>0, <1>1, <1>4 DEF TypeOK, LeafRow
<1>8. RootsUnique' /\ RowsAreStates'
  <2>1. \A v : Target(v)' = Target(v)
    BY <1>0 DEF Target, Newest
  <2> QED BY <1>0, <2>1 DEF IInv, RootsUnique, RowsAreStates
<1>9. LeafsBelow'
  BY <1>0, <1>2, <1>4 DEF IInv, LeafsBelow
<1>10. WriteLast'
  BY <1>0, <1>1, <1>5 DEF IInv, WriteLast
<1>11. LatestLeafs'
  <2>1. ASSUME NEW k \in Key PROVE LeafAt(leafs', k, len) = Target(w)[k]
    <3>1. LeafAt(leafs', k, len) = IF k = w.key THEN w.value ELSE LeafAt(leafs, k, len)
      <4> HIDE DEF r
      <4> QED BY <1>0, <1>2, <1>3, ReadNewLeaf
    <3>2. LeafAt(leafs, k, len) = Newest[k]
      BY <1>0, <1>1 DEF IInv, LatestLeafs
    <3> QED BY <1>1, <3>1, <3>2 DEF Target, Content
  <2> QED BY <1>0, <1>1, <1>5, <1>6, <2>1 DEF LatestLeafs
<1>12. ASSUME NEW n \in 2..Len(chain), NEW k \in Key
       PROVE  ReadAt(chain[n], k)' = ReadAt(chain[n], k)
  <2> DEFINE m == RootIdx(chain[n])
  <2>1. chain[n] \in Content /\ Stored(chain[n]) /\ chain[n] # Target(w)
    BY <1>0, <1>1 DEF IInv, SnapshotReads, WriteLast, TypeOK
  <2>2. m \in DOMAIN rows /\ rows[m] = chain[n] /\ rows[len] = Target(w)
    BY <1>0, <2>1, RootRow DEF IInv, WriteLast
  <2>3. m \in Nat /\ m < r.root_idx
    <3>1. m # len
      BY <2>1, <2>2
    <3> QED BY <1>1, <1>2, <2>2, <3>1 DEF TypeOK
  <2>4. LeafAt(leafs', k, m) = LeafAt(leafs, k, m)
    <3> HIDE DEF m, r
    <3> QED BY <1>0, <1>3, <2>3, ReadBelowNewLeaf
  <2> QED BY <1>0, <1>5, <2>4 DEF ReadAt
<1>13. SnapshotReads'
  BY <1>0, <1>5, <1>12 DEF IInv, SnapshotReads
<1> QED BY <1>7, <1>8, <1>9, <1>10, <1>11, <1>12, <1>13 DEF IInv

(* Acknowledging: the new state reads what the newest leaf rows say. *)
LEMMA AcknowledgeStep ==
  ASSUME IInv, NEW w \in want, Acknowledge(w)
  PROVE  IInv' /\ \A n \in 2..Len(chain) : \A k \in Key : ReadAt(chain[n], k)' = ReadAt(chain[n], k)
<1> DEFINE len == Len(chain)
<1>0. /\ chain' = Append(chain, Target(w)) /\ want' = {} /\ UNCHANGED <<rows, leafs>>
      /\ PairStored(w) /\ Stored(Target(w))
  BY DEF Acknowledge, IInv, WriteLast
<1>1. Target(w) \in Content /\ want = {w} /\ TypeOK
  BY TargetType DEF IInv
<1>2. /\ chain' \in Seq(Content) /\ Len(chain') = len + 1 /\ len \in Nat
      /\ DOMAIN chain' = DOMAIN chain \union {len + 1}
      /\ \A i \in DOMAIN chain : chain'[i] = chain[i]
      /\ chain'[len + 1] = Target(w)
  <2>1. chain \in Seq(Content)
    BY <1>1 DEF TypeOK
  <2> QED BY <1>0, <1>1, <2>1, AppendRow
<1>3. \A c : Stored(c)' = Stored(c) /\ RootIdx(c)' = RootIdx(c)
  BY <1>0 DEF Stored, RootIdx
<1>4. TypeOK'
  BY <1>0, <1>1, <1>2 DEF TypeOK
<1>5. RootsUnique' /\ LeafsBelow' /\ WriteLast'
  BY <1>0 DEF IInv, RootsUnique, LeafsBelow, WriteLast
<1>6. RowsAreStates'
  <2>1. \A i \in DOMAIN rows :
           rows[i] = Inner \/ (\E n \in DOMAIN chain : chain[n] = rows[i]) \/ rows[i] = Target(w)
    BY <1>1 DEF IInv, RowsAreStates
  <2> QED BY <1>0, <1>2, <2>1 DEF RowsAreStates
<1>7. \A k \in Key : LeafAt(leafs, k, Len(rows)) = Target(w)[k]
  BY <1>0 DEF IInv, LatestLeafs
<1>8. LatestLeafs'
  <2>1. Newest' = Target(w)
    BY <1>2 DEF Newest
  <2> QED BY <1>0, <1>7, <2>1 DEF LatestLeafs
<1>9. \A n \in 2..len : chain'[n] = chain[n]
  BY <1>1, <1>2 DEF TypeOK
<1>10. ASSUME NEW n \in 2..len, NEW k \in Key PROVE ReadAt(chain[n], k)' = ReadAt(chain[n], k)
  BY <1>0, <1>3, <1>9 DEF ReadAt
<1>11. SnapshotReads'
  <2>1. ASSUME NEW n \in 2..Len(chain'), NEW c, c = chain'[n]
        PROVE  Stored(c) /\ \A k \in Key : ReadAt(c, k) = c[k]
    <3>1. CASE n \in 2..len
      BY <1>9, <2>1, <3>1 DEF IInv, SnapshotReads
    <3>2. CASE n = len + 1
      <4>1. c = Target(w) /\ RootIdx(c) = Len(rows)
        BY <1>0, <1>2, <2>1, <3>2, WriteRow
      <4> QED BY <1>0, <1>7, <4>1 DEF ReadAt
    <3> QED BY <1>2, <3>1, <3>2
  <2> QED BY <1>0, <2>1 DEF SnapshotReads, Stored, ReadAt, RootIdx
<1> QED BY <1>4, <1>5, <1>6, <1>8, <1>10, <1>11 DEF IInv

-----------------------------------------------------------------------------
(* Every step, by the client or by a handler, keeps the invariant. *)
LEMMA NextInvariant ==
  ASSUME IInv, [Next]_vars
  PROVE  IInv' /\ \A n \in 2..Len(chain) : \A k \in Key : ReadAt(chain[n], k)' = ReadAt(chain[n], k)
<1>1. CASE \E w \in Leaf : Decide(w)
  <2>1. PICK w \in Leaf : Decide(w)
    BY <1>1
  <2>2. UNCHANGED <<rows, leafs, chain>>
    BY <2>1 DEF Decide
  <2> QED BY <2>1, <2>2, DecideStep DEF ReadAt, RootIdx
<1>2. CASE \E w \in want : AddNode(w, Inner) \/ AddNode(w, Target(w))
  BY <1>2, AddNodeStep
<1>3. CASE \E w \in want : AddLeaf(w)
  BY <1>3, AddLeafStep
<1>4. CASE \E w \in want : Acknowledge(w)
  BY <1>4, AcknowledgeStep
<1>5. CASE UNCHANGED vars
  <2> USE <1>5 DEF vars
  <2>1. TypeOK' /\ RootsUnique' /\ LeafsBelow'
    BY DEF IInv, TypeOK, RootsUnique, LeafsBelow
  <2>2. Newest' = Newest /\ (\A v : Target(v)' = Target(v) /\ PairStored(v)' = PairStored(v))
    BY DEF Newest, Target, PairStored
  <2>3. \A c : Stored(c)' = Stored(c) /\ RootIdx(c)' = RootIdx(c)
    BY DEF Stored, RootIdx
  <2>4. RowsAreStates' /\ WriteLast' /\ LatestLeafs'
    BY <2>2, <2>3 DEF IInv, RowsAreStates, WriteLast, LatestLeafs
  <2>5. SnapshotReads'
    BY <2>3 DEF IInv, SnapshotReads, ReadAt
  <2>6. \A n \in 2..Len(chain) : \A k \in Key : ReadAt(chain[n], k)' = ReadAt(chain[n], k)
    BY <2>3 DEF ReadAt
  <2> QED BY <2>1, <2>4, <2>5, <2>6 DEF IInv
<1> QED BY <1>1, <1>2, <1>3, <1>4, <1>5 DEF Next

(* The tables of a label always satisfy the invariant: each root in one row, *)
(* every row a state or an inner node, the leaf rows in step with the roots. *)
THEOREM Invariance == Spec => []IInv
<1>1. IInv /\ [Next]_vars => IInv'
  BY NextInvariant
<1> QED BY InitInvariant, <1>1, PTL DEF Spec

(* The tables, the chain of states and the write in progress have their types. *)
THEOREM TypeCorrect == Spec => []TypeOK
<1>1. IInv => TypeOK
  BY DEF IInv
<1> QED BY Invariance, <1>1, PTL

(* GET /read at an acknowledged root gives the value its state has for the key, *)
(* although the leaf table keeps only what each write changed.                  *)
THEOREM ReadsAreSnapshots == Spec => []SnapshotReads
<1>1. IInv => SnapshotReads
  BY DEF IInv
<1> QED BY Invariance, <1>1, PTL

(* No statement of a later write changes what a read at an acknowledged root *)
(* gives: a root handed to the sound run stays provable as it was.           *)
THEOREM SnapshotsNeverChange == Spec => SnapshotsImmutable
<1>1. IInv /\ [Next]_vars =>
        [\A n \in 2..Len(chain) : \A k \in Key : ReadAt(chain[n], k)' = ReadAt(chain[n], k)]_vars
  BY NextInvariant
<1> QED BY Invariance, <1>1, PTL DEF Spec, SnapshotsImmutable
=============================================================================
