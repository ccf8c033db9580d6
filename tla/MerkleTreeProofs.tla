-------------------------- MODULE MerkleTreeProofs --------------------------
(***************************************************************************)
(* The lemmas about the Merkle tree and the trie layer that the proofs     *)
(* about the state server rest on: what a tree in memory looks like while  *)
(* keys are set and deleted, for keys of any length and any stored nodes,  *)
(* that a commit lists children before parents, and that a proof which     *)
(* verifies is true.                                                       *)
(***************************************************************************)
EXTENDS Trie, LeastElement, FiniteSetTheorems, SequenceTheorems

Bits == Seq({0, 1})

-----------------------------------------------------------------------------
(* Paths and their prefixes. *)

LEMMA PrefixBits ==
    ASSUME NEW s \in Bits, NEW t \in Bits
    PROVE  IsPrefix(s, t) <=> Len(s) <= Len(t) /\ \A i \in 1..Len(s) : s[i] = t[i]
<1>1. Len(s) \in Nat /\ Len(t) \in Nat
    BY DEF Bits
<1>2. SubSeq(s, 1, Len(s)) = s
    BY SubSeqFull DEF Bits
<1>3. CASE Len(s) <= Len(t)
    <2>1. \A i \in 1..Len(s) : t[i] \in {0, 1}
        BY <1>1, <1>3 DEF Bits
    <2>2. /\ SubSeq(t, 1, Len(s)) \in Bits
          /\ Len(SubSeq(t, 1, Len(s))) = Len(s)
          /\ \A i \in 1..Len(s) : SubSeq(t, 1, Len(s))[i] = t[i]
        <3>1. /\ SubSeq(t, 1, Len(s)) \in Seq({0, 1})
              /\ Len(SubSeq(t, 1, Len(s))) = IF 1 <= Len(s) THEN Len(s) - 1 + 1 ELSE 0
              /\ \A i \in 1..Len(s) - 1 + 1 : SubSeq(t, 1, Len(s))[i] = t[1 + i - 1]
            BY <1>1, <2>1, SubSeqProperties
        <3> QED
            BY <1>1, <3>1 DEF Bits
    <2>3. s = SubSeq(t, 1, Len(s)) <=> \A i \in 1..Len(s) : s[i] = t[i]
        BY <2>2, SeqEqual DEF Bits
    <2> QED
        BY <1>2, <1>3, <2>3 DEF IsPrefix
<1>4. CASE ~ (Len(s) <= Len(t))
    BY <1>4 DEF IsPrefix
<1> QED
    BY <1>3, <1>4

LEMMA BitsAre ==
    ASSUME NEW s \in Bits
    PROVE  Len(s) \in Nat /\ DOMAIN s = 1..Len(s) /\ \A i \in 1..Len(s) : s[i] \in {0, 1}
BY DEF Bits

LEMMA SameBits ==
    ASSUME NEW s \in Bits, NEW t \in Bits, Len(s) = Len(t), \A i \in 1..Len(s) : s[i] = t[i]
    PROVE  s = t
BY SeqEqual DEF Bits

LEMMA PrefixSelf == ASSUME NEW s \in Bits PROVE IsPrefix(s, s)
BY PrefixBits, BitsAre

LEMMA PrefixOn ==
    ASSUME NEW s \in Bits, NEW t \in Bits, NEW u \in Bits, IsPrefix(s, t), IsPrefix(t, u)
    PROVE  IsPrefix(s, u)
<1>1. Len(s) \in Nat /\ Len(t) \in Nat /\ Len(u) \in Nat
    BY BitsAre
<1>2. Len(s) <= Len(t) /\ Len(t) <= Len(u)
    BY PrefixBits
<1>3. \A i \in 1..Len(s) : s[i] = t[i]
    BY PrefixBits
<1>4. \A i \in 1..Len(t) : t[i] = u[i]
    BY PrefixBits
<1>5. Len(s) <= Len(u) /\ \A i \in 1..Len(s) : s[i] = u[i]
    BY <1>1, <1>2, <1>3, <1>4
<1> QED
    BY <1>5, PrefixBits

(* Two prefixes of a path: the shorter one is a prefix of the longer. *)
LEMMA PrefixesMeet ==
    ASSUME NEW s \in Bits, NEW t \in Bits, NEW u \in Bits, IsPrefix(s, u), IsPrefix(t, u),
           Len(s) <= Len(t)
    PROVE  IsPrefix(s, t)
<1>1. Len(s) \in Nat /\ Len(t) \in Nat
    BY BitsAre
<1>2. \A i \in 1..Len(s) : s[i] = u[i]
    BY PrefixBits
<1>3. \A i \in 1..Len(t) : t[i] = u[i]
    BY PrefixBits
<1>4. \A i \in 1..Len(s) : s[i] = t[i]
    BY <1>1, <1>2, <1>3
<1> QED
    BY <1>4, PrefixBits

LEMMA PrefixOrder ==
    ASSUME NEW s \in Bits, NEW t \in Bits, IsPrefix(s, t)
    PROVE  Len(s) <= Len(t) /\ (Len(s) = Len(t) => s = t) /\ (s # t => Len(s) < Len(t))
<1>1. Len(s) \in Nat /\ Len(t) \in Nat /\ Len(s) <= Len(t)
    BY BitsAre, PrefixBits
<1>2. Len(s) = Len(t) => s = t
    BY PrefixBits, SameBits
<1> QED
    BY <1>1, <1>2

(* A path prolonged. *)
LEMMA Prolonged ==
    ASSUME NEW s \in Bits, NEW t \in Bits
    PROVE  /\ s \o t \in Bits /\ Len(s \o t) = Len(s) + Len(t) /\ IsPrefix(s, s \o t)
           /\ \A i \in 1..Len(s) : (s \o t)[i] = s[i]
           /\ \A i \in 1..Len(t) : (s \o t)[Len(s) + i] = t[i]
<1>1. Len(s) \in Nat /\ Len(t) \in Nat
    BY BitsAre
<1>2. /\ s \o t \in Bits /\ Len(s \o t) = Len(s) + Len(t)
      /\ \A i \in 1..Len(s) + Len(t) : (s \o t)[i] = IF i <= Len(s) THEN s[i] ELSE t[i - Len(s)]
    BY ConcatProperties DEF Bits
<1>3. \A i \in 1..Len(s) : (s \o t)[i] = s[i]
    BY <1>1, <1>2
<1>4. \A i \in 1..Len(t) : (s \o t)[Len(s) + i] = t[i]
    <2> TAKE i \in 1..Len(t)
    <2>1. Len(s) + i \in 1..Len(s) + Len(t) /\ ~ (Len(s) + i <= Len(s)) /\ Len(s) + i - Len(s) = i
        BY <1>1
    <2> QED
        BY <1>2, <2>1
<1>5. Len(s) <= Len(s \o t)
    BY <1>1, <1>2
<1> QED
    BY <1>2, <1>3, <1>4, <1>5, PrefixBits

(* What is left of a path after a prefix. *)
LEMMA Dropped ==
    ASSUME NEW s \in Bits, NEW t \in Bits, IsPrefix(s, t)
    PROVE  /\ Drop(t, Len(s)) \in Bits /\ Len(Drop(t, Len(s))) = Len(t) - Len(s)
           /\ s \o Drop(t, Len(s)) = t
           /\ \A i \in 1..Len(t) - Len(s) : Drop(t, Len(s))[i] = t[Len(s) + i]
<1> DEFINE rest == SubSeq(t, Len(s) + 1, Len(t))
<1>1. Len(s) \in Nat /\ Len(t) \in Nat /\ Len(s) <= Len(t)
    BY BitsAre, PrefixBits
<1>2. \A i \in Len(s) + 1..Len(t) : t[i] \in {0, 1}
    <2>1. \A i \in 1..Len(t) : t[i] \in {0, 1}
        BY BitsAre
    <2>2. \A i \in Len(s) + 1..Len(t) : i \in 1..Len(t)
        BY <1>1
    <2> QED
        BY <2>1, <2>2
<1>3. /\ rest \in Bits /\ Len(rest) = Len(t) - Len(s)
      /\ \A i \in 1..Len(t) - Len(s) : rest[i] = t[Len(s) + i]
    <2>1. /\ rest \in Seq({0, 1})
          /\ Len(rest) = IF Len(s) + 1 <= Len(t) THEN Len(t) - (Len(s) + 1) + 1 ELSE 0
          /\ \A i \in 1..Len(t) - (Len(s) + 1) + 1 : rest[i] = t[Len(s) + 1 + i - 1]
        <3>1. Len(s) + 1 \in Int /\ Len(t) \in Int
            BY <1>1
        <3> HIDE DEF rest
        <3> QED
            BY <1>2, <3>1, SubSeqProperties DEF rest
    <2> HIDE DEF rest
    <2>2. Len(t) - (Len(s) + 1) + 1 = Len(t) - Len(s)
        BY <1>1
    <2>3. Len(rest) = Len(t) - Len(s)
        BY <1>1, <2>1
    <2>4. \A i \in 1..Len(t) - Len(s) : Len(s) + 1 + i - 1 = Len(s) + i
        BY <1>1
    <2> QED
        BY <2>1, <2>2, <2>3, <2>4 DEF Bits
<1> HIDE DEF rest
<1>4. s \o rest \in Bits /\ Len(s \o rest) = Len(t)
    BY <1>1, <1>3, Prolonged
<1>5. ASSUME NEW i \in 1..Len(t) PROVE (s \o rest)[i] = t[i]
    <2>1. CASE i <= Len(s)
        <3>1. i \in 1..Len(s)
            BY <1>1, <2>1
        <3>2. (s \o rest)[i] = s[i]
            BY <1>3, <3>1, Prolonged
        <3>3. s[i] = t[i]
            BY <3>1, PrefixBits
        <3> QED
            BY <3>2, <3>3
    <2>2. CASE ~ (i <= Len(s))
        <3>1. i - Len(s) \in 1..Len(t) - Len(s) /\ Len(s) + (i - Len(s)) = i
            BY <1>1, <2>2
        <3>2. (s \o rest)[Len(s) + (i - Len(s))] = rest[i - Len(s)]
            BY <1>3, <3>1, Prolonged
        <3> QED
            BY <1>3, <3>1, <3>2
    <2> QED
        BY <2>1, <2>2
<1>6. s \o rest = t
    BY <1>4, <1>5, SameBits
<1>7. rest = Drop(t, Len(s))
    BY DEF rest, Drop
<1> QED
    BY <1>3, <1>6, <1>7

(* The beginning of a path. *)
LEMMA Beginning ==
    ASSUME NEW t \in Bits, NEW n \in 0..Len(t)
    PROVE  /\ SubSeq(t, 1, n) \in Bits /\ Len(SubSeq(t, 1, n)) = n /\ IsPrefix(SubSeq(t, 1, n), t)
           /\ \A i \in 1..n : SubSeq(t, 1, n)[i] = t[i]
<1>1. Len(t) \in Nat /\ n \in Nat /\ n <= Len(t)
    BY BitsAre
<1>2. \A i \in 1..n : t[i] \in {0, 1}
    BY <1>1, BitsAre
<1>3. /\ SubSeq(t, 1, n) \in Bits /\ Len(SubSeq(t, 1, n)) = n
      /\ \A i \in 1..n : SubSeq(t, 1, n)[i] = t[i]
    <2>1. /\ SubSeq(t, 1, n) \in Seq({0, 1})
          /\ Len(SubSeq(t, 1, n)) = IF 1 <= n THEN n - 1 + 1 ELSE 0
          /\ \A i \in 1..n - 1 + 1 : SubSeq(t, 1, n)[i] = t[1 + i - 1]
        BY <1>1, <1>2, SubSeqProperties
    <2> QED
        BY <1>1, <2>1 DEF Bits
<1> QED
    BY <1>1, <1>3, PrefixBits

LEMMA BeginningIs ==
    ASSUME NEW s \in Bits, NEW t \in Bits, IsPrefix(s, t)
    PROVE  SubSeq(t, 1, Len(s)) = s
<1>1. Len(s) \in Nat /\ Len(t) \in Nat /\ Len(s) <= Len(t)
    BY BitsAre, PrefixBits
<1>2. /\ SubSeq(t, 1, Len(s)) \in Bits /\ Len(SubSeq(t, 1, Len(s))) = Len(s)
      /\ \A i \in 1..Len(s) : SubSeq(t, 1, Len(s))[i] = t[i]
    BY <1>1, Beginning
<1>3. \A i \in 1..Len(s) : s[i] = t[i]
    BY PrefixBits
<1> QED
    BY <1>2, <1>3, SameBits

(* One bit further. *)
LEMMA NextBit ==
    ASSUME NEW s \in Bits, NEW b \in {0, 1}
    PROVE  /\ Append(s, b) \in Bits /\ Len(Append(s, b)) = Len(s) + 1
           /\ IsPrefix(s, Append(s, b)) /\ s # Append(s, b)
           /\ Append(s, b)[Len(s) + 1] = b
           /\ \A i \in 1..Len(s) : Append(s, b)[i] = s[i]
<1>1. Len(s) \in Nat
    BY BitsAre
<1>2. /\ Append(s, b) \in Bits /\ Len(Append(s, b)) = Len(s) + 1
      /\ Append(s, b)[Len(s) + 1] = b
      /\ \A i \in 1..Len(s) : Append(s, b)[i] = s[i]
    BY <1>1 DEF Bits
<1>3. IsPrefix(s, Append(s, b))
    <2>1. Len(s) <= Len(Append(s, b))
        BY <1>1, <1>2
    <2> QED
        BY <1>2, <2>1, PrefixBits
<1> QED
    BY <1>1, <1>2, <1>3

(* A bit longer, a path goes either way, and not both. *)
LEMMA NextBitOf ==
    ASSUME NEW s \in Bits, NEW t \in Bits, IsPrefix(s, t), s # t
    PROVE  /\ Len(s) + 1 \in 1..Len(t) /\ t[Len(s) + 1] \in {0, 1}
           /\ \A b \in {0, 1} : IsPrefix(Append(s, b), t) <=> t[Len(s) + 1] = b
<1>1. Len(s) \in Nat /\ Len(t) \in Nat /\ Len(s) < Len(t)
    BY BitsAre, PrefixOrder
<1>2. \A i \in 1..Len(s) : s[i] = t[i]
    BY PrefixBits
<1>3. ASSUME NEW b \in {0, 1} PROVE IsPrefix(Append(s, b), t) <=> t[Len(s) + 1] = b
    <2>1. /\ Append(s, b) \in Bits /\ Len(Append(s, b)) = Len(s) + 1
          /\ Append(s, b)[Len(s) + 1] = b
          /\ \A i \in 1..Len(s) : Append(s, b)[i] = s[i]
        BY NextBit
    <2>2. IsPrefix(Append(s, b), t) <=> \A i \in 1..Len(s) + 1 : Append(s, b)[i] = t[i]
        <3> DEFINE u == Append(s, b)
        <3>1. u \in Bits /\ Len(u) = Len(s) + 1 /\ Len(u) <= Len(t)
            BY <1>1, <2>1
        <3> HIDE DEF u
        <3>2. IsPrefix(u, t) <=> Len(u) <= Len(t) /\ \A i \in 1..Len(u) : u[i] = t[i]
            BY <3>1, PrefixBits
        <3> QED
            BY <3>1, <3>2 DEF u
    <2>3. \A i \in 1..Len(s) + 1 : i \in 1..Len(s) \/ i = Len(s) + 1
        BY <1>1
    <2>4. Len(s) + 1 \in 1..Len(s) + 1
        BY <1>1
    <2> HIDE DEF Bits
    <2> QED
        BY <1>2, <2>1, <2>2, <2>3, <2>4
<1>4. Len(s) + 1 \in 1..Len(t)
    BY <1>1
<1> QED
    BY <1>3, <1>4, BitsAre

-----------------------------------------------------------------------------
(* Trees in memory. *)

(* What a row of trie_nodes says of its node. *)
NodeDatum == [kind : {"Binary"}, left : Nat, right : Nat]
               \union [kind : {"Edge"}, child : Nat, path : Bits \ {<<>>}]
               \union [kind : {"LeafBinary"}]
               \union [kind : {"LeafEdge"}, path : Bits \ {<<>>}]

TreeNode == {Leaf, Binary} \union {Edge(path) : path \in Bits \ {<<>>}} \union {Unresolved(idx) : idx \in Nat}

(* The places a node has its children at. *)
Under(p, node) ==
    CASE node.kind = "Binary" -> {Append(p, 0), Append(p, 1)}
      [] node.kind = "Edge"   -> {p \o node.path}
      [] OTHER                -> {}

(* The root is there, every node has its children, and what lies below a   *)
(* node lies below one of them: nothing inside an edge, nothing below a    *)
(* leaf or a node still in storage.                                        *)
Closed(tree) == \A p \in DOMAIN tree : Under(p, tree[p]) \subseteq DOMAIN tree
Laminar(tree) ==
    \A p, q \in DOMAIN tree :
        IsPrefix(p, q) /\ p # q => \E c \in Under(p, tree[p]) : IsPrefix(c, q)

Tidy(tree) ==
    /\ tree \in [DOMAIN tree -> TreeNode] /\ DOMAIN tree \subseteq Bits /\ IsFiniteSet(DOMAIN tree)
    /\ DOMAIN tree # {} => <<>> \in DOMAIN tree
    /\ Closed(tree) /\ Laminar(tree)

LEMMA NodeKinds ==
    ASSUME NEW node \in TreeNode
    PROVE  \/ node = Leaf /\ node.kind = "Leaf"
           \/ node = Binary /\ node.kind = "Binary"
           \/ node.kind = "Edge" /\ node.path \in Bits /\ node.path # <<>> /\ node = Edge(node.path)
           \/ node.kind = "Unresolved" /\ node.idx \in Nat /\ node = Unresolved(node.idx)
BY DEF TreeNode, Leaf, Binary, Edge, Unresolved

LEMMA KindsAre ==
    /\ Leaf \in TreeNode /\ Leaf.kind = "Leaf" /\ Binary \in TreeNode /\ Binary.kind = "Binary"
    /\ \A path \in Bits \ {<<>>} : Edge(path) \in TreeNode /\ Edge(path).kind = "Edge" /\ Edge(path).path = path
    /\ \A idx \in Nat : Unresolved(idx) \in TreeNode /\ Unresolved(idx).kind = "Unresolved" /\ Unresolved(idx).idx = idx
BY DEF TreeNode, Leaf, Binary, Edge, Unresolved

LEMMA UnderIs ==
    ASSUME NEW p \in Bits, NEW node \in TreeNode
    PROVE  /\ node.kind = "Binary" => Under(p, node) = {Append(p, 0), Append(p, 1)}
           /\ node.kind = "Edge" => Under(p, node) = {p \o node.path}
           /\ node.kind \notin {"Binary", "Edge"} => Under(p, node) = {}
           /\ \A c \in Under(p, node) : c \in Bits /\ IsPrefix(p, c) /\ c # p
<1>1. CASE node.kind = "Binary"
    <2>1. Under(p, node) = {Append(p, 0), Append(p, 1)}
        BY <1>1 DEF Under
    <2>2. 0 \in {0, 1} /\ 1 \in {0, 1}
        OBVIOUS
    <2> QED
        BY <1>1, <2>1, <2>2, NextBit
<1>2. CASE node.kind = "Edge"
    <2>1. Under(p, node) = {p \o node.path}
        BY <1>2 DEF Under
    <2>2. node.path \in Bits /\ node.path # <<>>
        BY <1>2, NodeKinds
    <2>3. p \o node.path \in Bits /\ IsPrefix(p, p \o node.path)
        BY <2>2, Prolonged
    <2>4. p \o node.path # p
        BY <2>2, ConcatEqualIffEmpty DEF Bits
    <2> QED
        BY <1>2, <2>1, <2>3, <2>4
<1>3. CASE node.kind \notin {"Binary", "Edge"}
    <2>1. Under(p, node) = {}
        BY <1>3 DEF Under
    <2> QED
        BY <1>3, <2>1
<1> QED
    BY <1>1, <1>2, <1>3

(* Two children of a node are apart. *)
LEMMA UnderApart ==
    ASSUME NEW p \in Bits, NEW node \in TreeNode
    PROVE  /\ IsFiniteSet(Under(p, node))
           /\ \A c, d \in Under(p, node) : IsPrefix(c, d) => c = d
           /\ node.kind = "Binary" => \A c, d \in Under(p, node) : Len(c) = Len(d)
<1>0. 0 \in {0, 1} /\ 1 \in {0, 1}
    OBVIOUS
<1>1. CASE node.kind = "Binary"
    <2>1. Under(p, node) = {Append(p, 0), Append(p, 1)}
        BY <1>1, UnderIs
    <2>2. \A c \in Under(p, node) : c \in Bits /\ Len(c) = Len(p) + 1
        BY <1>0, <2>1, NextBit
    <2>3. \A c, d \in Under(p, node) : IsPrefix(c, d) => c = d
        <3> SUFFICES ASSUME NEW c \in Under(p, node), NEW d \in Under(p, node), IsPrefix(c, d) PROVE c = d
            OBVIOUS
        <3> QED
            BY <2>2, PrefixOrder
    <2>4. IsFiniteSet(Under(p, node))
        <3>1. IsFiniteSet({Append(p, 0)}) /\ IsFiniteSet({Append(p, 0)} \union {Append(p, 1)})
            BY FS_Singleton, FS_AddElement
        <3>2. Under(p, node) = {Append(p, 0)} \union {Append(p, 1)}
            BY <2>1
        <3> QED
            BY <3>1, <3>2
    <2> QED
        BY <2>2, <2>3, <2>4
<1>2. CASE node.kind = "Edge"
    <2>1. Under(p, node) = {p \o node.path}
        BY <1>2, UnderIs
    <2>2. IsFiniteSet({p \o node.path})
        BY FS_Singleton
    <2> QED
        BY <1>2, <2>1, <2>2
<1>3. CASE node.kind \notin {"Binary", "Edge"}
    <2>1. Under(p, node) = {} /\ IsFiniteSet({})
        BY <1>3, UnderIs, FS_EmptySet
    <2> QED
        BY <1>3, <2>1
<1> QED
    BY <1>1, <1>2, <1>3

(* A node without children gets some that have none. *)
LEMMA Grown ==
    ASSUME NEW t, Tidy(t), NEW p \in DOMAIN t, Under(p, t[p]) = {},
           NEW node \in TreeNode, NEW u, DOMAIN u = DOMAIN t \union Under(p, node),
           u \in [DOMAIN u -> TreeNode], u[p] = node,
           \A c \in Under(p, node) : Under(c, u[c]) = {},
           \A q \in DOMAIN t : q # p => u[q] = t[q]
    PROVE  Tidy(u)
<1> DEFINE C == Under(p, node)
<1>1. /\ t \in [DOMAIN t -> TreeNode] /\ DOMAIN t \subseteq Bits /\ IsFiniteSet(DOMAIN t)
      /\ DOMAIN t # {} => <<>> \in DOMAIN t
      /\ \A q \in DOMAIN t : Under(q, t[q]) \subseteq DOMAIN t
      /\ \A a, q \in DOMAIN t : IsPrefix(a, q) /\ a # q => \E c \in Under(a, t[a]) : IsPrefix(c, q)
    BY DEF Tidy, Closed, Laminar
<1>2. p \in Bits
    BY <1>1
<1>3. \A c \in C : c \in Bits /\ IsPrefix(p, c) /\ c # p
    BY <1>2, UnderIs
<1>4. IsFiniteSet(C) /\ \A c, d \in C : IsPrefix(c, d) => c = d
    BY <1>2, UnderApart
<1>5. \A q \in DOMAIN t : IsPrefix(p, q) => q = p
    BY <1>1
<1> HIDE DEF C
<1>6. DOMAIN u = DOMAIN t \union C /\ u[p] = node /\ p \notin C
    BY <1>3 DEF C
<1>7. \A c \in C : c \notin DOMAIN t /\ Under(c, u[c]) = {}
    BY <1>3, <1>5 DEF C
<1>8. DOMAIN u \subseteq Bits /\ IsFiniteSet(DOMAIN u)
    BY <1>1, <1>3, <1>4, <1>6, FS_Union
<1>9. <<>> \in DOMAIN u
    BY <1>1, <1>6
<1>10. Closed(u)
    <2>1. ASSUME NEW q \in DOMAIN u PROVE Under(q, u[q]) \subseteq DOMAIN u
        <3>1. CASE q = p
            BY <1>6, <3>1 DEF C
        <3>2. CASE q \in C
            BY <1>7, <3>2
        <3>3. CASE q \in DOMAIN t /\ q # p
            <4>1. u[q] = t[q]
                BY <3>3
            <4> QED
                BY <1>1, <1>6, <3>3, <4>1
        <3> QED
            BY <1>6, <3>1, <3>2, <3>3
    <2> QED
        BY <2>1 DEF Closed
<1>11. Laminar(u)
    <2>1. ASSUME NEW a \in DOMAIN u, NEW q \in DOMAIN u, IsPrefix(a, q), a # q
          PROVE  \E c \in Under(a, u[a]) : IsPrefix(c, q)
        <3>1. a \in Bits /\ q \in Bits
            BY <1>8
        <3>2. CASE q \in DOMAIN t /\ a \in DOMAIN t
            <4>1. a # p
                BY <1>5, <2>1, <3>2
            <4>2. u[a] = t[a]
                BY <3>2, <4>1
            <4> QED
                BY <1>1, <2>1, <3>2, <4>2
        <3>3. CASE q \in C /\ a \in DOMAIN t
            <4>1. IsPrefix(p, q) /\ p # q
                BY <1>3, <3>3
            <4>2. CASE a = p
                <5>1. q \in Under(a, u[a]) /\ IsPrefix(q, q)
                    BY <1>6, <3>1, <3>3, <4>2, PrefixSelf DEF C
                <5> QED
                    BY <5>1
            <4>3. CASE a # p
                <5>1. Len(a) \in Nat /\ Len(p) \in Nat
                    BY <1>2, <3>1, BitsAre
                <5>2. IsPrefix(a, p) \/ IsPrefix(p, a)
                    BY <1>2, <2>1, <3>1, <4>1, <5>1, PrefixesMeet
                <5>3. IsPrefix(a, p)
                    BY <1>5, <3>3, <4>3, <5>2
                <5>4. PICK c \in Under(a, t[a]) : IsPrefix(c, p)
                    BY <1>1, <3>3, <4>3, <5>3
                <5>5. c \in Bits /\ u[a] = t[a]
                    BY <1>1, <3>3, <4>3
                <5>6. IsPrefix(c, q)
                    BY <1>2, <3>1, <4>1, <5>4, <5>5, PrefixOn
                <5> QED
                    BY <5>4, <5>5, <5>6
            <4> QED
                BY <4>2, <4>3
        <3>4. CASE a \in C
            <4>1. IsPrefix(p, a) /\ p # a
                BY <1>3, <3>4
            <4>2. IsPrefix(p, q)
                BY <1>2, <2>1, <3>1, <4>1, PrefixOn
            <4>3. q \notin C
                BY <1>4, <2>1, <3>4
            <4>4. q = p
                BY <1>5, <1>6, <4>2, <4>3
            <4>5. Len(a) = Len(p)
                <5>1. Len(p) <= Len(a) /\ Len(a) <= Len(p) /\ Len(a) \in Nat /\ Len(p) \in Nat
                    BY <1>2, <2>1, <3>1, <4>1, <4>4, PrefixOrder, BitsAre
                <5> QED
                    BY <5>1
            <4> QED
                BY <1>2, <3>1, <4>1, <4>5, PrefixOrder
        <3> QED
            BY <1>6, <3>2, <3>3, <3>4
    <2> QED
        BY <2>1 DEF Laminar
<1> QED
    BY <1>8, <1>9, <1>10, <1>11 DEF Tidy

-----------------------------------------------------------------------------
(* The rows of the tables. *)

Hash == SUBSET (Bits \X Nat)
NodeRow == [trie_idx : Nat \ {0}, hash : Hash, data : NodeDatum]
LeafRow == [key : Bits, value : Nat, root_idx : Nat \ {0}]

(* The indices with a row, and those a node refers to. *)
Stored(d) == {d.nodes[i].trie_idx : i \in DOMAIN d.nodes}
Refs(data) ==
    CASE data.kind = "Binary" -> {data.left, data.right}
      [] data.kind = "Edge"   -> {data.child}
      [] OTHER                -> {}

GoodTables(d) ==
    /\ d.nodes \in Seq(NodeRow) /\ d.leafs \in Seq(LeafRow)
    /\ \A i \in DOMAIN d.nodes : Refs(d.nodes[i].data) \subseteq Stored(d)

LEMMA FirstHit ==
    ASSUME NEW hits, hits \subseteq Nat, hits # {}
    PROVE  FirstRow(hits) \in hits /\ \A j \in hits : FirstRow(hits) <= j
<1>1. \E i \in hits : \A j \in hits : i <= j
    BY LeastNumber
<1>2. FirstRow(hits) = CHOOSE i \in hits : \A j \in hits : i <= j
    BY DEF FirstRow
<1> QED
    BY <1>1, <1>2

LEMMA LastHit ==
    ASSUME NEW N \in Nat, NEW hits, hits \subseteq 0..N, hits # {}
    PROVE  LastRow(hits) \in hits /\ \A j \in hits : LastRow(hits) >= j
<1> DEFINE T == {n \in Nat : N - n \in hits}
<1>1. T # {}
    <2>1. PICK i \in hits : TRUE
        OBVIOUS
    <2>2. i \in Nat /\ N - i \in Nat /\ N - (N - i) = i
        OBVIOUS
    <2>3. N - i \in T
        BY <2>1, <2>2
    <2> QED
        BY <2>3
<1>2. PICK m \in T : \A n \in T : m <= n
    BY <1>1, LeastNumber
<1>3. N - m \in hits /\ \A j \in hits : N - m >= j
    <2>1. N - m \in hits /\ m \in Nat
        BY <1>2
    <2>2. ASSUME NEW j \in hits PROVE N - m >= j
        <3>1. N - j \in Nat /\ N - (N - j) = j /\ j \in Nat
            OBVIOUS
        <3>2. N - j \in T
            BY <2>2, <3>1
        <3>3. m <= N - j
            BY <1>2, <3>2
        <3> QED
            BY <2>1, <3>1, <3>3
    <2> QED
        BY <2>1, <2>2
<1> HIDE DEF T
<1>4. \E i \in hits : \A j \in hits : i >= j
    BY <1>3
<1>5. LastRow(hits) = CHOOSE i \in hits : \A j \in hits : i >= j
    BY DEF LastRow
<1> QED
    BY <1>4, <1>5

LEMMA NodeData4 ==
    ASSUME NEW data \in NodeDatum
    PROVE  \/ data.kind = "Binary" /\ data.left \in Nat /\ data.right \in Nat
           \/ data.kind = "Edge" /\ data.child \in Nat /\ data.path \in Bits \ {<<>>}
           \/ data.kind = "LeafBinary"
           \/ data.kind = "LeafEdge" /\ data.path \in Bits \ {<<>>}
BY DEF NodeDatum

(* A stored index leads to its row. *)
LEMMA StoredRow ==
    ASSUME NEW d, GoodTables(d), NEW idx \in Stored(d)
    PROVE  /\ idx \in Nat \ {0}
           /\ StoredNode(d, idx) \in NodeDatum /\ StoredHash(d, idx) \in Hash
           /\ Refs(StoredNode(d, idx)) \subseteq Stored(d)
<1> DEFINE hits == WithIdx(d, idx)
<1>1. DOMAIN d.nodes = 1..Len(d.nodes) /\ Len(d.nodes) \in Nat
    BY DEF GoodTables
<1>2. hits \subseteq DOMAIN d.nodes /\ hits # {}
    BY DEF WithIdx, Stored
<1>3. FirstRow(hits) \in DOMAIN d.nodes
    BY <1>1, <1>2, FirstHit
<1> HIDE DEF hits
<1>4. d.nodes[FirstRow(hits)] \in NodeRow
    BY <1>1, <1>3 DEF GoodTables
<1>5. Refs(d.nodes[FirstRow(hits)].data) \subseteq Stored(d)
    BY <1>3 DEF GoodTables
<1>6. StoredNode(d, idx) = d.nodes[FirstRow(hits)].data /\ StoredHash(d, idx) = d.nodes[FirstRow(hits)].hash
    BY DEF StoredNode, StoredHash, hits
<1>7. idx \in Nat \ {0}
    <2>1. PICK i \in DOMAIN d.nodes : idx = d.nodes[i].trie_idx
        BY DEF Stored
    <2>2. d.nodes[i] \in NodeRow
        BY <1>1, <2>1 DEF GoodTables
    <2> QED
        BY <2>1, <2>2 DEF NodeRow
<1> QED
    BY <1>4, <1>5, <1>6, <1>7 DEF NodeRow

-----------------------------------------------------------------------------
(* The way to a key is resolved. *)

FromStore(d, tree) ==
    \A p \in DOMAIN tree : tree[p].kind = "Unresolved" => tree[p].idx \in Stored(d)

(* What Resolved puts at a place: an inner node over children without children. *)
LEMMA ResolvedIs ==
    ASSUME NEW d, GoodTables(d), NEW data \in NodeDatum, Refs(data) \subseteq Stored(d), NEW p \in Bits
    PROVE  \E node \in TreeNode :
              /\ node.kind \in {"Binary", "Edge"}
              /\ DOMAIN Resolved(p, data) = {p} \union Under(p, node)
              /\ Resolved(p, data)[p] = node
              /\ \A c \in Under(p, node) :
                    /\ Resolved(p, data)[c] \in TreeNode
                    /\ Resolved(p, data)[c].kind \in {"Leaf", "Unresolved"}
                    /\ Resolved(p, data)[c].kind = "Unresolved" => Resolved(p, data)[c].idx \in Stored(d)
<1> DEFINE l == Append(p, 0)
           r == Append(p, 1)
<1>0. Stored(d) \subseteq Nat
    BY StoredRow
<1>1. l # p /\ r # p
    BY NextBit
<1>2. Under(p, Binary) = {l, r} /\ Binary \in TreeNode /\ Binary.kind = "Binary"
    BY KindsAre, UnderIs
<1>3. \A path \in Bits \ {<<>>} :
         /\ Under(p, Edge(path)) = {p \o path} /\ Edge(path) \in TreeNode /\ Edge(path).kind = "Edge"
         /\ p \o path # p
    <2> TAKE path \in Bits \ {<<>>}
    <2>1. Edge(path) \in TreeNode /\ Edge(path).kind = "Edge" /\ Edge(path).path = path
        BY KindsAre
    <2>2. Under(p, Edge(path)) = {p \o path}
        BY <2>1 DEF Under
    <2>3. p \o path # p
        BY ConcatEqualIffEmpty DEF Bits
    <2> QED
        BY <2>1, <2>2, <2>3
<1> HIDE DEF l, r
<1>4. CASE data.kind = "Binary"
    <2>1. Resolved(p, data) = [q \in {p, l, r} |-> IF q = p THEN Binary
                                 ELSE Unresolved(IF q = l THEN data.left ELSE data.right)]
        BY <1>4 DEF Resolved, l, r
    <2>2. data.left \in Stored(d) /\ data.right \in Stored(d)
        BY <1>4 DEF Refs
    <2>3. DOMAIN Resolved(p, data) = {p} \union {l, r}
        BY <2>1
    <2>4. Resolved(p, data)[p] = Binary
        BY <2>1
    <2>5. \A c \in {l, r} : \E idx \in Stored(d) : Resolved(p, data)[c] = Unresolved(idx)
        BY <1>1, <2>1, <2>2
    <2>6. \A c \in {l, r} :
             /\ Resolved(p, data)[c] \in TreeNode
             /\ Resolved(p, data)[c].kind \in {"Leaf", "Unresolved"}
             /\ Resolved(p, data)[c].kind = "Unresolved" => Resolved(p, data)[c].idx \in Stored(d)
        BY <1>0, <2>5, KindsAre
    <2> QED
        BY <1>2, <2>3, <2>4, <2>6
<1>5. CASE data.kind = "Edge"
    <2>0. data.path \in Bits \ {<<>>} /\ data.child \in Stored(d)
        BY <1>5, NodeData4 DEF Refs
    <2>1. Resolved(p, data) = [q \in {p, p \o data.path} |-> IF q = p THEN Edge(data.path) ELSE Unresolved(data.child)]
        BY <1>5 DEF Resolved
    <2>3. DOMAIN Resolved(p, data) = {p} \union {p \o data.path}
        BY <2>1
    <2>4. Resolved(p, data)[p] = Edge(data.path)
        BY <2>1
    <2>5. Resolved(p, data)[p \o data.path] = Unresolved(data.child)
        BY <1>3, <2>0, <2>1
    <2>6. /\ Unresolved(data.child) \in TreeNode /\ Unresolved(data.child).kind = "Unresolved"
          /\ Unresolved(data.child).idx = data.child
        BY <1>0, <2>0, KindsAre
    <2>7. /\ Edge(data.path) \in TreeNode /\ Edge(data.path).kind = "Edge"
          /\ Under(p, Edge(data.path)) = {p \o data.path}
        BY <1>3, <2>0
    <2>8. \A c \in Under(p, Edge(data.path)) :
             /\ Resolved(p, data)[c] \in TreeNode
             /\ Resolved(p, data)[c].kind \in {"Leaf", "Unresolved"}
             /\ Resolved(p, data)[c].kind = "Unresolved" => Resolved(p, data)[c].idx \in Stored(d)
        BY <2>0, <2>5, <2>6, <2>7
    <2> QED
        BY <2>3, <2>4, <2>7, <2>8
<1>6. CASE data.kind = "LeafBinary"
    <2>1. Resolved(p, data) = [q \in {p, l, r} |-> IF q = p THEN Binary ELSE Leaf]
        BY <1>6 DEF Resolved, l, r
    <2>3. DOMAIN Resolved(p, data) = {p} \union {l, r}
        BY <2>1
    <2>4. Resolved(p, data)[p] = Binary
        BY <2>1
    <2>5. \A c \in {l, r} : Resolved(p, data)[c] = Leaf
        BY <1>1, <2>1
    <2> QED
        BY <1>2, <2>3, <2>4, <2>5, KindsAre
<1>7. CASE data.kind = "LeafEdge"
    <2>0. data.path \in Bits \ {<<>>}
        BY <1>7, NodeData4
    <2>1. Resolved(p, data) = [q \in {p, p \o data.path} |-> IF q = p THEN Edge(data.path) ELSE Leaf]
        BY <1>7 DEF Resolved
    <2>3. DOMAIN Resolved(p, data) = {p} \union {p \o data.path}
        BY <2>1
    <2>4. Resolved(p, data)[p] = Edge(data.path)
        BY <2>1
    <2>5. Resolved(p, data)[p \o data.path] = Leaf
        BY <1>3, <2>0, <2>1
    <2>7. /\ Edge(data.path) \in TreeNode /\ Edge(data.path).kind = "Edge"
          /\ Under(p, Edge(data.path)) = {p \o data.path}
        BY <1>3, <2>0
    <2>8. \A c \in Under(p, Edge(data.path)) :
             /\ Resolved(p, data)[c] \in TreeNode
             /\ Resolved(p, data)[c].kind \in {"Leaf", "Unresolved"}
             /\ Resolved(p, data)[c].kind = "Unresolved" => Resolved(p, data)[c].idx \in Stored(d)
        BY <2>0, <2>5, <2>7, KindsAre
    <2> QED
        BY <2>3, <2>4, <2>7, <2>8
<1> QED
    BY <1>4, <1>5, <1>6, <1>7, NodeData4

Good(d, tree) == Tidy(tree) /\ FromStore(d, tree)

LEMMA ResolveGood ==
    ASSUME NEW d, GoodTables(d), NEW t, Good(d, t), NEW p \in DOMAIN t
    PROVE  /\ Good(d, Resolve(d, t, p))
           /\ DOMAIN t \subseteq DOMAIN Resolve(d, t, p)
           /\ \A q \in DOMAIN t : q # p => Resolve(d, t, p)[q] = t[q]
<1>0. t \in [DOMAIN t -> TreeNode] /\ DOMAIN t \subseteq Bits /\ t[p] \in TreeNode /\ p \in Bits
    BY DEF Good, Tidy
<1>1. CASE t[p].kind # "Unresolved"
    <2>1. Resolve(d, t, p) = t
        BY <1>1 DEF Resolve
    <2> QED
        BY <2>1
<1>2. CASE t[p].kind = "Unresolved"
    <2> DEFINE data == StoredNode(d, t[p].idx)
               new == Resolved(p, data)
               u == Resolve(d, t, p)
    <2>1. t[p].idx \in Stored(d)
        BY <1>2 DEF Good, FromStore
    <2>2. data \in NodeDatum /\ Refs(data) \subseteq Stored(d)
        BY <2>1, StoredRow
    <2> HIDE DEF data
    <2>3. PICK node \in TreeNode :
              /\ node.kind \in {"Binary", "Edge"}
              /\ DOMAIN new = {p} \union Under(p, node)
              /\ new[p] = node
              /\ \A c \in Under(p, node) :
                    /\ new[c] \in TreeNode
                    /\ new[c].kind \in {"Leaf", "Unresolved"}
                    /\ new[c].kind = "Unresolved" => new[c].idx \in Stored(d)
        BY <1>0, <2>2, ResolvedIs
    <2>4. u = Over(new, t)
        BY <1>2 DEF Resolve, data
    <2> HIDE DEF new, u
    <2>5. \A c \in Under(p, node) : c \in Bits /\ IsPrefix(p, c) /\ c # p
        BY <1>0, UnderIs
    <2>6. Under(p, t[p]) = {}
        BY <1>0, <1>2, UnderIs
    <2>7. \A c \in Under(p, node) : c \notin DOMAIN t
        BY <2>5, <2>6 DEF Good, Tidy, Laminar
    <2>8. DOMAIN u = DOMAIN t \union Under(p, node)
        BY <2>3, <2>4 DEF Over
    <2>9. \A q \in DOMAIN new : u[q] = new[q]
        BY <2>4 DEF Over
    <2>10. \A q \in DOMAIN t : q # p => u[q] = t[q]
        <3> SUFFICES ASSUME NEW q \in DOMAIN t, q # p PROVE u[q] = t[q]
            OBVIOUS
        <3>1. q \notin DOMAIN new
            BY <2>3, <2>7
        <3> QED
            BY <2>4, <3>1 DEF Over
    <2>11. u \in [DOMAIN u -> TreeNode]
        <3>1. \A q \in DOMAIN u : u[q] \in TreeNode
            BY <1>0, <2>3, <2>8, <2>9, <2>10
        <3>2. u = [q \in DOMAIN u |-> u[q]]
            BY <2>4 DEF Over
        <3> QED
            BY <3>1, <3>2
    <2>12. \A c \in Under(p, node) : Under(c, u[c]) = {}
        <3> SUFFICES ASSUME NEW c \in Under(p, node) PROVE Under(c, u[c]) = {}
            OBVIOUS
        <3>1. u[c] = new[c] /\ new[c] \in TreeNode /\ new[c].kind \notin {"Binary", "Edge"} /\ c \in Bits
            BY <2>3, <2>5, <2>9
        <3> QED
            BY <3>1 DEF Under
    <2>13. u[p] = node
        BY <2>3, <2>9
    <2>14. Tidy(u)
        BY <2>6, <2>8, <2>10, <2>11, <2>12, <2>13, Grown DEF Good
    <2>15. FromStore(d, u)
        <3> SUFFICES ASSUME NEW q \in DOMAIN u, u[q].kind = "Unresolved" PROVE u[q].idx \in Stored(d)
            BY DEF FromStore
        <3>1. CASE q = p
            BY <2>3, <2>13, <3>1
        <3>2. CASE q \in Under(p, node)
            BY <2>3, <2>9, <3>2
        <3>3. CASE q \in DOMAIN t /\ q # p
            BY <2>10, <3>3 DEF Good, FromStore
        <3> QED
            BY <2>8, <3>1, <3>2, <3>3
    <2>16. Good(d, u)
        BY <2>14, <2>15 DEF Good
    <2> QED
        BY <2>8, <2>10, <2>16 DEF u
<1> QED
    BY <1>1, <1>2

LEMMA TheOne == ASSUME NEW x PROVE The({x}) = x
BY DEF The

LEMMA WayIs ==
    ASSUME NEW t, DOMAIN t \subseteq Bits, NEW key \in Bits
    PROVE  \A p \in Way(t, key) : p \in DOMAIN t /\ p \in Bits /\ IsPrefix(p, key) /\ Len(p) \in 0..Len(key)
<1> SUFFICES ASSUME NEW p \in Way(t, key)
             PROVE  p \in DOMAIN t /\ p \in Bits /\ IsPrefix(p, key) /\ Len(p) \in 0..Len(key)
    OBVIOUS
<1>1. p \in DOMAIN t /\ p \in Bits /\ IsPrefix(p, key)
    BY DEF Way
<1>2. Len(p) <= Len(key) /\ Len(p) \in Nat /\ Len(key) \in Nat
    BY <1>1, PrefixOrder, BitsAre
<1> QED
    BY <1>1, <1>2

LEMMA DeepestIs ==
    ASSUME NEW P, NEW N \in Nat, \A p \in P : Len(p) \in 0..N, P # {}
    PROVE  Deepest(P) \in P /\ \A q \in P : Len(q) <= Len(Deepest(P))
<1> DEFINE lens == {Len(p) : p \in P}
<1>1. LastRow(lens) \in lens /\ \A j \in lens : LastRow(lens) >= j
    <2>1. lens \subseteq 0..N /\ lens # {}
        OBVIOUS
    <2> HIDE DEF lens
    <2> QED
        BY <2>1, LastHit
<1>2. PICK p \in P : LastRow(lens) = Len(p)
    BY <1>1
<1>3. \A q \in P : Len(q) <= Len(p)
    <2> SUFFICES ASSUME NEW q \in P PROVE Len(q) <= Len(p)
        OBVIOUS
    <2>1. Len(p) >= Len(q)
        BY <1>1, <1>2
    <2> QED
        BY <2>1
<1> QED
    BY <1>3 DEF Deepest

(* The trees an update goes through. *)
Trees(d) == {t \in UNION {[D -> TreeNode] : D \in SUBSET Bits} : Good(d, t)} \union {Broken}

LEMMA TreesAre == ASSUME NEW d, NEW t PROVE t \in Trees(d) <=> Good(d, t) \/ t = Broken
<1>1. ASSUME Good(d, t) PROVE t \in UNION {[D -> TreeNode] : D \in SUBSET Bits}
    <2>1. t \in [DOMAIN t -> TreeNode] /\ DOMAIN t \in SUBSET Bits
        BY <1>1 DEF Good, Tidy
    <2> QED
        BY <2>1
<1> QED
    BY <1>1 DEF Trees

LEMMA EmptyBits == <<>> \in Bits /\ Len(<<>>) = 0
BY DEF Bits

LEMMA EmptyPrefix == ASSUME NEW key \in Bits PROVE IsPrefix(<<>>, key)
<1>1. Len(key) \in Nat /\ Len(<<>>) <= Len(key) /\ \A i \in 1..Len(<<>>) : <<>>[i] = key[i]
    BY BitsAre, EmptyBits
<1> QED
    BY <1>1, EmptyBits, PrefixBits

LEMMA BrokenIs ==
    ASSUME NEW key \in Bits
    PROVE  /\ DOMAIN Broken = {<<>>} /\ Broken[<<>>].kind = "Broken" /\ Broken # NoTree
           /\ Way(Broken, key) = {<<>>} /\ Deepest({<<>>}) = <<>>
<1>1. DOMAIN Broken = {<<>>} /\ Broken[<<>>].kind = "Broken"
    BY DEF Broken
<1>2. DOMAIN NoTree = {}
    BY DEF NoTree
<1>3. Way(Broken, key) = {<<>>}
    BY <1>1, EmptyPrefix DEF Way
<1>4. Deepest({<<>>}) = <<>>
    BY EmptyBits DEF Deepest
<1> QED
    BY <1>1, <1>2, <1>3, <1>4

LEMMA ResolveNextGood ==
    ASSUME NEW d, GoodTables(d), NEW t \in Trees(d), NEW key \in Bits
    PROVE  ResolveNext(d, t, key) \in Trees(d)
<1>1. CASE t = Broken
    <2>1. Resolve(d, Broken, <<>>) = Broken
        BY BrokenIs DEF Resolve
    <2> QED
        BY <1>1, <2>1, BrokenIs DEF ResolveNext
<1>2. CASE Good(d, t)
    <2>1. CASE Way(t, key) = {}
        BY <2>1 DEF ResolveNext
    <2>2. CASE Way(t, key) # {}
        <3>1. Deepest(Way(t, key)) \in DOMAIN t
            <4>1. DOMAIN t \subseteq Bits /\ Len(key) \in Nat
                BY <1>2, BitsAre DEF Good, Tidy
            <4>2. \A p \in Way(t, key) : p \in DOMAIN t /\ Len(p) \in 0..Len(key)
                BY <4>1, WayIs
            <4>3. Deepest(Way(t, key)) \in Way(t, key)
                BY <2>2, <4>1, <4>2, DeepestIs
            <4> QED
                BY <4>2, <4>3
        <3>2. Good(d, Resolve(d, t, Deepest(Way(t, key))))
            BY <1>2, <3>1, ResolveGood
        <3>3. ResolveNext(d, t, key) = Resolve(d, t, Deepest(Way(t, key)))
            BY <2>2 DEF ResolveNext
        <3> QED
            BY <3>2, <3>3, TreesAre
    <2> QED
        BY <2>1, <2>2
<1> QED
    BY <1>1, <1>2, TreesAre

Rounds(f, d, t, key) ==
    f = [n \in Nat |-> IF n = 0 THEN t ELSE The({ResolveNext(d, u, key) : u \in {f[n - 1]}})]

(* traverse resolves one node a round. *)
TraverseRun(round, d, t, key) ==
    /\ round[0] = t /\ \A n \in Nat : round[n + 1] = ResolveNext(d, round[n], key)
    /\ Traverse(d, t, key) = round[Len(key) + 1]

LEMMA TraverseRuns ==
    ASSUME NEW d, GoodTables(d), NEW t \in Trees(d), NEW key \in Bits
    PROVE  \E round : TraverseRun(round, d, t, key)
<1> DEFINE step == [x \in Nat \X Trees(d) |-> ResolveNext(d, x[2], key)]
           round == CHOOSE f : Rounds(f, d, t, key)
<1>1. \A f : \A n : The({ResolveNext(d, u, key) : u \in {f[n - 1]}}) = ResolveNext(d, f[n - 1], key)
    <2> TAKE f
    <2> TAKE n
    <2>1. {ResolveNext(d, u, key) : u \in {f[n - 1]}} = {ResolveNext(d, f[n - 1], key)}
        OBVIOUS
    <2> QED
        BY <2>1, TheOne
<1>2. \E f : Rounds(f, d, t, key)
    <2>1. step \in [Nat \X Trees(d) -> Trees(d)]
        BY ResolveNextGood
    <2>2. \A n \in Nat, u \in Trees(d) : step[<<n, u>>] = ResolveNext(d, u, key)
        OBVIOUS
    <2> HIDE DEF step
    <2>3. PICK f : IsIteration(f, Trees(d), t, step)
        BY <2>1, Iterates
    <2>4. ASSUME NEW n \in Nat
          PROVE  f[n] = IF n = 0 THEN t ELSE The({ResolveNext(d, u, key) : u \in {f[n - 1]}})
        <3>1. CASE n = 0
            BY <2>3, <3>1 DEF IsIteration
        <3>2. CASE n # 0
            <4>1. n - 1 \in Nat /\ n - 1 + 1 = n
                BY <3>2
            <4>2. f[n] = step[<<n, f[n - 1]>>] /\ f[n - 1] \in Trees(d)
                BY <2>3, <4>1 DEF IsIteration
            <4>3. The({ResolveNext(d, u, key) : u \in {f[n - 1]}}) = ResolveNext(d, f[n - 1], key)
                BY <1>1
            <4>4. step[<<n, f[n - 1]>>] = ResolveNext(d, f[n - 1], key)
                BY <2>2, <4>2
            <4> QED
                BY <3>2, <4>2, <4>3, <4>4
        <3> QED
            BY <3>1, <3>2
    <2>5. Rounds(f, d, t, key)
        <3>1. f = [n \in Nat |-> f[n]]
            BY <2>3 DEF IsIteration
        <3> QED
            BY <2>4, <3>1 DEF Rounds
    <2> QED
        BY <2>5
<1> HIDE DEF step
<1>3. Rounds(round, d, t, key)
    BY <1>2
<1>4. Traverse(d, t, key) = round[Len(key) + 1]
    BY DEF Traverse, Rounds
<1> HIDE DEF round
<1>5. round[0] = t /\ \A n \in Nat : round[n + 1] = ResolveNext(d, round[n], key)
    <2>1. round[0] = t
        BY <1>3 DEF Rounds
    <2>2. ASSUME NEW n \in Nat PROVE round[n + 1] = ResolveNext(d, round[n], key)
        <3>1. n + 1 \in Nat /\ n + 1 # 0 /\ n + 1 - 1 = n
            OBVIOUS
        <3>2. \A m \in Nat : round[m] = IF m = 0 THEN t ELSE The({ResolveNext(d, u, key) : u \in {round[m - 1]}})
            BY <1>3 DEF Rounds
        <3>3. \A m \in Nat : m # 0 => round[m] = ResolveNext(d, round[m - 1], key)
            BY <1>1, <3>2
        <3> QED
            BY <3>1, <3>3
    <2> QED
        BY <2>1, <2>2
<1>6. TraverseRun(round, d, t, key)
    BY <1>4, <1>5 DEF TraverseRun
<1> QED
    BY <1>6

LEMMA TraverseGood ==
    ASSUME NEW d, GoodTables(d), NEW t \in Trees(d), NEW key \in Bits
    PROVE  Traverse(d, t, key) \in Trees(d)
<1>1. PICK round : TraverseRun(round, d, t, key)
    BY TraverseRuns
<1>2. /\ round[0] = t /\ \A n \in Nat : round[n + 1] = ResolveNext(d, round[n], key)
      /\ Traverse(d, t, key) = round[Len(key) + 1]
    BY <1>1 DEF TraverseRun
<1>3. Len(key) + 1 \in Nat
    BY BitsAre
<1> DEFINE T == {n \in 0..Len(key) + 1 : round[n] \in Trees(d)}
<1>4. 0 \in T
    BY <1>2, <1>3
<1>5. ASSUME NEW n \in 0..Len(key) + 1, n < Len(key) + 1, n \in T PROVE n + 1 \in T
    <2>1. n \in Nat /\ n + 1 \in 0..Len(key) + 1
        BY <1>3, <1>5
    <2>2. round[n + 1] \in Trees(d)
        BY <1>2, <1>5, <2>1, ResolveNextGood
    <2> QED
        BY <2>1, <2>2
<1>6. 0..Len(key) + 1 \subseteq T
    <2> HIDE DEF T
    <2> QED
        BY <1>3, <1>4, <1>5, UpTo
<1> QED
    BY <1>2, <1>3, <1>6

-----------------------------------------------------------------------------
(* set: a new leaf beside the edge that the key leaves. *)

(* The prefixes of paths are a forest. *)
LEMMA PrefixForest ==
    /\ \A s \in Bits : IsPrefix(s, s)
    /\ \A s, t \in Bits : IsPrefix(s, t) => Len(s) <= Len(t) /\ (s # t => Len(s) < Len(t))
    /\ \A s, t, u \in Bits : IsPrefix(s, t) /\ IsPrefix(t, u) => IsPrefix(s, u)
    /\ \A s, t, u \in Bits : IsPrefix(s, u) /\ IsPrefix(t, u) /\ Len(s) <= Len(t) => IsPrefix(s, t)
<1>1. \A s, t, u \in Bits : IsPrefix(s, t) /\ IsPrefix(t, u) => IsPrefix(s, u)
    BY PrefixOn
<1>2. \A s, t, u \in Bits : IsPrefix(s, u) /\ IsPrefix(t, u) /\ Len(s) <= Len(t) => IsPrefix(s, t)
    BY PrefixesMeet
<1>3. \A s, t \in Bits : IsPrefix(s, t) => Len(s) <= Len(t) /\ (s # t => Len(s) < Len(t))
    BY PrefixOrder
<1> QED
    BY <1>1, <1>2, <1>3, PrefixSelf

LEMMA PrefixEither ==
    ASSUME NEW s \in Bits, NEW t \in Bits, NEW u \in Bits, IsPrefix(s, u), IsPrefix(t, u)
    PROVE  IsPrefix(s, t) \/ IsPrefix(t, s)
<1>1. Len(s) \in Nat /\ Len(t) \in Nat
    BY BitsAre
<1> QED
    BY <1>1, PrefixesMeet

(* The edge at e of tree t cut where the key leaves it, in tree u. *)
SplitsTo(t, e, far, key, fork, new, old, u) ==
    /\ e \in DOMAIN t /\ far \in Bits /\ Under(e, t[e]) = {far}
    /\ key \in Bits /\ fork \in Bits /\ new \in Bits /\ old \in Bits
    /\ IsPrefix(e, fork) /\ IsPrefix(new, key) /\ IsPrefix(old, far) /\ Len(far) <= Len(key)
    /\ Under(fork, Binary) = {new, old} /\ new # old
    /\ DOMAIN u = DOMAIN t \union {fork, new, key, old} /\ u \in [DOMAIN u -> TreeNode]
    /\ u[fork] = Binary /\ u[key] = Leaf
    /\ e # fork => Under(e, u[e]) = {fork}
    /\ new # key => Under(new, u[new]) = {key}
    /\ old # far => Under(old, u[old]) = {far}
    /\ \A a \in DOMAIN t : a # e /\ a \notin {fork, new, key} /\ (a = old => old = far) => u[a] = t[a]

LEMMA SplitTidy ==
    ASSUME NEW t, Tidy(t), NEW e, NEW far, NEW key, NEW fork, NEW new, NEW old, NEW u,
           SplitsTo(t, e, far, key, fork, new, old, u)
    PROVE  /\ Tidy(u)
           /\ \A a \in DOMAIN t : a # e => u[a] = t[a]
<1>0. /\ e \in DOMAIN t /\ far \in Bits /\ Under(e, t[e]) = {far}
      /\ key \in Bits /\ fork \in Bits /\ new \in Bits /\ old \in Bits
      /\ IsPrefix(e, fork) /\ IsPrefix(new, key) /\ IsPrefix(old, far) /\ Len(far) <= Len(key)
      /\ Under(fork, Binary) = {new, old} /\ new # old
      /\ DOMAIN u = DOMAIN t \union {fork, new, key, old} /\ u \in [DOMAIN u -> TreeNode]
      /\ u[fork] = Binary /\ u[key] = Leaf
      /\ e # fork => Under(e, u[e]) = {fork}
      /\ new # key => Under(new, u[new]) = {key}
      /\ old # far => Under(old, u[old]) = {far}
      /\ \A a \in DOMAIN t : a # e /\ a \notin {fork, new, key} /\ (a = old => old = far) => u[a] = t[a]
    BY DEF SplitsTo
<1> USE <1>0
<1> DEFINE D == DOMAIN t
<1>1. /\ t \in [D -> TreeNode] /\ D \subseteq Bits /\ IsFiniteSet(D)
      /\ D # {} => <<>> \in D
      /\ \A q \in D : Under(q, t[q]) \subseteq D
      /\ \A a, q \in D : IsPrefix(a, q) /\ a # q => \E c \in Under(a, t[a]) : IsPrefix(c, q)
    BY DEF Tidy, Closed, Laminar
<1>2. DOMAIN u = D \union {fork, new, key, old} /\ e \in D /\ e \in Bits /\ far \in D
    BY <1>1
<1> HIDE DEF D
<1>3. /\ IsPrefix(fork, new) /\ IsPrefix(fork, old) /\ fork # new /\ fork # old
      /\ Len(new) = Len(old)
    BY KindsAre, UnderIs, UnderApart
<1>4. Len(e) \in Nat /\ Len(fork) \in Nat /\ Len(new) \in Nat /\ Len(far) \in Nat /\ Len(key) \in Nat
    BY <1>2, BitsAre
<1>5. /\ Len(e) <= Len(fork) /\ Len(fork) < Len(new) /\ Len(new) <= Len(far) /\ Len(new) <= Len(key)
    BY <1>2, <1>3, <1>4, PrefixOrder
(* The two sides are apart. *)
<1>6. ASSUME NEW q \in Bits PROVE ~ (IsPrefix(new, q) /\ IsPrefix(old, q))
    <2>1. IsPrefix(new, q) /\ IsPrefix(old, q) => IsPrefix(new, old)
        BY <1>3, <1>4, PrefixesMeet
    <2> QED
        BY <1>3, <2>1, PrefixOrder
<1>7. ~ IsPrefix(far, key)
    BY <1>6, PrefixOn
<1>8. /\ IsPrefix(e, new) /\ IsPrefix(e, old) /\ IsPrefix(e, key) /\ IsPrefix(e, far)
      /\ IsPrefix(fork, key) /\ IsPrefix(fork, far)
    BY <1>2, <1>3, PrefixOn
<1>9. e # new /\ e # old /\ e # key /\ e # far
    BY <1>4, <1>5, <1>3
(* What lies below the edge lies below its end. *)
<1>10. ASSUME NEW q \in D, IsPrefix(e, q), q # e PROVE IsPrefix(far, q)
    BY <1>1, <1>2, <1>10
<1>11. /\ fork \in D => fork = e
       /\ new \notin D /\ key \notin D
       /\ old \in D => old = far
    <2>1. fork \in D => fork = e
        <3> SUFFICES ASSUME fork \in D, fork # e PROVE FALSE
            OBVIOUS
        <3>1. IsPrefix(far, fork)
            BY <1>10
        <3>2. Len(far) <= Len(fork)
            BY <3>1, PrefixOrder
        <3> QED
            BY <1>4, <1>5, <3>2
    <2>2. new \notin D
        <3> SUFFICES ASSUME new \in D PROVE FALSE
            OBVIOUS
        <3>1. IsPrefix(far, new)
            BY <1>8, <1>9, <1>10
        <3>2. IsPrefix(old, new)
            BY <3>1, PrefixOn
        <3> QED
            BY <1>6, <3>2, PrefixSelf
    <2>3. key \notin D
        BY <1>7, <1>8, <1>9, <1>10
    <2>4. old \in D => old = far
        <3> SUFFICES ASSUME old \in D PROVE old = far
            OBVIOUS
        <3>1. IsPrefix(far, old)
            BY <1>8, <1>9, <1>10
        <3>2. Len(far) <= Len(old)
            BY <3>1, PrefixOrder
        <3>3. Len(far) = Len(old)
            BY <1>3, <1>4, <1>5, <3>2
        <3> QED
            BY <3>3, PrefixOrder
    <2> QED
        BY <2>1, <2>2, <2>3, <2>4
<1>12. \A a \in D : a # e => u[a] = t[a]
    BY <1>11 DEF D
<1>13. DOMAIN u \subseteq Bits /\ IsFiniteSet(DOMAIN u) /\ <<>> \in DOMAIN u
    <2>1. IsFiniteSet({fork, new, key, old})
        <3>1. IsFiniteSet({fork}) /\ IsFiniteSet({new}) /\ IsFiniteSet({key}) /\ IsFiniteSet({old})
            BY FS_Singleton
        <3>2. IsFiniteSet(({fork} \union {new}) \union ({key} \union {old}))
            BY <3>1, FS_Union
        <3>3. ({fork} \union {new}) \union ({key} \union {old}) = {fork, new, key, old}
            OBVIOUS
        <3> QED
            BY <3>2, <3>3
    <2>2. IsFiniteSet(D \union {fork, new, key, old})
        BY <1>1, <2>1, FS_Union
    <2>3. <<>> \in D
        BY <1>1, <1>2
    <2> QED
        BY <1>1, <1>2, <2>2, <2>3
<1>14. Closed(u)
    <2> SUFFICES ASSUME NEW a \in DOMAIN u PROVE Under(a, u[a]) \subseteq DOMAIN u
        BY DEF Closed
    <2>1. CASE a = fork
        BY <1>2, <2>1
    <2>2. CASE a = key
        <3>1. Under(a, u[a]) = {}
            BY <2>2, KindsAre, UnderIs
        <3> QED
            BY <3>1
    <2>3. CASE a = e /\ e # fork
        BY <1>2, <2>3
    <2>4. CASE a = new /\ new # key
        BY <1>2, <2>4
    <2>5. CASE a = old /\ old # far
        BY <1>2, <2>5
    <2>6. CASE a \in D /\ a # e
        BY <1>1, <1>2, <1>12, <2>6
    <2> QED
        BY <1>2, <2>1, <2>2, <2>3, <2>4, <2>5, <2>6
<1>15. Laminar(u)
    <2> SUFFICES ASSUME NEW a \in DOMAIN u, NEW q \in DOMAIN u, IsPrefix(a, q), a # q
                 PROVE  \E c \in Under(a, u[a]) : IsPrefix(c, q)
        BY DEF Laminar
    <2>0. a \in Bits /\ q \in Bits /\ Len(a) \in Nat /\ Len(q) \in Nat /\ Len(a) < Len(q)
        BY <1>13, BitsAre, PrefixOrder
    (* Whatever is new lies below the edge, and so does what lies below it. *)
    <2>1. CASE a \in D /\ a # e
        <3>1. u[a] = t[a]
            BY <1>12, <2>1
        <3>2. CASE q \in D
            BY <1>1, <2>1, <3>1, <3>2
        <3>3. CASE q \in {fork, new, key, old} /\ q \notin D
            <4>1. IsPrefix(e, q)
                BY <1>8, <3>3
            <4>2. CASE IsPrefix(a, e)
                <5>1. PICK c \in Under(a, t[a]) : IsPrefix(c, e)
                    BY <1>1, <1>2, <2>1, <4>2
                <5>2. c \in Bits
                    BY <1>1, <2>1
                <5>3. IsPrefix(c, q)
                    BY <1>2, <2>0, <4>1, <5>1, <5>2, PrefixOn
                <5> QED
                    BY <3>1, <5>1, <5>3
            <4>3. CASE IsPrefix(e, a)
                <5>1. IsPrefix(far, a)
                    BY <1>10, <2>1, <4>3
                <5>2. IsPrefix(far, q) /\ Len(far) <= Len(a)
                    BY <2>0, <5>1, PrefixOn, PrefixOrder
                <5>3. q = key
                    BY <1>3, <1>4, <1>5, <2>0, <3>3, <5>2
                <5> QED
                    BY <1>7, <5>2, <5>3
            <4> QED
                BY <1>2, <2>0, <4>1, <4>2, <4>3, PrefixEither
        <3> QED
            BY <1>2, <3>2, <3>3
    <2>2. CASE a = e /\ e # fork
        <3>1. Under(a, u[a]) = {fork}
            BY <2>2
        <3>2. CASE q \in D
            <4>1. IsPrefix(far, q)
                BY <1>10, <2>2, <3>2
            <4>2. IsPrefix(fork, q)
                BY <1>8, <2>0, <4>1, PrefixOn
            <4> QED
                BY <3>1, <4>2
        <3>3. CASE q \in {fork, new, key, old}
            <4>1. IsPrefix(fork, q)
                BY <1>3, <1>8, <3>3, PrefixSelf
            <4> QED
                BY <3>1, <4>1
        <3> QED
            BY <1>2, <3>2, <3>3
    <2>3. CASE a = fork
        <3>1. Under(a, u[a]) = {new, old}
            BY <2>3
        <3>2. CASE q \in D
            <4>1. IsPrefix(e, q) /\ q # e
                <5>1. IsPrefix(e, q)
                    BY <1>2, <2>0, <2>3, PrefixOn
                <5> QED
                    BY <1>4, <1>5, <2>0, <2>3, <5>1
            <4>2. IsPrefix(far, q)
                BY <1>10, <3>2, <4>1
            <4>3. IsPrefix(old, q)
                BY <2>0, <4>2, PrefixOn
            <4> QED
                BY <3>1, <4>3
        <3>3. CASE q \in {new, key, old}
            BY <3>1, <3>3, PrefixSelf
        <3> QED
            BY <1>2, <2>3, <3>2, <3>3
    <2>4. CASE a = new /\ new # key
        <3>1. Under(a, u[a]) = {key} /\ IsPrefix(key, key)
            BY <2>4, PrefixSelf
        <3>2. CASE q \in D
            <4>1. IsPrefix(e, q) /\ q # e
                <5>1. IsPrefix(e, q)
                    BY <1>2, <1>8, <2>0, <2>4, PrefixOn
                <5> QED
                    BY <1>4, <1>5, <2>0, <2>4, <5>1
            <4>2. IsPrefix(far, q)
                BY <1>10, <3>2, <4>1
            <4>3. IsPrefix(old, q)
                BY <2>0, <4>2, PrefixOn
            <4> QED
                BY <1>6, <2>0, <2>4, <4>3
        <3>3. CASE q \in {fork, old}
            BY <1>3, <1>4, <1>5, <2>0, <2>4, <3>3
        <3>4. CASE q = key
            BY <3>1, <3>4
        <3> QED
            BY <1>2, <2>4, <3>2, <3>3, <3>4
    <2>5. CASE a = key
        <3>1. CASE q \in D
            <4>1. IsPrefix(e, q) /\ q # e
                <5>1. IsPrefix(e, q)
                    BY <1>2, <1>8, <2>0, <2>5, PrefixOn
                <5> QED
                    BY <1>4, <1>5, <2>0, <2>5, <5>1
            <4>2. IsPrefix(far, q)
                BY <1>10, <3>1, <4>1
            <4>3. IsPrefix(far, key)
                BY <2>0, <2>5, <4>2, PrefixesMeet
            <4> QED
                BY <1>7, <4>3
        <3>2. CASE q \in {fork, new, key, old}
            BY <1>3, <1>4, <1>5, <2>0, <2>5, <3>2
        <3> QED
            BY <1>2, <3>1, <3>2
    <2>6. CASE a = old /\ old # far
        <3>1. Under(a, u[a]) = {far}
            BY <2>6
        <3>2. CASE q \in D
            <4>1. IsPrefix(e, q) /\ q # e
                <5>1. IsPrefix(e, q)
                    BY <1>2, <1>8, <2>0, <2>6, PrefixOn
                <5> QED
                    BY <1>3, <1>4, <1>5, <2>0, <2>6, <5>1
            <4>2. IsPrefix(far, q)
                BY <1>10, <3>2, <4>1
            <4> QED
                BY <3>1, <4>2
        <3>3. CASE q \in {fork, new, old}
            BY <1>3, <1>4, <1>5, <2>0, <2>6, <3>3
        <3>4. CASE q = key
            BY <1>6, <2>6, <3>4
        <3> QED
            BY <1>2, <3>2, <3>3, <3>4
    <2> QED
        BY <1>2, <1>11, <2>1, <2>2, <2>3, <2>4, <2>5, <2>6
<1> QED
    BY <1>12, <1>13, <1>14, <1>15 DEF Tidy, D

(* Two paths of which the second is no prefix of the first fork. *)
LEMMA ForkIs ==
    ASSUME NEW key \in Bits, NEW far \in Bits, Len(far) <= Len(key), ~ IsPrefix(far, key)
    PROVE  /\ Fork(key, far) \in 1..Len(far)
           /\ key[Fork(key, far)] # far[Fork(key, far)]
           /\ \A i \in 1..Fork(key, far) - 1 : key[i] = far[i]
<1> DEFINE Apart == {i \in 1..Len(far) : key[i] # far[i]}
           n == Fork(key, far)
<1>1. Len(key) \in Nat /\ Len(far) \in Nat
    BY BitsAre
<1>2. Apart # {} /\ Apart \subseteq Nat
    BY PrefixBits
<1>3. PICK m \in Apart : \A i \in Apart : m <= i
    BY <1>2, LeastNumber
<1>4. m \in 1..Len(far) /\ m \in 1..Len(key) /\ key[m] # far[m] /\ \A i \in 1..m - 1 : key[i] = far[i]
    BY <1>1, <1>3
<1> HIDE DEF Apart
<1>5. SubSeq(key, 1, m - 1) = SubSeq(far, 1, m - 1)
    <2>1. m - 1 \in 0..Len(key) /\ m - 1 \in 0..Len(far)
        BY <1>1, <1>4
    <2>2. /\ SubSeq(key, 1, m - 1) \in Bits /\ SubSeq(far, 1, m - 1) \in Bits
          /\ Len(SubSeq(key, 1, m - 1)) = m - 1 /\ Len(SubSeq(far, 1, m - 1)) = m - 1
          /\ \A i \in 1..m - 1 : SubSeq(key, 1, m - 1)[i] = key[i]
          /\ \A i \in 1..m - 1 : SubSeq(far, 1, m - 1)[i] = far[i]
        BY <2>1, Beginning
    <2> QED
        BY <1>4, <2>2, SameBits
<1>6. /\ n \in 1..Len(key) /\ key[n] # far[n]
      /\ SubSeq(key, 1, n - 1) = SubSeq(far, 1, n - 1)
    BY <1>4, <1>5 DEF Fork
<1> HIDE DEF n
(* No other position will do. *)
<1>7. n = m
    <2>1. m \in Nat /\ n \in Nat /\ n - 1 \in 0..Len(key) /\ m - 1 \in 0..Len(key)
        BY <1>1, <1>4, <1>6
    <2>2. ~ (m < n)
        <3> SUFFICES ASSUME m < n PROVE FALSE
            OBVIOUS
        <3>1. m \in 1..n - 1
            BY <1>4, <2>1
        <3>2. SubSeq(key, 1, n - 1)[m] = key[m]
            BY <2>1, <3>1, Beginning
        <3>3. SubSeq(far, 1, n - 1)[m] = far[m]
            BY <2>1, <3>1
        <3> QED
            BY <1>4, <1>6, <3>2, <3>3
    <2>3. ~ (n < m)
        <3> SUFFICES ASSUME n < m PROVE FALSE
            OBVIOUS
        <3>1. n \in 1..m - 1
            BY <1>6, <2>1
        <3> QED
            BY <1>4, <1>6, <3>1
    <2> QED
        BY <2>1, <2>2, <2>3
<1> QED
    BY <1>4, <1>7 DEF n

(* In tree u, the nodes of t but e, the leaf at key and inner nodes. *)
SplitAt(t, e, key, u) ==
    /\ DOMAIN t \subseteq DOMAIN u /\ key \in DOMAIN u /\ u[key] = Leaf
    /\ u[e].kind \in {"Binary", "Edge"} /\ \A a \in DOMAIN t : a # e => u[a] = t[a]
    /\ \A p \in DOMAIN u : p \notin DOMAIN t =>
          Len(p) <= Len(key) /\ (p # key => u[p].kind \in {"Binary", "Edge"})

LEMMA SplitGood ==
    ASSUME NEW d, NEW t, Good(d, t), NEW key \in Bits, NEW e \in DOMAIN t, t[e].kind = "Edge",
           IsPrefix(e, key), \A q \in Way(t, key) : Len(q) <= Len(e),
           Len(e) + Len(t[e].path) <= Len(key)
    PROVE  Good(d, SplitEdge(t, e, key)) /\ SplitAt(t, e, key, SplitEdge(t, e, key))
<1> DEFINE far == e \o t[e].path
           n == Fork(key, far)
           fork == SubSeq(key, 1, n - 1)
           new == SubSeq(key, 1, n)
           old == SubSeq(far, 1, n)
           u == SplitEdge(t, e, key)
<1>1. /\ t \in [DOMAIN t -> TreeNode] /\ DOMAIN t \subseteq Bits /\ Closed(t)
      /\ e \in Bits /\ t[e] \in TreeNode
    BY DEF Good, Tidy
<1>2. t[e].path \in Bits /\ t[e].path # <<>> /\ t[e] = Edge(t[e].path)
    BY <1>1, NodeKinds
<1>3. Under(e, t[e]) = {far}
    BY <1>1, UnderIs
<1>4. /\ far \in Bits /\ far \in DOMAIN t /\ IsPrefix(e, far) /\ far # e
      /\ Len(far) = Len(e) + Len(t[e].path) /\ Len(far) <= Len(key)
    <2>1. far \in DOMAIN t
        BY <1>1, <1>3 DEF Closed
    <2>2. far \in Bits /\ IsPrefix(e, far) /\ Len(far) = Len(e) + Len(t[e].path)
        BY <1>1, <1>2, Prolonged
    <2>3. far # e
        BY <1>1, <1>3, UnderIs
    <2> QED
        BY <2>1, <2>2, <2>3
<1>5. Len(e) \in Nat /\ Len(far) \in Nat /\ Len(key) \in Nat /\ Len(e) < Len(far)
    BY <1>1, <1>4, BitsAre, PrefixOrder
<1>6. u = [p \in DOMAIN t \union {fork, new, key, old} |->
            CASE p = fork -> Binary
              [] p = key -> Leaf
              [] p = e /\ e # fork -> Edge(Drop(fork, Len(e)))
              [] p = new /\ new # key -> Edge(Drop(key, n))
              [] p = old /\ old # far -> Edge(Drop(far, n))
              [] OTHER -> t[p]]
    BY DEF SplitEdge
<1> HIDE DEF far, u
<1>7. ~ IsPrefix(far, key)
    <2> SUFFICES ASSUME IsPrefix(far, key) PROVE FALSE
        OBVIOUS
    <2>1. far \in Way(t, key)
        BY <1>4 DEF Way
    <2> QED
        BY <1>5, <2>1
<1>8. n \in 1..Len(far) /\ key[n] # far[n] /\ \A i \in 1..n - 1 : key[i] = far[i]
    BY <1>4, <1>7, ForkIs
<1> HIDE DEF n
<1>9. n \in Nat /\ n - 1 \in 0..Len(key) /\ n \in 0..Len(key) /\ n \in 0..Len(far) /\ n \in 1..Len(key) /\ n \in 1..n
    BY <1>4, <1>5, <1>8
<1>10. /\ fork \in Bits /\ Len(fork) = n - 1 /\ IsPrefix(fork, key) /\ \A i \in 1..n - 1 : fork[i] = key[i]
       /\ new \in Bits /\ Len(new) = n /\ IsPrefix(new, key) /\ \A i \in 1..n : new[i] = key[i]
       /\ old \in Bits /\ Len(old) = n /\ IsPrefix(old, far) /\ \A i \in 1..n : old[i] = far[i]
    BY <1>4, <1>9, Beginning
<1> HIDE DEF fork, new, old
<1>11. IsPrefix(e, fork)
    <2>1. Len(e) <= n - 1
        <3> SUFFICES ASSUME n <= Len(e) PROVE FALSE
            BY <1>5, <1>9
        <3>1. n \in 1..Len(e)
            BY <1>5, <1>8
        <3>2. e[n] = key[n] /\ e[n] = far[n]
            BY <1>1, <1>4, <3>1, PrefixBits
        <3> QED
            BY <1>8, <3>2
    <2> QED
        BY <1>1, <1>10, <2>1, PrefixesMeet
<1>12. new # old
    BY <1>8, <1>9, <1>10
<1>13. Under(fork, Binary) = {new, old}
    <2>1. key[n] \in {0, 1} /\ far[n] \in {0, 1}
        BY <1>4, <1>8, <1>9, BitsAre
    <2>2. new = Append(fork, key[n]) /\ old = Append(fork, far[n])
        <3>1. /\ Append(fork, key[n]) \in Bits /\ Len(Append(fork, key[n])) = n
              /\ Append(fork, key[n])[n] = key[n] /\ \A i \in 1..n - 1 : Append(fork, key[n])[i] = fork[i]
              /\ Append(fork, far[n]) \in Bits /\ Len(Append(fork, far[n])) = n
              /\ Append(fork, far[n])[n] = far[n] /\ \A i \in 1..n - 1 : Append(fork, far[n])[i] = fork[i]
            <4>1. n - 1 + 1 = n
                BY <1>9
            <4> QED
                BY <1>10, <2>1, <4>1, NextBit
        <3>2. \A i \in 1..n : i = n \/ i \in 1..n - 1
            BY <1>9
        <3>3. \A i \in 1..n : new[i] = Append(fork, key[n])[i]
            BY <1>10, <3>1, <3>2
        <3>4. \A i \in 1..n : old[i] = Append(fork, far[n])[i]
            BY <1>8, <1>10, <3>1, <3>2
        <3> QED
            BY <1>10, <3>1, <3>3, <3>4, SameBits
    <2>3. Under(fork, Binary) = {Append(fork, 0), Append(fork, 1)}
        BY <1>10, KindsAre, UnderIs
    <2> QED
        BY <1>8, <2>1, <2>2, <2>3
<1>14. /\ e # fork => Drop(fork, Len(e)) \in Bits \ {<<>>} /\ e \o Drop(fork, Len(e)) = fork
       /\ new # key => Drop(key, n) \in Bits \ {<<>>} /\ new \o Drop(key, n) = key
       /\ old # far => Drop(far, n) \in Bits \ {<<>>} /\ old \o Drop(far, n) = far
    <2>1. \A s, p \in Bits : IsPrefix(s, p) /\ s # p => Drop(p, Len(s)) \in Bits \ {<<>>} /\ s \o Drop(p, Len(s)) = p
        <3> SUFFICES ASSUME NEW s \in Bits, NEW p \in Bits, IsPrefix(s, p), s # p
                     PROVE  Drop(p, Len(s)) \in Bits \ {<<>>} /\ s \o Drop(p, Len(s)) = p
            OBVIOUS
        <3>1. /\ Drop(p, Len(s)) \in Bits /\ s \o Drop(p, Len(s)) = p
              /\ Len(Drop(p, Len(s))) = Len(p) - Len(s)
            BY Dropped
        <3>2. Len(s) < Len(p) /\ Len(s) \in Nat /\ Len(p) \in Nat
            BY PrefixOrder, BitsAre
        <3>3. Len(Drop(p, Len(s))) # 0
            BY <3>1, <3>2
        <3> QED
            BY <3>1, <3>3, EmptyBits
    <2> QED
        BY <1>1, <1>4, <1>10, <1>11, <2>1
<1>15. \A p \in DOMAIN u : u[p] = CASE p = fork -> Binary
              [] p = key -> Leaf
              [] p = e /\ e # fork -> Edge(Drop(fork, Len(e)))
              [] p = new /\ new # key -> Edge(Drop(key, n))
              [] p = old /\ old # far -> Edge(Drop(far, n))
              [] OTHER -> t[p]
    BY <1>6
<1>16. DOMAIN u = DOMAIN t \union {fork, new, key, old} /\ u = [p \in DOMAIN u |-> u[p]]
    BY <1>6
<1>17. /\ fork # key /\ fork # new /\ fork # old /\ old # key /\ e # key /\ e # new /\ e # old
    <2>1. Len(e) <= Len(fork) /\ Len(e) # Len(key) /\ Len(e) # n
        BY <1>1, <1>4, <1>5, <1>9, <1>10, <1>11, PrefixOrder
    <2>2. old # key
        BY <1>8, <1>9, <1>10
    <2> QED
        BY <1>9, <1>10, <2>1, <2>2
<1>18. u[fork] = Binary /\ u[key] = Leaf
    BY <1>15, <1>16, <1>17
<1>19. e # fork => u[e] = Edge(Drop(fork, Len(e)))
    BY <1>15, <1>16, <1>17
<1>20. new # key => u[new] = Edge(Drop(key, n))
    BY <1>12, <1>15, <1>16, <1>17
<1>21. old # far => u[old] = Edge(Drop(far, n))
    BY <1>12, <1>15, <1>16, <1>17
<1>22. \A a \in DOMAIN t : a # e /\ a \notin {fork, new, key} /\ (a = old => old = far) => u[a] = t[a]
    BY <1>15, <1>16
<1>23. /\ e # fork => Under(e, u[e]) = {fork} /\ u[e] \in TreeNode
       /\ new # key => Under(new, u[new]) = {key} /\ u[new] \in TreeNode
       /\ old # far => Under(old, u[old]) = {far} /\ u[old] \in TreeNode
    <2>1. \A s \in Bits, path \in Bits \ {<<>>} : Under(s, Edge(path)) = {s \o path} /\ Edge(path) \in TreeNode
        <3> TAKE s \in Bits, path \in Bits \ {<<>>}
        <3>1. Edge(path) \in TreeNode /\ Edge(path).kind = "Edge" /\ Edge(path).path = path
            BY KindsAre
        <3> QED
            BY <3>1 DEF Under
    <2>2. ASSUME e # fork PROVE Under(e, u[e]) = {fork} /\ u[e] \in TreeNode
        <3> DEFINE path == Drop(fork, Len(e))
        <3>1. path \in Bits \ {<<>>} /\ e \o path = fork /\ e \in Bits /\ u[e] = Edge(path)
            BY <1>1, <1>10, <1>14, <1>19, <2>2
        <3> HIDE DEF path, u
        <3>2. Under(e, Edge(path)) = {e \o path} /\ Edge(path) \in TreeNode
            BY <2>1, <3>1
        <3> QED
            BY <3>1, <3>2
    <2>3. ASSUME new # key PROVE Under(new, u[new]) = {key} /\ u[new] \in TreeNode
        <3> DEFINE path == Drop(key, n)
        <3>1. path \in Bits \ {<<>>} /\ new \o path = key /\ new \in Bits /\ u[new] = Edge(path)
            BY <1>1, <1>10, <1>14, <1>20, <2>3
        <3> HIDE DEF path, u
        <3>2. Under(new, Edge(path)) = {new \o path} /\ Edge(path) \in TreeNode
            BY <2>1, <3>1
        <3> QED
            BY <3>1, <3>2
    <2>4. ASSUME old # far PROVE Under(old, u[old]) = {far} /\ u[old] \in TreeNode
        <3> DEFINE path == Drop(far, n)
        <3>1. path \in Bits \ {<<>>} /\ old \o path = far /\ old \in Bits /\ u[old] = Edge(path)
            BY <1>1, <1>10, <1>14, <1>21, <2>4
        <3> HIDE DEF path, u
        <3>2. Under(old, Edge(path)) = {old \o path} /\ Edge(path) \in TreeNode
            BY <2>1, <3>1
        <3> QED
            BY <3>1, <3>2
    <2> QED
        BY <2>2, <2>3, <2>4
<1>24. u \in [DOMAIN u -> TreeNode]
    <2>1. \A p \in DOMAIN u : u[p] \in TreeNode
        <3> SUFFICES ASSUME NEW p \in DOMAIN u PROVE u[p] \in TreeNode
            OBVIOUS
        <3>1. CASE p = fork \/ p = key
            BY <1>18, <3>1, KindsAre
        <3>2. CASE p = e /\ e # fork
            BY <1>23, <3>2
        <3>3. CASE p = new /\ new # key
            BY <1>23, <3>3
        <3>4. CASE p = old /\ old # far
            BY <1>23, <3>4
        <3>5. CASE p \in DOMAIN t /\ p # e /\ p \notin {fork, new, key} /\ (p = old => old = far)
            <4>1. u[p] = t[p]
                BY <1>22, <3>5
            <4> QED
                BY <1>1, <3>5, <4>1
        <3> QED
            BY <1>4, <1>16, <3>1, <3>2, <3>3, <3>4, <3>5
    <2> QED
        BY <1>16, <2>1
<1>25. Tidy(u) /\ \A a \in DOMAIN t : a # e => u[a] = t[a]
    <2>1. Tidy(t)
        BY DEF Good
    <2>2. far \in Bits /\ Len(far) <= Len(key) /\ fork \in Bits /\ new \in Bits /\ old \in Bits
        BY <1>4, <1>10
    <2>3. IsPrefix(e, fork) /\ IsPrefix(new, key) /\ IsPrefix(old, far)
        BY <1>10, <1>11
    <2>4. /\ e # fork => Under(e, u[e]) = {fork}
          /\ new # key => Under(new, u[new]) = {key}
          /\ old # far => Under(old, u[old]) = {far}
        BY <1>23
    <2>5. DOMAIN u = DOMAIN t \union {fork, new, key, old}
        BY <1>16
    <2>6. SplitsTo(t, e, far, key, fork, new, old, u)
        BY <1>3, <1>12, <1>13, <1>18, <1>22, <1>24, <2>2, <2>3, <2>4, <2>5 DEF SplitsTo
    <2> QED
        BY <2>1, <2>6, SplitTidy
<1>26. FromStore(d, u)
    <2> SUFFICES ASSUME NEW p \in DOMAIN u, u[p].kind = "Unresolved" PROVE u[p].idx \in Stored(d)
        BY DEF FromStore
    <2>1. \A path \in Bits \ {<<>>} : Edge(path).kind = "Edge"
        BY KindsAre
    <2>2. p \notin {fork, key} /\ (p = e => e = fork) /\ (p = new => new = key) /\ (p = old => old = far)
        BY <1>14, <1>18, <1>19, <1>20, <1>21, <2>1, KindsAre
    <2>3. p \in DOMAIN t /\ p # e
        BY <1>4, <1>16, <2>2
    <2>4. u[p] = t[p]
        BY <1>25, <2>3
    <2> QED
        BY <2>3, <2>4 DEF Good, FromStore
<1>27. SplitAt(t, e, key, u)
    <2>1. \A path \in Bits \ {<<>>} : Edge(path).kind = "Edge"
        BY KindsAre
    <2>2. DOMAIN t \subseteq DOMAIN u /\ key \in DOMAIN u
        BY <1>16
    <2>3. u[e].kind \in {"Binary", "Edge"}
        BY <1>14, <1>18, <1>19, <2>1, KindsAre
    <2>4. ASSUME NEW p \in DOMAIN u, p \notin DOMAIN t
          PROVE  Len(p) <= Len(key) /\ (p # key => u[p].kind \in {"Binary", "Edge"})
        <3>1. p \in {fork, new, key, old} /\ p # far
            BY <1>4, <1>16, <2>4
        <3>2. Len(p) <= Len(key)
            BY <1>5, <1>9, <1>10, <3>1
        <3>3. p # key => u[p].kind \in {"Binary", "Edge"}
            BY <1>14, <1>18, <1>20, <1>21, <2>1, <3>1, KindsAre
        <3> QED
            BY <3>2, <3>3
    <2> QED
        BY <1>18, <1>25, <2>2, <2>3, <2>4 DEF SplitAt
<1> QED
    BY <1>25, <1>26, <1>27 DEF Good, u

(* The end of the way to a key. *)
LEMMA EndOfWay ==
    ASSUME NEW d, NEW t, Good(d, t), t # NoTree, NEW key \in Bits
    PROVE  /\ Deepest(Way(t, key)) \in DOMAIN t /\ IsPrefix(Deepest(Way(t, key)), key)
           /\ t[Deepest(Way(t, key))] \in TreeNode
           /\ \A q \in Way(t, key) : Len(q) <= Len(Deepest(Way(t, key)))
<1>1. DOMAIN t \subseteq Bits /\ t \in [DOMAIN t -> TreeNode] /\ (DOMAIN t # {} => <<>> \in DOMAIN t)
    BY DEF Good, Tidy
<1>2. DOMAIN t # {}
    <2> SUFFICES ASSUME DOMAIN t = {} PROVE t = NoTree
        OBVIOUS
    <2>1. t \in [1..0 -> TreeNode] /\ 1..0 = {}
        BY <1>1
    <2>2. t \in Seq(TreeNode) /\ Len(t) = 0
        BY <2>1
    <2> QED
        BY <2>2 DEF NoTree
<1>3. <<>> \in Way(t, key)
    BY <1>1, <1>2, EmptyPrefix DEF Way
<1>4. \A p \in Way(t, key) : p \in DOMAIN t /\ IsPrefix(p, key) /\ Len(p) \in 0..Len(key)
    BY <1>1, WayIs
<1>5. Len(key) \in Nat
    BY BitsAre
<1>6. Deepest(Way(t, key)) \in Way(t, key) /\ \A q \in Way(t, key) : Len(q) <= Len(Deepest(Way(t, key)))
    BY <1>3, <1>4, <1>5, DeepestIs
<1> QED
    BY <1>1, <1>4, <1>6

LEMMA FirstLeafGood ==
    ASSUME NEW d, NEW key \in Bits, key # <<>>
    PROVE  Good(d, [p \in {<<>>, key} |-> IF p = key THEN Leaf ELSE Edge(key)])
<1> DEFINE t == [p \in {<<>>} |-> Leaf]
           u == [p \in {<<>>, key} |-> IF p = key THEN Leaf ELSE Edge(key)]
<1>1. DOMAIN t = {<<>>} /\ t[<<>>] = Leaf /\ t \in [DOMAIN t -> TreeNode]
    BY KindsAre
<1>2. DOMAIN u = {<<>>, key} /\ u[<<>>] = Edge(key) /\ u[key] = Leaf /\ u = [p \in DOMAIN u |-> u[p]]
    OBVIOUS
<1> HIDE DEF t, u
<1>3. Leaf \in TreeNode /\ Under(<<>>, Leaf) = {} /\ Under(key, Leaf) = {}
    BY KindsAre DEF Under
<1>4. Tidy(t)
    <2>1. IsFiniteSet({<<>>})
        BY FS_Singleton
    <2>2. Closed(t)
        BY <1>1, <1>3 DEF Closed
    <2>3. Laminar(t)
        BY <1>1 DEF Laminar
    <2> QED
        BY <1>1, <2>1, <2>2, <2>3, EmptyBits DEF Tidy
<1>5. Edge(key) \in TreeNode /\ Edge(key).kind = "Edge" /\ Edge(key).path = key
    BY KindsAre
<1>6. Under(<<>>, Edge(key)) = {key}
    <2>1. Under(<<>>, Edge(key)) = {<<>> \o key}
        BY <1>5 DEF Under
    <2>2. <<>> \o key = key
        BY DEF Bits
    <2> QED
        BY <2>1, <2>2
<1>7. Tidy(u)
    <2>1. u \in [DOMAIN u -> TreeNode]
        BY <1>2, <1>3, <1>5
    <2>2. \A c \in Under(<<>>, Edge(key)) : Under(c, u[c]) = {}
        BY <1>2, <1>3, <1>6
    <2>3. \A q \in DOMAIN t : q # <<>> => u[q] = t[q]
        BY <1>1
    <2>4. DOMAIN u = DOMAIN t \union Under(<<>>, Edge(key))
        BY <1>1, <1>2, <1>6
    <2>5. <<>> \in DOMAIN t /\ Under(<<>>, t[<<>>]) = {}
        BY <1>1, <1>3
    <2> QED
        BY <1>2, <1>4, <1>5, <2>1, <2>2, <2>3, <2>4, <2>5, Grown
<1>8. FromStore(d, u)
    BY <1>2, <1>5, KindsAre DEF FromStore
<1> QED
    BY <1>7, <1>8 DEF Good, u

LEMMA SetLeafGood ==
    ASSUME NEW d, NEW t \in Trees(d), NEW key \in Bits, key # <<>>
    PROVE  SetLeaf(t, key) \in Trees(d)
<1> DEFINE e == Deepest(Way(t, key))
<1>1. CASE t = Broken
    <2>1. e = <<>> /\ t[e].kind = "Broken" /\ t # NoTree
        BY <1>1, BrokenIs
    <2>2. SetLeaf(t, key) = Broken
        BY <2>1 DEF SetLeaf
    <2> QED
        BY <2>2, TreesAre
<1>2. CASE t = NoTree
    <2>1. SetLeaf(t, key) = [p \in {<<>>, key} |-> IF p = key THEN Leaf ELSE Edge(key)]
        BY <1>2 DEF SetLeaf
    <2> QED
        BY <2>1, FirstLeafGood, TreesAre
<1>3. CASE Good(d, t) /\ t # NoTree
    <2>1. /\ e \in DOMAIN t /\ IsPrefix(e, key) /\ t[e] \in TreeNode
          /\ \A q \in Way(t, key) : Len(q) <= Len(e)
        BY <1>3, EndOfWay
    <2>2. SetLeaf(t, key) = CASE t[e].kind = "Leaf" /\ e = key -> t
               [] t[e].kind = "Edge" /\ Len(e) + Len(t[e].path) <= Len(key) -> SplitEdge(t, e, key)
               [] OTHER -> Broken
        BY <1>3 DEF SetLeaf
    <2> HIDE DEF e
    <2>3. CASE t[e].kind = "Leaf" /\ e = key
        <3>1. SetLeaf(t, key) = t
            BY <2>2, <2>3
        <3> QED
            BY <3>1
    <2>4. CASE t[e].kind = "Edge" /\ Len(e) + Len(t[e].path) <= Len(key)
        <3>1. SetLeaf(t, key) = SplitEdge(t, e, key)
            BY <2>2, <2>4
        <3>2. Good(d, SplitEdge(t, e, key))
            BY <1>3, <2>1, <2>4, SplitGood
        <3> QED
            BY <3>1, <3>2, TreesAre
    <2>5. CASE ~ (t[e].kind = "Leaf" /\ e = key) /\ ~ (t[e].kind = "Edge" /\ Len(e) + Len(t[e].path) <= Len(key))
        <3>1. SetLeaf(t, key) = Broken
            BY <2>2, <2>5
        <3> QED
            BY <3>1, TreesAre
    <2> QED
        BY <2>3, <2>4, <2>5
<1> QED
    BY <1>1, <1>2, <1>3, TreesAre

-----------------------------------------------------------------------------
(* delete_leaf: the Binary above the leaf becomes an edge. *)

(* A node has one parent. *)
LEMMA OneParent ==
    ASSUME NEW t, Tidy(t), NEW a \in DOMAIN t, NEW b \in DOMAIN t,
           NEW c \in Under(a, t[a]), c \in Under(b, t[b])
    PROVE  a = b
<1>1. /\ DOMAIN t \subseteq Bits /\ a \in Bits /\ b \in Bits /\ t[a] \in TreeNode /\ t[b] \in TreeNode
      /\ \A x, q \in DOMAIN t : IsPrefix(x, q) /\ x # q => \E y \in Under(x, t[x]) : IsPrefix(y, q)
    BY DEF Tidy, Laminar
<1>2. c \in Bits /\ IsPrefix(a, c) /\ IsPrefix(b, c) /\ a # c /\ b # c
    BY <1>1, UnderIs
<1>3. ASSUME NEW x \in DOMAIN t, NEW q \in DOMAIN t, c \in Under(x, t[x]), IsPrefix(x, q), IsPrefix(q, c), q # c
      PROVE  x = q
    <2> SUFFICES ASSUME x # q PROVE FALSE
        OBVIOUS
    <2>1. PICK y \in Under(x, t[x]) : IsPrefix(y, q)
        BY <1>1, <1>3
    <2>2. x \in Bits /\ q \in Bits /\ t[x] \in TreeNode
        BY <1>1 DEF Tidy
    <2>3. y \in Bits
        BY <2>2, UnderIs
    <2>4. IsPrefix(y, c)
        BY <1>2, <1>3, <2>1, <2>2, <2>3, PrefixOn
    <2>5. y = c
        BY <1>3, <2>2, <2>4, UnderApart
    <2>6. Len(q) <= Len(c) /\ Len(c) <= Len(q) /\ Len(q) \in Nat /\ Len(c) \in Nat
        BY <1>2, <1>3, <2>1, <2>2, <2>5, PrefixOrder, BitsAre
    <2>7. Len(q) = Len(c)
        BY <2>6
    <2> QED
        BY <1>2, <1>3, <2>2, <2>7, PrefixOrder
<1>4. IsPrefix(a, b) \/ IsPrefix(b, a)
    BY <1>1, <1>2, PrefixEither
<1>5. CASE IsPrefix(a, b)
    BY <1>2, <1>3, <1>5
<1>6. CASE IsPrefix(b, a)
    BY <1>2, <1>3, <1>6
<1> QED
    BY <1>4, <1>5, <1>6

(* In tree u, an edge from top to far stands for the Binary at b of tree r. *)
Gone(r, b, cut, kept, far) ==
    {p \in DOMAIN r : IsPrefix(cut, p)} \union {b} \union ({kept} \ {far})

CutsTo(r, b, cut, kept, far, top, u) ==
    /\ b \in DOMAIN r /\ r[b].kind = "Binary" /\ Under(b, r[b]) = {cut, kept} /\ cut # kept
    /\ top \in DOMAIN r /\ (top # b => Under(top, r[top]) = {b})
    /\ far \in DOMAIN r /\ (far # kept => Under(kept, r[kept]) = {far})
    /\ DOMAIN u = (DOMAIN r \ Gone(r, b, cut, kept, far)) \union {top}
    /\ u \in [DOMAIN u -> TreeNode] /\ Under(top, u[top]) = {far}
    /\ \A p \in DOMAIN u : p # top => u[p] = r[p]

LEMMA CutTidy ==
    ASSUME NEW r, Tidy(r), NEW b, NEW cut, NEW kept, NEW far, NEW top, NEW u,
           CutsTo(r, b, cut, kept, far, top, u)
    PROVE  Tidy(u)
<1> DEFINE D == DOMAIN r
           gone == Gone(r, b, cut, kept, far)
<1>1. /\ b \in D /\ r[b].kind = "Binary" /\ Under(b, r[b]) = {cut, kept} /\ cut # kept
      /\ top \in D /\ (top # b => Under(top, r[top]) = {b})
      /\ far \in D /\ (far # kept => Under(kept, r[kept]) = {far})
      /\ DOMAIN u = (D \ gone) \union {top}
      /\ u \in [DOMAIN u -> TreeNode] /\ Under(top, u[top]) = {far}
      /\ \A p \in DOMAIN u : p # top => u[p] = r[p]
    BY DEF CutsTo
<1>2. /\ r \in [D -> TreeNode] /\ D \subseteq Bits /\ IsFiniteSet(D) /\ <<>> \in D
      /\ \A q \in D : Under(q, r[q]) \subseteq D
      /\ \A a, q \in D : IsPrefix(a, q) /\ a # q => \E c \in Under(a, r[a]) : IsPrefix(c, q)
    BY <1>1 DEF Tidy, Closed, Laminar
<1>3. gone = {p \in D : IsPrefix(cut, p)} \union {b} \union ({kept} \ {far})
    BY DEF Gone
<1> HIDE DEF D, gone
<1>4. cut \in D /\ kept \in D /\ cut \in Bits /\ kept \in Bits /\ b \in Bits /\ top \in Bits /\ far \in Bits
    BY <1>1, <1>2
<1>5. /\ IsPrefix(b, cut) /\ IsPrefix(b, kept) /\ b # cut /\ b # kept /\ Len(cut) = Len(kept)
      /\ IsPrefix(kept, far) /\ IsPrefix(top, b)
    <2>1. r[b] \in TreeNode /\ r[top] \in TreeNode /\ r[kept] \in TreeNode
        BY <1>1, <1>2, <1>4
    <2>2. IsPrefix(b, cut) /\ IsPrefix(b, kept) /\ b # cut /\ b # kept
        BY <1>1, <1>4, <2>1, UnderIs
    <2>3. Len(cut) = Len(kept)
        BY <1>1, <1>4, <2>1, UnderApart
    <2>4. IsPrefix(kept, far)
        <3>1. CASE far = kept
            BY <1>4, <3>1, PrefixSelf
        <3>2. CASE far # kept
            <4>1. far \in Under(kept, r[kept])
                BY <1>1, <3>2
            <4> QED
                BY <1>4, <2>1, <4>1, UnderIs
        <3> QED
            BY <3>1, <3>2
    <2>5. IsPrefix(top, b)
        <3>1. CASE top = b
            BY <1>4, <3>1, PrefixSelf
        <3>2. CASE top # b
            <4>1. b \in Under(top, r[top])
                BY <1>1, <3>2
            <4> QED
                BY <1>4, <2>1, <4>1, UnderIs
        <3> QED
            BY <3>1, <3>2
    <2> QED
        BY <2>2, <2>3, <2>4, <2>5
<1>6. Len(b) \in Nat /\ Len(cut) \in Nat /\ Len(kept) \in Nat /\ Len(top) \in Nat /\ Len(far) \in Nat
    BY <1>4, BitsAre
<1>7. Len(top) <= Len(b) /\ Len(b) < Len(cut) /\ Len(kept) <= Len(far)
    BY <1>4, <1>5, PrefixOrder
<1>8. ASSUME NEW q \in Bits PROVE ~ (IsPrefix(cut, q) /\ IsPrefix(kept, q))
    <2>1. IsPrefix(cut, q) /\ IsPrefix(kept, q) => IsPrefix(cut, kept)
        BY <1>4, <1>5, <1>6, PrefixesMeet
    <2> QED
        BY <1>1, <1>4, <1>5, <2>1, PrefixOrder
<1>9. far \in DOMAIN u
    <2>1. ~ IsPrefix(cut, far)
        BY <1>4, <1>5, <1>8
    <2>2. far # b
        BY <1>5, <1>6, <1>7
    <2> QED
        BY <1>1, <1>3, <2>1, <2>2
<1>10. DOMAIN u \subseteq D /\ DOMAIN u \subseteq Bits /\ IsFiniteSet(DOMAIN u)
    <2>1. DOMAIN u \subseteq D
        BY <1>1
    <2> QED
        BY <1>2, <2>1, FS_Subset
<1>11. <<>> \in DOMAIN u
    <2>1. \A q \in Bits : IsPrefix(q, <<>>) => q = <<>>
        <3> SUFFICES ASSUME NEW q \in Bits, IsPrefix(q, <<>>) PROVE q = <<>>
            OBVIOUS
        <3>1. Len(q) <= Len(<<>>) /\ Len(q) \in Nat
            BY EmptyBits, PrefixOrder, BitsAre
        <3> QED
            BY <3>1, EmptyBits, PrefixOrder
    <2>2. cut # <<>> /\ kept # <<>>
        BY <1>5, <1>6, <1>7, EmptyBits
    <2>3. <<>> \in gone => <<>> = b
        BY <1>3, <1>4, <2>1, <2>2
    <2>4. <<>> = b => <<>> = top
        BY <1>4, <1>5, <2>1
    <2> QED
        BY <1>1, <1>2, <2>3, <2>4
<1>12. Closed(u)
    <2> SUFFICES ASSUME NEW p \in DOMAIN u, NEW c \in Under(p, u[p]) PROVE c \in DOMAIN u
        BY DEF Closed
    <2>1. CASE p = top
        BY <1>1, <1>9, <2>1
    <2>2. CASE p # top
        <3>1. p \in D /\ p \notin gone /\ u[p] = r[p] /\ c \in Under(p, r[p]) /\ p \in Bits
            BY <1>1, <1>2, <2>2
        <3>2. c \in D /\ c \in Bits /\ p # b /\ r[p] \in TreeNode
            BY <1>2, <1>3, <3>1
        <3>3. IsPrefix(p, c)
            BY <3>1, <3>2, UnderIs
        <3>4. c # cut /\ c # kept
            BY <1>1, <3>1, <3>2, OneParent DEF D
        <3>5. ~ IsPrefix(cut, c)
            <4> SUFFICES ASSUME IsPrefix(cut, c) PROVE FALSE
                OBVIOUS
            <4>1. IsPrefix(p, cut) \/ IsPrefix(cut, p)
                BY <1>4, <3>1, <3>2, <3>3, PrefixEither
            <4>2. ~ IsPrefix(cut, p)
                BY <1>3, <3>1
            <4>3. IsPrefix(p, cut) /\ p # cut
                BY <1>4, <4>1, <4>2, PrefixSelf
            <4>4. PICK y \in Under(p, r[p]) : IsPrefix(y, cut)
                BY <1>2, <1>4, <3>1, <4>3
            <4>5. y \in Bits
                BY <1>2, <3>1
            <4>6. IsPrefix(y, c)
                BY <1>4, <3>2, <4>4, <4>5, PrefixOn
            <4>7. y = c
                BY <3>1, <3>2, <4>6, UnderApart
            <4>8. Len(c) <= Len(cut) /\ Len(cut) <= Len(c) /\ Len(c) \in Nat
                BY <1>4, <3>2, <4>4, <4>7, PrefixOrder, BitsAre
            <4>9. Len(c) = Len(cut)
                BY <1>6, <4>8
            <4> QED
                BY <1>4, <3>2, <3>4, <4>9, PrefixOrder
        <3>6. CASE c = b
            <4>1. CASE top = b
                BY <1>1, <3>6, <4>1
            <4>2. CASE top # b
                <5>1. c \in Under(top, r[top])
                    BY <1>1, <3>6, <4>2
                <5> QED
                    BY <1>1, <2>2, <3>1, <5>1, OneParent DEF D
            <4> QED
                BY <4>1, <4>2
        <3>7. CASE c # b
            BY <1>1, <1>3, <3>2, <3>4, <3>5, <3>7
        <3> QED
            BY <3>6, <3>7
    <2> QED
        BY <2>1, <2>2
<1>13. Laminar(u)
    <2> SUFFICES ASSUME NEW a \in DOMAIN u, NEW q \in DOMAIN u, IsPrefix(a, q), a # q
                 PROVE  \E c \in Under(a, u[a]) : IsPrefix(c, q)
        BY DEF Laminar
    <2>0. a \in D /\ q \in D /\ a \in Bits /\ q \in Bits
        BY <1>10
    <2>1. CASE a # top
        BY <1>1, <1>2, <2>0, <2>1
    <2>2. CASE a = top
        <3>1. q \notin gone
            BY <1>1, <2>2
        <3>2. q # b /\ ~ IsPrefix(cut, q)
            BY <1>3, <2>0, <3>1
        <3>3. IsPrefix(b, q)
            <4>1. CASE top = b
                BY <2>2, <4>1
            <4>2. CASE top # b
                BY <1>1, <1>2, <2>0, <2>2, <4>2
            <4> QED
                BY <4>1, <4>2
        <3>4. IsPrefix(kept, q)
            BY <1>1, <1>2, <2>0, <3>2, <3>3
        <3>5. IsPrefix(far, q)
            <4>1. CASE far = kept
                BY <3>4, <4>1
            <4>2. CASE far # kept
                <5>1. q # kept
                    BY <1>3, <3>1, <4>2
                <5> QED
                    BY <1>1, <1>2, <1>4, <2>0, <3>4, <4>2, <5>1
            <4> QED
                BY <4>1, <4>2
        <3> QED
            BY <1>1, <2>2, <3>5
    <2> QED
        BY <2>1, <2>2
<1> QED
    BY <1>1, <1>10, <1>11, <1>12, <1>13 DEF Tidy

(* How the leaf at key was cut off tree t, rest being t with the node that is kept resolved. *)
CutAt(d, t, key, rest, b, cut, kept, far, top, u) ==
    /\ rest \in {t, Resolve(d, t, kept)} /\ Good(d, rest) /\ kept \in DOMAIN t
    /\ cut \in DOMAIN t /\ cut \in Bits /\ kept \in Bits /\ b # cut /\ IsPrefix(b, cut)
    /\ IsPrefix(cut, key) /\ ~ IsPrefix(kept, key)
    /\ \A p \in Way(t, key) : t[p].kind = "Binary" => Len(p) <= Len(b)
    /\ CutsTo(rest, b, cut, kept, far, top, u) /\ u[top].kind = "Edge"
    /\ far # kept => rest[kept].kind = "Edge"

LEMMA CutLeafGood ==
    ASSUME NEW d, GoodTables(d), NEW t, Good(d, t), NEW key \in Bits, key \in DOMAIN t, t[key] = Leaf,
           \E p \in Way(t, key) : t[p].kind = "Binary"
    PROVE  /\ Good(d, CutLeaf(d, t, key))
           /\ \E rest, b, cut, kept, far, top : CutAt(d, t, key, rest, b, cut, kept, far, top, CutLeaf(d, t, key))
<1> DEFINE way == Way(t, key)
           binaries == {p \in way : t[p].kind = "Binary"}
           b == Deepest(binaries)
           bit == key[Len(b) + 1]
           cut == Append(b, bit)
           kept == Append(b, 1 - bit)
           above == {p \in way : t[p].kind = "Edge" /\ p \o t[p].path = b}
           top == IF above = {} THEN b ELSE The(above)
           seen == Resolve(d, t, kept)
           merge == seen[kept].kind = "Edge"
           far == IF merge THEN kept \o seen[kept].path ELSE kept
           rest == IF merge THEN seen ELSE t
           gone == {p \in DOMAIN rest : IsPrefix(cut, p)} \union {b} \union ({kept} \ {far})
           u == CutLeaf(d, t, key)
<1>1. /\ Tidy(t) /\ t \in [DOMAIN t -> TreeNode] /\ DOMAIN t \subseteq Bits /\ Closed(t)
      /\ \A p \in DOMAIN t : t[p] \in TreeNode
    BY DEF Good, Tidy
<1>2. u = [p \in (DOMAIN rest \ gone) \union {top} |-> IF p = top THEN Edge(Drop(far, Len(top))) ELSE rest[p]]
    BY DEF CutLeaf
<1>3. \A p \in way : p \in DOMAIN t /\ p \in Bits /\ IsPrefix(p, key) /\ Len(p) \in 0..Len(key)
    BY <1>1, WayIs
<1>4. /\ b \in DOMAIN t /\ b \in Bits /\ IsPrefix(b, key) /\ t[b].kind = "Binary" /\ b # key
    <2>1. binaries # {} /\ (\A p \in binaries : Len(p) \in 0..Len(key)) /\ Len(key) \in Nat
        BY <1>3, BitsAre
    <2> HIDE DEF way
    <2>2. Deepest(binaries) \in binaries
        <3> HIDE DEF binaries
        <3> QED
            BY <2>1, DeepestIs
    <2>3. b \in way /\ t[b].kind = "Binary"
        BY <2>2
    <2> HIDE DEF b
    <2> QED
        BY <1>3, <2>3, KindsAre
<1>4a. \A p \in Way(t, key) : t[p].kind = "Binary" => Len(p) <= Len(b)
    <2>1. binaries # {} /\ (\A p \in binaries : Len(p) \in 0..Len(key)) /\ Len(key) \in Nat
        BY <1>3, BitsAre
    <2>2. \A p \in binaries : Len(p) <= Len(b)
        <3> HIDE DEF binaries
        <3> QED
            BY <2>1, DeepestIs
    <2> QED
        BY <2>2
<1> HIDE DEF way, b, u
<1>5. bit \in {0, 1} /\ 1 - bit \in {0, 1} /\ 1 - bit # bit
    <2>1. bit \in {0, 1}
        BY <1>4, NextBitOf
    <2> HIDE DEF bit
    <2> QED
        BY <2>1
<1> HIDE DEF bit
<1>6. Under(b, t[b]) = {cut, kept} /\ cut # kept
    <2>1. Under(b, t[b]) = {Append(b, 0), Append(b, 1)}
        BY <1>1, <1>4, UnderIs
    <2>2. Append(b, bit)[Len(b) + 1] = bit /\ Append(b, 1 - bit)[Len(b) + 1] = 1 - bit
        BY <1>4, <1>5, NextBit
    <2>3. cut # kept
        BY <1>5, <2>2
    <2>4. {Append(b, 0), Append(b, 1)} = {cut, kept}
        BY <1>5
    <2> QED
        BY <2>1, <2>3, <2>4
<1>6a. IsPrefix(cut, key) /\ ~ IsPrefix(kept, key)
    BY <1>4, <1>5, NextBitOf DEF bit
<1> HIDE DEF cut, kept
<1>7. /\ cut \in DOMAIN t /\ kept \in DOMAIN t /\ cut \in Bits /\ kept \in Bits
      /\ IsPrefix(b, cut) /\ IsPrefix(b, kept) /\ b # cut /\ b # kept
    <2>1. cut \in Under(b, t[b]) /\ kept \in Under(b, t[b])
        BY <1>6
    <2>2. cut \in DOMAIN t /\ kept \in DOMAIN t
        <3>1. Under(b, t[b]) \subseteq DOMAIN t
            BY <1>1, <1>4 DEF Closed
        <3> QED
            BY <2>1, <3>1
    <2>3. cut \in Bits /\ kept \in Bits /\ t[b] \in TreeNode
        BY <1>1, <1>4, <2>2
    <2>4. \A c \in Under(b, t[b]) : IsPrefix(b, c) /\ b # c
        BY <1>4, <2>3, UnderIs
    <2> QED
        BY <2>1, <2>2, <2>3, <2>4
<1>8. top \in DOMAIN t /\ top # kept /\ (top # b => Under(top, t[top]) = {b})
    <2>1. CASE above = {}
        BY <1>4, <1>7, <2>1
    <2>2. CASE above # {}
        <3>1. The(above) \in above
            BY <2>2 DEF The
        <3>2. top \in above
            BY <2>2, <3>1
        <3> HIDE DEF top
        <3>3. top \in DOMAIN t /\ top \in Bits /\ t[top].kind = "Edge" /\ top \o t[top].path = b
            BY <1>3, <3>2
        <3>4. Under(top, t[top]) = {b}
            BY <1>1, <3>3, UnderIs
        <3>5. IsPrefix(top, b) /\ top # b
            BY <1>1, <3>3, <3>4, UnderIs
        <3>6. top # kept
            <4>1. Len(top) < Len(b) /\ Len(b) < Len(kept) /\ Len(top) \in Nat /\ Len(b) \in Nat /\ Len(kept) \in Nat
                BY <1>4, <1>7, <3>3, <3>5, PrefixOrder, BitsAre
            <4> QED
                BY <4>1
        <3> QED
            BY <3>3, <3>4, <3>6
    <2> QED
        BY <2>1, <2>2
<1> HIDE DEF above, top
<1>9. /\ Good(d, seen) /\ DOMAIN t \subseteq DOMAIN seen
      /\ \A q \in DOMAIN t : q # kept => seen[q] = t[q]
    BY <1>7, ResolveGood
<1> HIDE DEF seen
<1>10. Good(d, rest) /\ DOMAIN t \subseteq DOMAIN rest /\ \A q \in DOMAIN t : q # kept => rest[q] = t[q]
    <2>1. CASE merge
        BY <1>9, <2>1
    <2>2. CASE ~ merge
        BY <2>2
    <2> QED
        BY <2>1, <2>2
<1>11. merge => rest = seen
    OBVIOUS
<1>12. ~ merge => far = kept
    OBVIOUS
<1>13. merge => far = kept \o seen[kept].path
    OBVIOUS
<1>29. rest \in {t, Resolve(d, t, kept)} /\ (merge => rest[kept].kind = "Edge")
    BY DEF seen
<1> HIDE DEF rest, far
<1>14. /\ Tidy(rest) /\ rest \in [DOMAIN rest -> TreeNode] /\ DOMAIN rest \subseteq Bits /\ Closed(rest)
       /\ \A p \in DOMAIN rest : rest[p] \in TreeNode
    BY <1>10 DEF Good, Tidy
<1>15. far \in DOMAIN rest /\ (far # kept => Under(kept, rest[kept]) = {far}) /\ IsPrefix(kept, far)
    <2>1. CASE merge
        <3>1. rest[kept].kind = "Edge" /\ far = kept \o rest[kept].path /\ kept \in DOMAIN rest
            BY <1>7, <1>10, <1>11, <1>13, <2>1
        <3>2. Under(kept, rest[kept]) = {far}
            BY <1>7, <1>14, <3>1, UnderIs
        <3>3. far \in DOMAIN rest
            BY <1>14, <3>1, <3>2 DEF Closed
        <3>4. IsPrefix(kept, far)
            BY <1>7, <1>14, <3>1, <3>2, UnderIs
        <3> QED
            BY <3>2, <3>3, <3>4
    <2>2. CASE ~ merge
        BY <1>7, <1>10, <1>12, <2>2, PrefixSelf
    <2> QED
        BY <2>1, <2>2
<1>16. top \in Bits /\ far \in Bits /\ IsPrefix(top, far) /\ top # far
    <2>1. top \in Bits /\ far \in Bits
        BY <1>1, <1>8, <1>14, <1>15
    <2>2. IsPrefix(top, b)
        <3>1. CASE top = b
            BY <1>4, <3>1, PrefixSelf
        <3>2. CASE top # b
            <4>1. b \in Under(top, t[top])
                BY <1>8, <3>2
            <4> QED
                BY <1>1, <1>8, <2>1, <4>1, UnderIs
        <3> QED
            BY <3>1, <3>2
    <2>3. IsPrefix(top, kept)
        BY <1>4, <1>7, <2>1, <2>2, PrefixOn
    <2>4. IsPrefix(top, far)
        BY <1>7, <1>15, <2>1, <2>3, PrefixOn
    <2>5. /\ Len(top) <= Len(b) /\ Len(b) < Len(kept) /\ Len(kept) <= Len(far)
          /\ Len(top) \in Nat /\ Len(b) \in Nat /\ Len(kept) \in Nat /\ Len(far) \in Nat
        BY <1>4, <1>7, <1>15, <2>1, <2>2, PrefixOrder, BitsAre
    <2>6. top # far
        BY <2>5
    <2> QED
        BY <2>1, <2>4, <2>6
<1>17. Drop(far, Len(top)) \in Bits \ {<<>>} /\ top \o Drop(far, Len(top)) = far
    <2>1. /\ Drop(far, Len(top)) \in Bits /\ Len(Drop(far, Len(top))) = Len(far) - Len(top)
          /\ top \o Drop(far, Len(top)) = far
        BY <1>16, Dropped
    <2>2. Len(top) < Len(far) /\ Len(top) \in Nat /\ Len(far) \in Nat
        BY <1>16, PrefixOrder, BitsAre
    <2>3. Len(Drop(far, Len(top))) # 0
        BY <2>1, <2>2
    <2> QED
        BY <2>1, <2>3, EmptyBits
<1>18. DOMAIN u = (DOMAIN rest \ gone) \union {top} /\ u = [p \in DOMAIN u |-> u[p]]
    BY <1>2
<1>19. u[top] = Edge(Drop(far, Len(top)))
    BY <1>2
<1>20. \A p \in DOMAIN u : p # top => u[p] = rest[p]
    BY <1>2
<1>21. gone = Gone(rest, b, cut, kept, far)
    BY DEF Gone
<1> HIDE DEF gone
<1>22. /\ u[top] \in TreeNode /\ u[top].kind = "Edge" /\ Under(top, u[top]) = {far}
    <2>1. u[top] \in TreeNode /\ u[top].kind = "Edge" /\ u[top].path = Drop(far, Len(top))
        BY <1>17, <1>19, KindsAre
    <2>2. Under(top, u[top]) = {top \o u[top].path}
        BY <2>1 DEF Under
    <2> QED
        BY <1>17, <2>1, <2>2
<1>23. u \in [DOMAIN u -> TreeNode]
    <2>1. \A p \in DOMAIN u : u[p] \in TreeNode
        <3> SUFFICES ASSUME NEW p \in DOMAIN u PROVE u[p] \in TreeNode
            OBVIOUS
        <3>1. CASE p = top
            BY <1>22, <3>1
        <3>2. CASE p # top
            BY <1>14, <1>18, <1>20, <3>2
        <3> QED
            BY <3>1, <3>2
    <2> QED
        BY <1>18, <2>1
<1>24. CutsTo(rest, b, cut, kept, far, top, u)
    <2>1. b \in DOMAIN rest /\ rest[b] = t[b] /\ top \in DOMAIN rest /\ rest[top] = t[top]
        BY <1>4, <1>7, <1>8, <1>10
    <2>2. b \in DOMAIN rest /\ rest[b].kind = "Binary" /\ Under(b, rest[b]) = {cut, kept} /\ cut # kept
        BY <1>4, <1>6, <2>1
    <2>3. top \in DOMAIN rest /\ (top # b => Under(top, rest[top]) = {b})
        BY <1>8, <2>1
    <2>4. far \in DOMAIN rest /\ (far # kept => Under(kept, rest[kept]) = {far})
        BY <1>15
    <2>5. DOMAIN u = (DOMAIN rest \ Gone(rest, b, cut, kept, far)) \union {top}
        BY <1>18, <1>21
    <2> QED
        BY <1>20, <1>22, <1>23, <2>2, <2>3, <2>4, <2>5 DEF CutsTo
<1>25. FromStore(d, u)
    <2> SUFFICES ASSUME NEW p \in DOMAIN u, u[p].kind = "Unresolved" PROVE u[p].idx \in Stored(d)
        BY DEF FromStore
    <2>1. p # top
        BY <1>22
    <2>2. p \in DOMAIN rest /\ u[p] = rest[p]
        BY <1>18, <1>20, <2>1
    <2> QED
        BY <1>10, <2>2 DEF Good, FromStore
<1>26. Tidy(u)
    BY <1>14, <1>24, CutTidy
<1>27. /\ \A p \in Way(t, key) : t[p].kind = "Binary" => Len(p) <= Len(b)
       /\ IsPrefix(cut, key) /\ ~ IsPrefix(kept, key)
    BY <1>4a, <1>6a
<1>28. rest \in {t, Resolve(d, t, kept)} /\ (far # kept => rest[kept].kind = "Edge")
    BY <1>11, <1>12, <1>29
<1>30. CutAt(d, t, key, rest, b, cut, kept, far, top, u)
    BY <1>7, <1>10, <1>22, <1>24, <1>27, <1>28 DEF CutAt
<1> QED
    BY <1>25, <1>26, <1>30 DEF Good, u

LEMMA DeleteLeafGood ==
    ASSUME NEW d, GoodTables(d), NEW t \in Trees(d), NEW key \in Bits
    PROVE  DeleteLeaf(d, t, key) \in Trees(d)
<1> DEFINE e == Deepest(Way(t, key))
<1>0. NoTree \in Trees(d)
    <2>1. DOMAIN NoTree = {} /\ NoTree \in [{} -> TreeNode]
        BY DEF NoTree
    <2>2. IsFiniteSet({})
        BY FS_EmptySet
    <2>3. Good(d, NoTree)
        BY <2>1, <2>2 DEF Good, Tidy, Closed, Laminar, FromStore
    <2> QED
        BY <2>3, TreesAre
<1>1. CASE t = Broken
    <2>1. e = <<>> /\ t[e].kind = "Broken" /\ t # NoTree
        BY <1>1, BrokenIs
    <2>2. DeleteLeaf(d, t, key) = Broken
        BY <2>1 DEF DeleteLeaf
    <2> QED
        BY <2>2, TreesAre
<1>2. CASE t = NoTree
    BY <1>2 DEF DeleteLeaf
<1>3. CASE Good(d, t) /\ t # NoTree
    <2>1. /\ e \in DOMAIN t /\ IsPrefix(e, key) /\ t[e] \in TreeNode
          /\ \A q \in Way(t, key) : Len(q) <= Len(e)
        BY <1>3, EndOfWay
    <2>2. DeleteLeaf(d, t, key) =
            CASE t[e].kind = "Leaf" /\ e = key ->
                     IF \E p \in Way(t, key) : t[p].kind = "Binary"
                     THEN CutLeaf(d, t, key) ELSE NoTree
               [] t[e].kind = "Edge" /\ Len(e) + Len(t[e].path) <= Len(key) -> t
               [] OTHER -> Broken
        BY <1>3 DEF DeleteLeaf
    <2> HIDE DEF e
    <2>3. CASE t[e].kind = "Leaf" /\ e = key
        <3>1. CASE \E p \in Way(t, key) : t[p].kind = "Binary"
            <4>1. DeleteLeaf(d, t, key) = CutLeaf(d, t, key)
                BY <2>2, <2>3, <3>1
            <4>2. key \in DOMAIN t /\ t[key] = Leaf
                BY <2>1, <2>3, NodeKinds
            <4>3. Good(d, CutLeaf(d, t, key))
                BY <1>3, <3>1, <4>2, CutLeafGood
            <4> QED
                BY <4>1, <4>3, TreesAre
        <3>2. CASE ~ \E p \in Way(t, key) : t[p].kind = "Binary"
            <4>1. DeleteLeaf(d, t, key) = NoTree
                BY <2>2, <2>3, <3>2
            <4> QED
                BY <1>0, <4>1
        <3> QED
            BY <3>1, <3>2
    <2>4. CASE t[e].kind = "Edge" /\ Len(e) + Len(t[e].path) <= Len(key)
        <3>1. DeleteLeaf(d, t, key) = t
            BY <2>2, <2>4
        <3> QED
            BY <3>1
    <2>5. CASE ~ (t[e].kind = "Leaf" /\ e = key) /\ ~ (t[e].kind = "Edge" /\ Len(e) + Len(t[e].path) <= Len(key))
        <3>1. DeleteLeaf(d, t, key) = Broken
            BY <2>2, <2>5
        <3> QED
            BY <3>1, TreesAre
    <2> QED
        BY <2>3, <2>4, <2>5
<1> QED
    BY <1>0, <1>1, <1>2, <1>3, TreesAre

-----------------------------------------------------------------------------
(* An update sets some leaves one after the other. *)

Item == [key : Bits \ {<<>>}, value : Nat]

LEMMA SetInTreeGood ==
    ASSUME NEW d, GoodTables(d), NEW t \in Trees(d), NEW leaf \in Item
    PROVE  SetInTree(d, t, leaf) \in Trees(d)
<1> DEFINE u == Traverse(d, t, leaf.key)
           Set(x) == IF leaf.value = Zero THEN DeleteLeaf(d, x, leaf.key) ELSE SetLeaf(x, leaf.key)
<1>1. leaf.key \in Bits /\ leaf.key # <<>>
    BY DEF Item
<1>2. u \in Trees(d)
    BY <1>1, TraverseGood
<1>3. SetInTree(d, t, leaf) = The({Set(x) : x \in {u}})
    BY DEF SetInTree
<1>4. Set(u) \in Trees(d)
    <2> HIDE DEF u
    <2>1. DeleteLeaf(d, u, leaf.key) \in Trees(d)
        BY <1>1, <1>2, DeleteLeafGood
    <2>2. SetLeaf(u, leaf.key) \in Trees(d)
        BY <1>1, <1>2, SetLeafGood
    <2> QED
        BY <2>1, <2>2
<1>5. {Set(x) : x \in {u}} = {Set(u)}
    OBVIOUS
<1> HIDE DEF Set, u
<1> QED
    BY <1>3, <1>4, <1>5, TheOne

Sets(f, d, t, items) ==
    f = [n \in 0..Len(items) |->
            IF n = 0 THEN t ELSE The({SetInTree(d, u, items[n]) : u \in {f[n - 1]}})]

(* set is called once for every leaf, in their order. *)
SetRun(set, d, t, items) ==
    /\ set[0] = t /\ \A n \in 1..Len(items) : set[n] = SetInTree(d, set[n - 1], items[n])
    /\ SetAll(d, t, items) = set[Len(items)]

LEMMA SetRuns ==
    ASSUME NEW d, GoodTables(d), NEW t \in Trees(d), NEW items \in Seq(Item)
    PROVE  \E set : SetRun(set, d, t, items)
<1> DEFINE N == Len(items)
           step == [x \in Nat \X Trees(d) |-> IF x[1] \in 1..N THEN SetInTree(d, x[2], items[x[1]]) ELSE x[2]]
           set == CHOOSE f : Sets(f, d, t, items)
<1>0. N \in Nat /\ \A n \in 1..N : items[n] \in Item
    OBVIOUS
<1>1. \A f : \A n : The({SetInTree(d, u, items[n]) : u \in {f[n - 1]}}) = SetInTree(d, f[n - 1], items[n])
    <2> TAKE f
    <2> TAKE n
    <2>1. {SetInTree(d, u, items[n]) : u \in {f[n - 1]}} = {SetInTree(d, f[n - 1], items[n])}
        OBVIOUS
    <2> QED
        BY <2>1, TheOne
<1>2. \E f : Sets(f, d, t, items)
    <2>1. step \in [Nat \X Trees(d) -> Trees(d)]
        BY <1>0, SetInTreeGood
    <2>2. \A n \in 1..N, u \in Trees(d) : step[<<n, u>>] = SetInTree(d, u, items[n])
        <3> TAKE n \in 1..N, u \in Trees(d)
        <3>1. n \in Nat
            BY <1>0
        <3> QED
            BY <3>1
    <2> HIDE DEF step
    <2>3. PICK f \in [0..N -> Trees(d)] : Repeats(f, N, t, step)
        BY <1>0, <2>1, RepeatsExist
    <2>4. ASSUME NEW n \in 0..N
          PROVE  f[n] = IF n = 0 THEN t ELSE The({SetInTree(d, u, items[n]) : u \in {f[n - 1]}})
        <3>1. CASE n = 0
            BY <2>3, <3>1 DEF Repeats
        <3>2. CASE n # 0
            <4>1. n \in 1..N /\ n - 1 \in 0..N
                BY <1>0, <3>2
            <4>2. f[n] = step[<<n, f[n - 1]>>] /\ f[n - 1] \in Trees(d)
                BY <2>3, <4>1 DEF Repeats
            <4> QED
                BY <1>1, <2>2, <3>2, <4>1, <4>2
        <3> QED
            BY <3>1, <3>2
    <2>5. Sets(f, d, t, items)
        <3>1. f = [n \in 0..N |-> f[n]]
            BY <2>3
        <3> QED
            BY <2>4, <3>1 DEF Sets
    <2> QED
        BY <2>5
<1> HIDE DEF step
<1>3. Sets(set, d, t, items)
    BY <1>2
<1>4. SetAll(d, t, items) = set[Len(items)]
    BY DEF SetAll, Sets
<1> HIDE DEF set
<1>5. set[0] = t /\ \A n \in 1..N : set[n] = SetInTree(d, set[n - 1], items[n])
    <2>1. \A n \in 0..N : set[n] = IF n = 0 THEN t ELSE The({SetInTree(d, u, items[n]) : u \in {set[n - 1]}})
        BY <1>3 DEF Sets
    <2>2. \A n \in 0..N : n # 0 => set[n] = SetInTree(d, set[n - 1], items[n])
        BY <1>1, <2>1
    <2>3. 0 \in 0..N /\ \A n \in 1..N : n \in 0..N /\ n # 0
        BY <1>0
    <2> QED
        BY <2>1, <2>2, <2>3
<1> QED
    BY <1>4, <1>5 DEF SetRun

LEMMA SetAllGood ==
    ASSUME NEW d, GoodTables(d), NEW t \in Trees(d), NEW items \in Seq(Item)
    PROVE  SetAll(d, t, items) \in Trees(d)
<1> DEFINE N == Len(items)
<1>1. N \in Nat /\ \A n \in 1..N : items[n] \in Item
    OBVIOUS
<1>2. PICK set : SetRun(set, d, t, items)
    BY SetRuns
<1>3. SetAll(d, t, items) = set[N]
    BY <1>2 DEF SetRun
<1>4. set[0] = t /\ \A n \in 1..N : set[n] = SetInTree(d, set[n - 1], items[n])
    BY <1>2 DEF SetRun
<1> DEFINE T == {n \in 0..N : set[n] \in Trees(d)}
<1>5. 0 \in T
    BY <1>1, <1>4
<1>6. ASSUME NEW n \in 0..N, n < N, n \in T PROVE n + 1 \in T
    <2>1. n + 1 \in 1..N /\ n + 1 \in 0..N /\ n + 1 - 1 = n
        BY <1>1, <1>6
    <2>2. set[n + 1] = SetInTree(d, set[n], items[n + 1])
        BY <1>4, <2>1
    <2>3. set[n + 1] \in Trees(d)
        BY <1>1, <1>6, <2>1, <2>2, SetInTreeGood
    <2> QED
        BY <2>1, <2>3
<1>7. 0..N \subseteq T
    <2> HIDE DEF T, N
    <2> QED
        BY <1>1, <1>5, <1>6, UpTo
<1>8. N \in 0..N
    BY <1>1
<1> QED
    BY <1>3, <1>7, <1>8

LEMMA OpenTreeGood ==
    ASSUME NEW d, GoodTables(d), NEW idx \in Stored(d) \union {0}
    PROVE  OpenTree(idx) \in Trees(d)
<1>1. CASE idx = 0
    <2>1. OpenTree(idx) = NoTree
        BY <1>1 DEF OpenTree
    <2>2. NoTree \in Trees(d)
        <3>1. DOMAIN NoTree = {} /\ NoTree \in [{} -> TreeNode]
            BY DEF NoTree
        <3>2. IsFiniteSet({})
            BY FS_EmptySet
        <3>3. Good(d, NoTree)
            BY <3>1, <3>2 DEF Good, Tidy, Closed, Laminar, FromStore
        <3> QED
            BY <3>3, TreesAre
    <2> QED
        BY <2>1, <2>2
<1>2. CASE idx # 0
    <2> DEFINE t == OpenTree(idx)
    <2>1. t = [p \in {<<>>} |-> Unresolved(idx)]
        BY <1>2 DEF OpenTree
    <2>2. idx \in Stored(d) /\ idx \in Nat
        BY <1>2, StoredRow
    <2>3. Unresolved(idx) \in TreeNode /\ Unresolved(idx).kind = "Unresolved" /\ Unresolved(idx).idx = idx
        BY <2>2, KindsAre
    <2>4. DOMAIN t = {<<>>} /\ t[<<>>] = Unresolved(idx) /\ t \in [DOMAIN t -> TreeNode]
        BY <2>1, <2>3
    <2> HIDE DEF t
    <2>5. Closed(t)
        <3>1. Under(<<>>, Unresolved(idx)) = {}
            BY <2>3 DEF Under
        <3> QED
            BY <2>4, <3>1 DEF Closed
    <2>6. Laminar(t)
        BY <2>4 DEF Laminar
    <2>7. IsFiniteSet({<<>>})
        BY FS_Singleton
    <2>8. Tidy(t)
        BY <2>4, <2>5, <2>6, <2>7, EmptyBits DEF Tidy
    <2>9. FromStore(d, t)
        BY <2>2, <2>3, <2>4 DEF FromStore
    <2> QED
        BY <2>8, <2>9, TreesAre DEF Good, t
<1> QED
    BY <1>1, <1>2

-----------------------------------------------------------------------------
(* commit: the order of the nodes, children before their parents. *)

Forks(p, q, n) ==
    /\ n \in 1..Len(p) /\ n \in 1..Len(q) /\ p[n] < q[n]
    /\ \A i \in 1..n - 1 : p[i] = q[i]

LEMMA BeforeIs ==
    ASSUME NEW p \in Bits, NEW q \in Bits
    PROVE  Before(p, q) <=> (IsPrefix(q, p) /\ q # p) \/ \E n \in Nat : Forks(p, q, n)
<1>0. Len(p) \in Nat /\ Len(q) \in Nat /\ DOMAIN p = 1..Len(p) /\ DOMAIN q = 1..Len(q)
    BY BitsAre
<1>1. ASSUME NEW n \in (1..Len(p)) \intersect (1..Len(q))
      PROVE  SubSeq(p, 1, n - 1) = SubSeq(q, 1, n - 1) <=> \A i \in 1..n - 1 : p[i] = q[i]
    <2>1. n - 1 \in 0..Len(p) /\ n - 1 \in 0..Len(q)
        BY <1>0
    <2>2. /\ SubSeq(p, 1, n - 1) \in Bits /\ Len(SubSeq(p, 1, n - 1)) = n - 1
          /\ \A i \in 1..n - 1 : SubSeq(p, 1, n - 1)[i] = p[i]
          /\ SubSeq(q, 1, n - 1) \in Bits /\ Len(SubSeq(q, 1, n - 1)) = n - 1
          /\ \A i \in 1..n - 1 : SubSeq(q, 1, n - 1)[i] = q[i]
        BY <2>1, Beginning
    <2> QED
        BY <2>2, SameBits
<1>2. (\E n \in (DOMAIN p) \intersect (DOMAIN q) : SubSeq(p, 1, n - 1) = SubSeq(q, 1, n - 1) /\ p[n] < q[n])
        <=> \E n \in Nat : Forks(p, q, n)
    <2>1. ASSUME NEW n \in (DOMAIN p) \intersect (DOMAIN q), SubSeq(p, 1, n - 1) = SubSeq(q, 1, n - 1), p[n] < q[n]
          PROVE  \E m \in Nat : Forks(p, q, m)
        <3>1. n \in (1..Len(p)) \intersect (1..Len(q)) /\ n \in Nat
            BY <1>0
        <3>2. Forks(p, q, n)
            BY <1>1, <2>1, <3>1 DEF Forks
        <3> QED
            BY <3>1, <3>2
    <2>2. ASSUME NEW n \in Nat, Forks(p, q, n)
          PROVE  \E m \in (DOMAIN p) \intersect (DOMAIN q) : SubSeq(p, 1, m - 1) = SubSeq(q, 1, m - 1) /\ p[m] < q[m]
        <3>1. n \in (1..Len(p)) \intersect (1..Len(q)) /\ p[n] < q[n] /\ \A i \in 1..n - 1 : p[i] = q[i]
            BY <2>2 DEF Forks
        <3>2. SubSeq(p, 1, n - 1) = SubSeq(q, 1, n - 1)
            BY <1>1, <3>1
        <3> QED
            BY <1>0, <3>1, <3>2
    <2> QED
        BY <2>1, <2>2
<1> QED
    BY <1>2 DEF Before, IsStrictPrefix

LEMMA BeforeNotSelf == ASSUME NEW p \in Bits PROVE ~ Before(p, p)
<1> SUFFICES ASSUME NEW n \in Nat, Forks(p, p, n) PROVE FALSE
    BY BeforeIs
<1>1. p[n] < p[n] /\ p[n] \in {0, 1}
    BY BitsAre DEF Forks
<1> QED
    BY <1>1

LEMMA BeforeTotal ==
    ASSUME NEW p \in Bits, NEW q \in Bits, p # q
    PROVE  Before(p, q) \/ Before(q, p)
<1> SUFFICES ASSUME ~ IsPrefix(p, q), ~ IsPrefix(q, p)
             PROVE  \E n \in Nat : Forks(p, q, n) \/ Forks(q, p, n)
    BY BeforeIs
<1> DEFINE Apart == {i \in Nat : i \in 1..Len(p) /\ i \in 1..Len(q) /\ p[i] # q[i]}
<1>1. Len(p) \in Nat /\ Len(q) \in Nat
    BY BitsAre
<1>2. Apart # {}
    <2>1. CASE Len(p) <= Len(q)
        <3>1. PICK i \in 1..Len(p) : p[i] # q[i]
            BY <2>1, PrefixBits
        <3>2. i \in Nat /\ i \in 1..Len(q)
            BY <1>1, <2>1
        <3> QED
            BY <3>1, <3>2
    <2>2. CASE Len(q) <= Len(p)
        <3>1. PICK i \in 1..Len(q) : q[i] # p[i]
            BY <2>2, PrefixBits
        <3>2. i \in Nat /\ i \in 1..Len(p)
            BY <1>1, <2>2
        <3> QED
            BY <3>1, <3>2
    <2> QED
        BY <1>1, <2>1, <2>2
<1>3. PICK m \in Apart : \A i \in Apart : m <= i
    BY <1>2, LeastNumber
<1>4. m \in Nat /\ m \in 1..Len(p) /\ m \in 1..Len(q) /\ p[m] # q[m]
    BY <1>3
<1>5. \A i \in 1..m - 1 : p[i] = q[i]
    <2> TAKE i \in 1..m - 1
    <2>1. i \in Nat /\ i \in 1..Len(p) /\ i \in 1..Len(q) /\ ~ (m <= i)
        BY <1>1, <1>4
    <2> QED
        BY <1>3, <2>1
<1> HIDE DEF Apart
<1>6. p[m] \in {0, 1} /\ q[m] \in {0, 1}
    BY <1>4, BitsAre
<1>7. p[m] < q[m] \/ q[m] < p[m]
    BY <1>4, <1>6
<1> QED
    BY <1>4, <1>5, <1>7 DEF Forks

LEMMA BeforeOn ==
    ASSUME NEW p \in Bits, NEW q \in Bits, NEW r \in Bits, Before(p, q), Before(q, r)
    PROVE  Before(p, r)
<1>0. Len(p) \in Nat /\ Len(q) \in Nat /\ Len(r) \in Nat
    BY BitsAre
<1>1. CASE IsPrefix(q, p) /\ q # p /\ IsPrefix(r, q) /\ r # q
    <2>1. IsPrefix(r, p) /\ Len(r) < Len(q) /\ Len(q) < Len(p)
        BY <1>1, PrefixOn, PrefixOrder
    <2>2. r # p
        BY <1>0, <2>1
    <2> QED
        BY <2>1, <2>2, BeforeIs
<1>2. ASSUME IsPrefix(q, p), NEW n \in Nat, Forks(q, r, n) PROVE Before(p, r)
    <2>1. Len(q) <= Len(p) /\ \A i \in 1..Len(q) : q[i] = p[i]
        BY <1>2, PrefixBits
    <2>2. n \in 1..Len(q) /\ n \in 1..Len(r) /\ q[n] < r[n] /\ \A i \in 1..n - 1 : q[i] = r[i]
        BY <1>2 DEF Forks
    <2>3. n \in 1..Len(p) /\ \A i \in 1..n - 1 : i \in 1..Len(q)
        BY <1>0, <2>1, <2>2
    <2>4. p[n] < r[n] /\ \A i \in 1..n - 1 : p[i] = r[i]
        BY <2>1, <2>2, <2>3
    <2>5. Forks(p, r, n)
        BY <2>2, <2>3, <2>4 DEF Forks
    <2> QED
        BY <2>5, BeforeIs
<1>3. ASSUME NEW n \in Nat, Forks(p, q, n), IsPrefix(r, q) PROVE Before(p, r)
    <2>1. Len(r) <= Len(q) /\ \A i \in 1..Len(r) : r[i] = q[i]
        BY <1>3, PrefixBits
    <2>2. n \in 1..Len(p) /\ n \in 1..Len(q) /\ p[n] < q[n] /\ \A i \in 1..n - 1 : p[i] = q[i]
        BY <1>3 DEF Forks
    <2>3. CASE n <= Len(r)
        <3>1. n \in 1..Len(r) /\ \A i \in 1..n - 1 : i \in 1..Len(r)
            BY <1>0, <2>2, <2>3
        <3>2. p[n] < r[n] /\ \A i \in 1..n - 1 : p[i] = r[i]
            BY <2>1, <2>2, <3>1
        <3>3. Forks(p, r, n)
            BY <2>2, <3>1, <3>2 DEF Forks
        <3> QED
            BY <3>3, BeforeIs
    <2>4. CASE ~ (n <= Len(r))
        <3>1. Len(r) < Len(p) /\ \A i \in 1..Len(r) : i \in 1..n - 1
            BY <1>0, <2>2, <2>4
        <3>2. \A i \in 1..Len(r) : r[i] = p[i]
            BY <2>1, <2>2, <3>1
        <3>3. Len(r) <= Len(p) /\ r # p
            BY <1>0, <3>1
        <3>4. IsPrefix(r, p)
            BY <3>2, <3>3, PrefixBits
        <3> QED
            BY <3>3, <3>4, BeforeIs
    <2> QED
        BY <2>3, <2>4
<1>4. ASSUME NEW n \in Nat, Forks(p, q, n), NEW m \in Nat, Forks(q, r, m) PROVE Before(p, r)
    <2>1. n \in 1..Len(p) /\ n \in 1..Len(q) /\ p[n] < q[n] /\ \A i \in 1..n - 1 : p[i] = q[i]
        BY <1>4 DEF Forks
    <2>2. m \in 1..Len(q) /\ m \in 1..Len(r) /\ q[m] < r[m] /\ \A i \in 1..m - 1 : q[i] = r[i]
        BY <1>4 DEF Forks
    <2>3. p[n] \in {0, 1} /\ q[n] \in {0, 1} /\ q[m] \in {0, 1} /\ r[m] \in {0, 1}
        BY <2>1, <2>2, BitsAre
    <2>4. n # m
        BY <2>1, <2>2, <2>3
    <2>5. CASE n < m
        <3>1. n \in 1..Len(r) /\ n \in 1..m - 1 /\ \A i \in 1..n - 1 : i \in 1..m - 1
            BY <1>0, <2>1, <2>2, <2>5
        <3>2. p[n] < r[n] /\ \A i \in 1..n - 1 : p[i] = r[i]
            BY <2>1, <2>2, <3>1
        <3>3. Forks(p, r, n)
            BY <2>1, <3>1, <3>2 DEF Forks
        <3> QED
            BY <3>3, BeforeIs
    <2>6. CASE m < n
        <3>1. m \in 1..Len(p) /\ m \in 1..n - 1 /\ \A i \in 1..m - 1 : i \in 1..n - 1
            BY <1>0, <2>1, <2>2, <2>6
        <3>2. p[m] < r[m] /\ \A i \in 1..m - 1 : p[i] = r[i]
            BY <2>1, <2>2, <3>1
        <3>3. Forks(p, r, m)
            BY <2>2, <3>1, <3>2 DEF Forks
        <3> QED
            BY <3>3, BeforeIs
    <2> QED
        BY <2>4, <2>5, <2>6
<1>5. (IsPrefix(q, p) /\ q # p) \/ \E n \in Nat : Forks(p, q, n)
    BY BeforeIs
<1>6. (IsPrefix(r, q) /\ r # q) \/ \E n \in Nat : Forks(q, r, n)
    BY BeforeIs
<1> QED
    BY <1>1, <1>2, <1>3, <1>4, <1>5, <1>6

LEMMA InMemoryIs ==
    ASSUME NEW t, Tidy(t)
    PROVE  InMemory(t) \subseteq Bits /\ InMemory(t) \subseteq DOMAIN t /\ IsFiniteSet(InMemory(t))
<1>1. InMemory(t) \subseteq DOMAIN t /\ DOMAIN t \subseteq Bits /\ IsFiniteSet(DOMAIN t)
    BY DEF InMemory, Tidy
<1> QED
    BY <1>1, FS_Subset

LEMMA PositionLess ==
    ASSUME NEW t, Tidy(t), NEW p \in InMemory(t), NEW q \in InMemory(t), Before(p, q)
    PROVE  Position(t, p) \in Nat /\ Position(t, q) \in Nat /\ Position(t, p) < Position(t, q)
<1> DEFINE M == InMemory(t)
           P == {x \in M : Before(x, p)}
           Q == {x \in M : Before(x, q)}
<1>1. M \subseteq Bits /\ IsFiniteSet(M)
    BY InMemoryIs
<1>2. Position(t, p) = Cardinality(P) /\ Position(t, q) = Cardinality(Q)
    BY DEF Position
<1>3. P \subseteq M /\ Q \subseteq M
    OBVIOUS
<1>4. p \notin P
    BY <1>1, BeforeNotSelf
<1>5. P \union {p} \subseteq Q
    <2>1. ASSUME NEW x \in P PROVE x \in Q
        <3>1. x \in Bits /\ p \in Bits /\ q \in Bits /\ Before(x, p)
            BY <1>1
        <3>2. Before(x, q)
            BY <3>1, BeforeOn
        <3> QED
            BY <3>2
    <2>2. p \in Q
        OBVIOUS
    <2> QED
        BY <2>1, <2>2
<1> HIDE DEF M, P, Q
<1>6. IsFiniteSet(P) /\ IsFiniteSet(Q)
    BY <1>1, <1>3, FS_Subset
<1>7. Cardinality(P) \in Nat /\ Cardinality(Q) \in Nat
    BY <1>6, FS_CardinalityType
<1>8. Cardinality(P \union {p}) = Cardinality(P) + 1
    BY <1>4, <1>6, FS_AddElement
<1>9. Cardinality(P \union {p}) <= Cardinality(Q)
    BY <1>5, <1>6, FS_Subset
<1> QED
    BY <1>2, <1>7, <1>8, <1>9

LEMMA PositionIn ==
    ASSUME NEW t, Tidy(t), NEW p \in InMemory(t)
    PROVE  Cardinality(InMemory(t)) \in Nat /\ Position(t, p) \in 0..Cardinality(InMemory(t)) - 1
<1> DEFINE M == InMemory(t)
           P == {x \in M : Before(x, p)}
<1>1. M \subseteq Bits /\ IsFiniteSet(M)
    BY InMemoryIs
<1>2. Position(t, p) = Cardinality(P)
    BY DEF Position
<1>3. P \union {p} \subseteq M /\ P \subseteq M
    OBVIOUS
<1>4. p \notin P
    BY <1>1, BeforeNotSelf
<1> HIDE DEF M, P
<1>5. IsFiniteSet(P)
    BY <1>1, <1>3, FS_Subset
<1>6. Cardinality(P) \in Nat /\ Cardinality(M) \in Nat
    BY <1>1, <1>5, FS_CardinalityType
<1>7. Cardinality(P \union {p}) = Cardinality(P) + 1
    BY <1>4, <1>5, FS_AddElement
<1>8. Cardinality(P \union {p}) <= Cardinality(M)
    BY <1>1, <1>3, FS_Subset
<1> QED
    BY <1>2, <1>6, <1>7, <1>8 DEF M

(* Every position is some node's. *)
LEMMA PositionOnto ==
    ASSUME NEW t, Tidy(t), NEW n \in 0..Cardinality(InMemory(t)) - 1
    PROVE  \E p \in InMemory(t) : Position(t, p) = n
<1> DEFINE M == InMemory(t)
           N == Cardinality(M)
           f == [p \in M |-> Position(t, p)]
<1>1. M \subseteq Bits /\ IsFiniteSet(M) /\ N \in Nat
    BY InMemoryIs, FS_CardinalityType
<1>2. f \in [M -> 0..N - 1]
    BY PositionIn
<1>3. ASSUME NEW p \in M, NEW q \in M, p # q PROVE f[p] # f[q]
    <2>1. Before(p, q) \/ Before(q, p)
        BY <1>1, <1>3, BeforeTotal
    <2>2. Position(t, p) \in Nat /\ Position(t, q) \in Nat /\ Position(t, p) # Position(t, q)
        <3>1. CASE Before(p, q)
            <4>1. Position(t, p) \in Nat /\ Position(t, q) \in Nat /\ Position(t, p) < Position(t, q)
                BY <3>1, PositionLess
            <4> QED
                BY <4>1
        <3>2. CASE Before(q, p)
            <4>1. Position(t, p) \in Nat /\ Position(t, q) \in Nat /\ Position(t, q) < Position(t, p)
                BY <3>2, PositionLess
            <4> QED
                BY <4>1
        <3> QED
            BY <2>1, <3>1, <3>2
    <2> QED
        BY <2>2
<1> HIDE DEF f, M, N
<1>4. f \in Injection(M, 0..N - 1)
    BY <1>2, <1>3 DEF Injection, IsInjective
<1>5. IsFiniteSet(0..N - 1) /\ Cardinality(0..N - 1) = N
    <2>1. 0 \in Int /\ N - 1 \in Int
        BY <1>1
    <2>2. IsFiniteSet(0..N - 1) /\ Cardinality(0..N - 1) = IF 0 > N - 1 THEN 0 ELSE N - 1 - 0 + 1
        BY <2>1, FS_Interval
    <2>3. (0 > N - 1 => N = 0) /\ N - 1 - 0 + 1 = N
        BY <1>1
    <2> QED
        BY <2>2, <2>3
<1>6. f \in Surjection(M, 0..N - 1)
    <2>1. Cardinality(M) = Cardinality(0..N - 1)
        BY <1>5 DEF N
    <2> QED
        BY <1>4, <1>5, <2>1, FS_Injection
<1>7. n \in 0..N - 1
    BY DEF N, M
<1>8. \E p \in M : f[p] = n
    BY <1>6, <1>7 DEF Surjection
<1> QED
    BY <1>8 DEF f, M

-----------------------------------------------------------------------------
(* commit: what the nodes to add commit to and refer to. *)

Values == Nat \union {NoLeaf}

LEMMA LeafInIs ==
    ASSUME NEW d, GoodTables(d), NEW hits, hits \subseteq DOMAIN d.leafs
    PROVE  LeafIn(d, LastRow(hits)) \in Values
<1>0. DOMAIN d.leafs = 1..Len(d.leafs) /\ Len(d.leafs) \in Nat
    BY DEF GoodTables
<1>1. CASE hits = {}
    <2>1. LastRow(hits) = 0
        BY <1>1 DEF LastRow
    <2> QED
        BY <2>1 DEF LeafIn, Values
<1>2. CASE hits # {}
    <2>1. hits \subseteq 0..Len(d.leafs)
        BY <1>0
    <2>2. LastRow(hits) \in hits
        BY <1>0, <1>2, <2>1, LastHit
    <2>3. LastRow(hits) \in 1..Len(d.leafs) /\ LastRow(hits) # 0
        BY <1>0, <2>2
    <2>4. d.leafs[LastRow(hits)] \in LeafRow
        BY <2>3 DEF GoodTables
    <2> HIDE DEF LastRow
    <2> QED
        BY <2>3, <2>4 DEF LeafIn, Values, LeafRow
<1> QED
    BY <1>1, <1>2

LEMMA LeafAtIs ==
    ASSUME NEW d, GoodTables(d), NEW key, NEW max
    PROVE  LeafAt(d, key, max) \in Values /\ StorageLeaf(d, max, key) \in Values
<1>1. OfKey(d, key) \subseteq DOMAIN d.leafs
    BY DEF OfKey
<1>2. {i \in OfKey(d, key) : d.leafs[i].root_idx <= max} \subseteq DOMAIN d.leafs
    BY <1>1
<1>3. LeafAt(d, key, max) \in Values
    BY <1>2, LeafInIs DEF LeafAt
<1>4. LeafIn(d, LastRow(OfKey(d, key))) \in Values
    BY <1>1, LeafInIs
<1> QED
    BY <1>3, <1>4 DEF StorageLeaf

LEMMA LeafValueIs ==
    ASSUME NEW d, GoodTables(d), NEW items \in Seq(Item), NEW key, NEW max
    PROVE  LeafValue(d, max, items, key) \in Values
<1> DEFINE hits == {n \in DOMAIN items : items[n].key = key}
           i == LastRow(hits)
<1>1. LeafValue(d, max, items, key) = IF i = 0 THEN StorageLeaf(d, max, key) ELSE items[i].value
    BY DEF LeafValue
<1>2. DOMAIN items = 1..Len(items) /\ Len(items) \in Nat /\ \A n \in 1..Len(items) : items[n] \in Item
    OBVIOUS
<1>3. i = 0 \/ i \in 1..Len(items)
    <2>1. CASE hits = {}
        BY <2>1 DEF LastRow
    <2>2. CASE hits # {}
        <3>1. hits \subseteq 0..Len(items) /\ hits \subseteq 1..Len(items)
            BY <1>2
        <3> HIDE DEF hits
        <3>2. LastRow(hits) \in hits
            BY <1>2, <2>2, <3>1, LastHit
        <3> QED
            BY <3>1, <3>2
    <2> QED
        BY <2>1, <2>2
<1> HIDE DEF i
<1>4. i # 0 => items[i].value \in Nat
    BY <1>2, <1>3 DEF Item
<1> QED
    BY <1>1, <1>4, LeafAtIs DEF Values

LEMMA LeafHashIs == ASSUME NEW v \in Nat PROVE LeafHash(v) \in Hash
BY EmptyBits DEF LeafHash, Hash

LEMMA EdgeHashIs == ASSUME NEW path \in Bits, NEW child \in Hash PROVE EdgeHash(path, child) \in Hash
<1>1. ASSUME NEW e \in child PROVE <<path \o e[1], e[2]>> \in Bits \X Nat
    <2>1. e[1] \in Bits /\ e[2] \in Nat
        BY DEF Hash
    <2>2. path \o e[1] \in Bits
        BY <2>1, Prolonged
    <2> QED
        BY <2>1, <2>2
<1> QED
    BY <1>1 DEF EdgeHash, Hash

LEMMA HashAtIs ==
    ASSUME NEW ends, DOMAIN ends \subseteq Bits, \A q \in DOMAIN ends : ends[q] \in Hash, NEW p \in Bits
    PROVE  HashAt(ends, p) \in Hash
<1>1. ASSUME NEW q \in DOMAIN ends, IsPrefix(p, q) PROVE EdgeHash(Drop(q, Len(p)), ends[q]) \in Hash
    <2>1. q \in Bits
        OBVIOUS
    <2>2. Drop(q, Len(p)) \in Bits
        BY <1>1, <2>1, Dropped
    <2> QED
        BY <2>2, EdgeHashIs
<1> QED
    BY <1>1 DEF HashAt, Hash

(* What the node at position n of the list may refer to. *)
RefBefore(d, n) == {StorageIndex(idx) : idx \in Stored(d)} \union {Index(m) : m \in 0..n - 2}
AddedData(d, n) ==
    [kind : {"Binary"}, left : RefBefore(d, n), right : RefBefore(d, n)]
      \union [kind : {"Edge"}, child : RefBefore(d, n), path : Bits \ {<<>>}]
      \union [kind : {"LeafBinary"}]
      \union [kind : {"LeafEdge"}, path : Bits \ {<<>>}]

LEMMA RefIs ==
    ASSUME NEW d, NEW t, Good(d, t), NEW p \in InMemory(t), NEW c \in Under(p, t[p]), t[c].kind # "Leaf"
    PROVE  c \in DOMAIN t /\ Ref(t, c) \in RefBefore(d, Position(t, p) + 1)
<1>1. /\ Tidy(t) /\ t \in [DOMAIN t -> TreeNode] /\ DOMAIN t \subseteq Bits /\ Closed(t)
      /\ \A q \in DOMAIN t : t[q] \in TreeNode
    BY DEF Good, Tidy
<1>2. p \in DOMAIN t /\ p \in Bits /\ t[p] \in TreeNode
    BY <1>1 DEF InMemory
<1>3. c \in DOMAIN t /\ c \in Bits /\ t[c] \in TreeNode
    BY <1>1, <1>2 DEF Closed
<1>4. CASE t[c].kind = "Unresolved"
    BY <1>3, <1>4 DEF Ref, RefBefore, Good, FromStore
<1>5. CASE t[c].kind # "Unresolved"
    <2>1. c \in InMemory(t)
        BY <1>3, <1>5, NodeKinds DEF InMemory
    <2>2. IsPrefix(p, c) /\ c # p
        BY <1>2, UnderIs
    <2>3. Before(c, p)
        BY <1>2, <1>3, <2>2, BeforeIs
    <2>4. Position(t, c) \in Nat /\ Position(t, p) \in Nat /\ Position(t, c) < Position(t, p)
        BY <1>1, <2>1, <2>3, PositionLess
    <2>5. Position(t, c) \in 0..Position(t, p) + 1 - 2
        BY <2>4
    <2>6. Ref(t, c) = Index(Position(t, c))
        BY <1>5 DEF Ref
    <2> DEFINE k == Position(t, c)
               n == Position(t, p) + 1
    <2>7. k \in Nat /\ n - 1 \in Nat /\ k < n - 1 /\ n \in Nat /\ Ref(t, c) = Index(k)
        BY <2>4, <2>6
    <2> HIDE DEF k, n
    <2>8. Ref(t, c) \in RefBefore(d, n)
        <3>1. k \in 0..n - 2
            BY <2>7
        <3> QED
            BY <2>7, <3>1 DEF RefBefore
    <2> QED
        BY <1>3, <2>8 DEF n
<1> QED
    BY <1>4, <1>5

LEMMA NodeDataIs ==
    ASSUME NEW d, NEW t, Good(d, t), NEW p \in InMemory(t),
           t[p].kind = "Binary" => (t[Append(p, 0)].kind = "Leaf" <=> t[Append(p, 1)].kind = "Leaf")
    PROVE  NodeData(t, p) \in AddedData(d, Position(t, p) + 1)
<1>1. p \in DOMAIN t /\ p \in Bits /\ t[p] \in TreeNode
    BY DEF InMemory, Good, Tidy
<1> DEFINE n == Position(t, p) + 1
<1>2. CASE t[p].kind = "Binary"
    <2>1. Under(p, t[p]) = {Append(p, 0), Append(p, 1)}
        BY <1>1, <1>2, UnderIs
    <2>2. CASE t[Append(p, 0)].kind = "Leaf"
        BY <1>2, <2>2 DEF NodeData, AddedData
    <2>3. CASE t[Append(p, 0)].kind # "Leaf"
        <3>1. Ref(t, Append(p, 0)) \in RefBefore(d, n) /\ Ref(t, Append(p, 1)) \in RefBefore(d, n)
            BY <1>2, <2>1, <2>3, RefIs
        <3>2. NodeData(t, p) = [kind |-> "Binary", left |-> Ref(t, Append(p, 0)), right |-> Ref(t, Append(p, 1))]
            BY <1>2, <2>3 DEF NodeData
        <3> HIDE DEF n
        <3>3. NodeData(t, p) \in AddedData(d, n)
            BY <3>1, <3>2 DEF AddedData
        <3> QED
            BY <3>3 DEF n
    <2> QED
        BY <2>2, <2>3
<1>3. CASE t[p].kind # "Binary"
    <2>1. t[p].kind = "Edge" /\ t[p].path \in Bits /\ t[p].path # <<>>
        BY <1>1, <1>3, NodeKinds DEF InMemory
    <2>2. Under(p, t[p]) = {p \o t[p].path}
        BY <1>1, <2>1, UnderIs
    <2>3. CASE t[p \o t[p].path].kind = "Leaf"
        BY <1>3, <2>1, <2>3 DEF NodeData, AddedData
    <2>4. CASE t[p \o t[p].path].kind # "Leaf"
        <3>1. Ref(t, p \o t[p].path) \in RefBefore(d, n)
            BY <2>2, <2>4, RefIs
        <3>2. NodeData(t, p) = [kind |-> "Edge", child |-> Ref(t, p \o t[p].path), path |-> t[p].path]
            BY <1>3, <2>4 DEF NodeData
        <3> HIDE DEF n
        <3>3. NodeData(t, p) \in AddedData(d, n)
            BY <2>1, <3>1, <3>2 DEF AddedData
        <3> QED
            BY <3>3 DEF n
    <2> QED
        BY <2>3, <2>4
<1> QED
    BY <1>2, <1>3

Added(d, nodes) ==
    /\ Len(nodes) \in Nat /\ DOMAIN nodes = 1..Len(nodes)
    /\ \A n \in 1..Len(nodes) : nodes[n].hash \in Hash /\ nodes[n].data \in AddedData(d, n)

LEMMA CommitGood ==
    ASSUME NEW d, GoodTables(d), NEW t \in Trees(d), NEW items \in Seq(Item), NEW max
    PROVE  /\ Commit(d, max, items, t).ok \in BOOLEAN
           /\ Commit(d, max, items, t).root_commitment \in Hash
           /\ Added(d, Commit(d, max, items, t).nodes_added)
<1>1. CASE ~ CanCommit(d, max, items, t)
    <2>1. Commit(d, max, items, t) = [ok |-> FALSE, root_commitment |-> EmptyHash, nodes_added |-> <<>>]
        BY <1>1 DEF Commit
    <2>2. EmptyHash \in Hash
        BY DEF EmptyHash, Hash
    <2>3. Added(d, <<>>)
        BY DEF Added
    <2> QED
        BY <2>1, <2>2, <2>3
<1>2. CASE CanCommit(d, max, items, t)
    <2> DEFINE ends == EndHashes(d, max, items, t)
               Node(p) == [hash |-> HashAt(ends, p), data |-> NodeData(t, p)]
               N == Cardinality(InMemory(t))
               At(n) == CHOOSE p \in InMemory(t) : Position(t, p) = n - 1
               nodes == [n \in 1..N |-> Node(At(n))]
    <2>1. Good(d, t)
        BY <1>2, TreesAre DEF CanCommit
    <2>2. Tidy(t) /\ DOMAIN t \subseteq Bits
        BY <2>1 DEF Good, Tidy
    <2>3. Commit(d, max, items, t) = [ok |-> TRUE, root_commitment |-> HashAt(ends, <<>>), nodes_added |-> nodes]
        BY <1>2 DEF Commit
    <2>4. DOMAIN ends \subseteq Bits /\ \A q \in DOMAIN ends : ends[q] \in Hash
        <3>1. ends = [p \in Ends(t) |-> IF t[p].kind = "Leaf" THEN LeafHash(LeafValue(d, max, items, p))
                                        ELSE StoredHash(d, t[p].idx)]
            BY DEF EndHashes
        <3>2. DOMAIN ends = Ends(t) /\ Ends(t) \subseteq DOMAIN t
            BY <3>1 DEF Ends
        <3>3. ASSUME NEW q \in Ends(t) PROVE ends[q] \in Hash
            <4>1. q \in DOMAIN t
                BY DEF Ends
            <4>2. CASE t[q].kind = "Leaf"
                <5>1. LeafValue(d, max, items, q) \in Nat
                    BY <1>2, <4>1, <4>2, LeafValueIs DEF CanCommit, Values
                <5>2. ends[q] = LeafHash(LeafValue(d, max, items, q))
                    BY <3>1, <4>2
                <5> QED
                    BY <5>1, <5>2, LeafHashIs
            <4>3. CASE t[q].kind # "Leaf"
                <5>1. t[q].kind = "Unresolved"
                    BY <4>3 DEF Ends
                <5>2. t[q].idx \in Stored(d)
                    BY <2>1, <4>1, <5>1 DEF Good, FromStore
                <5>3. ends[q] = StoredHash(d, t[q].idx)
                    BY <3>1, <4>3
                <5> QED
                    BY <5>2, <5>3, StoredRow
            <4> QED
                BY <4>2, <4>3
        <3> QED
            BY <2>2, <3>2, <3>3
    <2> HIDE DEF ends
    <2>5. HashAt(ends, <<>>) \in Hash
        BY <2>4, HashAtIs, EmptyBits
    <2>6. N \in Nat /\ InMemory(t) \subseteq Bits
        BY <2>2, InMemoryIs, FS_CardinalityType
    <2>7. ASSUME NEW n \in 1..N PROVE At(n) \in InMemory(t) /\ Position(t, At(n)) = n - 1
        <3>1. n - 1 \in 0..N - 1
            BY <2>6
        <3>2. \E p \in InMemory(t) : Position(t, p) = n - 1
            BY <2>2, <3>1, PositionOnto
        <3> QED
            BY <3>2
    <2> HIDE DEF At
    <2>8. ASSUME NEW n \in 1..N PROVE Node(At(n)).hash \in Hash /\ Node(At(n)).data \in AddedData(d, n)
        <3> DEFINE p == At(n)
        <3>1. p \in InMemory(t) /\ Position(t, p) = n - 1 /\ p \in Bits /\ p \in DOMAIN t
            BY <2>2, <2>6, <2>7, InMemoryIs
        <3> HIDE DEF p
        <3>2. HashAt(ends, p) \in Hash
            BY <2>4, <3>1, HashAtIs
        <3>3. t[p].kind = "Binary" => (t[Append(p, 0)].kind = "Leaf" <=> t[Append(p, 1)].kind = "Leaf")
            BY <1>2, <3>1 DEF CanCommit
        <3>4. NodeData(t, p) \in AddedData(d, Position(t, p) + 1)
            BY <2>1, <3>1, <3>3, NodeDataIs
        <3>5. Position(t, p) + 1 = n
            BY <2>6, <3>1
        <3>6. NodeData(t, p) \in AddedData(d, n)
            BY <3>4, <3>5
        <3>7. Node(p).hash = HashAt(ends, p) /\ Node(p).data = NodeData(t, p)
            OBVIOUS
        <3> QED
            BY <3>2, <3>6, <3>7 DEF p
    <2> HIDE DEF Node, N
    <2>9. nodes = [n \in 1..N |-> Node(At(n))]
        OBVIOUS
    <2>10. Len(nodes) = N /\ DOMAIN nodes = 1..N /\ \A n \in 1..N : nodes[n] = Node(At(n))
        BY <2>6
    <2> HIDE DEF nodes
    <2>11. Added(d, nodes)
        BY <2>6, <2>8, <2>10 DEF Added
    <2> QED
        BY <2>3, <2>5, <2>11
<1> QED
    BY <1>1, <1>2

LEMMA TrieUpdateGood ==
    ASSUME NEW d, GoodTables(d), NEW idx \in Stored(d) \union {0}, NEW items \in Seq(Item), NEW max
    PROVE  /\ TrieUpdate(d, max, idx, items).ok \in BOOLEAN
           /\ TrieUpdate(d, max, idx, items).root_commitment \in Hash
           /\ Added(d, TrieUpdate(d, max, idx, items).nodes_added)
<1> DEFINE t == SetAll(d, OpenTree(idx), items)
<1>1. t \in Trees(d)
    BY OpenTreeGood, SetAllGood
<1>2. TrieUpdate(d, max, idx, items) = Commit(d, max, items, t)
    <2>1. {Commit(d, max, items, u) : u \in {t}} = {Commit(d, max, items, t)}
        OBVIOUS
    <2> HIDE DEF t
    <2>2. The({Commit(d, max, items, u) : u \in {t}}) = Commit(d, max, items, t)
        BY <2>1, TheOne
    <2> QED
        BY <2>2 DEF TrieUpdate, t
<1> HIDE DEF t
<1> QED
    BY <1>1, <1>2, CommitGood

(* The rows of an update: a row refers to what is stored or to a row before it. *)
Pending(d, rows) ==
    /\ rows \in Seq(NodeRow)
    /\ \A n \in 1..Len(rows) :
          Refs(rows[n].data) \subseteq Stored(d) \union {rows[m].trie_idx : m \in 1..n - 1}

LEMMA RowsArePending ==
    ASSUME NEW d, GoodTables(d), NEW update, Added(d, update.nodes_added), NEW idx \in Nat
    PROVE  Pending(d, NodesToPersist(update, idx))
<1> DEFINE nodes == update.nodes_added
           next == idx + 1
           rows == NodesToPersist(update, idx)
<1>1. /\ Len(nodes) \in Nat /\ DOMAIN nodes = 1..Len(nodes)
      /\ \A n \in 1..Len(nodes) : nodes[n].hash \in Hash /\ nodes[n].data \in AddedData(d, n)
    BY DEF Added
<1>2. rows = [n \in DOMAIN nodes |-> [trie_idx |-> next + n - 1, hash |-> nodes[n].hash,
                                      data |-> StoredForm(nodes[n].data, next)]]
    BY DEF NodesToPersist
<1>3. next \in Nat /\ next >= 1
    OBVIOUS
<1> HIDE DEF nodes, rows, next
<1>4. \A n \in 1..Len(nodes) : rows[n] = [trie_idx |-> next + n - 1, hash |-> nodes[n].hash,
                                         data |-> StoredForm(nodes[n].data, next)]
    BY <1>1, <1>2
<1>5. Len(rows) = Len(nodes) /\ DOMAIN rows = 1..Len(nodes)
    BY <1>1, <1>2
<1>11. \A n \in 1..Len(nodes) :
          /\ rows[n].trie_idx = next + n - 1 /\ rows[n].hash = nodes[n].hash
          /\ rows[n].data = StoredForm(nodes[n].data, next)
    <2> TAKE n \in 1..Len(nodes)
    <2>1. rows[n] = [trie_idx |-> next + n - 1, hash |-> nodes[n].hash, data |-> StoredForm(nodes[n].data, next)]
        BY <1>4
    <2> HIDE DEF rows
    <2> QED
        BY <2>1
<1>6. ASSUME NEW n \in 1..Len(nodes), NEW ref \in RefBefore(d, n)
      PROVE  /\ NodeRef(ref, next) \in Nat
             /\ NodeRef(ref, next) \in Stored(d) \union {rows[m].trie_idx : m \in 1..n - 1}
    <2>1. CASE \E i \in Stored(d) : ref = StorageIndex(i)
        <3>1. PICK i \in Stored(d) : ref = StorageIndex(i)
            BY <2>1
        <3>2. ref.at = "storage" /\ ref.idx = i
            BY <3>1 DEF StorageIndex
        <3>3. NodeRef(ref, next) = i
            BY <3>2 DEF NodeRef
        <3> QED
            BY <3>3, StoredRow
    <2>2. CASE \E m \in 0..n - 2 : ref = Index(m)
        <3>1. PICK m \in 0..n - 2 : ref = Index(m)
            BY <2>2
        <3>2. ref.at = "added" /\ ref.idx = m
            BY <3>1 DEF Index
        <3>3. NodeRef(ref, next) = next + m
            BY <3>2 DEF NodeRef
        <3>4. m + 1 \in 1..n - 1 /\ m + 1 \in 1..Len(nodes) /\ next + (m + 1) - 1 = next + m /\ next + m \in Nat
            BY <1>1, <1>3
        <3>5. rows[m + 1].trie_idx = next + m
            BY <1>11, <3>4
        <3> QED
            BY <3>3, <3>4, <3>5
    <2> QED
        BY <2>1, <2>2 DEF RefBefore
<1>7. ASSUME NEW n \in 1..Len(nodes)
      PROVE  /\ StoredForm(nodes[n].data, next) \in NodeDatum
             /\ Refs(StoredForm(nodes[n].data, next)) \subseteq Stored(d) \union {rows[m].trie_idx : m \in 1..n - 1}
    <2> DEFINE data == nodes[n].data
    <2>0. \/ data \in [kind : {"Binary"}, left : RefBefore(d, n), right : RefBefore(d, n)]
          \/ data \in [kind : {"Edge"}, child : RefBefore(d, n), path : Bits \ {<<>>}]
          \/ data \in [kind : {"LeafBinary"}]
          \/ data \in [kind : {"LeafEdge"}, path : Bits \ {<<>>}]
        BY <1>1 DEF AddedData
    <2> HIDE DEF data
    <2>1. CASE data \in [kind : {"Binary"}, left : RefBefore(d, n), right : RefBefore(d, n)]
        <3>1. data.kind = "Binary" /\ data.left \in RefBefore(d, n) /\ data.right \in RefBefore(d, n)
            BY <2>1
        <3>2. StoredForm(data, next) = [data EXCEPT !.left = NodeRef(@, next), !.right = NodeRef(@, next)]
            BY <3>1 DEF StoredForm
        <3>3. StoredForm(data, next) \in [kind : {"Binary"}, left : {NodeRef(data.left, next)}, right : {NodeRef(data.right, next)}]
            BY <2>1, <3>2
        <3>4. StoredForm(data, next) \in NodeDatum
            BY <1>6, <3>1, <3>3 DEF NodeDatum
        <3>5. Refs(StoredForm(data, next)) = {NodeRef(data.left, next), NodeRef(data.right, next)}
            BY <3>3 DEF Refs
        <3> QED
            BY <1>6, <3>1, <3>4, <3>5 DEF data
    <2>2. CASE data \in [kind : {"Edge"}, child : RefBefore(d, n), path : Bits \ {<<>>}]
        <3>1. data.kind = "Edge" /\ data.child \in RefBefore(d, n)
            BY <2>2
        <3>2. StoredForm(data, next) = [data EXCEPT !.child = NodeRef(@, next)]
            BY <3>1 DEF StoredForm
        <3>3. StoredForm(data, next) \in [kind : {"Edge"}, child : {NodeRef(data.child, next)}, path : Bits \ {<<>>}]
            BY <2>2, <3>2
        <3>4. StoredForm(data, next) \in NodeDatum
            BY <1>6, <3>1, <3>3 DEF NodeDatum
        <3>5. Refs(StoredForm(data, next)) = {NodeRef(data.child, next)}
            BY <3>3 DEF Refs
        <3> QED
            BY <1>6, <3>1, <3>4, <3>5 DEF data
    <2>3. CASE data \in [kind : {"LeafBinary"}]
        <3>1. StoredForm(data, next) = data
            BY <2>3 DEF StoredForm
        <3>2. data \in NodeDatum /\ Refs(data) = {}
            BY <2>3 DEF NodeDatum, Refs
        <3> QED
            BY <3>1, <3>2 DEF data
    <2>4. CASE data \in [kind : {"LeafEdge"}, path : Bits \ {<<>>}]
        <3>1. StoredForm(data, next) = data
            BY <2>4 DEF StoredForm
        <3>2. data \in NodeDatum /\ Refs(data) = {}
            BY <2>4 DEF NodeDatum, Refs
        <3> QED
            BY <3>1, <3>2 DEF data
    <2> QED
        BY <2>0, <2>1, <2>2, <2>3, <2>4
<1>8. \A n \in 1..Len(nodes) : rows[n] \in NodeRow
    <2> TAKE n \in 1..Len(nodes)
    <2>1. next + n - 1 \in Nat \ {0}
        BY <1>1, <1>3
    <2>2. nodes[n].hash \in Hash /\ StoredForm(nodes[n].data, next) \in NodeDatum
        BY <1>1, <1>7
    <2>3. rows[n] = [trie_idx |-> next + n - 1, hash |-> nodes[n].hash, data |-> StoredForm(nodes[n].data, next)]
        BY <1>4
    <2> QED
        BY <2>1, <2>2, <2>3 DEF NodeRow
<1>9. rows \in Seq(NodeRow)
    <2>1. rows \in [1..Len(nodes) -> NodeRow]
        <3>1. rows = [n \in 1..Len(nodes) |-> rows[n]]
            BY <1>1, <1>2
        <3> QED
            BY <1>8, <3>1
    <2> QED
        BY <1>1, <2>1
<1>10. \A n \in 1..Len(rows) : Refs(rows[n].data) \subseteq Stored(d) \union {rows[m].trie_idx : m \in 1..n - 1}
    <2> TAKE n \in 1..Len(rows)
    <2>1. n \in 1..Len(nodes)
        BY <1>5
    <2>2. rows[n].data = StoredForm(nodes[n].data, next)
        BY <1>11, <2>1
    <2> QED
        BY <1>7, <2>1, <2>2
<1> QED
    BY <1>9, <1>10 DEF Pending, rows

(* What is left of the rows after the first one is skipped or inserted. *)
LEMMA PendingHead ==
    ASSUME NEW d, NEW rows, Pending(d, rows), rows # <<>>
    PROVE  /\ Head(rows) \in NodeRow /\ Refs(Head(rows).data) \subseteq Stored(d)
           /\ \A e : Stored(d) \union {Head(rows).trie_idx} \subseteq Stored(e) => Pending(e, Tail(rows))
<1>1. rows \in Seq(NodeRow) /\ Len(rows) \in Nat /\ Len(rows) >= 1 /\ 1 \in 1..Len(rows)
    BY DEF Pending
<1>2. Head(rows) = rows[1] /\ rows[1] \in NodeRow
    BY <1>1
<1>3. Refs(rows[1].data) \subseteq Stored(d)
    <2>1. Refs(rows[1].data) \subseteq Stored(d) \union {rows[m].trie_idx : m \in 1..1 - 1}
        BY <1>1 DEF Pending
    <2>2. 1..1 - 1 = {}
        OBVIOUS
    <2> QED
        BY <2>1, <2>2
<1>4. /\ Tail(rows) \in Seq(NodeRow) /\ Len(Tail(rows)) = Len(rows) - 1
      /\ \A n \in 1..Len(rows) - 1 : Tail(rows)[n] = rows[n + 1]
    BY <1>1, HeadTailProperties
<1>5. ASSUME NEW e, Stored(d) \union {rows[1].trie_idx} \subseteq Stored(e) PROVE Pending(e, Tail(rows))
    <2>1. ASSUME NEW n \in 1..Len(rows) - 1
          PROVE  Refs(Tail(rows)[n].data) \subseteq Stored(e) \union {Tail(rows)[m].trie_idx : m \in 1..n - 1}
        <3>1. n + 1 \in 1..Len(rows) /\ n + 1 - 1 = n
            BY <1>1
        <3>2. Refs(rows[n + 1].data) \subseteq Stored(d) \union {rows[m].trie_idx : m \in 1..n}
            BY <3>1 DEF Pending
        <3>3. ASSUME NEW m \in 1..n
              PROVE  rows[m].trie_idx \in Stored(e) \union {Tail(rows)[k].trie_idx : k \in 1..n - 1}
            <4>1. CASE m = 1
                BY <1>5, <4>1
            <4>2. CASE m # 1
                <5>1. m - 1 \in 1..n - 1 /\ m - 1 \in 1..Len(rows) - 1 /\ m - 1 + 1 = m
                    BY <1>1, <4>2
                <5>2. Tail(rows)[m - 1] = rows[m]
                    BY <1>4, <5>1
                <5> QED
                    BY <5>1, <5>2
            <4> QED
                BY <4>1, <4>2
        <3>4. Tail(rows)[n] = rows[n + 1]
            BY <1>4
        <3> QED
            BY <1>5, <3>2, <3>3, <3>4
    <2> QED
        BY <1>4, <2>1 DEF Pending
<1> QED
    BY <1>2, <1>3, <1>5

LEMMA PendingOn ==
    ASSUME NEW d, NEW e, NEW rows, Pending(d, rows), Stored(d) \subseteq Stored(e)
    PROVE  Pending(e, rows)
BY DEF Pending

-----------------------------------------------------------------------------
(* get_proof: whatever is stored, the nodes of a proof are well-formed. *)

ProofNode == [kind : {"Binary"}, left : Hash, right : Hash] \union [kind : {"Edge"}, path : Bits, child : Hash]

ProofWalks(d, key) ==
    {w \in [nodes : Seq(ProofNode) \union {NoProof}, idx : Stored(d), height : 0..Len(key), open : BOOLEAN] :
        w.open => w.nodes \in Seq(ProofNode)}

LEMMA ProofStepIs ==
    ASSUME NEW d, GoodTables(d), NEW key \in Bits, NEW max, NEW w \in ProofWalks(d, key)
    PROVE  ProofStep(d, max, key, w) \in ProofWalks(d, key)
<1> DEFINE W == ProofWalks(d, key)
           node == StoredNode(d, w.idx)
           here == SubSeq(key, 1, w.height)
           next == ProofStep(d, max, key, w)
           None == [w EXCEPT !.nodes = NoProof, !.open = FALSE]
           Onward(proof, idx, height) == [w EXCEPT !.nodes = Append(@, proof), !.idx = idx, !.height = height]
           End(proof) == [w EXCEPT !.nodes = Append(@, proof), !.open = FALSE]
<1>0. /\ w \in [nodes : Seq(ProofNode) \union {NoProof}, idx : Stored(d), height : 0..Len(key), open : BOOLEAN]
      /\ w.open => w.nodes \in Seq(ProofNode)
      /\ w.idx \in Stored(d) /\ w.height \in 0..Len(key) /\ Len(key) \in Nat
    BY BitsAre DEF ProofWalks
<1>1. CASE ~ w.open
    BY <1>1 DEF ProofStep
<1>2. CASE w.open
    <2>1. None \in W
        BY <1>0 DEF ProofWalks
    <2>2. ASSUME NEW proof \in ProofNode, NEW idx \in Stored(d), NEW height \in 0..Len(key)
          PROVE  Onward(proof, idx, height) \in W
        <3>1. Append(w.nodes, proof) \in Seq(ProofNode)
            BY <1>0, <1>2
        <3> QED
            BY <1>0, <3>1 DEF ProofWalks
    <2>3. ASSUME NEW proof \in ProofNode PROVE End(proof) \in W
        <3>1. Append(w.nodes, proof) \in Seq(ProofNode)
            BY <1>0, <1>2
        <3> QED
            BY <1>0, <3>1 DEF ProofWalks
    <2>4. node \in NodeDatum /\ Refs(node) \subseteq Stored(d)
        BY <1>0, StoredRow
    <2>5. here \in Bits
        BY <1>0, Beginning
    <2>6. \A left, right \in Hash : ProofBinary(left, right) \in ProofNode
        BY DEF ProofBinary, ProofNode
    <2>7. \A path \in Bits, child \in Hash : ProofEdge(path, child) \in ProofNode
        BY DEF ProofEdge, ProofNode
    <2>8. \A idx \in Stored(d) : StoredHash(d, idx) \in Hash
        BY StoredRow
    <2>9. \A path : StorageLeaf(d, max, path) \in Nat \union {NoLeaf}
        BY LeafAtIs DEF Values
    <2> HIDE DEF node, here, W
    <2>10. CASE node.kind = "Binary"
        <3> DEFINE proof == ProofBinary(StoredHash(d, node.left), StoredHash(d, node.right))
                   idx == IF key[w.height + 1] = 0 THEN node.left ELSE node.right
        <3>1. next = IF w.height >= Len(key) THEN None ELSE Onward(proof, idx, w.height + 1)
            BY <1>2, <2>10 DEF ProofStep, node
        <3>2. node.left \in Stored(d) /\ node.right \in Stored(d)
            BY <2>4, <2>10 DEF Refs
        <3>3. proof \in ProofNode /\ idx \in Stored(d)
            BY <2>6, <2>8, <3>2
        <3>4. ~ (w.height >= Len(key)) => w.height + 1 \in 0..Len(key)
            BY <1>0
        <3> HIDE DEF proof, idx, None, Onward, next
        <3>5. w.height >= Len(key) => next \in W
            BY <2>1, <3>1
        <3>6. ~ (w.height >= Len(key)) => next \in W
            BY <2>2, <3>1, <3>3, <3>4
        <3>7. next \in W
            BY <3>5, <3>6
        <3> QED
            BY <3>7 DEF next, W
    <2>11. CASE node.kind = "Edge"
        <3> DEFINE end == w.height + Len(node.path)
                   proof == ProofEdge(node.path, StoredHash(d, node.child))
        <3>1. next = IF end > Len(key) THEN None
                     ELSE IF SubSeq(key, w.height + 1, end) = node.path
                     THEN Onward(proof, node.child, end) ELSE End(proof)
            BY <1>2, <2>11 DEF ProofStep, node
        <3>2. node.child \in Stored(d) /\ node.path \in Bits
            BY <2>4, <2>11, NodeData4 DEF Refs
        <3>3. proof \in ProofNode
            BY <2>7, <2>8, <3>2
        <3>4. ~ (end > Len(key)) => end \in 0..Len(key)
            BY <1>0, <3>2, BitsAre
        <3> HIDE DEF proof, end, None, Onward, End, next
        <3>5. end > Len(key) => next \in W
            BY <2>1, <3>1
        <3>6. ~ (end > Len(key)) => next \in W
            BY <2>2, <2>3, <3>1, <3>2, <3>3, <3>4
        <3>7. next \in W
            BY <3>5, <3>6
        <3> QED
            BY <3>7 DEF next, W
    <2>12. CASE node.kind = "LeafBinary"
        <3> DEFINE l == StorageLeaf(d, max, Append(here, 0))
                   r == StorageLeaf(d, max, Append(here, 1))
                   proof == ProofBinary(LeafHash(l), LeafHash(r))
        <3>1. next = IF NoLeaf \in {l, r} THEN None ELSE End(proof)
            BY <1>2, <2>12 DEF ProofStep, node, here
        <3>2. l \in Nat \union {NoLeaf} /\ r \in Nat \union {NoLeaf}
            BY <2>9
        <3>3. NoLeaf \notin {l, r} => proof \in ProofNode
            <4> HIDE DEF l, r
            <4> QED
                BY <2>6, <3>2, LeafHashIs
        <3> HIDE DEF proof, l, r, None, End, next
        <3>4. next \in W
            BY <2>1, <2>3, <3>1, <3>3
        <3> QED
            BY <3>4 DEF next, W
    <2>13. CASE node.kind = "LeafEdge"
        <3> DEFINE v == StorageLeaf(d, max, here \o node.path)
                   proof == ProofEdge(node.path, LeafHash(v))
        <3>1. next = IF v = NoLeaf THEN None ELSE End(proof)
            BY <1>2, <2>13 DEF ProofStep, node, here
        <3>2. v \in Nat \union {NoLeaf} /\ node.path \in Bits
            BY <2>4, <2>9, <2>13, NodeData4
        <3>3. v # NoLeaf => proof \in ProofNode
            <4> HIDE DEF v
            <4> QED
                BY <2>7, <3>2, LeafHashIs
        <3> HIDE DEF proof, v, None, End, next
        <3>4. next \in W
            BY <2>1, <2>3, <3>1, <3>3
        <3> QED
            BY <3>4 DEF next, W
    <2> QED
        BY <2>4, <2>10, <2>11, <2>12, <2>13, NodeData4
<1> QED
    BY <1>0, <1>1, <1>2

FirstWalk(idx) == [nodes |-> <<>>, idx |-> idx, height |-> 0, open |-> TRUE]
Walks(f, d, max, idx, key) ==
    f = [n \in Nat |-> IF n = 0 THEN FirstWalk(idx)
                       ELSE The({ProofStep(d, max, key, w) : w \in {f[n - 1]}})]

(* get_proof, round by round. *)
ProofRun(walk, d, max, idx, key) ==
    /\ walk[0] = FirstWalk(idx) /\ \A n \in Nat : walk[n + 1] = ProofStep(d, max, key, walk[n])
    /\ GetProof(d, max, idx, key) = walk[Len(key) + 1].nodes

LEMMA ProofRuns ==
    ASSUME NEW d, GoodTables(d), NEW key \in Bits, NEW max, NEW idx \in Stored(d)
    PROVE  \E walk : ProofRun(walk, d, max, idx, key)
<1> DEFINE W == ProofWalks(d, key)
           step == [x \in Nat \X W |-> ProofStep(d, max, key, x[2])]
           walk == CHOOSE f : Walks(f, d, max, idx, key)
<1>0. FirstWalk(idx) \in W /\ Len(key) \in Nat
    <2>1. Len(key) \in Nat /\ 0 \in 0..Len(key) /\ <<>> \in Seq(ProofNode)
        BY BitsAre
    <2> QED
        BY <2>1 DEF FirstWalk, ProofWalks
<1>1. \A f : \A n : The({ProofStep(d, max, key, w) : w \in {f[n - 1]}}) = ProofStep(d, max, key, f[n - 1])
    <2> TAKE f
    <2> TAKE n
    <2>1. {ProofStep(d, max, key, w) : w \in {f[n - 1]}} = {ProofStep(d, max, key, f[n - 1])}
        OBVIOUS
    <2> QED
        BY <2>1, TheOne
<1>2. \E f : Walks(f, d, max, idx, key)
    <2>1. step \in [Nat \X W -> W]
        BY ProofStepIs
    <2>2. \A n \in Nat, w \in W : step[<<n, w>>] = ProofStep(d, max, key, w)
        OBVIOUS
    <2> HIDE DEF step, W
    <2>3. PICK f : IsIteration(f, W, FirstWalk(idx), step)
        BY <1>0, <2>1, Iterates
    <2>4. ASSUME NEW n \in Nat
          PROVE  f[n] = IF n = 0 THEN FirstWalk(idx) ELSE The({ProofStep(d, max, key, w) : w \in {f[n - 1]}})
        <3>1. CASE n = 0
            BY <2>3, <3>1 DEF IsIteration
        <3>2. CASE n # 0
            <4>1. n - 1 \in Nat /\ n - 1 + 1 = n
                BY <3>2
            <4>2. f[n] = step[<<n, f[n - 1]>>] /\ f[n - 1] \in W
                BY <2>3, <4>1 DEF IsIteration
            <4>3. The({ProofStep(d, max, key, w) : w \in {f[n - 1]}}) = ProofStep(d, max, key, f[n - 1])
                BY <1>1
            <4>4. step[<<n, f[n - 1]>>] = ProofStep(d, max, key, f[n - 1])
                BY <2>2, <4>2
            <4> QED
                BY <3>2, <4>2, <4>3, <4>4
        <3> QED
            BY <3>1, <3>2
    <2>5. Walks(f, d, max, idx, key)
        <3>1. f = [n \in Nat |-> f[n]]
            BY <2>3 DEF IsIteration
        <3> QED
            BY <2>4, <3>1 DEF Walks
    <2> QED
        BY <2>5
<1> HIDE DEF step
<1>3. Walks(walk, d, max, idx, key)
    BY <1>2
<1>4. GetProof(d, max, idx, key) = walk[Len(key) + 1].nodes
    BY DEF GetProof, Walks, FirstWalk
<1> HIDE DEF walk, W
<1>5. walk[0] = FirstWalk(idx) /\ \A n \in Nat : walk[n + 1] = ProofStep(d, max, key, walk[n])
    <2>2. \A m \in Nat : walk[m] = IF m = 0 THEN FirstWalk(idx) ELSE The({ProofStep(d, max, key, w) : w \in {walk[m - 1]}})
        BY <1>3 DEF Walks
    <2>3. \A m \in Nat : m # 0 => walk[m] = ProofStep(d, max, key, walk[m - 1])
        BY <1>1, <2>2
    <2>4. ASSUME NEW n \in Nat PROVE walk[n + 1] = ProofStep(d, max, key, walk[n])
        <3>1. n + 1 \in Nat /\ n + 1 # 0 /\ n + 1 - 1 = n
            OBVIOUS
        <3> QED
            BY <2>3, <3>1
    <2> QED
        BY <2>2, <2>4
<1> QED
    BY <1>4, <1>5 DEF ProofRun

LEMMA GetProofIs ==
    ASSUME NEW d, GoodTables(d), NEW key \in Bits, NEW max, NEW idx \in Stored(d)
    PROVE  GetProof(d, max, idx, key) \in Seq(ProofNode) \union {NoProof}
<1> DEFINE W == ProofWalks(d, key)
<1>0. FirstWalk(idx) \in W /\ Len(key) \in Nat
    <2>1. Len(key) \in Nat /\ 0 \in 0..Len(key) /\ <<>> \in Seq(ProofNode)
        BY BitsAre
    <2> QED
        BY <2>1 DEF FirstWalk, ProofWalks
<1> HIDE DEF W
<1>1. PICK walk : ProofRun(walk, d, max, idx, key)
    BY ProofRuns
<1>4. GetProof(d, max, idx, key) = walk[Len(key) + 1].nodes
    BY <1>1 DEF ProofRun
<1>5. walk[0] = FirstWalk(idx) /\ \A n \in Nat : walk[n + 1] = ProofStep(d, max, key, walk[n])
    BY <1>1 DEF ProofRun
<1> DEFINE N == Len(key) + 1
           T == {n \in 0..N : walk[n] \in W}
<1>6. N \in Nat /\ N \in 0..N /\ 0 \in 0..N
    BY <1>0
<1>7. 0 \in T
    BY <1>0, <1>5, <1>6
<1>8. ASSUME NEW n \in 0..N, n < N, n \in T PROVE n + 1 \in T
    <2>1. n \in Nat /\ n + 1 \in 0..N
        BY <1>6, <1>8
    <2>2. walk[n + 1] \in W
        BY <1>5, <1>8, <2>1, ProofStepIs DEF W
    <2> QED
        BY <2>1, <2>2
<1>9. 0..N \subseteq T
    <2> HIDE DEF T, N
    <2> QED
        BY <1>6, <1>7, <1>8, UpTo
<1>10. walk[N] \in W
    BY <1>6, <1>9
<1> QED
    BY <1>4, <1>10 DEF W, ProofWalks

-----------------------------------------------------------------------------
(* verify_proof: a proof that verifies is true. *)

LEMMA DropProlonged ==
    ASSUME NEW s \in Bits, NEW t \in Bits
    PROVE  Drop(s \o t, Len(s)) = t
<1> DEFINE u == s \o t
           rest == Drop(u, Len(s))
<1>1. u \in Bits /\ IsPrefix(s, u) /\ Len(u) = Len(s) + Len(t) /\ \A i \in 1..Len(t) : u[Len(s) + i] = t[i]
    BY Prolonged
<1> HIDE DEF u
<1>2. /\ rest \in Bits /\ Len(rest) = Len(u) - Len(s)
      /\ \A i \in 1..Len(u) - Len(s) : rest[i] = u[Len(s) + i]
    BY <1>1, Dropped
<1> HIDE DEF rest
<1>3. Len(s) \in Nat /\ Len(t) \in Nat
    BY BitsAre
<1>4. Len(u) - Len(s) = Len(t)
    BY <1>1, <1>3
<1>5. rest = t
    BY <1>1, <1>2, <1>4, SameBits
<1> QED
    BY <1>5 DEF rest, u

LEMMA EdgeMember ==
    ASSUME NEW path \in Bits, NEW child \in Hash, NEW q \in Bits, NEW v
    PROVE  <<q, v>> \in EdgeHash(path, child) <=> IsPrefix(path, q) /\ <<Drop(q, Len(path)), v>> \in child
<1>1. ASSUME <<q, v>> \in EdgeHash(path, child)
      PROVE  IsPrefix(path, q) /\ <<Drop(q, Len(path)), v>> \in child
    <2>1. PICK e \in child : <<q, v>> = <<path \o e[1], e[2]>>
        BY <1>1 DEF EdgeHash
    <2>2. e[1] \in Bits /\ e = <<e[1], e[2]>>
        BY DEF Hash
    <2>3. q = path \o e[1] /\ v = e[2]
        BY <2>1
    <2>4. Drop(q, Len(path)) = e[1] /\ IsPrefix(path, q)
        BY <2>2, <2>3, DropProlonged, Prolonged
    <2> QED
        BY <2>2, <2>3, <2>4
<1>2. ASSUME IsPrefix(path, q), <<Drop(q, Len(path)), v>> \in child
      PROVE  <<q, v>> \in EdgeHash(path, child)
    <2>1. path \o Drop(q, Len(path)) = q
        BY <1>2, Dropped
    <2> DEFINE e == <<Drop(q, Len(path)), v>>
    <2>2. e[1] = Drop(q, Len(path)) /\ e[2] = v
        OBVIOUS
    <2>3. e \in child
        BY <1>2
    <2> HIDE DEF e
    <2>4. <<path \o e[1], e[2]>> = <<q, v>>
        BY <2>1, <2>2
    <2> QED
        BY <2>3, <2>4 DEF EdgeHash
<1> QED
    BY <1>1, <1>2

LEMMA OneBit ==
    ASSUME NEW b \in {0, 1}, NEW q \in Bits
    PROVE  /\ <<b>> \in Bits /\ Len(<<b>>) = 1
           /\ IsPrefix(<<b>>, q) <=> Len(q) >= 1 /\ q[1] = b
<1>1. <<b>> \in Bits /\ Len(<<b>>) = 1 /\ <<b>>[1] = b
    BY DEF Bits
<1>2. Len(q) \in Nat
    BY BitsAre
<1>3. IsPrefix(<<b>>, q) <=> Len(<<b>>) <= Len(q) /\ \A i \in 1..Len(<<b>>) : <<b>>[i] = q[i]
    BY <1>1, PrefixBits
<1>4. 1..Len(<<b>>) = {1}
    BY <1>1
<1> QED
    BY <1>1, <1>2, <1>3, <1>4

VerifyWalks(root, key) ==
    {w \in [expected : Hash, path : Bits, verdict : {"open", "Invalid", "NonMember"}] :
        /\ w.verdict = "open" => \A v \in Nat : <<w.path, v>> \in w.expected <=> <<key, v>> \in root
        /\ w.verdict = "NonMember" => \A v \in Nat : <<key, v>> \notin root}

LEMMA VerifyStepIs ==
    ASSUME NEW root, NEW key, NEW w \in VerifyWalks(root, key), NEW node \in ProofNode
    PROVE  VerifyStep(w, node) \in VerifyWalks(root, key)
<1> DEFINE W == VerifyWalks(root, key)
           next == VerifyStep(w, node)
           len == IF node.kind = "Binary" THEN 1 ELSE Len(node.path)
           Onward(hash) == [w EXCEPT !.expected = hash, !.path = Drop(@, len)]
           Stop(verdict) == [w EXCEPT !.verdict = verdict]
<1>0. /\ w \in [expected : Hash, path : Bits, verdict : {"open", "Invalid", "NonMember"}]
      /\ w.verdict = "open" => \A v \in Nat : <<w.path, v>> \in w.expected <=> <<key, v>> \in root
    BY DEF VerifyWalks
<1>1. CASE w.verdict # "open"
    BY <1>1 DEF VerifyStep
<1>2. Stop("Invalid") \in W
    BY <1>0 DEF VerifyWalks
<1>3. CASE w.verdict = "open" /\ NodeHash(node) # w.expected
    BY <1>2, <1>3 DEF VerifyStep
<1>4. CASE w.verdict = "open" /\ NodeHash(node) = w.expected
    <2>1. next = IF Len(w.path) < len THEN Stop("Invalid")
                 ELSE IF node.kind = "Binary"
                 THEN Onward(IF Head(w.path) = 0 THEN node.left ELSE node.right)
                 ELSE IF SubSeq(w.path, 1, len) # node.path THEN Stop("NonMember")
                 ELSE Onward(node.child)
        BY <1>4 DEF VerifyStep
    <2>2. \A v \in Nat : <<w.path, v>> \in NodeHash(node) <=> <<key, v>> \in root
        BY <1>0, <1>4
    <2>3. w.path \in Bits /\ Len(w.path) \in Nat
        BY <1>0, BitsAre
    <2>4. ASSUME NEW hash \in Hash, Drop(w.path, len) \in Bits,
                 \A v \in Nat : <<Drop(w.path, len), v>> \in hash <=> <<w.path, v>> \in NodeHash(node)
          PROVE  Onward(hash) \in W
        <3>1. Onward(hash).path = Drop(w.path, len) /\ Onward(hash).expected = hash /\ Onward(hash).verdict = "open"
            BY <1>0, <1>4
        <3>2. Onward(hash) \in [expected : Hash, path : Bits, verdict : {"open", "Invalid", "NonMember"}]
            BY <1>0, <2>4
        <3> HIDE DEF Onward
        <3> QED
            BY <2>2, <2>4, <3>1, <3>2 DEF VerifyWalks
    <2>5. ASSUME \A v \in Nat : <<w.path, v>> \notin NodeHash(node) PROVE Stop("NonMember") \in W
        <3>1. Stop("NonMember").verdict = "NonMember"
            BY <1>0
        <3>2. Stop("NonMember") \in [expected : Hash, path : Bits, verdict : {"open", "Invalid", "NonMember"}]
            BY <1>0
        <3> HIDE DEF Stop
        <3> QED
            BY <2>2, <2>5, <3>1, <3>2 DEF VerifyWalks
    <2>6. CASE Len(w.path) < len
        BY <1>2, <2>1, <2>6
    <2>7. CASE ~ (Len(w.path) < len) /\ node.kind = "Binary"
        <3>1. node.left \in Hash /\ node.right \in Hash /\ len = 1
            BY <2>7 DEF ProofNode
        <3>2. Len(w.path) >= 1 /\ w.path[1] \in {0, 1} /\ Head(w.path) = w.path[1]
            BY <2>3, <2>7, <3>1 DEF Bits
        <3> DEFINE side == IF Head(w.path) = 0 THEN node.left ELSE node.right
                   b == w.path[1]
        <3>3. b \in {0, 1} /\ IsPrefix(<<b>>, w.path) /\ <<b>> \in Bits /\ Len(<<b>>) = 1
            BY <2>3, <3>2, OneBit
        <3>4. Drop(w.path, 1) \in Bits
            BY <2>3, <3>3, Dropped
        <3>5. NodeHash(node) = EdgeHash(<<0>>, node.left) \union EdgeHash(<<1>>, node.right)
            BY <2>7 DEF NodeHash, BinaryHash
        <3>6. \A v : /\ <<w.path, v>> \in EdgeHash(<<0>>, node.left) <=> b = 0 /\ <<Drop(w.path, 1), v>> \in node.left
                     /\ <<w.path, v>> \in EdgeHash(<<1>>, node.right) <=> b = 1 /\ <<Drop(w.path, 1), v>> \in node.right
            <4> TAKE v
            <4>1. 0 \in {0, 1} /\ 1 \in {0, 1}
                OBVIOUS
            <4>2. /\ <<0>> \in Bits /\ Len(<<0>>) = 1 /\ (IsPrefix(<<0>>, w.path) <=> b = 0)
                  /\ <<1>> \in Bits /\ Len(<<1>>) = 1 /\ (IsPrefix(<<1>>, w.path) <=> b = 1)
                BY <2>3, <3>2, <4>1, OneBit
            <4>3. <<w.path, v>> \in EdgeHash(<<0>>, node.left) <=> IsPrefix(<<0>>, w.path) /\ <<Drop(w.path, Len(<<0>>)), v>> \in node.left
                BY <2>3, <3>1, <4>2, EdgeMember
            <4>4. <<w.path, v>> \in EdgeHash(<<1>>, node.right) <=> IsPrefix(<<1>>, w.path) /\ <<Drop(w.path, Len(<<1>>)), v>> \in node.right
                BY <2>3, <3>1, <4>2, EdgeMember
            <4> QED
                BY <4>2, <4>3, <4>4
        <3>7. \A v \in Nat : <<Drop(w.path, len), v>> \in side <=> <<w.path, v>> \in NodeHash(node)
            BY <3>1, <3>2, <3>5, <3>6
        <3>8. side \in Hash /\ Drop(w.path, len) \in Bits
            BY <3>1, <3>4
        <3>9. next = Onward(side)
            BY <2>1, <2>7
        <3> HIDE DEF side, Onward, next, len
        <3>10. next \in W
            BY <2>4, <3>7, <3>8, <3>9
        <3> QED
            BY <3>10 DEF next
    <2>8. CASE ~ (Len(w.path) < len) /\ node.kind # "Binary"
        <3>1. node.child \in Hash /\ node.path \in Bits /\ len = Len(node.path)
            BY <2>8 DEF ProofNode
        <3>2. NodeHash(node) = EdgeHash(node.path, node.child)
            BY <2>8 DEF NodeHash
        <3>3. \A v : <<w.path, v>> \in NodeHash(node) <=> IsPrefix(node.path, w.path) /\ <<Drop(w.path, len), v>> \in node.child
            BY <2>3, <3>1, <3>2, EdgeMember
        <3>4. SubSeq(w.path, 1, len) = node.path <=> IsPrefix(node.path, w.path)
            <4>1. len \in 0..Len(w.path)
                BY <2>3, <2>8, <3>1, BitsAre
            <4>2. IsPrefix(SubSeq(w.path, 1, len), w.path)
                BY <2>3, <4>1, Beginning
            <4>3. IsPrefix(node.path, w.path) => SubSeq(w.path, 1, Len(node.path)) = node.path
                BY <2>3, <3>1, BeginningIs
            <4>4. len = Len(node.path)
                BY <3>1
            <4> HIDE DEF len
            <4> QED
                BY <4>2, <4>3, <4>4
        <3>5. CASE SubSeq(w.path, 1, len) # node.path
            <4>1. next = Stop("NonMember")
                BY <2>1, <2>8, <3>5
            <4>2. \A v \in Nat : <<w.path, v>> \notin NodeHash(node)
                BY <3>3, <3>4, <3>5
            <4>3. Stop("NonMember") \in W
                BY <2>5, <4>2
            <4> QED
                BY <4>1, <4>3
        <3>6. CASE SubSeq(w.path, 1, len) = node.path
            <4>1. next = Onward(node.child)
                BY <2>1, <2>8, <3>6
            <4>2. \A v \in Nat : <<Drop(w.path, len), v>> \in node.child <=> <<w.path, v>> \in NodeHash(node)
                BY <3>3, <3>4, <3>6
            <4>3. Drop(w.path, len) \in Bits
                BY <2>3, <3>1, <3>4, <3>6, Dropped
            <4> HIDE DEF Onward, next, len
            <4>4. next \in W
                BY <2>4, <3>1, <4>1, <4>2, <4>3
            <4> QED
                BY <4>4 DEF next
        <3> QED
            BY <3>5, <3>6
    <2> QED
        BY <2>6, <2>7, <2>8
<1> QED
    BY <1>1, <1>3, <1>4

FirstVerify(root, leaf) == [expected |-> root, path |-> leaf.key, verdict |-> "open"]
Verifies(f, proof, root, leaf) ==
    f = [n \in 0..Len(proof) |->
            IF n = 0 THEN FirstVerify(root, leaf)
            ELSE The({VerifyStep(w, proof[n]) : w \in {f[n - 1]}})]

(* verify_proof, node by node. *)
VerifyRun(run, proof, root, leaf) ==
    /\ run[0] = FirstVerify(root, leaf)
    /\ \A n \in 1..Len(proof) : run[n] = VerifyStep(run[n - 1], proof[n])

LEMMA VerifyRuns ==
    ASSUME NEW proof \in Seq(ProofNode), NEW root \in Hash, NEW leaf, leaf.key \in Bits
    PROVE  \E run : /\ VerifyRun(run, proof, root, leaf)
                   /\ VerifyProof(proof, root, leaf) = Verdict(run[Len(proof)], proof, root, leaf)
<1> DEFINE N == Len(proof)
           W == VerifyWalks(root, leaf.key)
           step == [x \in Nat \X W |-> IF x[1] \in 1..N THEN VerifyStep(x[2], proof[x[1]]) ELSE x[2]]
           walk == CHOOSE f : Verifies(f, proof, root, leaf)
<1>0. FirstVerify(root, leaf) \in W
    BY DEF FirstVerify, VerifyWalks
<1>1. N \in Nat /\ \A n \in 1..N : proof[n] \in ProofNode
    OBVIOUS
<1>2. \A f : \A n : The({VerifyStep(w, proof[n]) : w \in {f[n - 1]}}) = VerifyStep(f[n - 1], proof[n])
    <2> TAKE f
    <2> TAKE n
    <2>1. {VerifyStep(w, proof[n]) : w \in {f[n - 1]}} = {VerifyStep(f[n - 1], proof[n])}
        OBVIOUS
    <2> QED
        BY <2>1, TheOne
<1>3. \E f : Verifies(f, proof, root, leaf)
    <2>1. step \in [Nat \X W -> W]
        BY <1>1, VerifyStepIs
    <2>2. \A n \in 1..N, w \in W : step[<<n, w>>] = VerifyStep(w, proof[n])
        <3> TAKE n \in 1..N, w \in W
        <3>1. n \in Nat
            BY <1>1
        <3> QED
            BY <3>1
    <2> HIDE DEF step, W
    <2>3. PICK f \in [0..N -> W] : Repeats(f, N, FirstVerify(root, leaf), step)
        BY <1>0, <1>1, <2>1, RepeatsExist
    <2>4. ASSUME NEW n \in 0..N
          PROVE  f[n] = IF n = 0 THEN FirstVerify(root, leaf) ELSE The({VerifyStep(w, proof[n]) : w \in {f[n - 1]}})
        <3>1. CASE n = 0
            BY <2>3, <3>1 DEF Repeats
        <3>2. CASE n # 0
            <4>1. n \in 1..N /\ n - 1 \in 0..N
                BY <1>1, <3>2
            <4>2. f[n] = step[<<n, f[n - 1]>>] /\ f[n - 1] \in W
                BY <2>3, <4>1 DEF Repeats
            <4>3. The({VerifyStep(w, proof[n]) : w \in {f[n - 1]}}) = VerifyStep(f[n - 1], proof[n])
                BY <1>2
            <4>4. step[<<n, f[n - 1]>>] = VerifyStep(f[n - 1], proof[n])
                BY <2>2, <4>1, <4>2
            <4> QED
                BY <3>2, <4>2, <4>3, <4>4
        <3> QED
            BY <3>1, <3>2
    <2>5. Verifies(f, proof, root, leaf)
        <3>1. f = [n \in 0..N |-> f[n]]
            BY <2>3
        <3> QED
            BY <2>4, <3>1 DEF Verifies
    <2> QED
        BY <2>5
<1> HIDE DEF step
<1>4. Verifies(walk, proof, root, leaf)
    BY <1>3
<1>5. VerifyProof(proof, root, leaf) = The({Verdict(end, proof, root, leaf) : end \in {walk[Len(proof)]}})
    BY DEF VerifyProof, Verifies, FirstVerify
<1> HIDE DEF walk, W
<1>6. walk[0] = FirstVerify(root, leaf) /\ \A n \in 1..N : walk[n] = VerifyStep(walk[n - 1], proof[n])
    <2>1. \A n \in 0..N : walk[n] = IF n = 0 THEN FirstVerify(root, leaf) ELSE The({VerifyStep(w, proof[n]) : w \in {walk[n - 1]}})
        BY <1>4 DEF Verifies
    <2>2. \A n \in 0..N : n # 0 => walk[n] = VerifyStep(walk[n - 1], proof[n])
        BY <1>2, <2>1
    <2>3. 0 \in 0..N /\ \A n \in 1..N : n \in 0..N /\ n # 0
        BY <1>1
    <2> QED
        BY <2>1, <2>2, <2>3
<1>7. VerifyProof(proof, root, leaf) = Verdict(walk[Len(proof)], proof, root, leaf)
    <2>1. {Verdict(e, proof, root, leaf) : e \in {walk[Len(proof)]}} = {Verdict(walk[Len(proof)], proof, root, leaf)}
        OBVIOUS
    <2> QED
        BY <1>5, <2>1, TheOne
<1>8. VerifyRun(walk, proof, root, leaf)
    BY <1>6 DEF VerifyRun
<1> QED
    BY <1>7, <1>8

LEMMA ProofsAreTrue ==
    ASSUME NEW proof \in Seq(ProofNode), NEW root \in Hash, NEW leaf, leaf.key \in Bits, leaf.value \in Nat
    PROVE  /\ VerifyProof(proof, root, leaf) = "Member" => <<leaf.key, leaf.value>> \in root
           /\ VerifyProof(proof, root, leaf) = "NonMember" => \A v \in Nat : <<leaf.key, v>> \notin root
<1> DEFINE N == Len(proof)
           W == VerifyWalks(root, leaf.key)
<1>0. FirstVerify(root, leaf) \in W
    BY DEF FirstVerify, VerifyWalks
<1>1. N \in Nat /\ \A n \in 1..N : proof[n] \in ProofNode
    OBVIOUS
<1> HIDE DEF W
<1>4. PICK walk : /\ VerifyRun(walk, proof, root, leaf)
                  /\ VerifyProof(proof, root, leaf) = Verdict(walk[Len(proof)], proof, root, leaf)
    BY VerifyRuns
<1>5. VerifyProof(proof, root, leaf) = Verdict(walk[Len(proof)], proof, root, leaf)
    BY <1>4
<1>6. walk[0] = FirstVerify(root, leaf) /\ \A n \in 1..N : walk[n] = VerifyStep(walk[n - 1], proof[n])
    BY <1>4 DEF VerifyRun
<1> DEFINE T == {n \in 0..N : walk[n] \in W}
<1>7. 0 \in T
    BY <1>0, <1>1, <1>6
<1>8. ASSUME NEW n \in 0..N, n < N, n \in T PROVE n + 1 \in T
    <2>1. n + 1 \in 1..N /\ n + 1 \in 0..N /\ n + 1 - 1 = n
        BY <1>1, <1>8
    <2>2. walk[n + 1] = VerifyStep(walk[n], proof[n + 1])
        BY <1>6, <2>1
    <2>3. walk[n + 1] \in W
        BY <1>1, <1>8, <2>1, <2>2, VerifyStepIs DEF W
    <2> QED
        BY <2>1, <2>3
<1>9. 0..N \subseteq T
    <2> HIDE DEF T, N
    <2> QED
        BY <1>1, <1>7, <1>8, UpTo
<1>10. walk[N] \in W
    <2>1. N \in 0..N
        BY <1>1
    <2> QED
        BY <1>9, <2>1
<1> DEFINE end == walk[N]
<1>11. VerifyProof(proof, root, leaf) = Verdict(end, proof, root, leaf)
    BY <1>5
<1>12. end \in W
    BY <1>10
<1> HIDE DEF end, N
<1>13. CASE end.verdict # "open"
    <2>1. VerifyProof(proof, root, leaf) = end.verdict
        BY <1>11, <1>13 DEF Verdict
    <2>2. end.verdict \in {"Invalid", "NonMember"}
        BY <1>12, <1>13 DEF W, VerifyWalks
    <2>3. end.verdict = "NonMember" => \A v \in Nat : <<leaf.key, v>> \notin root
        BY <1>12 DEF W, VerifyWalks
    <2> QED
        BY <2>1, <2>2, <2>3
<1>14. CASE end.verdict = "open" /\ end.path = <<>>
    <2>1. VerifyProof(proof, root, leaf) = IF end.expected = LeafHash(leaf.value) THEN "Member" ELSE "Invalid"
        BY <1>11, <1>14 DEF Verdict
    <2>2. \A v \in Nat : <<end.path, v>> \in end.expected <=> <<leaf.key, v>> \in root
        BY <1>12, <1>14 DEF W, VerifyWalks
    <2>3. <<end.path, leaf.value>> \in LeafHash(leaf.value)
        BY <1>14 DEF LeafHash
    <2> QED
        BY <2>1, <2>2, <2>3
<1>15. CASE end.verdict = "open" /\ end.path # <<>>
    <2>1. VerifyProof(proof, root, leaf) = IF proof = <<>> /\ root = EmptyHash THEN "NonMember" ELSE "Invalid"
        BY <1>11, <1>15 DEF Verdict
    <2>2. \A v \in Nat : <<leaf.key, v>> \notin EmptyHash
        BY DEF EmptyHash
    <2> QED
        BY <2>1, <2>2
<1> QED
    BY <1>13, <1>14, <1>15

-----------------------------------------------------------------------------
(* From a root to the index it opens at. *)

LEMMA IdxByHashIs ==
    ASSUME NEW d, GoodTables(d), NEW hash
    PROVE  /\ GetNodeIdxByHash(d, hash) \in Stored(d) \union {0}
           /\ GetNodeIdxByHash(d, hash) \in Nat
<1> DEFINE hits == WithHash(d.nodes, hash)
           i == FirstRow(hits)
<1>1. GetNodeIdxByHash(d, hash) = IF i = 0 THEN 0 ELSE d.nodes[i].trie_idx
    BY DEF GetNodeIdxByHash, IdxIn, NoIdx
<1>2. hits \subseteq DOMAIN d.nodes /\ DOMAIN d.nodes \subseteq Nat
    BY DEF WithHash, GoodTables
<1>3. i = 0 \/ i \in DOMAIN d.nodes
    <2>1. CASE hits = {}
        BY <2>1 DEF FirstRow
    <2>2. CASE hits # {}
        <3> HIDE DEF hits
        <3>1. FirstRow(hits) \in hits
            BY <1>2, <2>2, FirstHit
        <3> QED
            BY <1>2, <3>1
    <2> QED
        BY <2>1, <2>2
<1> HIDE DEF i
<1>4. GetNodeIdxByHash(d, hash) \in Stored(d) \union {0}
    BY <1>1, <1>3 DEF Stored
<1> QED
    BY <1>4, StoredRow

LEMMA RootIdxIs ==
    ASSUME NEW d, GoodTables(d), NEW root
    PROVE  /\ RootIdx(d, root) \in Stored(d) \union {0} /\ RootIdx(d, root) \in Nat
           /\ CanOpen(d, root) /\ root # EmptyHash => RootIdx(d, root) \in Stored(d)
BY IdxByHashIs DEF RootIdx, CanOpen, NoIdx

LEMMA LeafProofIs ==
    ASSUME NEW d, GoodTables(d), NEW root, CanOpen(d, root), NEW key \in Bits, NEW max
    PROVE  GetLeafProof(d, max, root, key) \in Seq(ProofNode) \union {NoProof}
<1>1. CASE root = EmptyHash
    BY <1>1 DEF GetLeafProof
<1>2. CASE root # EmptyHash
    <2>1. GetNodeIdxByHash(d, root) \in Stored(d)
        BY <1>2, IdxByHashIs DEF CanOpen, NoIdx
    <2> QED
        BY <1>2, <2>1, GetProofIs DEF GetLeafProof
<1> QED
    BY <1>1, <1>2

LEMMA RootIndexIs ==
    ASSUME NEW rows \in Seq(NodeRow), NEW root
    PROVE  RootIndexIn(rows, root) \in Nat
<1> DEFINE hits == WithHash(rows, root)
           i == LastRow(hits)
<1>1. RootIndexIn(rows, root) = IF i = 0 THEN 0 ELSE rows[i].trie_idx
    BY DEF RootIndexIn, IdxIn, NoIdx
<1>2. hits \subseteq 1..Len(rows) /\ hits \subseteq 0..Len(rows) /\ Len(rows) \in Nat
    BY DEF WithHash
<1>3. i = 0 \/ i \in 1..Len(rows)
    <2>1. CASE hits = {}
        BY <2>1 DEF LastRow
    <2>2. CASE hits # {}
        <3> HIDE DEF hits
        <3>1. LastRow(hits) \in hits
            BY <1>2, <2>2, LastHit
        <3> QED
            BY <1>2, <3>1
    <2> QED
        BY <2>1, <2>2
<1> HIDE DEF i
<1>4. i # 0 => rows[i] \in NodeRow
    BY <1>2, <1>3
<1> QED
    BY <1>1, <1>4 DEF NodeRow

LEMMA NodeIdxIs ==
    ASSUME NEW d, GoodTables(d)
    PROVE  GetNodeIdx(d) \in Nat
<1> DEFINE rows == d.nodes
           N == Len(rows)
           idxs == {rows[i].trie_idx : i \in DOMAIN rows}
<1>0. N \in Nat /\ DOMAIN rows = 1..N /\ \A i \in 1..N : rows[i].trie_idx \in Nat
    <2>1. rows \in Seq(NodeRow)
        BY DEF GoodTables
    <2>2. \A i \in 1..N : rows[i] \in NodeRow
        BY <2>1
    <2>3. \A row \in NodeRow : row.trie_idx \in Nat
        BY DEF NodeRow
    <2> QED
        BY <2>1, <2>2, <2>3
<1>1. CASE rows = <<>>
    BY <1>1 DEF GetNodeIdx
<1>2. CASE rows # <<>>
    <2>1. idxs # {} /\ idxs \subseteq Nat
        <3>1. N # 0
            BY <1>2 DEF GoodTables
        <3>2. 1 \in 1..N
            BY <1>0, <3>1
        <3> HIDE DEF N
        <3> QED
            BY <1>0, <3>2
    <2> DEFINE T == {n \in 0..N : \E b \in Nat : \A i \in 1..n : rows[i].trie_idx <= b}
    <2>2. 0 \in T
        <3>1. 1..0 = {} /\ 0 \in Nat /\ 0 \in 0..N
            BY <1>0
        <3> HIDE DEF N
        <3> QED
            BY <3>1
    <2>3. ASSUME NEW n \in 0..N, n < N, n \in T PROVE n + 1 \in T
        <3>1. PICK b \in Nat : \A i \in 1..n : rows[i].trie_idx <= b
            BY <2>3
        <3>2. n + 1 \in 1..N /\ n + 1 \in 0..N
            BY <1>0, <2>3
        <3>3. rows[n + 1].trie_idx \in Nat
            BY <1>0, <3>2
        <3> DEFINE c == IF rows[n + 1].trie_idx <= b THEN b ELSE rows[n + 1].trie_idx
        <3>4. c \in Nat /\ b <= c /\ rows[n + 1].trie_idx <= c
            BY <3>3
        <3> HIDE DEF c
        <3>5. ASSUME NEW i \in 1..n + 1 PROVE rows[i].trie_idx <= c
            <4>1. CASE i = n + 1
                BY <3>4, <4>1
            <4>2. CASE i # n + 1
                <5>1. i \in 1..n /\ i \in 1..N
                    BY <1>0, <3>2, <4>2
                <5>2. rows[i].trie_idx <= b /\ rows[i].trie_idx \in Nat
                    BY <1>0, <3>1, <5>1
                <5> QED
                    BY <3>4, <5>2
            <4> QED
                BY <4>1, <4>2
        <3> QED
            BY <3>2, <3>4, <3>5
    <2>4. 0..N \subseteq T
        <3> HIDE DEF T, N
        <3> QED
            BY <1>0, <2>2, <2>3, UpTo
    <2>5. N \in T
        <3>1. N \in 0..N
            BY <1>0
        <3> HIDE DEF T
        <3> QED
            BY <2>4, <3>1
    <2>6. PICK b \in Nat : \A i \in 1..N : rows[i].trie_idx <= b
        BY <2>5
    <2>7. idxs \subseteq 0..b
        BY <1>0, <2>6
    <2>8. LastRow(idxs) \in idxs /\ \A j \in idxs : LastRow(idxs) >= j
        <3> HIDE DEF idxs
        <3> QED
            BY <2>1, <2>7, LastHit
    <2>9. \E n \in idxs : \A i \in DOMAIN rows : rows[i].trie_idx <= n
        <3>1. \A i \in DOMAIN rows : rows[i].trie_idx <= LastRow(idxs)
            <4> TAKE i \in DOMAIN rows
            <4>1. LastRow(idxs) >= rows[i].trie_idx
                BY <2>8
            <4>2. LastRow(idxs) \in Nat /\ rows[i].trie_idx \in Nat
                BY <1>0, <2>1, <2>8
            <4> HIDE DEF idxs
            <4> QED
                BY <4>1, <4>2
        <3> QED
            BY <2>8, <3>1
    <2>10. GetNodeIdx(d) = CHOOSE n \in idxs : \A i \in DOMAIN rows : rows[i].trie_idx <= n
        BY <1>2 DEF GetNodeIdx
    <2>11. GetNodeIdx(d) \in idxs
        <3> HIDE DEF idxs
        <3> QED
            BY <2>9, <2>10
    <2> QED
        BY <2>1, <2>11
<1> QED
    BY <1>1, <1>2
=============================================================================
