------------------------- MODULE TrieMeaningProofs -------------------------
(***************************************************************************)
(* What the rows of the tables mean (MerkleTree, Trie), for keys of any    *)
(* length: a hash stands for the content below its node, a table is true   *)
(* when every stored row says how its hash is made of those of its         *)
(* children, and updates of true tables keep them true and yield the root  *)
(* of the content they ask for.  Then get_proof and verify_proof against   *)
(* that content, the tables after a history of writes, and the tables in   *)
(* the middle of a write.                                                  *)
(***************************************************************************)
EXTENDS MerkleTreeProofs

-----------------------------------------------------------------------------
(* What a tree means: the content below each of its places. *)

(* The part of a content below a place, seen from there. *)
Below(C, p) == {<<Drop(e[1], Len(p)), e[2]>> : e \in {x \in C : IsPrefix(p, x[1])}}

LEMMA SameHash ==
    ASSUME NEW A \in Hash, NEW B \in Hash,
           \A q \in Bits, v \in Nat : <<q, v>> \in A <=> <<q, v>> \in B
    PROVE  A = B
<1>1. A \subseteq Bits \X Nat /\ B \subseteq Bits \X Nat
    BY DEF Hash
<1>2. \A e \in Bits \X Nat : e \in A <=> e \in B
    <2> TAKE e \in Bits \X Nat
    <2>1. e = <<e[1], e[2]>> /\ e[1] \in Bits /\ e[2] \in Nat
        OBVIOUS
    <2> QED
        BY <2>1
<1> QED
    BY <1>1, <1>2

LEMMA PairsOf == ASSUME NEW C \in Hash, NEW e \in C PROVE e[1] \in Bits /\ e[2] \in Nat /\ e = <<e[1], e[2]>>
BY DEF Hash

LEMMA BelowIs ==
    ASSUME NEW C \in Hash, NEW p \in Bits
    PROVE  /\ Below(C, p) \in Hash
           /\ \A q \in Bits : \A v : <<q, v>> \in Below(C, p) <=> <<p \o q, v>> \in C
<1>1. ASSUME NEW e \in C, IsPrefix(p, e[1])
      PROVE  /\ <<Drop(e[1], Len(p)), e[2]>> \in Bits \X Nat
             /\ p \o Drop(e[1], Len(p)) = e[1]
    <2>1. e[1] \in Bits /\ e[2] \in Nat
        BY PairsOf
    <2>2. Drop(e[1], Len(p)) \in Bits /\ p \o Drop(e[1], Len(p)) = e[1]
        BY <1>1, <2>1, Dropped
    <2> QED
        BY <2>1, <2>2
<1>2. Below(C, p) \in Hash
    BY <1>1 DEF Below, Hash
<1>3. ASSUME NEW q \in Bits, NEW v, <<q, v>> \in Below(C, p) PROVE <<p \o q, v>> \in C
    <2>1. PICK e \in C : IsPrefix(p, e[1]) /\ <<q, v>> = <<Drop(e[1], Len(p)), e[2]>>
        BY <1>3 DEF Below
    <2>2. q = Drop(e[1], Len(p)) /\ v = e[2]
        BY <2>1
    <2>3. p \o q = e[1]
        BY <1>1, <2>1, <2>2
    <2>4. e = <<e[1], e[2]>>
        BY PairsOf
    <2> QED
        BY <2>2, <2>3, <2>4
<1>4. ASSUME NEW q \in Bits, NEW v, <<p \o q, v>> \in C PROVE <<q, v>> \in Below(C, p)
    <2> DEFINE e == <<p \o q, v>>
    <2>1. e[1] = p \o q /\ e[2] = v
        OBVIOUS
    <2>2. e \in C
        BY <1>4
    <2> HIDE DEF e
    <2>3. IsPrefix(p, e[1]) /\ Drop(e[1], Len(p)) = q
        BY <2>1, Prolonged, DropProlonged
    <2>4. <<Drop(e[1], Len(p)), e[2]>> = <<q, v>>
        BY <2>1, <2>3
    <2> QED
        BY <2>2, <2>3, <2>4 DEF Below
<1> QED
    BY <1>2, <1>3, <1>4

LEMMA Joined ==
    ASSUME NEW p \in Bits, NEW q \in Bits, NEW r \in Bits
    PROVE  p \o (q \o r) = (p \o q) \o r
<1> DEFINE a == p \o (q \o r)
           b == (p \o q) \o r
<1>1. /\ Len(p) \in Nat /\ Len(q) \in Nat /\ Len(r) \in Nat
    BY BitsAre
<1>2. /\ q \o r \in Bits /\ Len(q \o r) = Len(q) + Len(r)
      /\ \A i \in 1..Len(q) + Len(r) : (q \o r)[i] = IF i <= Len(q) THEN q[i] ELSE r[i - Len(q)]
    BY ConcatProperties DEF Bits
<1>3. /\ p \o q \in Bits /\ Len(p \o q) = Len(p) + Len(q)
      /\ \A i \in 1..Len(p) + Len(q) : (p \o q)[i] = IF i <= Len(p) THEN p[i] ELSE q[i - Len(p)]
    BY ConcatProperties DEF Bits
<1> DEFINE qr == q \o r
           pq == p \o q
<1>4. /\ a \in Bits /\ Len(a) = Len(p) + Len(qr)
      /\ \A i \in 1..Len(p) + Len(qr) : a[i] = IF i <= Len(p) THEN p[i] ELSE qr[i - Len(p)]
    BY <1>2, ConcatProperties DEF Bits
<1>5. /\ b \in Bits /\ Len(b) = Len(pq) + Len(r)
      /\ \A i \in 1..Len(pq) + Len(r) : b[i] = IF i <= Len(pq) THEN pq[i] ELSE r[i - Len(pq)]
    BY <1>3, ConcatProperties DEF Bits
<1> HIDE DEF a, b, qr, pq
<1>6. /\ Len(qr) = Len(q) + Len(r) /\ Len(pq) = Len(p) + Len(q)
      /\ \A i \in 1..Len(q) + Len(r) : qr[i] = IF i <= Len(q) THEN q[i] ELSE r[i - Len(q)]
      /\ \A i \in 1..Len(p) + Len(q) : pq[i] = IF i <= Len(p) THEN p[i] ELSE q[i - Len(p)]
    BY <1>2, <1>3 DEF qr, pq
<1>7. Len(a) = Len(b) /\ Len(a) = Len(p) + Len(q) + Len(r)
    BY <1>1, <1>4, <1>5, <1>6
<1>8. ASSUME NEW i \in 1..Len(a) PROVE a[i] = b[i]
    <2>1. CASE i <= Len(p)
        <3>1. a[i] = p[i]
            BY <1>1, <1>4, <1>6, <1>7, <2>1
        <3>2. i \in 1..Len(p) + Len(q) /\ i <= Len(pq) /\ i \in 1..Len(pq) + Len(r)
            BY <1>1, <1>6, <1>7, <2>1
        <3> QED
            BY <1>5, <1>6, <2>1, <3>1, <3>2
    <2>2. CASE Len(p) < i /\ i <= Len(p) + Len(q)
        <3>1. i \in 1..Len(p) + Len(qr) /\ ~ (i <= Len(p)) /\ i - Len(p) \in 1..Len(q) + Len(r) /\ i - Len(p) <= Len(q)
            BY <1>1, <1>6, <1>7, <2>2
        <3>2. a[i] = q[i - Len(p)]
            BY <1>4, <1>6, <3>1
        <3>3. i \in 1..Len(p) + Len(q) /\ i <= Len(pq) /\ i \in 1..Len(pq) + Len(r)
            BY <1>1, <1>6, <1>7, <2>2
        <3>4. b[i] = q[i - Len(p)]
            BY <1>5, <1>6, <3>1, <3>3
        <3> QED
            BY <3>2, <3>4
    <2>3. CASE Len(p) + Len(q) < i
        <3>1. i \in 1..Len(p) + Len(qr) /\ ~ (i <= Len(p)) /\ i - Len(p) \in 1..Len(q) + Len(r) /\ ~ (i - Len(p) <= Len(q))
            BY <1>1, <1>6, <1>7, <2>3
        <3>2. a[i] = r[i - Len(p) - Len(q)]
            BY <1>4, <1>6, <3>1
        <3>3. ~ (i <= Len(pq)) /\ i \in 1..Len(pq) + Len(r) /\ i - Len(pq) = i - Len(p) - Len(q)
            BY <1>1, <1>6, <1>7, <2>3
        <3>4. b[i] = r[i - Len(p) - Len(q)]
            BY <1>5, <3>3
        <3> QED
            BY <3>2, <3>4
    <2> QED
        BY <1>1, <1>7, <2>1, <2>2, <2>3
<1>9. a = b
    BY <1>4, <1>5, <1>7, <1>8, SameBits
<1> QED
    BY <1>9 DEF a, b

(* As a predicate: the provers do better when they do not see the sequences. *)
Regroups(p, q, r) == p \o (q \o r) = (p \o q) \o r

LEMMA Grouped == ASSUME NEW p \in Bits, NEW q \in Bits, NEW r \in Bits PROVE Regroups(p, q, r)
BY Joined DEF Regroups

LEMMA PrefixParts ==
    ASSUME NEW p \in Bits, NEW x \in Bits
    PROVE  IsPrefix(p, x) <=> \E q \in Bits : x = p \o q
<1>1. IsPrefix(p, x) => Drop(x, Len(p)) \in Bits /\ x = p \o Drop(x, Len(p))
    BY Dropped
<1>2. \A q \in Bits : IsPrefix(p, p \o q)
    BY Prolonged
<1> QED
    BY <1>1, <1>2

LEMMA PrefixJoined ==
    ASSUME NEW p \in Bits, NEW s \in Bits, NEW q \in Bits
    PROVE  IsPrefix(p \o s, p \o q) <=> IsPrefix(s, q)
<1>1. p \o s \in Bits /\ p \o q \in Bits
    BY Prolonged
<1>2. ASSUME IsPrefix(s, q) PROVE IsPrefix(p \o s, p \o q)
    <2>1. PICK r \in Bits : q = s \o r
        BY <1>2, PrefixParts
    <2>2. p \o q = (p \o s) \o r
        BY <2>1, Joined
    <2> QED
        BY <1>1, <2>2, Prolonged
<1>3. ASSUME IsPrefix(p \o s, p \o q) PROVE IsPrefix(s, q)
    <2>1. PICK r \in Bits : p \o q = (p \o s) \o r
        BY <1>1, <1>3, PrefixParts
    <2>2. p \o q = p \o (s \o r) /\ s \o r \in Bits
        <3>1. p \o (s \o r) = (p \o s) \o r
            BY Joined
        <3>2. s \o r \in Bits
            BY Prolonged
        <3> QED
            BY <2>1, <3>1, <3>2
    <2>3. Drop(p \o q, Len(p)) = q /\ Drop(p \o (s \o r), Len(p)) = s \o r
        BY <2>2, DropProlonged
    <2>4. q = s \o r
        BY <2>2, <2>3
    <2> QED
        BY <2>4, Prolonged
<1> QED
    BY <1>2, <1>3

LEMMA BitJoined ==
    ASSUME NEW p \in Bits, NEW b \in {0, 1}
    PROVE  Append(p, b) = p \o <<b>> /\ <<b>> \in Bits
<1>1. <<b>> \in Bits /\ Len(<<b>>) = 1 /\ <<b>>[1] = b
    BY DEF Bits
<1>2. Len(p) \in Nat
    BY BitsAre
<1>3. /\ p \o <<b>> \in Bits /\ Len(p \o <<b>>) = Len(p) + 1
      /\ \A i \in 1..Len(p) : (p \o <<b>>)[i] = p[i]
      /\ (p \o <<b>>)[Len(p) + 1] = b
    <2>1. /\ p \o <<b>> \in Bits /\ Len(p \o <<b>>) = Len(p) + Len(<<b>>)
          /\ \A i \in 1..Len(p) : (p \o <<b>>)[i] = p[i]
          /\ \A i \in 1..Len(<<b>>) : (p \o <<b>>)[Len(p) + i] = <<b>>[i]
        BY <1>1, Prolonged
    <2>2. 1 \in 1..Len(<<b>>)
        BY <1>1
    <2> QED
        BY <1>1, <2>1, <2>2
<1>4. /\ Append(p, b) \in Bits /\ Len(Append(p, b)) = Len(p) + 1
      /\ \A i \in 1..Len(p) : Append(p, b)[i] = p[i]
      /\ Append(p, b)[Len(p) + 1] = b
    BY NextBit
<1> DEFINE x == Append(p, b)
           y == p \o <<b>>
<1> HIDE DEF x, y
<1>5. \A i \in 1..Len(p) + 1 : i \in 1..Len(p) \/ i = Len(p) + 1
    BY <1>2
<1>6. x \in Bits /\ y \in Bits /\ Len(x) = Len(y) /\ \A i \in 1..Len(x) : x[i] = y[i]
    BY <1>3, <1>4, <1>5 DEF x, y
<1>7. x = y
    BY <1>6, SameBits
<1> QED
    BY <1>1, <1>7 DEF x, y

(* An edge: all of the content below it lies below its end. *)
LEMMA UnderEdge ==
    ASSUME NEW C \in Hash, NEW p \in Bits, NEW path \in Bits, NEW child \in Hash,
           Below(C, p) = EdgeHash(path, child)
    PROVE  /\ Below(C, p \o path) = child
           /\ \A e \in C : IsPrefix(p, e[1]) => IsPrefix(p \o path, e[1])
<1>1. p \o path \in Bits
    BY Prolonged
<1>2. Below(C, p \o path) \in Hash
    BY <1>1, BelowIs
<1>3. ASSUME NEW q \in Bits, NEW v \in Nat PROVE <<q, v>> \in Below(C, p \o path) <=> <<q, v>> \in child
    <2>1. path \o q \in Bits /\ IsPrefix(path, path \o q) /\ Drop(path \o q, Len(path)) = q
        BY Prolonged, DropProlonged
    <2>2. <<q, v>> \in Below(C, p \o path) <=> <<(p \o path) \o q, v>> \in C
        BY <1>1, BelowIs
    <2>3. <<path \o q, v>> \in Below(C, p) <=> <<p \o (path \o q), v>> \in C
        BY <2>1, BelowIs
    <2>4. p \o (path \o q) = (p \o path) \o q
        BY Joined
    <2>5. <<path \o q, v>> \in EdgeHash(path, child) <=> <<q, v>> \in child
        BY <2>1, EdgeMember
    <2> QED
        BY <2>2, <2>3, <2>4, <2>5
<1>4. Below(C, p \o path) = child
    BY <1>2, <1>3, SameHash
<1>5. ASSUME NEW e \in C, IsPrefix(p, e[1]) PROVE IsPrefix(p \o path, e[1])
    <2>1. e[1] \in Bits /\ e = <<e[1], e[2]>>
        BY PairsOf
    <2>2. PICK q \in Bits : e[1] = p \o q
        BY <1>5, <2>1, PrefixParts
    <2>3. <<p \o q, e[2]>> \in C
        BY <2>1, <2>2
    <2>4. <<q, e[2]>> \in Below(C, p)
        BY <2>3, BelowIs
    <2>5. <<q, e[2]>> \in EdgeHash(path, child)
        BY <2>4
    <2>6. IsPrefix(path, q)
        BY <2>5, EdgeMember
    <2> QED
        BY <2>2, <2>6, PrefixJoined
<1> QED
    BY <1>4, <1>5

StartsWith(b, p, q) == <<b>> \o q \in Bits /\ Regroups(p, <<b>>, q)

LEMMA BitBefore ==
    ASSUME NEW p \in Bits, NEW b \in {0, 1}, NEW q \in Bits
    PROVE  StartsWith(b, p, q)
<1> DEFINE first == <<b>>
<1>1. first \in Bits
    BY DEF Bits
<1> HIDE DEF first
<1>2. first \o q \in Bits
    BY <1>1, Prolonged
<1>3. Regroups(p, first, q)
    BY <1>1, Grouped
<1> QED
    BY <1>2, <1>3 DEF first, StartsWith

LEMMA BelowEdge ==
    ASSUME NEW C \in Hash, NEW p \in Bits, NEW path \in Bits,
           \A e \in C : IsPrefix(p, e[1]) => IsPrefix(p \o path, e[1])
    PROVE  Below(C, p) = EdgeHash(path, Below(C, p \o path))
<1>1. p \o path \in Bits
    BY Prolonged
<1>2. Below(C, p) \in Hash /\ Below(C, p \o path) \in Hash
    BY <1>1, BelowIs
<1>3. EdgeHash(path, Below(C, p \o path)) \in Hash
    BY <1>2, EdgeHashIs
<1>4. ASSUME NEW q \in Bits, NEW v \in Nat
      PROVE  <<q, v>> \in Below(C, p) <=> <<q, v>> \in EdgeHash(path, Below(C, p \o path))
    <2>1. <<q, v>> \in Below(C, p) <=> <<p \o q, v>> \in C
        BY BelowIs
    <2>2. <<q, v>> \in EdgeHash(path, Below(C, p \o path))
             <=> IsPrefix(path, q) /\ <<Drop(q, Len(path)), v>> \in Below(C, p \o path)
        BY <1>2, EdgeMember
    <2>3. CASE IsPrefix(path, q)
        <3>1. Drop(q, Len(path)) \in Bits /\ path \o Drop(q, Len(path)) = q
            BY <2>3, Dropped
        <3> DEFINE r == Drop(q, Len(path))
        <3> HIDE DEF r
        <3>2. r \in Bits /\ path \o r = q
            BY <3>1 DEF r
        <3>3. (p \o path) \o r = p \o q
            <4>1. r \in Bits
                BY <3>2
            <4>2. Regroups(p, path, r)
                BY <4>1, Grouped
            <4> QED
                BY <3>2, <4>2 DEF Regroups
        <3>4. <<r, v>> \in Below(C, p \o path) <=> <<p \o q, v>> \in C
            BY <1>1, <3>2, <3>3, BelowIs
        <3> QED
            BY <2>1, <2>2, <2>3, <3>4 DEF r
    <2>4. CASE ~ IsPrefix(path, q)
        <3>1. <<p \o q, v>> \notin C
            <4> SUFFICES ASSUME <<p \o q, v>> \in C PROVE FALSE
                OBVIOUS
            <4> DEFINE e == <<p \o q, v>>
            <4>1. e[1] = p \o q /\ e \in C
                OBVIOUS
            <4> HIDE DEF e
            <4>2. IsPrefix(p, e[1])
                BY <4>1, Prolonged
            <4>3. IsPrefix(p \o path, p \o q)
                BY <4>1, <4>2
            <4> QED
                BY <2>4, <4>3, PrefixJoined
        <3> QED
            BY <2>1, <2>2, <2>4, <3>1
    <2> QED
        BY <2>3, <2>4
<1> QED
    BY <1>2, <1>3, <1>4, SameHash

LEMMA BinaryMember ==
    ASSUME NEW l \in Hash, NEW r \in Hash, NEW q \in Bits, NEW v
    PROVE  /\ <<q, v>> \in BinaryHash(l, r) => \E b \in {0, 1} : IsPrefix(<<b>>, q)
           /\ <<(<<0>> \o q), v>> \in BinaryHash(l, r) <=> <<q, v>> \in l
           /\ <<(<<1>> \o q), v>> \in BinaryHash(l, r) <=> <<q, v>> \in r
<1>0. <<0>> \in Bits /\ <<1>> \in Bits /\ ~ IsPrefix(<<0>>, <<1>> \o q) /\ ~ IsPrefix(<<1>>, <<0>> \o q)
    <2>1. \A b \in {0, 1} : <<b>> \in Bits /\ Len(<<b>>) = 1 /\ <<b>>[1] = b
        BY DEF Bits
    <2>2. \A b \in {0, 1} : <<b>> \o q \in Bits /\ (<<b>> \o q)[1] = b
        <3> TAKE b \in {0, 1}
        <3>1. <<b>> \in Bits /\ 1 \in 1..Len(<<b>>)
            BY <2>1
        <3> QED
            BY <2>1, <3>1, Prolonged
    <2>3. \A b, a \in {0, 1} : IsPrefix(<<a>>, <<b>> \o q) => a = b
        <3> TAKE b, a \in {0, 1}
        <3> DEFINE x == <<b>> \o q
        <3>1. x \in Bits /\ x[1] = b
            BY <2>2
        <3> HIDE DEF x
        <3>2. IsPrefix(<<a>>, x) => x[1] = a
            BY <3>1, OneBit
        <3> QED
            BY <3>1, <3>2 DEF x
    <2> QED
        BY <2>1, <2>3
<1>1. \A b \in {0, 1} : <<b>> \in Bits
    BY <1>0
<1>2. \A x \in Bits : <<x, v>> \in BinaryHash(l, r)
         <=> (IsPrefix(<<0>>, x) /\ <<Drop(x, Len(<<0>>)), v>> \in l) \/ (IsPrefix(<<1>>, x) /\ <<Drop(x, Len(<<1>>)), v>> \in r)
    BY <1>0, EdgeMember DEF BinaryHash
<1>3. \A b \in {0, 1} : /\ <<b>> \o q \in Bits /\ IsPrefix(<<b>>, <<b>> \o q) /\ Drop(<<b>> \o q, Len(<<b>>)) = q
    BY <1>1, Prolonged, DropProlonged
<1>4. <<(<<0>> \o q), v>> \in BinaryHash(l, r) <=> <<q, v>> \in l
    <2> DEFINE x == <<0>> \o q
    <2>1. x \in Bits /\ IsPrefix(<<0>>, x) /\ Drop(x, Len(<<0>>)) = q /\ ~ IsPrefix(<<1>>, x)
        BY <1>0, <1>3
    <2> HIDE DEF x
    <2>2. <<x, v>> \in BinaryHash(l, r) <=> <<q, v>> \in l
        BY <1>2, <2>1
    <2> QED
        BY <2>2 DEF x
<1>5. <<(<<1>> \o q), v>> \in BinaryHash(l, r) <=> <<q, v>> \in r
    <2> DEFINE x == <<1>> \o q
    <2>1. x \in Bits /\ IsPrefix(<<1>>, x) /\ Drop(x, Len(<<1>>)) = q /\ ~ IsPrefix(<<0>>, x)
        BY <1>0, <1>3
    <2> HIDE DEF x
    <2>2. <<x, v>> \in BinaryHash(l, r) <=> <<q, v>> \in r
        BY <1>2, <2>1
    <2> QED
        BY <2>2 DEF x
<1> QED
    BY <1>2, <1>4, <1>5

LEMMA BinaryStarts ==
    ASSUME NEW l \in Hash, NEW r \in Hash, NEW q \in Bits, NEW v, <<q, v>> \in BinaryHash(l, r)
    PROVE  \E b \in {0, 1} : IsPrefix(<<b>>, q)
BY BinaryMember

LEMMA BinaryHashIs == ASSUME NEW l \in Hash, NEW r \in Hash PROVE BinaryHash(l, r) \in Hash
<1>1. <<0>> \in Bits /\ <<1>> \in Bits
    BY DEF Bits
<1>2. EdgeHash(<<0>>, l) \in Hash /\ EdgeHash(<<1>>, r) \in Hash
    BY <1>1, EdgeHashIs
<1> QED
    BY <1>2 DEF BinaryHash, Hash

(* A Binary: the content below it lies below its two children. *)
LEMMA UnderBinary ==
    ASSUME NEW C \in Hash, NEW p \in Bits, NEW l \in Hash, NEW r \in Hash, Below(C, p) = BinaryHash(l, r)
    PROVE  /\ Below(C, Append(p, 0)) = l /\ Below(C, Append(p, 1)) = r
           /\ \A e \in C : IsPrefix(p, e[1]) => \E b \in {0, 1} : IsPrefix(Append(p, b), e[1])
<1>1. \A b \in {0, 1} : Append(p, b) = p \o <<b>> /\ <<b>> \in Bits /\ p \o <<b>> \in Bits
    BY BitJoined, Prolonged
<1>2. \A b \in {0, 1}, q \in Bits, v \in Nat :
         <<q, v>> \in Below(C, Append(p, b)) <=> <<(<<b>> \o q), v>> \in BinaryHash(l, r)
    <2> TAKE b \in {0, 1}, q \in Bits, v \in Nat
    <2>1. <<b>> \o q \in Bits /\ p \o (<<b>> \o q) = (p \o <<b>>) \o q
        <3>1. StartsWith(b, p, q)
            BY BitBefore
        <3> QED
            BY <3>1 DEF StartsWith, Regroups
    <2>2. <<q, v>> \in Below(C, p \o <<b>>) <=> <<(p \o <<b>>) \o q, v>> \in C
        BY <1>1, BelowIs
    <2>3. <<(<<b>> \o q), v>> \in Below(C, p) <=> <<p \o (<<b>> \o q), v>> \in C
        BY <2>1, BelowIs
    <2> QED
        BY <1>1, <2>1, <2>2, <2>3
<1>3. \A b \in {0, 1} : Below(C, Append(p, b)) \in Hash
    BY <1>1, BelowIs
<1>4. Below(C, Append(p, 0)) = l
    <2>1. \A q \in Bits, v \in Nat : <<q, v>> \in Below(C, Append(p, 0)) <=> <<q, v>> \in l
        BY <1>2, BinaryMember
    <2> QED
        BY <1>3, <2>1, SameHash
<1>5. Below(C, Append(p, 1)) = r
    <2>1. \A q \in Bits, v \in Nat : <<q, v>> \in Below(C, Append(p, 1)) <=> <<q, v>> \in r
        BY <1>2, BinaryMember
    <2> QED
        BY <1>3, <2>1, SameHash
<1>6. ASSUME NEW e \in C, IsPrefix(p, e[1]) PROVE \E b \in {0, 1} : IsPrefix(Append(p, b), e[1])
    <2>1. e[1] \in Bits /\ e = <<e[1], e[2]>>
        BY PairsOf
    <2>2. PICK q \in Bits : e[1] = p \o q
        BY <1>6, <2>1, PrefixParts
    <2>3. <<p \o q, e[2]>> \in C
        BY <2>1, <2>2
    <2>4. <<q, e[2]>> \in Below(C, p)
        BY <2>3, BelowIs
    <2>5. <<q, e[2]>> \in BinaryHash(l, r)
        BY <2>4
    <2>6. PICK b \in {0, 1} : IsPrefix(<<b>>, q)
        BY <2>5, BinaryStarts
    <2>7. IsPrefix(p \o <<b>>, p \o q)
        BY <1>1, <2>6, PrefixJoined
    <2> QED
        BY <1>1, <2>2, <2>7
<1> QED
    BY <1>4, <1>5, <1>6

LEMMA BelowBinary ==
    ASSUME NEW C \in Hash, NEW p \in Bits,
           \A e \in C : IsPrefix(p, e[1]) => \E b \in {0, 1} : IsPrefix(Append(p, b), e[1])
    PROVE  Below(C, p) = BinaryHash(Below(C, Append(p, 0)), Below(C, Append(p, 1)))
<1> DEFINE l == Below(C, Append(p, 0))
           r == Below(C, Append(p, 1))
<1>1. \A b \in {0, 1} : Append(p, b) = p \o <<b>> /\ <<b>> \in Bits /\ p \o <<b>> \in Bits
    BY BitJoined, Prolonged
<1>2. \A b \in {0, 1}, q \in Bits, v \in Nat :
         <<q, v>> \in Below(C, Append(p, b)) <=> <<(<<b>> \o q), v>> \in Below(C, p)
    <2> TAKE b \in {0, 1}, q \in Bits, v \in Nat
    <2>1. <<b>> \o q \in Bits /\ p \o (<<b>> \o q) = (p \o <<b>>) \o q
        <3>1. StartsWith(b, p, q)
            BY BitBefore
        <3> QED
            BY <3>1 DEF StartsWith, Regroups
    <2>2. <<q, v>> \in Below(C, p \o <<b>>) <=> <<(p \o <<b>>) \o q, v>> \in C
        BY <1>1, BelowIs
    <2>3. <<(<<b>> \o q), v>> \in Below(C, p) <=> <<p \o (<<b>> \o q), v>> \in C
        BY <2>1, BelowIs
    <2> QED
        BY <1>1, <2>1, <2>2, <2>3
<1>3. l \in Hash /\ r \in Hash /\ Below(C, p) \in Hash
    BY <1>1, BelowIs
<1>4. ASSUME NEW x \in Bits, NEW v \in Nat, <<x, v>> \in Below(C, p) \/ <<x, v>> \in BinaryHash(l, r)
      PROVE  \E b \in {0, 1}, q \in Bits : x = <<b>> \o q
    <2>1. \E b \in {0, 1} : IsPrefix(<<b>>, x)
        <3>1. CASE <<x, v>> \in BinaryHash(l, r)
            <4> HIDE DEF l, r
            <4> QED
                BY <1>3, <3>1, BinaryStarts
        <3>2. CASE <<x, v>> \in Below(C, p)
            <4> DEFINE e == <<p \o x, v>>
            <4>1. e \in C /\ e[1] = p \o x
                BY <3>2, BelowIs
            <4> HIDE DEF e
            <4>2. IsPrefix(p, e[1])
                BY <4>1, Prolonged
            <4>3. PICK b \in {0, 1} : IsPrefix(Append(p, b), e[1])
                BY <4>1, <4>2
            <4>4. IsPrefix(p \o <<b>>, p \o x)
                BY <1>1, <4>1, <4>3
            <4>5. IsPrefix(<<b>>, x)
                BY <1>1, <4>4, PrefixJoined
            <4> QED
                BY <4>5
        <3> QED
            BY <1>4, <3>1, <3>2
    <2> QED
        BY <1>1, <2>1, PrefixParts
<1>5. ASSUME NEW x \in Bits, NEW v \in Nat PROVE <<x, v>> \in Below(C, p) <=> <<x, v>> \in BinaryHash(l, r)
    <2> HIDE DEF l, r
    <2>1. ASSUME NEW b \in {0, 1}, NEW q \in Bits, x = <<b>> \o q
          PROVE  <<x, v>> \in Below(C, p) <=> <<x, v>> \in BinaryHash(l, r)
        <3>1. <<q, v>> \in Below(C, Append(p, b)) <=> <<(<<b>> \o q), v>> \in Below(C, p)
            BY <1>2
        <3>2. CASE b = 0
            <4>1. <<(<<0>> \o q), v>> \in BinaryHash(l, r) <=> <<q, v>> \in l
                BY <1>3, BinaryMember
            <4> QED
                BY <2>1, <3>1, <3>2, <4>1 DEF l
        <3>3. CASE b = 1
            <4>1. <<(<<1>> \o q), v>> \in BinaryHash(l, r) <=> <<q, v>> \in r
                BY <1>3, BinaryMember
            <4> QED
                BY <2>1, <3>1, <3>3, <4>1 DEF r
        <3> QED
            BY <3>2, <3>3
    <2> QED
        BY <1>4, <2>1
<1>6. BinaryHash(l, r) \in Hash
    BY <1>3, BinaryHashIs
<1> HIDE DEF l, r
<1>7. Below(C, p) = BinaryHash(l, r)
    BY <1>3, <1>5, <1>6, SameHash
<1> QED
    BY <1>7 DEF l, r

LEMMA BelowNothing == ASSUME NEW C \in Hash PROVE Below(C, <<>>) = C
<1>1. \A q \in Bits : <<>> \o q = q
    BY ConcatEmptySeq DEF Bits
<1>2. Below(C, <<>>) \in Hash /\ \A q \in Bits, v \in Nat : <<q, v>> \in Below(C, <<>>) <=> <<q, v>> \in C
    BY <1>1, EmptyBits, BelowIs
<1> QED
    BY <1>2, SameHash

LEMMA BelowNonEmpty ==
    ASSUME NEW C \in Hash, NEW p \in Bits
    PROVE  Below(C, p) # {} <=> \E e \in C : IsPrefix(p, e[1])
BY DEF Below

(* A content: whole keys of one length, each with one value. *)
WholeKeys(C, H) ==
    /\ C \in Hash /\ \A e \in C : Len(e[1]) = H
    /\ \A e, f \in C : e[1] = f[1] => e = f

(* The hash of a stored node is made of those of its children. *)
TrueNode(d, hash, data) ==
    /\ data.kind = "Binary" => hash = BinaryHash(StoredHash(d, data.left), StoredHash(d, data.right))
    /\ data.kind = "Edge" => hash = EdgeHash(data.path, StoredHash(d, data.child))
    /\ data.kind = "LeafBinary" => \E a, b \in Nat : hash = BinaryHash(LeafHash(a), LeafHash(b))
    /\ data.kind = "LeafEdge" => \E a \in Nat : hash = EdgeHash(data.path, LeafHash(a))

TrueTables(d) ==
    /\ GoodTables(d)
    /\ \A idx \in Stored(d) :
          StoredHash(d, idx) # {} /\ TrueNode(d, StoredHash(d, idx), StoredNode(d, idx))

(* A tree stands for a content: its leaves are keys of it, a node still in *)
(* storage has the hash of what lies below it, nothing is left out.        *)
LeafIsKey(C, q) == \E e \in C : e[1] = q
Covers(t, C) == \A e \in C : \E q \in Ends(t) : IsPrefix(q, e[1])

Means(d, t, C, H) ==
    /\ Good(d, t) /\ WholeKeys(C, H) /\ H \in Nat
    /\ \A p \in DOMAIN t :
          /\ Len(p) <= H
          /\ t[p].kind = "Leaf" => LeafIsKey(C, p)
          /\ t[p].kind = "Unresolved" => StoredHash(d, t[p].idx) = Below(C, p)
    /\ Covers(t, C)

LEMMA ToEmpty == ASSUME NEW p \in Bits PROVE p \o <<>> = p
BY ConcatEmptySeq DEF Bits

LEMMA BelowLeaf ==
    ASSUME NEW C \in Hash, NEW p \in Bits, NEW a \in Nat, Below(C, p) = LeafHash(a)
    PROVE  <<p, a>> \in C /\ LeafIsKey(C, p)
<1>1. <<(<<>>), a>> \in Below(C, p)
    BY DEF LeafHash
<1>2. <<p \o <<>>, a>> \in C
    BY <1>1, EmptyBits, BelowIs
<1>3. <<p, a>> \in C
    BY <1>2, ToEmpty
<1>4. <<p, a>>[1] = p
    OBVIOUS
<1> QED
    BY <1>3, <1>4 DEF LeafIsKey

(* What Resolved puts below a place stands for the content below it. *)
LEMMA ResolvedMeans ==
    ASSUME NEW d, TrueTables(d), NEW C \in Hash, NEW p \in Bits, NEW idx \in Stored(d),
           Below(C, p) = StoredHash(d, idx),
           NEW new, new = Resolved(p, StoredNode(d, idx)), NEW c \in DOMAIN new, c # p
    PROVE  /\ new[c].kind = "Leaf" => LeafIsKey(C, c)
           /\ new[c].kind = "Unresolved" => StoredHash(d, new[c].idx) = Below(C, c)
           /\ \E e \in C : IsPrefix(c, e[1])
<1> DEFINE data == StoredNode(d, idx)
           hash == StoredHash(d, idx)
<1>1. /\ data \in NodeDatum /\ Refs(data) \subseteq Stored(d) /\ hash \in Hash /\ TrueNode(d, hash, data)
    BY StoredRow DEF TrueTables
<1>2. \A i \in Stored(d) : StoredHash(d, i) \in Hash /\ StoredHash(d, i) # {}
    BY StoredRow DEF TrueTables
<1>3. Append(p, 0) \in Bits /\ Append(p, 1) \in Bits /\ Append(p, 0) # Append(p, 1)
    <2>1. Append(p, 0)[Len(p) + 1] = 0 /\ Append(p, 1)[Len(p) + 1] = 1
        BY NextBit
    <2> QED
        BY <2>1, NextBit
<1> HIDE DEF data, hash
<1>4. new = Resolved(p, data) /\ Below(C, p) = hash
    BY DEF data, hash
<1>5. CASE data.kind = "Binary"
    <2>1. new = [q \in {p, Append(p, 0), Append(p, 1)} |->
                    IF q = p THEN Binary ELSE Unresolved(IF q = Append(p, 0) THEN data.left ELSE data.right)]
        BY <1>4, <1>5 DEF Resolved
    <2>2. data.left \in Stored(d) /\ data.right \in Stored(d)
        BY <1>1, <1>5 DEF Refs
    <2>3. /\ Below(C, Append(p, 0)) = StoredHash(d, data.left)
          /\ Below(C, Append(p, 1)) = StoredHash(d, data.right)
        <3>1. Below(C, p) = BinaryHash(StoredHash(d, data.left), StoredHash(d, data.right))
            BY <1>1, <1>4, <1>5 DEF TrueNode
        <3> QED
            BY <1>2, <2>2, <3>1, UnderBinary
    <2>4. new[c] = Unresolved(IF c = Append(p, 0) THEN data.left ELSE data.right)
        BY <2>1
    <2>5. c \in {Append(p, 0), Append(p, 1)}
        BY <2>1
    <2>6. new[c].kind = "Unresolved" /\ new[c].idx = IF c = Append(p, 0) THEN data.left ELSE data.right
        BY <2>4 DEF Unresolved
    <2>7. StoredHash(d, new[c].idx) = Below(C, c) /\ Below(C, c) # {}
        BY <1>2, <1>3, <2>2, <2>3, <2>5, <2>6
    <2>8. \E e \in C : IsPrefix(c, e[1])
        BY <2>7 DEF Below
    <2> QED
        BY <2>6, <2>7, <2>8
<1>6. CASE data.kind = "Edge"
    <2>0. data.path \in Bits /\ data.child \in Stored(d)
        BY <1>1, <1>6, NodeData4 DEF Refs
    <2>1. new = [q \in {p, p \o data.path} |-> IF q = p THEN Edge(data.path) ELSE Unresolved(data.child)]
        BY <1>4, <1>6 DEF Resolved
    <2>2. c = p \o data.path /\ new[c] = Unresolved(data.child)
        BY <2>1
    <2>3. new[c].kind = "Unresolved" /\ new[c].idx = data.child
        BY <2>2 DEF Unresolved
    <2>4. Below(C, c) = StoredHash(d, data.child)
        <3>1. Below(C, p) = EdgeHash(data.path, StoredHash(d, data.child))
            BY <1>1, <1>4, <1>6 DEF TrueNode
        <3> QED
            BY <1>2, <2>0, <2>2, <3>1, UnderEdge
    <2>5. Below(C, c) # {}
        BY <1>2, <2>0, <2>4
    <2>6. \E e \in C : IsPrefix(c, e[1])
        BY <2>5 DEF Below
    <2> QED
        BY <2>3, <2>4, <2>6
<1>7. CASE data.kind = "LeafBinary"
    <2>1. new = [q \in {p, Append(p, 0), Append(p, 1)} |-> IF q = p THEN Binary ELSE Leaf]
        BY <1>4, <1>7 DEF Resolved
    <2>2. c \in {Append(p, 0), Append(p, 1)} /\ new[c] = Leaf
        BY <2>1
    <2>3. PICK a, b \in Nat : Below(C, p) = BinaryHash(LeafHash(a), LeafHash(b))
        BY <1>1, <1>4, <1>7 DEF TrueNode
    <2>4. Below(C, Append(p, 0)) = LeafHash(a) /\ Below(C, Append(p, 1)) = LeafHash(b)
        BY <2>3, LeafHashIs, UnderBinary
    <2>5. LeafIsKey(C, c)
        BY <1>3, <2>2, <2>4, BelowLeaf
    <2>6. \E e \in C : IsPrefix(c, e[1])
        <3>1. PICK e \in C : e[1] = c
            BY <2>5 DEF LeafIsKey
        <3>2. IsPrefix(c, c)
            BY <1>3, <2>2, PrefixSelf
        <3> QED
            BY <3>1, <3>2
    <2> QED
        BY <2>2, <2>5, <2>6 DEF Leaf
<1>8. CASE data.kind = "LeafEdge"
    <2>0. data.path \in Bits /\ p \o data.path \in Bits
        BY <1>1, <1>8, NodeData4, Prolonged
    <2>1. new = [q \in {p, p \o data.path} |-> IF q = p THEN Edge(data.path) ELSE Leaf]
        BY <1>4, <1>8 DEF Resolved
    <2>2. c = p \o data.path /\ new[c] = Leaf
        BY <2>1
    <2>3. PICK a \in Nat : Below(C, p) = EdgeHash(data.path, LeafHash(a))
        BY <1>1, <1>4, <1>8 DEF TrueNode
    <2>4. Below(C, c) = LeafHash(a)
        BY <2>0, <2>2, <2>3, LeafHashIs, UnderEdge
    <2>5. LeafIsKey(C, c)
        BY <2>0, <2>2, <2>4, BelowLeaf
    <2>6. \E e \in C : IsPrefix(c, e[1])
        <3>1. PICK e \in C : e[1] = c
            BY <2>5 DEF LeafIsKey
        <3>2. IsPrefix(c, c)
            BY <2>0, <2>2, PrefixSelf
        <3> QED
            BY <3>1, <3>2
    <2> QED
        BY <2>2, <2>5, <2>6 DEF Leaf
<1> QED
    BY <1>1, <1>5, <1>6, <1>7, <1>8, NodeData4

LEMMA ResolvedCovers ==
    ASSUME NEW d, TrueTables(d), NEW C \in Hash, NEW p \in Bits, NEW idx \in Stored(d),
           Below(C, p) = StoredHash(d, idx), NEW e \in C, IsPrefix(p, e[1])
    PROVE  \E c \in DOMAIN Resolved(p, StoredNode(d, idx)) : c # p /\ IsPrefix(c, e[1])
<1> DEFINE data == StoredNode(d, idx)
           hash == StoredHash(d, idx)
           new == Resolved(p, data)
<1>1. /\ data \in NodeDatum /\ Refs(data) \subseteq Stored(d) /\ TrueNode(d, hash, data)
    BY StoredRow DEF TrueTables
<1>2. \A i \in Stored(d) : StoredHash(d, i) \in Hash
    BY StoredRow DEF TrueTables
<1> HIDE DEF data, hash
<1>3. Below(C, p) = hash
    BY DEF hash
<1>4. \A b \in {0, 1} : Append(p, b) # p
    BY NextBit
<1>5. ASSUME NEW l \in Hash, NEW r \in Hash, hash = BinaryHash(l, r), DOMAIN new = {p, Append(p, 0), Append(p, 1)}
      PROVE  \E c \in DOMAIN new : c # p /\ IsPrefix(c, e[1])
    <2>1. PICK b \in {0, 1} : IsPrefix(Append(p, b), e[1])
        BY <1>3, <1>5, UnderBinary
    <2>2. Append(p, b) \in DOMAIN new
        BY <1>5
    <2> QED
        BY <1>4, <2>1, <2>2
<1>6. ASSUME NEW child \in Hash, data.path \in Bits \ {<<>>}, hash = EdgeHash(data.path, child), DOMAIN new = {p, p \o data.path}
      PROVE  \E c \in DOMAIN new : c # p /\ IsPrefix(c, e[1])
    <2>1. IsPrefix(p \o data.path, e[1])
        BY <1>3, <1>6, UnderEdge
    <2>2. p \o data.path # p
        BY <1>6, UnderIs, KindsAre DEF Under
    <2> QED
        BY <1>6, <2>1, <2>2
<1>7. CASE data.kind = "Binary"
    <2>1. DOMAIN new = {p, Append(p, 0), Append(p, 1)}
        BY <1>7 DEF Resolved
    <2>2. data.left \in Stored(d) /\ data.right \in Stored(d) /\ hash = BinaryHash(StoredHash(d, data.left), StoredHash(d, data.right))
        BY <1>1, <1>7 DEF Refs, TrueNode
    <2> QED
        BY <1>2, <1>5, <2>1, <2>2 DEF data
<1>8. CASE data.kind = "Edge"
    <2>1. DOMAIN new = {p, p \o data.path}
        BY <1>8 DEF Resolved
    <2>2. data.path \in Bits \ {<<>>} /\ data.child \in Stored(d) /\ hash = EdgeHash(data.path, StoredHash(d, data.child))
        BY <1>1, <1>8, NodeData4 DEF Refs, TrueNode
    <2> QED
        BY <1>2, <1>6, <2>1, <2>2 DEF data
<1>9. CASE data.kind = "LeafBinary"
    <2>1. DOMAIN new = {p, Append(p, 0), Append(p, 1)}
        BY <1>9 DEF Resolved
    <2>2. PICK a, b \in Nat : hash = BinaryHash(LeafHash(a), LeafHash(b))
        BY <1>1, <1>9 DEF TrueNode
    <2> QED
        BY <1>5, <2>1, <2>2, LeafHashIs DEF data
<1>10. CASE data.kind = "LeafEdge"
    <2>1. DOMAIN new = {p, p \o data.path}
        BY <1>10 DEF Resolved
    <2>2. data.path \in Bits \ {<<>>}
        BY <1>1, <1>10, NodeData4
    <2>3. PICK a \in Nat : hash = EdgeHash(data.path, LeafHash(a))
        BY <1>1, <1>10 DEF TrueNode
    <2> QED
        BY <1>6, <2>1, <2>2, <2>3, LeafHashIs DEF data
<1> QED
    BY <1>1, <1>7, <1>8, <1>9, <1>10, NodeData4

LEMMA MeansTree ==
    ASSUME NEW d, NEW t, NEW C, NEW H, Means(d, t, C, H)
    PROVE  /\ Tidy(t) /\ t \in [DOMAIN t -> TreeNode] /\ DOMAIN t \subseteq Bits /\ Closed(t)
           /\ C \in Hash /\ H \in Nat
           /\ \A p \in DOMAIN t : t[p] \in TreeNode /\ p \in Bits /\ Len(p) <= H /\ Len(p) \in Nat
           /\ \A e \in C : e[1] \in Bits /\ Len(e[1]) = H
<1>1. Good(d, t) /\ WholeKeys(C, H) /\ H \in Nat /\ \A p \in DOMAIN t : Len(p) <= H
    BY DEF Means
<1>2. Tidy(t) /\ t \in [DOMAIN t -> TreeNode] /\ DOMAIN t \subseteq Bits /\ Closed(t)
    BY <1>1 DEF Good, Tidy
<1>3. C \in Hash /\ \A e \in C : e[1] \in Bits /\ Len(e[1]) = H
    BY <1>1, PairsOf DEF WholeKeys
<1>4. \A p \in DOMAIN t : t[p] \in TreeNode /\ p \in Bits /\ Len(p) \in Nat
    BY <1>2, BitsAre
<1> QED
    BY <1>1, <1>2, <1>3, <1>4

(* Nothing lies below an end. *)
LEMMA EndIsLast ==
    ASSUME NEW t, Tidy(t), NEW q \in Ends(t), NEW x \in DOMAIN t, IsPrefix(q, x)
    PROVE  x = q
<1>1. q \in DOMAIN t /\ q \in Bits /\ t[q] \in TreeNode /\ t[q].kind \notin {"Binary", "Edge"}
    BY DEF Ends, Tidy
<1>2. Under(q, t[q]) = {}
    BY <1>1, UnderIs
<1> QED
    BY <1>1, <1>2 DEF Tidy, Laminar

LEMMA ResolvedShape ==
    ASSUME NEW d, GoodTables(d), NEW p \in Bits, NEW idx \in Stored(d),
           NEW new, new = Resolved(p, StoredNode(d, idx))
    PROVE  /\ p \in DOMAIN new /\ new[p].kind \in {"Binary", "Edge"}
           /\ \A c \in DOMAIN new : c # p =>
                 new[c].kind \in {"Leaf", "Unresolved"} /\ IsPrefix(p, c) /\ c \in Bits
<1> DEFINE data == StoredNode(d, idx)
<1>1. data \in NodeDatum /\ Refs(data) \subseteq Stored(d)
    BY StoredRow
<1>2. new = Resolved(p, data)
    OBVIOUS
<1> HIDE DEF data
<1>3. PICK node \in TreeNode :
          /\ node.kind \in {"Binary", "Edge"}
          /\ DOMAIN new = {p} \union Under(p, node)
          /\ new[p] = node
          /\ \A c \in Under(p, node) : new[c].kind \in {"Leaf", "Unresolved"}
    <2>1. \E node \in TreeNode :
              /\ node.kind \in {"Binary", "Edge"}
              /\ DOMAIN Resolved(p, data) = {p} \union Under(p, node)
              /\ Resolved(p, data)[p] = node
              /\ \A c \in Under(p, node) :
                    /\ Resolved(p, data)[c] \in TreeNode
                    /\ Resolved(p, data)[c].kind \in {"Leaf", "Unresolved"}
                    /\ Resolved(p, data)[c].kind = "Unresolved" => Resolved(p, data)[c].idx \in Stored(d)
        BY <1>1, ResolvedIs
    <2> QED
        BY <1>2, <2>1
<1>4. \A c \in Under(p, node) : c \in Bits /\ IsPrefix(p, c) /\ c # p
    BY UnderIs
<1> QED
    BY <1>3, <1>4

LEMMA ResolveMeans ==
    ASSUME NEW d, TrueTables(d), NEW t, NEW C, NEW H, Means(d, t, C, H), NEW p \in DOMAIN t
    PROVE  Means(d, Resolve(d, t, p), C, H)
<1>0. GoodTables(d) /\ Good(d, t) /\ WholeKeys(C, H)
    BY DEF TrueTables, Means
<1>1. CASE t[p].kind # "Unresolved"
    BY <1>1 DEF Resolve
<1>2. CASE t[p].kind = "Unresolved"
    <2> DEFINE idx == t[p].idx
               new == Resolved(p, StoredNode(d, idx))
               u == Resolve(d, t, p)
    <2>1. /\ DOMAIN t \subseteq Bits /\ p \in Bits /\ C \in Hash /\ H \in Nat
          /\ \A e \in C : e[1] \in Bits /\ Len(e[1]) = H
        BY MeansTree
    <2>2. idx \in Stored(d) /\ Below(C, p) = StoredHash(d, idx)
        BY <1>0, <1>2 DEF Good, FromStore, Means
    <2>3. u = Over(new, t)
        BY <1>2 DEF Resolve
    <2>4. Good(d, u) /\ \A q \in DOMAIN t : q # p => u[q] = t[q]
        BY <1>0, ResolveGood
    <2>6. p \in DOMAIN new /\ new[p].kind \in {"Binary", "Edge"}
        BY <1>0, <2>1, <2>2, ResolvedShape
    <2>7. \A c \in DOMAIN new : c # p =>
             /\ new[c].kind = "Leaf" => LeafIsKey(C, c)
             /\ new[c].kind = "Unresolved" => StoredHash(d, new[c].idx) = Below(C, c)
             /\ \E e \in C : IsPrefix(c, e[1])
        BY <2>1, <2>2, ResolvedMeans
    <2>8. \A e \in C : IsPrefix(p, e[1]) => \E c \in DOMAIN new : c # p /\ IsPrefix(c, e[1])
        BY <2>1, <2>2, ResolvedCovers
    <2>9. \A c \in DOMAIN new : c # p => new[c].kind \in {"Leaf", "Unresolved"}
        BY <1>0, <2>1, <2>2, ResolvedShape
    <2> HIDE DEF idx, new
    <2>10. DOMAIN u = DOMAIN new \union DOMAIN t /\ \A q \in DOMAIN new : u[q] = new[q]
        BY <2>3 DEF Over
    <2> HIDE DEF u
    <2>11. ASSUME NEW q \in DOMAIN u
           PROVE  /\ Len(q) <= H
                  /\ u[q].kind = "Leaf" => LeafIsKey(C, q)
                  /\ u[q].kind = "Unresolved" => StoredHash(d, u[q].idx) = Below(C, q)
        <3>1. CASE q = p
            <4>1. Len(p) <= H /\ u[q].kind \in {"Binary", "Edge"}
                BY <2>6, <2>10, <3>1 DEF Means
            <4> QED
                BY <3>1, <4>1
        <3>2. CASE q \in DOMAIN new /\ q # p
            <4>1. PICK e \in C : IsPrefix(q, e[1])
                BY <2>7, <3>2
            <4>2. q \in Bits
                BY <2>4, <2>10, <3>2 DEF Good, Tidy
            <4>3. Len(q) <= H
                BY <2>1, <4>1, <4>2, PrefixOrder
            <4> QED
                BY <2>7, <2>10, <3>2, <4>3
        <3>3. CASE q \in DOMAIN t /\ q # p
            BY <2>4, <3>3 DEF Means
        <3> QED
            BY <2>10, <3>1, <3>2, <3>3
    <2>12. ASSUME NEW e \in C PROVE \E q \in Ends(u) : IsPrefix(q, e[1])
        <3>1. PICK q \in Ends(t) : IsPrefix(q, e[1])
            BY DEF Means, Covers
        <3>2. CASE q # p
            <4>1. q \in Ends(u)
                BY <2>4, <2>10, <3>2 DEF Ends
            <4> QED
                BY <3>1, <4>1
        <3>3. CASE q = p
            <4>1. PICK c \in DOMAIN new : c # p /\ IsPrefix(c, e[1])
                BY <2>8, <3>1, <3>3
            <4>2. c \in Ends(u)
                BY <2>9, <2>10, <4>1 DEF Ends
            <4> QED
                BY <4>1, <4>2
        <3> QED
            BY <3>2, <3>3
    <2>13. Means(d, u, C, H)
        BY <1>0, <2>1, <2>4, <2>11, <2>12 DEF Means, Covers
    <2> QED
        BY <2>13 DEF u
<1> QED
    BY <1>1, <1>2

(* No node on the way to a key is left in storage above a height. *)
ResolvedTo(t, key, n) == \A q \in Way(t, key) : t[q].kind = "Unresolved" => Len(q) >= n

LEMMA ResolveNextMeans ==
    ASSUME NEW d, TrueTables(d), NEW t, NEW C, NEW H, Means(d, t, C, H), NEW key \in Bits,
           NEW n \in Nat, ResolvedTo(t, key, n)
    PROVE  /\ Means(d, ResolveNext(d, t, key), C, H)
           /\ ResolvedTo(ResolveNext(d, t, key), key, n + 1)
           /\ t # NoTree => ResolveNext(d, t, key) # NoTree
<1> DEFINE u == ResolveNext(d, t, key)
           p == Deepest(Way(t, key))
<1>1. CASE Way(t, key) = {}
    <2>1. u = t
        BY <1>1 DEF ResolveNext
    <2> QED
        BY <1>1, <2>1 DEF ResolvedTo
<1>2. CASE Way(t, key) # {}
    <2>0. GoodTables(d) /\ Good(d, t)
        BY DEF TrueTables, Means
    <2>1. /\ DOMAIN t \subseteq Bits /\ Tidy(t) /\ Len(key) \in Nat
          /\ \A x \in DOMAIN t : t[x] \in TreeNode /\ x \in Bits /\ Len(x) \in Nat
        BY MeansTree, BitsAre
    <2>2. \A x \in Way(t, key) : x \in DOMAIN t /\ x \in Bits /\ IsPrefix(x, key) /\ Len(x) \in 0..Len(key)
        BY <2>1, WayIs
    <2>3. p \in Way(t, key) /\ \A x \in Way(t, key) : Len(x) <= Len(p)
        BY <1>2, <2>1, <2>2, DeepestIs
    <2>4. u = Resolve(d, t, p)
        BY <1>2 DEF ResolveNext
    <2> HIDE DEF u, p
    <2>5. p \in DOMAIN t /\ p \in Bits /\ IsPrefix(p, key)
        BY <2>2, <2>3
    <2>6. Means(d, u, C, H)
        BY <2>4, <2>5, ResolveMeans
    <2>7. DOMAIN t \subseteq DOMAIN u /\ \A q \in DOMAIN t : q # p => u[q] = t[q]
        BY <2>0, <2>4, <2>5, ResolveGood
    <2>8. t # NoTree => u # NoTree
        <3>1. DOMAIN NoTree = {}
            BY DEF NoTree
        <3> QED
            BY <2>5, <2>7, <3>1
    <2>9. ASSUME NEW q \in Way(u, key), u[q].kind = "Unresolved" PROVE Len(q) >= n + 1
        <3>1. q \in DOMAIN u /\ IsPrefix(q, key)
            BY DEF Way
        <3>2. q \in Bits /\ Len(q) \in Nat
            BY <2>6, <3>1, MeansTree
        <3>3. CASE t[p].kind = "Unresolved"
            <4>1. Len(p) >= n
                BY <2>3, <3>3 DEF ResolvedTo
            <4>2. CASE q \notin DOMAIN t
                <5>1. q \in DOMAIN Resolved(p, StoredNode(d, t[p].idx))
                    BY <2>4, <3>1, <3>3, <4>2 DEF Resolve, Over
                <5>2. t[p].idx \in Stored(d)
                    BY <2>0, <2>5, <3>3 DEF Good, FromStore
                <5>3. IsPrefix(p, q) /\ p # q
                    BY <2>0, <2>5, <4>2, <5>1, <5>2, ResolvedShape
                <5>7. Len(p) < Len(q) /\ Len(p) \in Nat
                    BY <2>5, <3>2, <5>3, PrefixOrder, BitsAre
                <5> QED
                    BY <3>2, <4>1, <5>7
            <4>3. CASE q \in DOMAIN t /\ q # p
                <5>1. t[q].kind = "Unresolved" /\ q \in Way(t, key)
                    BY <2>7, <2>9, <3>1, <4>3 DEF Way
                <5>2. Len(q) <= Len(p)
                    BY <2>3, <5>1
                <5>3. IsPrefix(q, p)
                    BY <2>5, <3>1, <3>2, <5>2, PrefixesMeet
                <5>4. q \in Ends(t)
                    BY <4>3, <5>1 DEF Ends
                <5> QED
                    BY <2>1, <2>5, <4>3, <5>3, <5>4, EndIsLast
            <4>4. CASE q = p
                <5>1. t[p].idx \in Stored(d)
                    BY <2>0, <2>5, <3>3 DEF Good, FromStore
                <5>3. /\ p \in DOMAIN Resolved(p, StoredNode(d, t[p].idx))
                      /\ Resolved(p, StoredNode(d, t[p].idx))[p].kind \in {"Binary", "Edge"}
                    BY <2>0, <2>5, <5>1, ResolvedShape
                <5>4. u[p] = Resolved(p, StoredNode(d, t[p].idx))[p]
                    BY <2>4, <3>3, <5>3 DEF Resolve, Over
                <5> QED
                    BY <2>9, <4>4, <5>3, <5>4
            <4> QED
                BY <4>2, <4>3, <4>4
        <3>4. CASE t[p].kind # "Unresolved"
            <4>1. u = t
                BY <2>4, <3>4 DEF Resolve
            <4>2. q # p /\ q \in Way(t, key)
                BY <2>9, <3>4, <4>1
            <4>3. Len(q) <= Len(p)
                BY <2>3, <4>2
            <4>4. IsPrefix(q, p)
                BY <2>5, <3>1, <3>2, <4>3, PrefixesMeet
            <4>5. q \in Ends(t)
                BY <2>9, <3>1, <4>1 DEF Ends
            <4> QED
                BY <2>1, <2>5, <4>2, <4>4, <4>5, EndIsLast
        <3> QED
            BY <3>3, <3>4
    <2> QED
        BY <2>6, <2>8, <2>9 DEF ResolvedTo, u
<1> QED
    BY <1>1, <1>2

(* traverse leaves no node on the way in storage and keeps the meaning. *)
LEMMA TraverseMeans ==
    ASSUME NEW d, TrueTables(d), NEW t, NEW C, NEW H, Means(d, t, C, H), NEW key \in Bits
    PROVE  /\ Means(d, Traverse(d, t, key), C, H)
           /\ \A q \in Way(Traverse(d, t, key), key) : Traverse(d, t, key)[q].kind # "Unresolved"
           /\ t # NoTree => Traverse(d, t, key) # NoTree
<1> DEFINE N == Len(key) + 1
           u == Traverse(d, t, key)
<1>1. GoodTables(d) /\ t \in Trees(d) /\ N \in Nat
    BY TreesAre, BitsAre DEF TrueTables, Means
<1>2. PICK round : TraverseRun(round, d, t, key)
    BY <1>1, TraverseRuns
<1>3. /\ round[0] = t /\ \A n \in Nat : round[n + 1] = ResolveNext(d, round[n], key)
      /\ u = round[N]
    BY <1>2 DEF TraverseRun
<1> HIDE DEF u
<1> DEFINE T == {n \in 0..N : /\ Means(d, round[n], C, H) /\ ResolvedTo(round[n], key, n)
                              /\ t # NoTree => round[n] # NoTree}
<1>4. 0 \in T
    <2>1. ResolvedTo(t, key, 0)
        <3>1. \A q \in Way(t, key) : Len(q) >= 0
            BY MeansTree DEF Way
        <3> QED
            BY <3>1 DEF ResolvedTo
    <2> QED
        BY <1>1, <1>3, <2>1
<1>5. ASSUME NEW n \in 0..N, n < N, n \in T PROVE n + 1 \in T
    <2>1. n \in Nat /\ n + 1 \in 0..N
        BY <1>1, <1>5
    <2>2. Means(d, round[n], C, H) /\ ResolvedTo(round[n], key, n) /\ (t # NoTree => round[n] # NoTree)
        BY <1>5
    <2>3. round[n + 1] = ResolveNext(d, round[n], key)
        BY <1>3, <2>1
    <2>4. /\ Means(d, round[n + 1], C, H) /\ ResolvedTo(round[n + 1], key, n + 1)
          /\ round[n] # NoTree => round[n + 1] # NoTree
        BY <2>1, <2>2, <2>3, ResolveNextMeans
    <2> QED
        BY <2>1, <2>2, <2>4
<1>6. 0..N \subseteq T
    <2> HIDE DEF T, N
    <2> QED
        BY <1>1, <1>4, <1>5, UpTo
<1>7. N \in 0..N
    BY <1>1
<1>8. Means(d, u, C, H) /\ ResolvedTo(u, key, N) /\ (t # NoTree => u # NoTree)
    BY <1>3, <1>6, <1>7
<1>9. ASSUME NEW q \in Way(u, key), u[q].kind = "Unresolved" PROVE FALSE
    <2>1. Len(q) >= N
        BY <1>8, <1>9 DEF ResolvedTo
    <2>2. DOMAIN u \subseteq Bits
        BY <1>8, MeansTree
    <2>3. Len(q) \in 0..Len(key) /\ Len(key) \in Nat
        BY <2>2, WayIs, BitsAre
    <2> QED
        BY <2>1, <2>3
<1> QED
    BY <1>8, <1>9 DEF u

(* The content after a key is set, or deleted when the value is zero. *)
After(C, leaf) ==
    {e \in C : e[1] # leaf.key} \union (IF leaf.value = Zero THEN {} ELSE {<<leaf.key, leaf.value>>})

LEMMA ItemIs ==
    ASSUME NEW leaf \in Item
    PROVE  leaf.key \in Bits /\ leaf.key # <<>> /\ leaf.value \in Nat
BY DEF Item

LEMMA AfterMember ==
    ASSUME NEW C, NEW leaf, NEW q, NEW v
    PROVE  <<q, v>> \in After(C, leaf)
              <=> IF q = leaf.key THEN v = leaf.value /\ v # Zero ELSE <<q, v>> \in C
<1> DEFINE e == <<q, v>>
<1>1. e[1] = q /\ e[2] = v
    OBVIOUS
<1>2. e = <<leaf.key, leaf.value>> <=> q = leaf.key /\ v = leaf.value
    OBVIOUS
<1> HIDE DEF e
<1>3. e \in After(C, leaf) <=> (e \in C /\ e[1] # leaf.key) \/ (leaf.value # Zero /\ e = <<leaf.key, leaf.value>>)
    BY DEF After
<1>4. e \in After(C, leaf) <=> IF q = leaf.key THEN v = leaf.value /\ v # Zero ELSE e \in C
    BY <1>1, <1>2, <1>3
<1> QED
    BY <1>4 DEF e

LEMMA AfterIs ==
    ASSUME NEW C, NEW H, WholeKeys(C, H), NEW leaf \in Item, Len(leaf.key) = H
    PROVE  WholeKeys(After(C, leaf), H)
<1> DEFINE new == <<leaf.key, leaf.value>>
<1>1. leaf.key \in Bits /\ leaf.value \in Nat
    BY ItemIs
<1>2. new \in Bits \X Nat /\ new[1] = leaf.key
    BY <1>1
<1> HIDE DEF new
<1>3. \A e \in After(C, leaf) : (e \in C /\ e[1] # leaf.key) \/ e = new
    BY DEF After, new
<1>4. \A e \in C : e \in Bits \X Nat
    BY DEF WholeKeys, Hash
<1>5. \A e \in C : Len(e[1]) = H /\ \A f \in C : e[1] = f[1] => e = f
    BY DEF WholeKeys
<1>6. After(C, leaf) \in Hash
    BY <1>2, <1>3, <1>4 DEF Hash
<1>7. \A e \in After(C, leaf) : Len(e[1]) = H
    BY <1>2, <1>3, <1>5
<1>8. \A e, f \in After(C, leaf) : e[1] = f[1] => e = f
    BY <1>2, <1>3, <1>5
<1> QED
    BY <1>6, <1>7, <1>8 DEF WholeKeys

LEMMA AfterBelow ==
    ASSUME NEW C, NEW H, WholeKeys(C, H), NEW leaf \in Item, Len(leaf.key) = H,
           NEW p \in Bits, ~ IsPrefix(p, leaf.key)
    PROVE  Below(After(C, leaf), p) = Below(C, p)
<1>1. C \in Hash /\ After(C, leaf) \in Hash
    BY AfterIs DEF WholeKeys
<1>2. Below(After(C, leaf), p) \in Hash /\ Below(C, p) \in Hash
    BY <1>1, BelowIs
<1>3. ASSUME NEW q \in Bits, NEW v \in Nat
      PROVE  <<q, v>> \in Below(After(C, leaf), p) <=> <<q, v>> \in Below(C, p)
    <2>1. IsPrefix(p, p \o q)
        BY Prolonged
    <2>2. p \o q # leaf.key
        BY <2>1
    <2>3. <<p \o q, v>> \in After(C, leaf) <=> <<p \o q, v>> \in C
        BY <2>2, AfterMember
    <2>4. <<q, v>> \in Below(After(C, leaf), p) <=> <<p \o q, v>> \in After(C, leaf)
        BY <1>1, BelowIs
    <2>5. <<q, v>> \in Below(C, p) <=> <<p \o q, v>> \in C
        BY <1>1, BelowIs
    <2> QED
        BY <2>3, <2>4, <2>5
<1> QED
    BY <1>2, <1>3, SameHash

(* A tree whose way to the key is resolved. *)
WayResolved(t, key) == \A q \in Way(t, key) : t[q].kind # "Unresolved"

LEMMA EndOnWay ==
    ASSUME NEW d, NEW t, NEW C, NEW H, Means(d, t, C, H), NEW key \in Bits, Len(key) = H,
           WayResolved(t, key), NEW q \in Ends(t), IsPrefix(q, key)
    PROVE  q = key /\ t[q] = Leaf
<1>1. q \in DOMAIN t /\ q \in Bits /\ t[q] \in TreeNode
    BY MeansTree DEF Ends
<1>2. t[q].kind = "Leaf"
    BY <1>1 DEF Ends, WayResolved, Way
<1>3. LeafIsKey(C, q)
    BY <1>1, <1>2 DEF Means
<1>4. Len(q) = H
    BY <1>3, MeansTree DEF LeafIsKey
<1>5. q = key
    BY <1>1, <1>4, PrefixOrder
<1> QED
    BY <1>1, <1>2, <1>5, NodeKinds

(* Where the way ends: at the leaf of the key or at an edge that leaves it. *)
LEMMA EndMeans ==
    ASSUME NEW d, NEW t, NEW C, NEW H, Means(d, t, C, H), t # NoTree, NEW key \in Bits, Len(key) = H,
           WayResolved(t, key), NEW e, e = Deepest(Way(t, key))
    PROVE  /\ e \in DOMAIN t /\ IsPrefix(e, key) /\ \A q \in Way(t, key) : Len(q) <= Len(e)
           /\ \/ t[e].kind = "Leaf" /\ e = key
              \/ t[e].kind = "Edge" /\ Len(e) + Len(t[e].path) <= Len(key)
<1>1. Good(d, t)
    BY DEF Means
<1>2. /\ e \in DOMAIN t /\ IsPrefix(e, key) /\ t[e] \in TreeNode
      /\ \A q \in Way(t, key) : Len(q) <= Len(e)
    BY <1>1, EndOfWay
<1>3. Tidy(t) /\ e \in Bits /\ Len(e) \in Nat /\ Len(e) <= H /\ H \in Nat
    BY <1>2, MeansTree
<1>4. CASE t[e].kind = "Leaf"
    <2>1. e \in Ends(t)
        BY <1>2, <1>4 DEF Ends
    <2>2. e = key
        BY <1>2, <2>1, EndOnWay
    <2> QED
        BY <1>2, <1>4, <2>2
<1>5. CASE t[e].kind = "Edge"
    <2>1. t[e].path \in Bits
        BY <1>2, <1>5, NodeKinds
    <2>2. Under(e, t[e]) = {e \o t[e].path}
        BY <1>2, <1>3, <1>5, UnderIs
    <2>3. e \o t[e].path \in DOMAIN t
        BY <1>2, <1>3, <2>2 DEF Tidy, Closed
    <2>4. Len(e \o t[e].path) <= H
        BY <2>3 DEF Means
    <2>5. Len(e \o t[e].path) = Len(e) + Len(t[e].path)
        BY <1>3, <2>1, Prolonged
    <2> QED
        BY <1>2, <1>5, <2>4, <2>5
<1>6. CASE t[e].kind = "Binary"
    <2>1. Under(e, t[e]) = {Append(e, 0), Append(e, 1)}
        BY <1>2, <1>3, <1>6, UnderIs
    <2>2. Append(e, 0) \in DOMAIN t /\ Append(e, 1) \in DOMAIN t
        BY <1>2, <1>3, <2>1 DEF Tidy, Closed
    <2>3. Len(e) + 1 <= H
        <3>1. Len(Append(e, 0)) <= H
            BY <2>2, MeansTree
        <3> QED
            BY <1>3, <3>1, NextBit
    <2>4. e # key
        BY <1>3, <2>3
    <2>5. PICK b \in {0, 1} : IsPrefix(Append(e, b), key)
        BY <1>2, <1>3, <2>4, NextBitOf
    <2>6. Append(e, b) \in DOMAIN t
        BY <2>2
    <2>7. Append(e, b) \in Way(t, key)
        BY <2>5, <2>6 DEF Way
    <2>8. Len(Append(e, b)) = Len(e) + 1
        BY <1>3, NextBit
    <2>9. Len(Append(e, b)) <= Len(e)
        BY <1>2, <2>7
    <2> QED
        BY <1>3, <2>8, <2>9
<1>7. t[e].kind # "Unresolved"
    BY <1>2 DEF WayResolved, Way
<1> QED
    BY <1>2, <1>4, <1>5, <1>6, <1>7, NodeKinds

(* The tree after the key is set: its ends are those it had, but for the key. *)
Rewrites(t, u, leaf) ==
    /\ \A q \in Ends(u) : \/ q = leaf.key /\ u[q] = Leaf /\ leaf.value # Zero
                          \/ q # leaf.key /\ q \in Ends(t) /\ u[q] = t[q]
    /\ \A q \in Ends(t) : q # leaf.key => q \in Ends(u)
    /\ leaf.value # Zero => leaf.key \in Ends(u)

SetTo(d, u, C, H, leaf) == Means(d, u, After(C, leaf), H) /\ WayResolved(u, leaf.key)

LEMMA Rewritten ==
    ASSUME NEW d, NEW t, NEW C, NEW H, Means(d, t, C, H), NEW leaf \in Item, Len(leaf.key) = H,
           WayResolved(t, leaf.key), NEW u, Good(d, u), \A p \in DOMAIN u : Len(p) <= H,
           Rewrites(t, u, leaf)
    PROVE  SetTo(d, u, C, H, leaf)
<1> DEFINE A == After(C, leaf)
<1>1. WholeKeys(C, H) /\ WholeKeys(A, H) /\ H \in Nat
    BY AfterIs DEF Means
<1>2. leaf.key \in Bits /\ leaf.value \in Nat
    BY ItemIs
<1>3. ASSUME NEW p \in DOMAIN u, u[p].kind = "Leaf" PROVE LeafIsKey(A, p)
    <2>1. p \in Ends(u)
        BY <1>3 DEF Ends
    <2>2. CASE p = leaf.key
        <3>1. leaf.value # Zero
            BY <2>1, <2>2 DEF Rewrites
        <3>2. <<leaf.key, leaf.value>> \in A
            BY <3>1, AfterMember
        <3>3. <<leaf.key, leaf.value>>[1] = leaf.key
            OBVIOUS
        <3> QED
            BY <2>2, <3>2, <3>3 DEF LeafIsKey
    <2>3. CASE p # leaf.key
        <3>1. p \in Ends(t) /\ u[p] = t[p]
            BY <2>1, <2>3 DEF Rewrites
        <3>2. LeafIsKey(C, p)
            BY <1>3, <3>1 DEF Means, Ends
        <3>3. PICK e \in C : e[1] = p
            BY <3>2 DEF LeafIsKey
        <3>4. e \in A
            BY <2>3, <3>3 DEF After
        <3> QED
            BY <3>3, <3>4 DEF LeafIsKey
    <2> QED
        BY <2>2, <2>3
<1>4. ASSUME NEW p \in DOMAIN u, u[p].kind = "Unresolved" PROVE StoredHash(d, u[p].idx) = Below(A, p)
    <2>1. p \in Ends(u)
        BY <1>4 DEF Ends
    <2>2. p # leaf.key /\ p \in Ends(t) /\ u[p] = t[p]
        <3>1. Leaf.kind = "Leaf"
            BY DEF Leaf
        <3> QED
            BY <1>4, <2>1, <3>1 DEF Rewrites
    <2>3. p \in DOMAIN t /\ p \in Bits /\ StoredHash(d, t[p].idx) = Below(C, p)
        BY <1>4, <2>2, MeansTree DEF Means, Ends
    <2>4. ~ IsPrefix(p, leaf.key)
        BY <1>2, <2>2, EndOnWay
    <2>5. Below(A, p) = Below(C, p)
        BY <1>1, <2>3, <2>4, AfterBelow
    <2> QED
        BY <2>2, <2>3, <2>5
<1>5. ASSUME NEW e \in A PROVE \E q \in Ends(u) : IsPrefix(q, e[1])
    <2>1. CASE e[1] = leaf.key
        <3>1. leaf.value # Zero
            BY <1>5, <2>1 DEF After
        <3>2. leaf.key \in Ends(u)
            BY <3>1 DEF Rewrites
        <3>3. IsPrefix(leaf.key, e[1])
            BY <1>2, <2>1, PrefixSelf
        <3> QED
            BY <3>2, <3>3
    <2>2. CASE e[1] # leaf.key
        <3>1. e \in C
            <4>1. <<leaf.key, leaf.value>>[1] = leaf.key
                OBVIOUS
            <4> QED
                BY <1>5, <2>2, <4>1 DEF After
        <3>2. PICK q \in Ends(t) : IsPrefix(q, e[1])
            BY <3>1 DEF Means, Covers
        <3>3. q # leaf.key
            <4> SUFFICES ASSUME q = leaf.key PROVE FALSE
                OBVIOUS
            <4>1. e[1] \in Bits /\ Len(e[1]) = H
                BY <3>1, MeansTree
            <4> QED
                BY <1>2, <2>2, <3>2, <4>1, PrefixOrder
        <3>4. q \in Ends(u)
            BY <3>3 DEF Rewrites
        <3> QED
            BY <3>2, <3>4
    <2> QED
        BY <2>1, <2>2
<1> HIDE DEF A
<1>6. Means(d, u, A, H)
    BY <1>1, <1>3, <1>4, <1>5 DEF Means, Covers
<1>7. ASSUME NEW q \in Way(u, leaf.key), u[q].kind = "Unresolved" PROVE FALSE
    <2>1. q \in Ends(u) /\ IsPrefix(q, leaf.key)
        BY <1>7 DEF Ends, Way
    <2>2. q # leaf.key /\ q \in Ends(t)
        <3>1. Leaf.kind = "Leaf"
            BY DEF Leaf
        <3> QED
            BY <1>7, <2>1, <3>1 DEF Rewrites
    <2> QED
        BY <1>2, <2>1, <2>2, EndOnWay
<1> QED
    BY <1>6, <1>7 DEF A, SetTo, WayResolved

(* Below a place on the way under which nothing branches there is only the leaf. *)
LEMMA OnlyEnd ==
    ASSUME NEW t, Tidy(t), NEW key \in Ends(t), NEW cut \in DOMAIN t, IsPrefix(cut, key),
           \A p \in Way(t, key) : IsPrefix(cut, p) => t[p].kind # "Binary",
           NEW q \in Ends(t), IsPrefix(cut, q)
    PROVE  q = key
<1> DEFINE W == {x \in Way(t, key) : IsPrefix(x, q)}
           w == Deepest(W)
<1>1. /\ \A x \in DOMAIN t : x \in Bits /\ t[x] \in TreeNode
      /\ key \in DOMAIN t /\ key \in Bits /\ q \in DOMAIN t /\ q \in Bits
    BY DEF Ends, Tidy
<1>2. \A x \in Way(t, key) : x \in DOMAIN t /\ x \in Bits /\ IsPrefix(x, key) /\ Len(x) \in 0..Len(key)
    BY <1>1, WayIs DEF Tidy
<1>3. cut \in W
    BY DEF Way
<1>4. w \in W /\ \A x \in W : Len(x) <= Len(w)
    <2>1. Len(key) \in Nat /\ \A x \in W : Len(x) \in 0..Len(key)
        BY <1>1, <1>2, BitsAre
    <2> QED
        BY <1>3, <2>1, DeepestIs
<1> HIDE DEF w
<1>5. w \in DOMAIN t /\ w \in Bits /\ IsPrefix(w, key) /\ IsPrefix(w, q) /\ t[w] \in TreeNode
    BY <1>1, <1>2, <1>4
<1>6. IsPrefix(cut, w)
    <2>1. Len(cut) <= Len(w) /\ cut \in Bits
        BY <1>1, <1>3, <1>4
    <2> QED
        BY <1>1, <1>5, <2>1, PrefixesMeet
<1>7. t[w].kind # "Binary"
    BY <1>4, <1>6
<1>8. CASE w = q
    <2>1. IsPrefix(q, key)
        BY <1>5, <1>8
    <2> QED
        BY <1>1, <2>1, EndIsLast
<1>9. CASE w = key
    <2>1. IsPrefix(key, q)
        BY <1>5, <1>9
    <2> QED
        BY <1>1, <2>1, EndIsLast
<1>10. CASE w # q /\ w # key
    <2>1. PICK c \in Under(w, t[w]) : IsPrefix(c, q)
        BY <1>1, <1>5, <1>10 DEF Tidy, Laminar
    <2>2. PICK a \in Under(w, t[w]) : IsPrefix(a, key)
        BY <1>1, <1>5, <1>10 DEF Tidy, Laminar
    <2>3. t[w].kind = "Edge"
        BY <1>5, <1>7, <2>1, UnderIs
    <2>4. a = c
        <3>1. Under(w, t[w]) = {w \o t[w].path}
            BY <1>5, <2>3, UnderIs
        <3> QED
            BY <2>1, <2>2, <3>1
    <2>5. c \in DOMAIN t /\ IsPrefix(w, c) /\ c # w /\ c \in Bits
        BY <1>5, <2>1, UnderIs DEF Tidy, Closed
    <2>6. c \in W
        BY <2>1, <2>2, <2>4, <2>5 DEF Way
    <2>7. Len(c) <= Len(w) /\ Len(w) < Len(c)
        BY <1>4, <1>5, <2>5, <2>6, PrefixOrder
    <2> QED
        BY <1>5, <2>5, <2>7, BitsAre
<1> QED
    BY <1>8, <1>9, <1>10

(* Resolving a node that is not on the way leaves the way as it was. *)
LEMMA WayKept ==
    ASSUME NEW d, GoodTables(d), NEW t, Good(d, t), NEW kept \in DOMAIN t, NEW key \in Bits,
           ~ IsPrefix(kept, key), NEW r, r \in {t, Resolve(d, t, kept)}
    PROVE  Way(r, key) = Way(t, key) /\ \A q \in Way(t, key) : r[q] = t[q]
<1>1. CASE r = t \/ t[kept].kind # "Unresolved"
    BY <1>1 DEF Resolve
<1>2. CASE r = Resolve(d, t, kept) /\ t[kept].kind = "Unresolved"
    <2> DEFINE new == Resolved(kept, StoredNode(d, t[kept].idx))
    <2>1. kept \in Bits /\ t[kept].idx \in Stored(d)
        BY <1>2 DEF Good, Tidy, FromStore
    <2>2. DOMAIN r = DOMAIN new \union DOMAIN t /\ \A q \in DOMAIN r : q \notin DOMAIN new => r[q] = t[q]
        BY <1>2 DEF Resolve, Over
    <2>3. kept \in DOMAIN new /\ \A c \in DOMAIN new : c # kept => IsPrefix(kept, c) /\ c \in Bits
        BY <2>1, ResolvedShape
    <2> HIDE DEF new
    <2>4. \A c \in DOMAIN new : ~ IsPrefix(c, key)
        <3> SUFFICES ASSUME NEW c \in DOMAIN new, IsPrefix(c, key) PROVE FALSE
            OBVIOUS
        <3>1. c # kept
            OBVIOUS
        <3>2. IsPrefix(kept, key)
            BY <2>1, <2>3, <3>1, PrefixOn
        <3> QED
            BY <3>2
    <2> QED
        BY <2>2, <2>4 DEF Way
<1> QED
    BY <1>1, <1>2

LEMMA SetMeans ==
    ASSUME NEW d, NEW t, NEW C, NEW H, Means(d, t, C, H), NEW leaf \in Item, Len(leaf.key) = H,
           WayResolved(t, leaf.key), leaf.value # Zero
    PROVE  SetTo(d, SetLeaf(t, leaf.key), C, H, leaf)
<1> DEFINE key == leaf.key
           u == SetLeaf(t, key)
           e == Deepest(Way(t, key))
<1>1. key \in Bits /\ key # <<>> /\ leaf.value \in Nat
    BY ItemIs
<1>2. Good(d, t) /\ H \in Nat /\ \A p \in DOMAIN t : Len(p) <= H /\ p \in Bits /\ t[p] \in TreeNode
    BY MeansTree DEF Means
<1>3. Leaf.kind = "Leaf" /\ \A p : Edge(p).kind = "Edge"
    BY DEF Leaf, Edge
<1> HIDE DEF key, u, e
<1>4. ASSUME Good(d, u), \A p \in DOMAIN u : Len(p) <= H, Rewrites(t, u, leaf)
      PROVE  SetTo(d, SetLeaf(t, leaf.key), C, H, leaf)
    <2>1. SetTo(d, u, C, H, leaf)
        BY <1>4, Rewritten
    <2> QED
        BY <2>1 DEF u, key
<1>5. CASE t = NoTree
    <2>1. u = [p \in {<<>>, key} |-> IF p = key THEN Leaf ELSE Edge(key)]
        BY <1>5 DEF SetLeaf, u
    <2>2. Good(d, u)
        BY <1>1, <2>1, FirstLeafGood
    <2>3. DOMAIN u = {<<>>, key} /\ u[key] = Leaf /\ u[<<>>] = Edge(key)
        BY <1>1, <2>1
    <2>4. Ends(u) = {key}
        BY <1>1, <1>3, <2>3 DEF Ends
    <2>5. Ends(t) = {}
        BY <1>5 DEF Ends, NoTree
    <2>6. Rewrites(t, u, leaf)
        BY <2>3, <2>4, <2>5 DEF Rewrites, key
    <2>7. \A p \in DOMAIN u : Len(p) <= H
        BY <1>2, <2>3, EmptyBits DEF key
    <2> QED
        BY <1>4, <2>2, <2>6, <2>7
<1>6. CASE t # NoTree
    <2>1. /\ e \in DOMAIN t /\ IsPrefix(e, key) /\ \A q \in Way(t, key) : Len(q) <= Len(e)
          /\ \/ t[e].kind = "Leaf" /\ e = key
             \/ t[e].kind = "Edge" /\ Len(e) + Len(t[e].path) <= Len(key)
        BY <1>1, <1>6, EndMeans DEF e, key
    <2>2. u = CASE t[e].kind = "Leaf" /\ e = key -> t
               [] t[e].kind = "Edge" /\ Len(e) + Len(t[e].path) <= Len(key) -> SplitEdge(t, e, key)
               [] OTHER -> Broken
        BY <1>6 DEF SetLeaf, u, e
    <2>3. CASE t[e].kind = "Leaf" /\ e = key
        <3>1. u = t
            BY <2>2, <2>3
        <3>2. key \in Ends(t) /\ t[key] = Leaf
            BY <1>2, <2>1, <2>3, NodeKinds DEF Ends
        <3>3. Rewrites(t, u, leaf)
            BY <3>1, <3>2 DEF Rewrites, key
        <3> QED
            BY <1>2, <1>4, <3>1, <3>3
    <2>4. CASE t[e].kind = "Edge" /\ Len(e) + Len(t[e].path) <= Len(key)
        <3>1. u = SplitEdge(t, e, key)
            BY <2>2, <2>4
        <3>2. Good(d, u) /\ SplitAt(t, e, key, u)
            BY <1>1, <1>2, <2>1, <2>4, <3>1, SplitGood
        <3>3. /\ DOMAIN t \subseteq DOMAIN u /\ key \in DOMAIN u /\ u[key] = Leaf
              /\ u[e].kind \in {"Binary", "Edge"} /\ \A a \in DOMAIN t : a # e => u[a] = t[a]
              /\ \A p \in DOMAIN u : p \notin DOMAIN t =>
                    Len(p) <= Len(key) /\ (p # key => u[p].kind \in {"Binary", "Edge"})
            BY <3>2 DEF SplitAt
        <3>4. \A p \in DOMAIN u : Len(p) <= H
            BY <1>2, <3>3 DEF key
        <3>5. ASSUME NEW q \in Ends(u), q # key PROVE q \in Ends(t) /\ u[q] = t[q]
            BY <3>3, <3>5 DEF Ends
        <3>6. ASSUME NEW q \in Ends(t), q # key PROVE q \in Ends(u)
            BY <2>4, <3>3, <3>6 DEF Ends
        <3>7. key \in Ends(u)
            BY <1>3, <3>3 DEF Ends
        <3>8. Rewrites(t, u, leaf)
            BY <3>3, <3>5, <3>6, <3>7 DEF Rewrites, key
        <3> QED
            BY <1>4, <3>2, <3>4, <3>8
    <2> QED
        BY <2>1, <2>3, <2>4
<1> QED
    BY <1>5, <1>6

(* The Binary above the leaf is cut away. *)
LEMMA CutMeans ==
    ASSUME NEW d, TrueTables(d), NEW t, NEW C, NEW H, Means(d, t, C, H),
           NEW leaf \in Item, Len(leaf.key) = H, leaf.value = Zero,
           WayResolved(t, leaf.key), leaf.key \in Ends(t), NEW u, Good(d, u),
           NEW rest, NEW b, NEW cut, NEW kept, NEW far, NEW top,
           CutAt(d, t, leaf.key, rest, b, cut, kept, far, top, u)
    PROVE  SetTo(d, u, C, H, leaf)
<1> DEFINE key == leaf.key
<1>1. key \in Bits /\ GoodTables(d) /\ Good(d, t)
    BY ItemIs DEF TrueTables, Means
<1>2. /\ rest \in {t, Resolve(d, t, kept)} /\ Good(d, rest) /\ kept \in DOMAIN t
      /\ cut \in DOMAIN t /\ cut \in Bits /\ b # cut /\ IsPrefix(b, cut)
      /\ IsPrefix(cut, key) /\ ~ IsPrefix(kept, key)
      /\ \A p \in Way(t, key) : t[p].kind = "Binary" => Len(p) <= Len(b)
      /\ CutsTo(rest, b, cut, kept, far, top, u) /\ u[top].kind = "Edge"
      /\ far # kept => rest[kept].kind = "Edge"
    BY DEF CutAt
<1>3. /\ b \in DOMAIN rest /\ rest[b].kind = "Binary"
      /\ top \in DOMAIN rest /\ (top # b => Under(top, rest[top]) = {b})
      /\ DOMAIN u = (DOMAIN rest \ Gone(rest, b, cut, kept, far)) \union {top}
      /\ \A p \in DOMAIN u : p # top => u[p] = rest[p]
    BY <1>2 DEF CutsTo
<1> HIDE DEF key
<1>4. Means(d, rest, C, H)
    <2>1. Means(d, Resolve(d, t, kept), C, H)
        BY <1>2, ResolveMeans
    <2> QED
        BY <1>2, <2>1
<1>5. Tidy(rest) /\ H \in Nat /\ \A p \in DOMAIN rest : rest[p] \in TreeNode /\ p \in Bits /\ Len(p) <= H /\ Len(p) \in Nat
    BY <1>4, MeansTree
<1>6. Way(rest, key) = Way(t, key) /\ \A q \in Way(t, key) : rest[q] = t[q]
    BY <1>1, <1>2, WayKept
<1>7. WayResolved(rest, key)
    BY <1>6 DEF WayResolved, key
<1>8. key \in Ends(rest) /\ cut \in DOMAIN rest
    <2>1. key \in Way(t, key) /\ cut \in Way(t, key)
        BY <1>1, <1>2, PrefixSelf DEF Way, Ends, key
    <2> QED
        BY <1>6, <2>1 DEF Ends, Way, key
<1>9. ASSUME NEW p \in Way(rest, key), IsPrefix(cut, p) PROVE rest[p].kind # "Binary"
    <2>1. p \in DOMAIN rest /\ p \in Bits /\ Len(p) \in Nat
        BY <1>5 DEF Way
    <2>2. Len(cut) <= Len(p)
        BY <1>2, <1>9, <2>1, PrefixOrder
    <2>3. Len(b) < Len(cut) /\ Len(b) \in Nat /\ Len(cut) \in Nat
        BY <1>2, <1>3, <1>5, <1>8, PrefixOrder
    <2>4. t[p].kind = "Binary" => Len(p) <= Len(b)
        BY <1>2, <1>6
    <2> QED
        BY <1>6, <2>1, <2>2, <2>3, <2>4
<1>10. \A q \in Ends(rest) : IsPrefix(cut, q) => q = key
    BY <1>2, <1>5, <1>8, <1>9, OnlyEnd
<1>11. top \notin Ends(rest) /\ b \notin Ends(rest) /\ (far # kept => kept \notin Ends(rest))
    <2>1. top # b => rest[top].kind \in {"Binary", "Edge"}
        BY <1>3, <1>5, UnderIs
    <2> QED
        BY <1>2, <1>3, <2>1 DEF Ends
<1>12. ASSUME NEW q \in Ends(u) PROVE q # key /\ q \in Ends(rest) /\ u[q] = rest[q]
    <2>1. q \in DOMAIN u /\ q # top
        BY <1>2 DEF Ends
    <2>2. q \in DOMAIN rest /\ q \notin Gone(rest, b, cut, kept, far) /\ u[q] = rest[q]
        BY <1>3, <2>1
    <2>3. q # key
        BY <1>2, <2>2 DEF Gone
    <2> QED
        BY <2>2, <2>3 DEF Ends
<1>13. ASSUME NEW q \in Ends(rest), q # key PROVE q \in Ends(u)
    <2>1. q \in DOMAIN rest /\ ~ IsPrefix(cut, q) /\ q # top /\ q # b /\ q \notin {kept} \ {far}
        BY <1>10, <1>11, <1>13 DEF Ends
    <2>2. q \in DOMAIN u /\ u[q] = rest[q]
        BY <1>3, <2>1 DEF Gone
    <2> QED
        BY <2>2 DEF Ends
<1>14. Rewrites(rest, u, leaf)
    BY <1>12, <1>13 DEF Rewrites, key
<1>15. \A p \in DOMAIN u : Len(p) <= H
    BY <1>3, <1>5
<1> QED
    BY <1>4, <1>7, <1>14, <1>15, Rewritten DEF key

LEMMA DeleteMeans ==
    ASSUME NEW d, TrueTables(d), NEW t, NEW C, NEW H, Means(d, t, C, H),
           NEW leaf \in Item, Len(leaf.key) = H, leaf.value = Zero, WayResolved(t, leaf.key)
    PROVE  SetTo(d, DeleteLeaf(d, t, leaf.key), C, H, leaf)
<1> DEFINE key == leaf.key
           u == DeleteLeaf(d, t, key)
           e == Deepest(Way(t, key))
<1>1. key \in Bits /\ key # <<>> /\ leaf.value \in Nat
    BY ItemIs
<1>2. Good(d, t) /\ Tidy(t) /\ H \in Nat /\ \A p \in DOMAIN t : Len(p) <= H /\ p \in Bits /\ t[p] \in TreeNode /\ Len(p) \in Nat
    BY MeansTree DEF Means
<1>3. GoodTables(d) /\ t \in Trees(d)
    BY <1>2, TreesAre DEF TrueTables
<1> HIDE DEF key, u, e
<1>4. ASSUME Good(d, u), \A p \in DOMAIN u : Len(p) <= H, Rewrites(t, u, leaf)
      PROVE  SetTo(d, DeleteLeaf(d, t, leaf.key), C, H, leaf)
    <2>1. SetTo(d, u, C, H, leaf)
        BY <1>4, Rewritten
    <2> QED
        BY <2>1 DEF u, key
<1>5. CASE t = NoTree
    <2>1. u = t
        BY <1>5 DEF DeleteLeaf, u
    <2>2. Ends(t) = {}
        BY <1>5 DEF Ends, NoTree
    <2>3. Rewrites(t, u, leaf)
        BY <2>1, <2>2 DEF Rewrites
    <2> QED
        BY <1>2, <1>4, <2>1, <2>3
<1>6. CASE t # NoTree
    <2>1. /\ e \in DOMAIN t /\ IsPrefix(e, key) /\ \A q \in Way(t, key) : Len(q) <= Len(e)
          /\ \/ t[e].kind = "Leaf" /\ e = key
             \/ t[e].kind = "Edge" /\ Len(e) + Len(t[e].path) <= Len(key)
        BY <1>1, <1>6, EndMeans DEF e, key
    <2>2. u = CASE t[e].kind = "Leaf" /\ e = key ->
                     IF \E p \in Way(t, key) : t[p].kind = "Binary"
                     THEN CutLeaf(d, t, key) ELSE NoTree
               [] t[e].kind = "Edge" /\ Len(e) + Len(t[e].path) <= Len(key) -> t
               [] OTHER -> Broken
        BY <1>6 DEF DeleteLeaf, u, e
    <2>3. CASE t[e].kind = "Edge" /\ Len(e) + Len(t[e].path) <= Len(key)
        <3>1. u = t
            BY <2>2, <2>3
        <3>2. t[e].path \in Bits /\ t[e].path # <<>>
            BY <1>2, <2>1, <2>3, NodeKinds
        <3>3. Len(t[e].path) \in Nat /\ Len(t[e].path) # 0
            BY <3>2, BitsAre, EmptySeq DEF Bits
        <3>4. key \notin DOMAIN t
            <4> SUFFICES ASSUME key \in DOMAIN t PROVE FALSE
                OBVIOUS
            <4>1. key \in Way(t, key)
                BY <1>1, PrefixSelf DEF Way
            <4>2. Len(key) <= Len(e) /\ Len(key) \in Nat /\ Len(e) \in Nat
                BY <1>1, <1>2, <2>1, <4>1, BitsAre
            <4> QED
                BY <2>3, <3>3, <4>2
        <3>5. Rewrites(t, u, leaf)
            BY <3>1, <3>4 DEF Rewrites, Ends, key
        <3> QED
            BY <1>2, <1>4, <3>1, <3>5
    <2>4. CASE t[e].kind = "Leaf" /\ e = key
        <3>1. key \in Ends(t) /\ key \in DOMAIN t /\ t[key] = Leaf
            BY <1>2, <2>1, <2>4, NodeKinds DEF Ends
        <3>2. CASE \E p \in Way(t, key) : t[p].kind = "Binary"
            <4>1. u = CutLeaf(d, t, key)
                BY <2>2, <2>4, <3>2
            <4>2. /\ Good(d, CutLeaf(d, t, key))
                  /\ \E rest, b, cut, kept, far, top : CutAt(d, t, key, rest, b, cut, kept, far, top, CutLeaf(d, t, key))
                BY <1>1, <1>2, <1>3, <3>1, <3>2, CutLeafGood
            <4>3. Good(d, u) /\ \E rest, b, cut, kept, far, top : CutAt(d, t, leaf.key, rest, b, cut, kept, far, top, u)
                BY <4>1, <4>2 DEF key
            <4>4. leaf.key \in Ends(t)
                BY <3>1 DEF key
            <4>5. SetTo(d, u, C, H, leaf)
                BY <4>3, <4>4, CutMeans
            <4> QED
                BY <4>5 DEF u, key
        <3>3. CASE ~ \E p \in Way(t, key) : t[p].kind = "Binary"
            <4>1. u = NoTree
                BY <2>2, <2>4, <3>3
            <4>2. <<>> \in DOMAIN t /\ IsPrefix(<<>>, key)
                BY <1>1, <1>2, <3>1, EmptyPrefix DEF Tidy
            <4>3. \A q \in Ends(t) : IsPrefix(<<>>, q)
                BY <1>2, EmptyPrefix DEF Ends
            <4>4. \A q \in Ends(t) : q = key
                BY <1>2, <3>1, <3>3, <4>2, <4>3, OnlyEnd
            <4>5. DOMAIN u = {} /\ Ends(u) = {}
                BY <4>1 DEF NoTree, Ends
            <4>6. Good(d, u)
                <5>1. Broken # NoTree
                    BY <1>1, BrokenIs
                <5>2. u \in Trees(d)
                    BY <1>1, <1>3, DeleteLeafGood DEF u
                <5> QED
                    BY <4>1, <5>1, <5>2, TreesAre
            <4>7. Rewrites(t, u, leaf)
                BY <4>4, <4>5 DEF Rewrites, key
            <4> QED
                BY <1>4, <4>5, <4>6, <4>7
        <3> QED
            BY <3>2, <3>3
    <2> QED
        BY <2>1, <2>3, <2>4
<1> QED
    BY <1>5, <1>6

LEMMA SetInTreeMeans ==
    ASSUME NEW d, TrueTables(d), NEW t, NEW C, NEW H, Means(d, t, C, H),
           NEW leaf \in Item, Len(leaf.key) = H
    PROVE  SetTo(d, SetInTree(d, t, leaf), C, H, leaf)
<1> DEFINE u == Traverse(d, t, leaf.key)
<1>1. leaf.key \in Bits
    BY ItemIs
<1>2. Means(d, u, C, H) /\ WayResolved(u, leaf.key)
    BY <1>1, TraverseMeans DEF WayResolved
<1>3. SetInTree(d, t, leaf) = IF leaf.value = Zero THEN DeleteLeaf(d, u, leaf.key) ELSE SetLeaf(u, leaf.key)
    BY TheOne DEF SetInTree
<1> HIDE DEF u
<1>4. CASE leaf.value = Zero
    <2>1. SetTo(d, DeleteLeaf(d, u, leaf.key), C, H, leaf)
        BY <1>2, <1>4, DeleteMeans
    <2> QED
        BY <1>3, <1>4, <2>1
<1>5. CASE leaf.value # Zero
    <2>1. SetTo(d, SetLeaf(u, leaf.key), C, H, leaf)
        BY <1>2, <1>5, SetMeans
    <2> QED
        BY <1>3, <1>5, <2>1
<1> QED
    BY <1>4, <1>5

LEMMA EmptyMeans ==
    ASSUME NEW d, TrueTables(d), NEW H \in Nat
    PROVE  Means(d, OpenTree(0), {}, H)
<1>1. OpenTree(0) = NoTree /\ DOMAIN NoTree = {}
    BY DEF OpenTree, NoTree
<1>2. GoodTables(d) /\ NoTree \in Trees(d)
    BY <1>1, OpenTreeGood DEF TrueTables
<1>3. NoTree # Broken
    BY EmptyBits, BrokenIs
<1>4. Good(d, NoTree)
    BY <1>2, <1>3, TreesAre
<1>5. WholeKeys({}, H)
    BY DEF WholeKeys, Hash
<1> QED
    BY <1>1, <1>4, <1>5 DEF Means, Covers

(* A tree that is opened stands for the content its root is the hash of. *)
LEMMA OpenMeans ==
    ASSUME NEW d, TrueTables(d), NEW idx \in Stored(d), NEW H \in Nat, WholeKeys(StoredHash(d, idx), H)
    PROVE  Means(d, OpenTree(idx), StoredHash(d, idx), H)
<1> DEFINE C == StoredHash(d, idx)
           t == OpenTree(idx)
<1>1. GoodTables(d) /\ idx # 0 /\ t \in Trees(d) /\ C \in Hash
    BY OpenTreeGood, StoredRow DEF TrueTables
<1>2. t = [p \in {<<>>} |-> Unresolved(idx)]
    BY <1>1 DEF OpenTree
<1>3. DOMAIN t = {<<>>} /\ t[<<>>].kind = "Unresolved" /\ t[<<>>].idx = idx
    BY <1>2 DEF Unresolved
<1>4. t # Broken
    BY <1>3, EmptyBits, BrokenIs
<1>5. Good(d, t)
    BY <1>1, <1>4, TreesAre
<1>6. Below(C, <<>>) = C
    BY <1>1, BelowNothing
<1> HIDE DEF C, t
<1>7. WholeKeys(C, H) /\ StoredHash(d, idx) = C
    BY DEF C
<1>8. <<>> \in Ends(t) /\ \A e \in C : IsPrefix(<<>>, e[1])
    BY <1>1, <1>3, PairsOf, EmptyPrefix DEF Ends
<1>9. Covers(t, C)
    BY <1>8 DEF Covers
<1>10. Means(d, t, C, H)
    BY <1>3, <1>5, <1>6, <1>7, <1>9, EmptyBits DEF Means
<1> QED
    BY <1>10 DEF t, C

(* Something lies below every place of the tree. *)
LEMMA PlaceNonEmpty ==
    ASSUME NEW d, TrueTables(d), NEW t, NEW C, NEW H, Means(d, t, C, H), NEW p \in DOMAIN t
    PROVE  Below(C, p) # {}
<1>1. /\ Tidy(t) /\ Closed(t) /\ Good(d, t) /\ C \in Hash /\ H \in Nat
      /\ \A q \in DOMAIN t : t[q] \in TreeNode /\ q \in Bits /\ Len(q) <= H /\ Len(q) \in Nat
    BY MeansTree DEF Means
<1> DEFINE P == {q \in DOMAIN t : IsPrefix(p, q)}
           x == Deepest(P)
<1>2. p \in P
    BY <1>1, PrefixSelf
<1>3. \A q \in P : Len(q) \in 0..H
    BY <1>1
<1>4. x \in P /\ \A q \in P : Len(q) <= Len(x)
    BY <1>1, <1>2, <1>3, DeepestIs
<1> HIDE DEF x
<1>5. x \in DOMAIN t /\ x \in Bits /\ t[x] \in TreeNode /\ IsPrefix(p, x) /\ p \in Bits
    BY <1>1, <1>4
<1>6. Under(x, t[x]) = {}
    <2> SUFFICES ASSUME NEW c \in Under(x, t[x]) PROVE FALSE
        OBVIOUS
    <2>1. c \in DOMAIN t /\ c \in Bits /\ IsPrefix(x, c) /\ c # x
        BY <1>1, <1>5, UnderIs DEF Closed
    <2>2. c \in P
        BY <1>5, <2>1, PrefixOn
    <2>3. Len(c) <= Len(x) /\ Len(x) < Len(c) /\ Len(x) \in Nat /\ Len(c) \in Nat
        BY <1>1, <1>4, <1>5, <2>1, <2>2, PrefixOrder
    <2> QED
        BY <2>3
<1>7. t[x].kind \in {"Leaf", "Unresolved"}
    <2>1. t[x].kind = "Binary" => Append(x, 0) \in Under(x, t[x])
        BY DEF Under
    <2>2. t[x].kind = "Edge" => x \o t[x].path \in Under(x, t[x])
        BY DEF Under
    <2> QED
        BY <1>5, <1>6, <2>1, <2>2, NodeKinds
<1>8. \E e \in C : IsPrefix(x, e[1])
    <2>1. CASE t[x].kind = "Leaf"
        <3>1. PICK e \in C : e[1] = x
            BY <1>5, <2>1 DEF Means, LeafIsKey
        <3> QED
            BY <1>5, <3>1, PrefixSelf
    <2>2. CASE t[x].kind = "Unresolved"
        <3>1. t[x].idx \in Stored(d) /\ StoredHash(d, t[x].idx) = Below(C, x)
            BY <1>1, <1>5, <2>2 DEF Means, Good, FromStore
        <3>2. Below(C, x) # {}
            BY <3>1 DEF TrueTables
        <3> QED
            BY <3>2 DEF Below
    <2> QED
        BY <1>7, <2>1, <2>2
<1>9. PICK e \in C : IsPrefix(x, e[1])
    BY <1>8
<1>10. IsPrefix(p, e[1])
    BY <1>1, <1>5, <1>9, PairsOf, PrefixOn
<1> QED
    BY <1>10 DEF Below

(* A node in storage is above the leaves. *)
LEMMA UnresolvedAbove ==
    ASSUME NEW d, TrueTables(d), NEW t, NEW C, NEW H, Means(d, t, C, H), NEW p \in DOMAIN t,
           t[p].kind = "Unresolved"
    PROVE  Len(p) < H
<1>1. /\ C \in Hash /\ H \in Nat /\ p \in Bits /\ Len(p) <= H /\ Len(p) \in Nat
      /\ GoodTables(d) /\ \A e \in C : Len(e[1]) = H
    BY MeansTree DEF TrueTables
<1>2. SUFFICES ASSUME Len(p) = H PROVE FALSE
    BY <1>1
<1> DEFINE idx == t[p].idx
           data == StoredNode(d, idx)
           new == Resolved(p, data)
<1>3. idx \in Stored(d) /\ Below(C, p) = StoredHash(d, idx)
    BY DEF Means, Good, FromStore
<1>4. PICK e \in C : IsPrefix(p, e[1])
    <2>1. Below(C, p) # {}
        BY PlaceNonEmpty
    <2> QED
        BY <2>1 DEF Below
<1>5. PICK c \in DOMAIN new : c # p /\ IsPrefix(c, e[1])
    BY <1>1, <1>3, <1>4, ResolvedCovers
<1>6. IsPrefix(p, c) /\ c \in Bits
    BY <1>1, <1>3, <1>5, ResolvedShape
<1>7. e[1] \in Bits /\ Len(e[1]) = H
    BY <1>1, PairsOf
<1>8. Len(p) < Len(c) /\ Len(c) <= Len(e[1])
    BY <1>1, <1>5, <1>6, <1>7, PrefixOrder
<1> QED
    BY <1>1, <1>2, <1>6, <1>7, <1>8, BitsAre

(* A leaf stands beside a leaf. *)
LEMMA LeavesLevel ==
    ASSUME NEW d, TrueTables(d), NEW t, NEW C, NEW H, Means(d, t, C, H), NEW p \in DOMAIN t
    PROVE  t[p].kind = "Leaf" <=> Len(p) = H
<1>1. /\ Tidy(t) /\ C \in Hash /\ H \in Nat /\ p \in Bits /\ t[p] \in TreeNode
      /\ \A e \in C : Len(e[1]) = H
      /\ \A q \in DOMAIN t : q \in Bits /\ Len(q) <= H /\ Len(q) \in Nat
    BY MeansTree
<1>2. ASSUME t[p].kind = "Leaf" PROVE Len(p) = H
    BY <1>1, <1>2 DEF Means, LeafIsKey
<1>3. ASSUME Len(p) = H, t[p].kind # "Leaf" PROVE FALSE
    <2>1. t[p].kind # "Unresolved"
        BY <1>1, <1>3, UnresolvedAbove
    <2>2. PICK c : c \in Under(p, t[p])
        <3>1. t[p].kind = "Binary" => Append(p, 0) \in Under(p, t[p])
            BY DEF Under
        <3>2. t[p].kind = "Edge" => p \o t[p].path \in Under(p, t[p])
            BY DEF Under
        <3> QED
            BY <1>1, <1>3, <2>1, <3>1, <3>2, NodeKinds
    <2>3. c \in DOMAIN t /\ c \in Bits /\ IsPrefix(p, c) /\ c # p
        BY <1>1, <2>2, UnderIs DEF Tidy, Closed
    <2>4. Len(p) < Len(c)
        BY <1>1, <2>3, PrefixOrder
    <2> QED
        BY <1>1, <1>3, <2>3, <2>4
<1> QED
    BY <1>2, <1>3

(* The values commit takes for the leaves are those of the content. *)
ValuesOf(d, max, items, C) == \A e \in C : LeafValue(d, max, items, e[1]) = e[2]

LEMMA LeafBelow ==
    ASSUME NEW C, NEW H, WholeKeys(C, H), NEW e \in C
    PROVE  Below(C, e[1]) = LeafHash(e[2])
<1>1. C \in Hash /\ e[1] \in Bits /\ e[2] \in Nat /\ e = <<e[1], e[2]>> /\ Len(e[1]) = H
    BY PairsOf DEF WholeKeys
<1>2. Below(C, e[1]) \in Hash /\ LeafHash(e[2]) \in Hash
    BY <1>1, BelowIs, LeafHashIs
<1>3. ASSUME NEW q \in Bits, NEW v \in Nat PROVE <<q, v>> \in Below(C, e[1]) <=> <<q, v>> \in LeafHash(e[2])
    <2>1. <<q, v>> \in Below(C, e[1]) <=> <<e[1] \o q, v>> \in C
        BY <1>1, BelowIs
    <2>2. <<q, v>> \in LeafHash(e[2]) <=> q = <<>> /\ v = e[2]
        BY DEF LeafHash
    <2>3. e[1] \o <<>> = e[1]
        BY <1>1, ToEmpty
    <2>4. ASSUME <<e[1] \o q, v>> \in C PROVE q = <<>> /\ v = e[2]
        <3> DEFINE f == <<e[1] \o q, v>>
        <3>1. f \in C /\ f[1] = e[1] \o q /\ f[2] = v
            BY <2>4
        <3> HIDE DEF f
        <3>2. Len(e[1] \o q) = Len(e[1])
            BY <1>1, <3>1 DEF WholeKeys
        <3>3. Len(e[1] \o q) = Len(e[1]) + Len(q) /\ Len(q) \in Nat /\ Len(e[1]) \in Nat
            BY <1>1, Prolonged, BitsAre
        <3>4. q = <<>>
            BY <3>2, <3>3, EmptySeq DEF Bits
        <3>5. f = e
            BY <2>3, <3>1, <3>4 DEF WholeKeys
        <3> QED
            BY <3>1, <3>4, <3>5
    <2>5. ASSUME q = <<>>, v = e[2] PROVE <<e[1] \o q, v>> \in C
        BY <1>1, <2>3, <2>5
    <2> QED
        BY <2>1, <2>2, <2>4, <2>5
<1> QED
    BY <1>2, <1>3, SameHash

LEMMA EndHashMeans ==
    ASSUME NEW d, TrueTables(d), NEW t, NEW C, NEW H, Means(d, t, C, H),
           NEW items, NEW max, ValuesOf(d, max, items, C), NEW ends, ends = EndHashes(d, max, items, t)
    PROVE  DOMAIN ends = Ends(t) /\ \A q \in Ends(t) : ends[q] = Below(C, q)
<1>1. ends = [p \in Ends(t) |-> IF t[p].kind = "Leaf" THEN LeafHash(LeafValue(d, max, items, p))
                                ELSE StoredHash(d, t[p].idx)]
    BY DEF EndHashes
<1>2. ASSUME NEW q \in Ends(t) PROVE ends[q] = Below(C, q)
    <2>1. q \in DOMAIN t /\ t[q].kind \in {"Leaf", "Unresolved"}
        BY DEF Ends
    <2>2. CASE t[q].kind = "Leaf"
        <3>1. PICK e \in C : e[1] = q
            BY <2>1, <2>2 DEF Means, LeafIsKey
        <3>2. ends[q] = LeafHash(LeafValue(d, max, items, q))
            BY <1>1, <2>2
        <3>3. LeafValue(d, max, items, q) = e[2]
            BY <3>1 DEF ValuesOf
        <3>4. Below(C, q) = LeafHash(e[2])
            BY <3>1, LeafBelow DEF Means
        <3> QED
            BY <3>2, <3>3, <3>4
    <2>3. CASE t[q].kind = "Unresolved"
        BY <1>1, <2>1, <2>3 DEF Means
    <2> QED
        BY <2>1, <2>2, <2>3
<1> QED
    BY <1>1, <1>2

(* What the ends below a place commit to is what lies below it. *)
LEMMA HashAtMeans ==
    ASSUME NEW d, NEW t, NEW C, NEW H, Means(d, t, C, H), NEW ends, DOMAIN ends = Ends(t),
           \A q \in Ends(t) : ends[q] = Below(C, q), NEW p \in Bits,
           \A x \in Ends(t) : IsPrefix(x, p) => x = p
    PROVE  HashAt(ends, p) = Below(C, p)
<1>1. C \in Hash /\ Ends(t) \subseteq Bits /\ Covers(t, C)
    BY MeansTree DEF Means, Ends
<1>2. \A x \in Ends(t) : Below(C, x) \in Hash
    BY <1>1, BelowIs
<1>3. HashAt(ends, p) \in Hash /\ Below(C, p) \in Hash
    BY <1>1, <1>2, HashAtIs, BelowIs
<1>4. \A q, v : <<q, v>> \in HashAt(ends, p)
         <=> \E x \in Ends(t) : IsPrefix(p, x) /\ <<q, v>> \in EdgeHash(Drop(x, Len(p)), Below(C, x))
    BY DEF HashAt
<1>5. ASSUME NEW q \in Bits, NEW v \in Nat, NEW x \in Ends(t), IsPrefix(p, x)
      PROVE  <<q, v>> \in EdgeHash(Drop(x, Len(p)), Below(C, x)) <=> IsPrefix(x, p \o q) /\ <<p \o q, v>> \in C
    <2> DEFINE s == Drop(x, Len(p))
    <2>1. s \in Bits /\ p \o s = x /\ x \in Bits /\ Below(C, x) \in Hash
        BY <1>1, <1>2, <1>5, Dropped
    <2> HIDE DEF s
    <2>2. <<q, v>> \in EdgeHash(s, Below(C, x)) <=> IsPrefix(s, q) /\ <<Drop(q, Len(s)), v>> \in Below(C, x)
        BY <2>1, EdgeMember
    <2>3. IsPrefix(s, q) <=> IsPrefix(x, p \o q)
        BY <2>1, PrefixJoined
    <2>4. ASSUME IsPrefix(s, q) PROVE <<Drop(q, Len(s)), v>> \in Below(C, x) <=> <<p \o q, v>> \in C
        <3> DEFINE r == Drop(q, Len(s))
        <3>1. r \in Bits /\ s \o r = q
            BY <2>1, <2>4, Dropped
        <3> HIDE DEF r
        <3>2. <<r, v>> \in Below(C, x) <=> <<x \o r, v>> \in C
            BY <1>1, <2>1, <3>1, BelowIs
        <3>3. p \o (s \o r) = (p \o s) \o r
            <4>1. s \in Bits
                BY <2>1
            <4>2. r \in Bits
                BY <3>1
            <4>3. Regroups(p, s, r)
                BY <4>1, <4>2, Grouped
            <4> QED
                BY <4>3 DEF Regroups
        <3>4. x \o r = p \o q
            BY <2>1, <3>1, <3>3
        <3> QED
            BY <3>2, <3>4 DEF r
    <2> QED
        BY <2>2, <2>3, <2>4 DEF s
<1>6. ASSUME NEW q \in Bits, NEW v \in Nat PROVE <<q, v>> \in HashAt(ends, p) <=> <<q, v>> \in Below(C, p)
    <2>1. <<q, v>> \in Below(C, p) <=> <<p \o q, v>> \in C
        BY <1>1, BelowIs
    <2>2. ASSUME <<q, v>> \in HashAt(ends, p) PROVE <<p \o q, v>> \in C
        <3>1. PICK x \in Ends(t) : IsPrefix(p, x) /\ <<q, v>> \in EdgeHash(Drop(x, Len(p)), Below(C, x))
            BY <1>4, <2>2
        <3> QED
            BY <1>5, <3>1
    <2>3. ASSUME <<p \o q, v>> \in C PROVE <<q, v>> \in HashAt(ends, p)
        <3> DEFINE e == <<p \o q, v>>
        <3>1. e \in C /\ e[1] = p \o q
            BY <2>3
        <3> HIDE DEF e
        <3>2. PICK x \in Ends(t) : IsPrefix(x, p \o q)
            BY <1>1, <3>1 DEF Covers
        <3>3. IsPrefix(p, p \o q) /\ p \o q \in Bits /\ x \in Bits
            BY <1>1, Prolonged
        <3>4. IsPrefix(p, x)
            <4>1. IsPrefix(p, x) \/ IsPrefix(x, p)
                BY <3>2, <3>3, PrefixEither
            <4> QED
                BY <4>1, PrefixSelf
        <3>5. <<q, v>> \in EdgeHash(Drop(x, Len(p)), Below(C, x))
            BY <1>5, <2>3, <3>2, <3>4
        <3> QED
            BY <1>4, <3>4, <3>5
    <2> QED
        BY <2>1, <2>2, <2>3
<1> QED
    BY <1>3, <1>6, SameHash

(* What lies below an inner node lies below its children. *)
LEMMA InnerMeans ==
    ASSUME NEW d, NEW t, NEW C, NEW H, Means(d, t, C, H), NEW p \in InMemory(t)
    PROVE  /\ t[p].kind = "Binary" => Below(C, p) = BinaryHash(Below(C, Append(p, 0)), Below(C, Append(p, 1)))
           /\ t[p].kind = "Edge" => Below(C, p) = EdgeHash(t[p].path, Below(C, p \o t[p].path))
<1>1. /\ Tidy(t) /\ C \in Hash /\ H \in Nat /\ p \in DOMAIN t /\ p \in Bits /\ t[p] \in TreeNode
      /\ \A q \in DOMAIN t : q \in Bits
      /\ \A e \in C : e[1] \in Bits
    BY MeansTree DEF InMemory
<1>2. p \notin Ends(t)
    BY DEF InMemory, Ends
<1>3. ASSUME NEW e \in C, IsPrefix(p, e[1]) PROVE \E c \in Under(p, t[p]) : IsPrefix(c, e[1])
    <2>1. PICK x \in Ends(t) : IsPrefix(x, e[1])
        BY DEF Means, Covers
    <2>2. x \in DOMAIN t /\ x \in Bits /\ x # p
        BY <1>1, <1>2 DEF Ends
    <2>3. IsPrefix(p, x)
        <3>1. IsPrefix(p, x) \/ IsPrefix(x, p)
            BY <1>1, <1>3, <2>1, <2>2, PrefixEither
        <3>2. IsPrefix(x, p) => p = x
            BY <1>1, <2>1, EndIsLast
        <3> QED
            BY <2>2, <3>1, <3>2
    <2>4. PICK c \in Under(p, t[p]) : IsPrefix(c, x)
        BY <1>1, <2>2, <2>3 DEF Tidy, Laminar
    <2>5. c \in Bits
        BY <1>1, <2>4, UnderIs
    <2>6. IsPrefix(c, e[1])
        BY <1>1, <2>1, <2>2, <2>4, <2>5, PrefixOn
    <2> QED
        BY <2>4, <2>6
<1>4. CASE t[p].kind = "Binary"
    <2>1. Under(p, t[p]) = {Append(p, 0), Append(p, 1)}
        BY <1>1, <1>4, UnderIs
    <2>2. \A e \in C : IsPrefix(p, e[1]) => \E b \in {0, 1} : IsPrefix(Append(p, b), e[1])
        BY <1>3, <2>1
    <2>3. Below(C, p) = BinaryHash(Below(C, Append(p, 0)), Below(C, Append(p, 1)))
        BY <1>1, <2>2, BelowBinary
    <2> QED
        BY <1>4, <2>3
<1>5. CASE t[p].kind = "Edge"
    <2>1. Under(p, t[p]) = {p \o t[p].path} /\ t[p].path \in Bits
        BY <1>1, <1>5, UnderIs, NodeKinds
    <2>2. \A e \in C : IsPrefix(p, e[1]) => IsPrefix(p \o t[p].path, e[1])
        BY <1>3, <2>1
    <2>3. Below(C, p) = EdgeHash(t[p].path, Below(C, p \o t[p].path))
        BY <1>1, <2>1, <2>2, BelowEdge
    <2> QED
        BY <1>5, <2>3
<1> QED
    BY <1>4, <1>5 DEF InMemory

LEMMA PositionOne ==
    ASSUME NEW t, Tidy(t), NEW p \in InMemory(t), NEW q \in InMemory(t), Position(t, p) = Position(t, q)
    PROVE  p = q
<1> SUFFICES ASSUME p # q PROVE FALSE
    OBVIOUS
<1>1. p \in Bits /\ q \in Bits
    BY InMemoryIs
<1>2. Before(p, q) \/ Before(q, p)
    BY <1>1, BeforeTotal
<1>3. CASE Before(p, q)
    <2>1. Position(t, p) \in Nat /\ Position(t, q) \in Nat /\ Position(t, p) < Position(t, q)
        BY <1>3, PositionLess
    <2> QED
        BY <2>1
<1>4. CASE Before(q, p)
    <2>1. Position(t, p) \in Nat /\ Position(t, q) \in Nat /\ Position(t, q) < Position(t, p)
        BY <1>4, PositionLess
    <2> QED
        BY <2>1
<1> QED
    BY <1>2, <1>3, <1>4

(* The root is the last node. *)
LEMMA RootIsLast ==
    ASSUME NEW t, Tidy(t), <<>> \in InMemory(t)
    PROVE  Cardinality(InMemory(t)) \in Nat /\ Position(t, <<>>) + 1 = Cardinality(InMemory(t))
<1> DEFINE N == Cardinality(InMemory(t))
           r == Position(t, <<>>)
<1>1. N \in Nat /\ r \in 0..N - 1
    BY PositionIn
<1>2. N - 1 \in 0..N - 1
    BY <1>1
<1>3. PICK p \in InMemory(t) : Position(t, p) = N - 1
    BY <1>2, PositionOnto
<1> HIDE DEF N, r
<1>4. p = <<>>
    <2> SUFFICES ASSUME p # <<>> PROVE FALSE
        OBVIOUS
    <2>1. p \in Bits
        BY InMemoryIs
    <2>2. Before(p, <<>>)
        BY <2>1, EmptyPrefix, EmptyBits, BeforeIs
    <2>3. Position(t, p) \in Nat /\ r \in Nat /\ Position(t, p) < r
        BY <2>2, PositionLess DEF r
    <2> QED
        BY <1>1, <1>3, <2>3
<1>5. r = N - 1
    BY <1>3, <1>4 DEF r
<1>6. N \in Nat /\ r + 1 = N
    BY <1>1, <1>5
<1> QED
    BY <1>6 DEF r, N

(* The update: one node for every inner node in memory, at its position. *)
CommitsTo(t, ends, update) ==
    /\ update.ok /\ update.root_commitment = HashAt(ends, <<>>)
    /\ Len(update.nodes_added) = Cardinality(InMemory(t)) /\ Len(update.nodes_added) \in Nat
    /\ \A p \in InMemory(t) :
          /\ Position(t, p) + 1 \in 1..Len(update.nodes_added)
          /\ update.nodes_added[Position(t, p) + 1].hash = HashAt(ends, p)
          /\ update.nodes_added[Position(t, p) + 1].data = NodeData(t, p)
    /\ \A n \in 1..Len(update.nodes_added) : \E p \in InMemory(t) : n = Position(t, p) + 1

LEMMA CommitIs ==
    ASSUME NEW d, NEW max, NEW items, NEW t, Tidy(t), CanCommit(d, max, items, t)
    PROVE  CommitsTo(t, EndHashes(d, max, items, t), Commit(d, max, items, t))
<1> DEFINE ends == EndHashes(d, max, items, t)
           Node(p) == [hash |-> HashAt(ends, p), data |-> NodeData(t, p)]
           N == Cardinality(InMemory(t))
           At(n) == CHOOSE p \in InMemory(t) : Position(t, p) = n - 1
           nodes == [n \in 1..N |-> Node(At(n))]
           update == Commit(d, max, items, t)
<1>1. update = [ok |-> TRUE, root_commitment |-> HashAt(ends, <<>>), nodes_added |-> nodes]
    BY DEF Commit
<1>2. N \in Nat
    BY InMemoryIs, FS_CardinalityType
<1>3. \A p : Node(p).hash = HashAt(ends, p) /\ Node(p).data = NodeData(t, p)
    OBVIOUS
<1> HIDE DEF ends, Node, update
<1>4. ASSUME NEW p \in InMemory(t)
      PROVE  Position(t, p) + 1 \in 1..N /\ nodes[Position(t, p) + 1] = Node(p)
    <2> DEFINE n == Position(t, p) + 1
    <2>1. Position(t, p) \in 0..N - 1
        BY PositionIn
    <2>2. n \in 1..N /\ n - 1 = Position(t, p)
        BY <1>2, <2>1
    <2>3. At(n) \in InMemory(t) /\ Position(t, At(n)) = n - 1
        BY <2>2
    <2>4. nodes[n] = Node(At(n))
        BY <2>2
    <2> HIDE DEF At, n
    <2>5. At(n) = p
        BY <2>2, <2>3, PositionOne
    <2> QED
        BY <2>2, <2>4, <2>5 DEF n
<1>5. ASSUME NEW n \in 1..N PROVE \E p \in InMemory(t) : n = Position(t, p) + 1
    <2>1. n - 1 \in 0..N - 1
        BY <1>2
    <2>2. PICK p \in InMemory(t) : Position(t, p) = n - 1
        BY <2>1, PositionOnto
    <2> QED
        BY <1>2, <2>2
<1>6. Len(nodes) = N
    BY <1>2
<1> HIDE DEF nodes, N, At
<1>7. update.ok /\ update.root_commitment = HashAt(ends, <<>>) /\ update.nodes_added = nodes
    BY <1>1
<1>8. CommitsTo(t, ends, update)
    BY <1>2, <1>3, <1>4, <1>5, <1>6, <1>7 DEF CommitsTo, N
<1> QED
    BY <1>8 DEF ends, update

(* The hash behind a reference of an update. *)
RefHash(d, nodes, ref) == IF ref.at = "storage" THEN StoredHash(d, ref.idx) ELSE nodes[ref.idx + 1].hash

TrueAddedNode(d, nodes, hash, data) ==
    /\ data.kind = "Binary" => hash = BinaryHash(RefHash(d, nodes, data.left), RefHash(d, nodes, data.right))
    /\ data.kind = "Edge" => hash = EdgeHash(data.path, RefHash(d, nodes, data.child))
    /\ data.kind = "LeafBinary" => \E a, b \in Nat : hash = BinaryHash(LeafHash(a), LeafHash(b))
    /\ data.kind = "LeafEdge" => \E a \in Nat : hash = EdgeHash(data.path, LeafHash(a))

(* The nodes of an update: true to their hashes, the last one is the root   *)
(* and the only one whose hash covers whole keys.                           *)
TrueAdded(d, nodes, C, H) ==
    /\ \A n \in 1..Len(nodes) :
          /\ nodes[n].hash # {} /\ TrueAddedNode(d, nodes, nodes[n].hash, nodes[n].data)
          /\ n # Len(nodes) => \A e \in nodes[n].hash : Len(e[1]) < H
    /\ Len(nodes) = 0 <=> C = {}
    /\ Len(nodes) # 0 => nodes[Len(nodes)].hash = C

LEMMA LeafHashBelow ==
    ASSUME NEW d, NEW t, NEW C, NEW H, Means(d, t, C, H), NEW q \in DOMAIN t, t[q].kind = "Leaf"
    PROVE  \E a \in Nat : Below(C, q) = LeafHash(a)
<1>1. WholeKeys(C, H) /\ C \in Hash /\ LeafIsKey(C, q)
    BY DEF Means, WholeKeys
<1>2. PICK e \in C : e[1] = q
    BY <1>1 DEF LeafIsKey
<1>3. Below(C, q) = LeafHash(e[2]) /\ e[2] \in Nat
    BY <1>1, <1>2, LeafBelow, PairsOf
<1> QED
    BY <1>3

LEMMA RefHashMeans ==
    ASSUME NEW d, NEW t, NEW C, NEW H, Means(d, t, C, H), NEW nodes,
           \A q \in InMemory(t) : nodes[Position(t, q) + 1].hash = Below(C, q),
           NEW c \in DOMAIN t, t[c].kind # "Leaf"
    PROVE  RefHash(d, nodes, Ref(t, c)) = Below(C, c)
<1>1. t[c] \in TreeNode
    BY MeansTree
<1>2. CASE t[c].kind = "Unresolved"
    <2>1. Ref(t, c) = StorageIndex(t[c].idx)
        BY <1>2 DEF Ref
    <2>2. StoredHash(d, t[c].idx) = Below(C, c)
        BY <1>2 DEF Means
    <2> QED
        BY <2>1, <2>2 DEF RefHash, StorageIndex
<1>3. CASE t[c].kind # "Unresolved"
    <2>1. Ref(t, c) = Index(Position(t, c))
        BY <1>3 DEF Ref
    <2>2. c \in InMemory(t)
        BY <1>1, <1>3, NodeKinds DEF InMemory
    <2> QED
        BY <2>1, <2>2 DEF RefHash, Index
<1> QED
    BY <1>2, <1>3

LEMMA SiblingLeaves ==
    ASSUME NEW d, TrueTables(d), NEW t, NEW C, NEW H, Means(d, t, C, H), NEW p \in DOMAIN t, t[p].kind = "Binary"
    PROVE  t[Append(p, 0)].kind = "Leaf" <=> t[Append(p, 1)].kind = "Leaf"
<1> DEFINE l == Append(p, 0)
           r == Append(p, 1)
<1>1. p \in Bits /\ Closed(t)
    BY MeansTree
<1>2. l \in Under(p, t[p]) /\ r \in Under(p, t[p])
    BY DEF Under
<1>3. l \in DOMAIN t /\ r \in DOMAIN t
    BY <1>1, <1>2 DEF Closed
<1>4. Len(l) = Len(r)
    BY <1>1, NextBit
<1> HIDE DEF l, r
<1>5. t[l].kind = "Leaf" <=> Len(l) = H
    BY <1>3, LeavesLevel
<1>6. t[r].kind = "Leaf" <=> Len(r) = H
    BY <1>3, LeavesLevel
<1> QED
    BY <1>4, <1>5, <1>6 DEF l, r

LEMMA NodeMeans ==
    ASSUME NEW d, TrueTables(d), NEW t, NEW C, NEW H, Means(d, t, C, H), NEW nodes,
           \A q \in InMemory(t) : nodes[Position(t, q) + 1].hash = Below(C, q),
           NEW p \in InMemory(t)
    PROVE  TrueAddedNode(d, nodes, Below(C, p), NodeData(t, p))
<1>1. /\ Tidy(t) /\ p \in DOMAIN t /\ p \in Bits /\ t[p] \in TreeNode /\ t[p].kind \in {"Binary", "Edge"}
    BY MeansTree DEF InMemory
<1>2. \A c \in Under(p, t[p]) : c \in DOMAIN t
    BY <1>1 DEF Tidy, Closed
<1>3. CASE t[p].kind = "Binary"
    <2> DEFINE l == Append(p, 0)
               r == Append(p, 1)
    <2>1. l \in DOMAIN t /\ r \in DOMAIN t
        BY <1>2, <1>3 DEF Under
    <2>2. Below(C, p) = BinaryHash(Below(C, l), Below(C, r))
        BY <1>3, InnerMeans
    <2>3. t[l].kind = "Leaf" <=> t[r].kind = "Leaf"
        BY <1>1, <1>3, SiblingLeaves
    <2>4. CASE t[l].kind = "Leaf"
        <3>1. NodeData(t, p) = [kind |-> "LeafBinary"]
            BY <1>3, <2>4 DEF NodeData
        <3>2. \E a \in Nat : Below(C, l) = LeafHash(a)
            BY <2>1, <2>4, LeafHashBelow
        <3>3. \E b \in Nat : Below(C, r) = LeafHash(b)
            BY <2>1, <2>3, <2>4, LeafHashBelow
        <3> HIDE DEF l, r
        <3>4. \E a, b \in Nat : Below(C, p) = BinaryHash(LeafHash(a), LeafHash(b))
            BY <2>2, <3>2, <3>3
        <3> QED
            BY <3>1, <3>4 DEF TrueAddedNode
    <2>5. CASE t[l].kind # "Leaf"
        <3>1. NodeData(t, p) = [kind |-> "Binary", left |-> Ref(t, l), right |-> Ref(t, r)]
            BY <1>3, <2>5 DEF NodeData
        <3> HIDE DEF l, r
        <3>2. RefHash(d, nodes, Ref(t, l)) = Below(C, l)
            BY <2>1, <2>5, RefHashMeans
        <3>3. RefHash(d, nodes, Ref(t, r)) = Below(C, r)
            BY <2>1, <2>3, <2>5, RefHashMeans
        <3> QED
            BY <2>2, <3>1, <3>2, <3>3 DEF TrueAddedNode
    <2> QED
        BY <2>4, <2>5
<1>4. CASE t[p].kind = "Edge"
    <2> DEFINE c == p \o t[p].path
    <2>1. c \in DOMAIN t
        BY <1>2, <1>4 DEF Under
    <2>2. Below(C, p) = EdgeHash(t[p].path, Below(C, c))
        BY <1>4, InnerMeans
    <2>3. CASE t[c].kind = "Leaf"
        <3>1. NodeData(t, p) = [kind |-> "LeafEdge", path |-> t[p].path]
            BY <1>4, <2>3 DEF NodeData
        <3>2. \E a \in Nat : Below(C, c) = LeafHash(a)
            BY <2>1, <2>3, LeafHashBelow
        <3> HIDE DEF c
        <3>3. \E a \in Nat : Below(C, p) = EdgeHash(t[p].path, LeafHash(a))
            BY <2>2, <3>2
        <3> QED
            BY <3>1, <3>3 DEF TrueAddedNode
    <2>4. CASE t[c].kind # "Leaf"
        <3>1. NodeData(t, p) = [kind |-> "Edge", child |-> Ref(t, c), path |-> t[p].path]
            BY <1>4, <2>4 DEF NodeData
        <3> HIDE DEF c
        <3>2. RefHash(d, nodes, Ref(t, c)) = Below(C, c)
            BY <2>1, <2>4, RefHashMeans
        <3> QED
            BY <2>2, <3>1, <3>2 DEF TrueAddedNode
    <2> QED
        BY <2>3, <2>4
<1> QED
    BY <1>1, <1>3, <1>4

(* commit returns the hash of the content and nodes that are true to it. *)
LEMMA CommitMeans ==
    ASSUME NEW d, TrueTables(d), NEW t, NEW C, NEW H, Means(d, t, C, H), <<>> \notin Ends(t),
           NEW items, NEW max, ValuesOf(d, max, items, C)
    PROVE  /\ Commit(d, max, items, t).ok
           /\ Commit(d, max, items, t).root_commitment = C
           /\ TrueAdded(d, Commit(d, max, items, t).nodes_added, C, H)
<1> DEFINE ends == EndHashes(d, max, items, t)
           update == Commit(d, max, items, t)
           nodes == update.nodes_added
<1>1. /\ Tidy(t) /\ C \in Hash /\ H \in Nat
      /\ \A p \in DOMAIN t : t[p] \in TreeNode /\ p \in Bits /\ Len(p) \in Nat
      /\ \A e \in C : e[1] \in Bits /\ Len(e[1]) = H
    BY MeansTree
<1>2. CanCommit(d, max, items, t)
    <2>1. t # Broken
        <3> SUFFICES ASSUME t = Broken PROVE FALSE
            OBVIOUS
        <3>1. <<>> \in DOMAIN t /\ t[<<>>].kind = "Broken"
            BY EmptyBits, BrokenIs
        <3> QED
            BY <1>1, <3>1, NodeKinds
    <2>2. ASSUME NEW p \in DOMAIN t, t[p].kind = "Leaf" PROVE LeafValue(d, max, items, p) # NoLeaf
        <3>1. PICK e \in C : e[1] = p
            BY <2>2 DEF Means, LeafIsKey
        <3>2. LeafValue(d, max, items, p) = e[2] /\ e[2] \in Nat
            BY <1>1, <3>1, PairsOf DEF ValuesOf
        <3> QED
            BY <3>2 DEF NoLeaf
    <2>3. ASSUME NEW p \in DOMAIN t, t[p].kind = "Binary"
          PROVE  t[Append(p, 0)].kind = "Leaf" <=> t[Append(p, 1)].kind = "Leaf"
        BY <2>3, SiblingLeaves
    <2> QED
        BY <2>1, <2>2, <2>3 DEF CanCommit
<1>3. CommitsTo(t, ends, update)
    BY <1>1, <1>2, CommitIs
<1>4. DOMAIN ends = Ends(t) /\ \A q \in Ends(t) : ends[q] = Below(C, q)
    BY EndHashMeans
<1> HIDE DEF ends, update, nodes
<1>5. ASSUME NEW p \in Bits, p \in InMemory(t) \/ p = <<>> PROVE HashAt(ends, p) = Below(C, p)
    <2>1. \A x \in Ends(t) : IsPrefix(x, p) => x = p
        <3> SUFFICES ASSUME NEW x \in Ends(t), IsPrefix(x, p) PROVE x = p
            OBVIOUS
        <3>1. x \in DOMAIN t /\ x \in Bits
            BY <1>1 DEF Ends
        <3>2. CASE p \in InMemory(t)
            BY <1>1, <3>1, <3>2, EndIsLast DEF InMemory
        <3>3. CASE p = <<>>
            <4>1. Len(x) <= 0 /\ Len(x) \in Nat
                BY <3>1, <3>3, EmptyBits, PrefixOrder, BitsAre
            <4>2. x = <<>>
                BY <3>1, <4>1, EmptySeq DEF Bits
            <4> QED
                BY <3>3, <4>2
        <3> QED
            BY <1>5, <3>2, <3>3
    <2> QED
        BY <1>4, <2>1, HashAtMeans
<1>6. Below(C, <<>>) = C
    BY <1>1, BelowNothing
<1>7. update.ok /\ update.root_commitment = C
    BY <1>3, <1>5, <1>6, EmptyBits DEF CommitsTo
<1>8. /\ Len(nodes) = Cardinality(InMemory(t)) /\ Len(nodes) \in Nat
      /\ \A p \in InMemory(t) :
          /\ Position(t, p) + 1 \in 1..Len(nodes)
          /\ nodes[Position(t, p) + 1].hash = HashAt(ends, p)
          /\ nodes[Position(t, p) + 1].data = NodeData(t, p)
      /\ \A n \in 1..Len(nodes) : \E p \in InMemory(t) : n = Position(t, p) + 1
    BY <1>3 DEF CommitsTo, nodes
<1>9. \A p \in InMemory(t) : p \in DOMAIN t /\ p \in Bits /\ nodes[Position(t, p) + 1].hash = Below(C, p)
    BY <1>1, <1>5, <1>8 DEF InMemory
<1>10. <<>> \in InMemory(t) <=> C # {}
    <2>1. ASSUME <<>> \in InMemory(t) PROVE C # {}
        <3>1. <<>> \in DOMAIN t
            BY <2>1 DEF InMemory
        <3> QED
            BY <1>6, <3>1, PlaceNonEmpty
    <2>2. ASSUME C # {} PROVE <<>> \in InMemory(t)
        <3>1. PICK e : e \in C
            BY <2>2
        <3>2. PICK q \in Ends(t) : IsPrefix(q, e[1])
            BY <3>1 DEF Means, Covers
        <3>3. <<>> \in DOMAIN t
            BY <1>1, <3>2 DEF Tidy, Ends
        <3> QED
            BY <1>1, <3>3, NodeKinds DEF InMemory, Ends
    <2> QED
        BY <2>1, <2>2
<1>11. Len(nodes) = 0 <=> C = {}
    <2>1. ASSUME <<>> \in InMemory(t) PROVE Len(nodes) # 0
        BY <1>8, <2>1
    <2>2. ASSUME Len(nodes) # 0 PROVE <<>> \in InMemory(t)
        <3>1. PICK p \in InMemory(t) : TRUE
            BY <1>8, <2>2
        <3>2. <<>> \in DOMAIN t
            BY <1>1, <1>9 DEF Tidy
        <3> QED
            BY <1>1, <3>2, NodeKinds DEF InMemory, Ends
    <2> QED
        BY <1>10, <2>1, <2>2
<1>12. ASSUME Len(nodes) # 0 PROVE nodes[Len(nodes)].hash = C
    <2>1. <<>> \in InMemory(t)
        BY <1>10, <1>11, <1>12
    <2>2. Position(t, <<>>) + 1 = Len(nodes)
        BY <1>1, <1>8, <2>1, RootIsLast
    <2> QED
        BY <1>6, <1>9, <2>1, <2>2
<1>13. ASSUME NEW n \in 1..Len(nodes)
       PROVE  /\ nodes[n].hash # {} /\ TrueAddedNode(d, nodes, nodes[n].hash, nodes[n].data)
              /\ n # Len(nodes) => \A e \in nodes[n].hash : Len(e[1]) < H
    <2>1. PICK p \in InMemory(t) : n = Position(t, p) + 1
        BY <1>8
    <2>2. p \in DOMAIN t /\ p \in Bits /\ nodes[n].hash = Below(C, p) /\ nodes[n].data = NodeData(t, p)
        BY <1>8, <1>9, <2>1
    <2>3. Below(C, p) # {}
        BY <2>2, PlaceNonEmpty
    <2>4. TrueAddedNode(d, nodes, Below(C, p), NodeData(t, p))
        BY <1>9, NodeMeans
    <2>5. ASSUME n # Len(nodes), NEW e \in Below(C, p) PROVE Len(e[1]) < H
        <3>1. p # <<>>
            <4> SUFFICES ASSUME p = <<>> PROVE FALSE
                OBVIOUS
            <4>1. Position(t, <<>>) + 1 = Len(nodes)
                BY <1>1, <1>8, <2>1, RootIsLast
            <4> QED
                BY <2>1, <2>5, <4>1
        <3>2. Len(p) \in Nat /\ Len(p) # 0
            BY <2>2, <3>1, BitsAre, EmptySeq DEF Bits
        <3>3. Below(C, p) \in Hash
            BY <1>1, <2>2, BelowIs
        <3>4. e[1] \in Bits /\ e = <<e[1], e[2]>>
            BY <3>3, PairsOf
        <3>5. <<p \o e[1], e[2]>> \in C
            BY <1>1, <2>2, <2>5, <3>4, BelowIs
        <3> DEFINE f == <<p \o e[1], e[2]>>
        <3>6. f \in C /\ f[1] = p \o e[1]
            BY <3>5
        <3> HIDE DEF f
        <3>7. Len(p \o e[1]) = H /\ Len(p \o e[1]) = Len(p) + Len(e[1]) /\ Len(e[1]) \in Nat
            BY <1>1, <2>2, <3>4, <3>6, Prolonged, BitsAre
        <3> QED
            BY <3>2, <3>7
    <2> QED
        BY <2>2, <2>3, <2>4, <2>5
<1>14. TrueAdded(d, nodes, C, H)
    BY <1>11, <1>12, <1>13 DEF TrueAdded
<1> QED
    BY <1>7, <1>14 DEF update, nodes

LEMMA SetAllOne ==
    ASSUME NEW d, GoodTables(d), NEW t \in Trees(d), NEW leaf \in Item
    PROVE  SetAll(d, t, <<leaf>>) = SetInTree(d, t, leaf)
<1> DEFINE items == <<leaf>>
<1>1. items \in Seq(Item) /\ Len(items) = 1 /\ items[1] = leaf
    OBVIOUS
<1> HIDE DEF items
<1>2. PICK set : SetRun(set, d, t, items)
    BY <1>1, SetRuns
<1>3. set[0] = t /\ set[1] = SetInTree(d, set[0], items[1]) /\ SetAll(d, t, items) = set[1]
    <2>1. 1 \in 1..Len(items) /\ 1 - 1 = 0
        BY <1>1
    <2> QED
        BY <1>1, <1>2, <2>1 DEF SetRun
<1>4. SetAll(d, t, items) = SetInTree(d, t, leaf)
    BY <1>1, <1>3
<1> QED
    BY <1>4 DEF items

(* The content a storage index opens. *)
ContentOf(d, idx) == IF idx = 0 THEN {} ELSE StoredHash(d, idx)

(* The values storage has for the keys a write leaves alone. *)
ValuesKept(d, max, C, leaf) == \A e \in C : e[1] # leaf.key => StorageLeaf(d, max, e[1]) = e[2]

LEMMA ValuesAfter ==
    ASSUME NEW d, NEW max, NEW C, NEW leaf, ValuesKept(d, max, C, leaf)
    PROVE  ValuesOf(d, max, <<leaf>>, After(C, leaf))
<1> DEFINE items == <<leaf>>
<1>1. DOMAIN items = {1} /\ items[1] = leaf
    OBVIOUS
<1>2. <<leaf.key, leaf.value>>[1] = leaf.key /\ <<leaf.key, leaf.value>>[2] = leaf.value
    OBVIOUS
<1> HIDE DEF items
<1>3. ASSUME NEW e \in After(C, leaf) PROVE LeafValue(d, max, items, e[1]) = e[2]
    <2> DEFINE hits == {n \in DOMAIN items : items[n].key = e[1]}
               i == LastRow(hits)
    <2>1. LeafValue(d, max, items, e[1]) = IF i = 0 THEN StorageLeaf(d, max, e[1]) ELSE items[i].value
        BY DEF LeafValue
    <2>2. CASE e[1] = leaf.key
        <3>1. hits = {1}
            BY <1>1, <2>2
        <3>2. i = 1
            <4>1. hits \subseteq 0..1 /\ hits # {}
                BY <3>1
            <4> HIDE DEF hits
            <4>2. LastRow(hits) \in hits
                BY <4>1, LastHit
            <4> QED
                BY <3>1, <4>2
        <3>3. e[2] = leaf.value
            BY <1>2, <2>2 DEF After
        <3> QED
            BY <1>1, <2>1, <3>2, <3>3
    <2>3. CASE e[1] # leaf.key
        <3>1. hits = {}
            BY <1>1, <2>3
        <3>2. i = 0
            BY <3>1 DEF LastRow
        <3>3. e \in C
            BY <1>2, <2>3 DEF After
        <3> QED
            BY <2>1, <2>3, <3>2, <3>3 DEF ValuesKept
    <2> QED
        BY <2>2, <2>3
<1> QED
    BY <1>3 DEF ValuesOf, items

LEMMA OpenedMeans ==
    ASSUME NEW d, TrueTables(d), NEW idx \in Stored(d) \union {0}, NEW H \in Nat,
           WholeKeys(ContentOf(d, idx), H)
    PROVE  Means(d, OpenTree(idx), ContentOf(d, idx), H)
<1> DEFINE C == ContentOf(d, idx)
           t == OpenTree(idx)
<1>1. Means(d, t, C, H)
    <2>1. CASE idx = 0
        <3>1. C = {}
            BY <2>1 DEF ContentOf
        <3> QED
            BY <2>1, <3>1, EmptyMeans
    <2>2. CASE idx # 0
        <3>1. C = StoredHash(d, idx) /\ idx \in Stored(d)
            BY <2>2 DEF ContentOf
        <3> QED
            BY <3>1, OpenMeans
    <2> QED
        BY <2>1, <2>2
<1> QED
    BY <1>1

(* An update commits to the content of the root it opens with the key set,  *)
(* and the nodes it adds are true to that content.                          *)
THEOREM UpdateMeans ==
    ASSUME NEW d, TrueTables(d), NEW idx \in Stored(d) \union {0}, NEW H \in Nat,
           WholeKeys(ContentOf(d, idx), H), NEW leaf \in Item, Len(leaf.key) = H,
           NEW max, ValuesKept(d, max, ContentOf(d, idx), leaf)
    PROVE  /\ TrieUpdate(d, max, idx, <<leaf>>).ok
           /\ TrieUpdate(d, max, idx, <<leaf>>).root_commitment = After(ContentOf(d, idx), leaf)
           /\ TrueAdded(d, TrieUpdate(d, max, idx, <<leaf>>).nodes_added, After(ContentOf(d, idx), leaf), H)
<1> DEFINE C == ContentOf(d, idx)
           t == OpenTree(idx)
           u == SetAll(d, t, <<leaf>>)
<1>0. GoodTables(d) /\ leaf.key \in Bits /\ leaf.key # <<>>
    BY ItemIs DEF TrueTables
<1>1. Means(d, t, C, H)
    BY OpenedMeans
<1>2. u = SetInTree(d, t, leaf)
    BY <1>0, OpenTreeGood, SetAllOne
<1> HIDE DEF C, t
<1>3. SetTo(d, SetInTree(d, t, leaf), C, H, leaf)
    BY <1>1, SetInTreeMeans
<1>4. Means(d, u, After(C, leaf), H) /\ WayResolved(u, leaf.key)
    BY <1>2, <1>3 DEF SetTo
<1>5. TrieUpdate(d, max, idx, <<leaf>>) = Commit(d, max, <<leaf>>, u)
    <2>1. {Commit(d, max, <<leaf>>, w) : w \in {u}} = {Commit(d, max, <<leaf>>, u)}
        OBVIOUS
    <2> HIDE DEF u
    <2>2. The({Commit(d, max, <<leaf>>, w) : w \in {u}}) = Commit(d, max, <<leaf>>, u)
        BY <2>1, TheOne
    <2> QED
        BY <2>2 DEF TrieUpdate, u, t
<1> HIDE DEF u
<1>6. <<>> \notin Ends(u)
    <2> SUFFICES ASSUME <<>> \in Ends(u) PROVE FALSE
        OBVIOUS
    <2>1. <<>> = leaf.key
        BY <1>0, <1>4, EmptyPrefix, EndOnWay
    <2> QED
        BY <1>0, <2>1
<1>7. ValuesOf(d, max, <<leaf>>, After(C, leaf))
    BY ValuesAfter DEF C
<1>8. /\ Commit(d, max, <<leaf>>, u).ok
      /\ Commit(d, max, <<leaf>>, u).root_commitment = After(C, leaf)
      /\ TrueAdded(d, Commit(d, max, <<leaf>>, u).nodes_added, After(C, leaf), H)
    BY <1>4, <1>6, <1>7, CommitMeans
<1> QED
    BY <1>5, <1>8 DEF C

-----------------------------------------------------------------------------
(* An update comes out the same on tables that only grew. *)

Agree(d, e) ==
    \A idx \in Stored(d) :
        idx \in Stored(e) /\ StoredNode(e, idx) = StoredNode(d, idx) /\ StoredHash(e, idx) = StoredHash(d, idx)

LEMMA ResolveSame ==
    ASSUME NEW d, NEW e, Agree(d, e), NEW t, Good(d, t), NEW p \in DOMAIN t
    PROVE  Resolve(e, t, p) = Resolve(d, t, p)
<1>1. CASE t[p].kind = "Unresolved"
    <2>1. t[p].idx \in Stored(d)
        BY <1>1 DEF Good, FromStore
    <2>2. StoredNode(e, t[p].idx) = StoredNode(d, t[p].idx)
        BY <2>1 DEF Agree
    <2> QED
        BY <2>2 DEF Resolve
<1>2. CASE t[p].kind # "Unresolved"
    BY <1>2 DEF Resolve
<1> QED
    BY <1>1, <1>2

LEMMA ResolveNextSame ==
    ASSUME NEW d, GoodTables(d), NEW e, Agree(d, e), NEW t \in Trees(d), NEW key \in Bits
    PROVE  ResolveNext(e, t, key) = ResolveNext(d, t, key)
<1> DEFINE p == Deepest(Way(t, key))
<1>1. CASE Way(t, key) = {}
    BY <1>1 DEF ResolveNext
<1>2. CASE Way(t, key) # {} /\ Good(d, t)
    <2>1. DOMAIN t \subseteq Bits
        BY <1>2 DEF Good, Tidy
    <2>2. \A x \in Way(t, key) : x \in DOMAIN t /\ Len(x) \in 0..Len(key)
        BY <2>1, WayIs
    <2>3. Len(key) \in Nat
        BY BitsAre
    <2>4. p \in Way(t, key)
        BY <1>2, <2>2, <2>3, DeepestIs
    <2>5. p \in DOMAIN t
        BY <2>2, <2>4
    <2> HIDE DEF p
    <2>6. Resolve(e, t, p) = Resolve(d, t, p)
        BY <1>2, <2>5, ResolveSame
    <2> QED
        BY <1>2, <2>6 DEF ResolveNext, p
<1>3. CASE Way(t, key) # {} /\ t = Broken
    <2>1. p = <<>> /\ t[<<>>].kind = "Broken"
        BY <1>3, BrokenIs
    <2> HIDE DEF p
    <2>2. Resolve(e, t, p) = t /\ Resolve(d, t, p) = t
        BY <2>1 DEF Resolve
    <2> QED
        BY <1>3, <2>2 DEF ResolveNext, p
<1> QED
    BY <1>1, <1>2, <1>3, TreesAre

LEMMA TraverseSame ==
    ASSUME NEW d, GoodTables(d), NEW e, GoodTables(e), Agree(d, e), NEW t \in Trees(d), t \in Trees(e),
           NEW key \in Bits
    PROVE  Traverse(e, t, key) = Traverse(d, t, key)
<1> DEFINE N == Len(key) + 1
<1>1. N \in Nat
    BY BitsAre
<1>2. PICK f : TraverseRun(f, d, t, key)
    BY TraverseRuns
<1>3. PICK g : TraverseRun(g, e, t, key)
    BY TraverseRuns
<1>4. /\ f[0] = t /\ \A n \in Nat : f[n + 1] = ResolveNext(d, f[n], key)
      /\ Traverse(d, t, key) = f[N]
    BY <1>2 DEF TraverseRun
<1>5. /\ g[0] = t /\ \A n \in Nat : g[n + 1] = ResolveNext(e, g[n], key)
      /\ Traverse(e, t, key) = g[N]
    BY <1>3 DEF TraverseRun
<1> DEFINE T == {n \in 0..N : f[n] \in Trees(d) /\ g[n] = f[n]}
<1>6. 0 \in T
    BY <1>1, <1>4, <1>5
<1>7. ASSUME NEW n \in 0..N, n < N, n \in T PROVE n + 1 \in T
    <2>1. n \in Nat /\ n + 1 \in 0..N
        BY <1>1, <1>7
    <2>2. f[n] \in Trees(d) /\ g[n] = f[n]
        BY <1>7
    <2>3. f[n + 1] = ResolveNext(d, f[n], key) /\ g[n + 1] = ResolveNext(e, f[n], key)
        BY <1>4, <1>5, <2>1, <2>2
    <2>4. ResolveNext(d, f[n], key) \in Trees(d)
        BY <2>2, ResolveNextGood
    <2>5. ResolveNext(e, f[n], key) = ResolveNext(d, f[n], key)
        BY <2>2, ResolveNextSame
    <2> QED
        BY <2>1, <2>3, <2>4, <2>5
<1>8. 0..N \subseteq T
    <2> HIDE DEF T, N
    <2> QED
        BY <1>1, <1>6, <1>7, UpTo
<1>9. N \in 0..N
    BY <1>1
<1> QED
    BY <1>4, <1>5, <1>8, <1>9

LEMMA DeleteLeafSame ==
    ASSUME NEW d, NEW e, Agree(d, e), NEW t \in Trees(d), NEW key \in Bits
    PROVE  DeleteLeaf(e, t, key) = DeleteLeaf(d, t, key)
<1> DEFINE end == Deepest(Way(t, key))
           way == Way(t, key)
           forks == {p \in way : t[p].kind = "Binary"}
           fork == Deepest(forks)
           bit == key[Len(fork) + 1]
           kept == Append(fork, 1 - bit)
<1>1. CASE t = NoTree
    BY <1>1 DEF DeleteLeaf
<1>2. CASE t # NoTree /\ ~ (t[end].kind = "Leaf" /\ end = key /\ forks # {})
    BY <1>2 DEF DeleteLeaf
<1>3. CASE t # NoTree /\ t[end].kind = "Leaf" /\ end = key /\ forks # {}
    <2>1. t # Broken
        <3> SUFFICES ASSUME t = Broken PROVE FALSE
            OBVIOUS
        <3>1. end = <<>> /\ t[<<>>].kind = "Broken"
            BY BrokenIs
        <3> QED
            BY <1>3, <3>1
    <2>2. Good(d, t)
        BY <2>1, TreesAre
    <2>3. /\ DOMAIN t \subseteq Bits /\ Tidy(t) /\ Closed(t) /\ \A x \in DOMAIN t : t[x] \in TreeNode
        BY <2>2 DEF Good, Tidy
    <2>4. \A x \in way : x \in DOMAIN t /\ x \in Bits /\ IsPrefix(x, key) /\ Len(x) \in 0..Len(key)
        BY <2>3, WayIs
    <2>5. Len(key) \in Nat
        BY BitsAre
    <2>6. fork \in forks
        <3>1. \A x \in forks : Len(x) \in 0..Len(key)
            BY <2>4
        <3>2. forks # {}
            BY <1>3
        <3> HIDE DEF forks
        <3> QED
            BY <2>5, <3>1, <3>2, DeepestIs
    <2>7. fork \in way /\ t[fork].kind = "Binary"
        BY <2>6
    <2>8. end \in way /\ Len(end) >= Len(fork)
        <3>1. end \in way /\ \A x \in way : Len(x) <= Len(end)
            BY <2>4, <2>5, <2>7, DeepestIs
        <3> QED
            BY <2>4, <2>7, <3>1
    <2> HIDE DEF way, forks, end, fork
    <2>9. fork \in DOMAIN t /\ fork \in Bits /\ IsPrefix(fork, key) /\ fork # key
        BY <1>3, <2>4, <2>7
    <2>10. bit \in {0, 1}
        BY <2>9, NextBitOf
    <2>11. 1 - bit \in {0, 1}
        BY <2>10
    <2>12. kept \in Under(fork, t[fork])
        <3>1. Under(fork, t[fork]) = {Append(fork, 0), Append(fork, 1)}
            BY <2>7 DEF Under
        <3> QED
            BY <2>11, <3>1
    <2>13. kept \in DOMAIN t
        BY <2>3, <2>9, <2>12 DEF Closed
    <2> HIDE DEF kept
    <2>14. Resolve(e, t, kept) = Resolve(d, t, kept)
        BY <2>2, <2>13, ResolveSame
    <2>15. CutLeaf(e, t, key) = CutLeaf(d, t, key)
        BY <2>14, ZenonT(60) DEF CutLeaf, kept, fork, forks, way
    <2> QED
        BY <2>15 DEF DeleteLeaf
<1> QED
    BY <1>1, <1>2, <1>3

LEMMA SetInTreeSame ==
    ASSUME NEW d, GoodTables(d), NEW e, GoodTables(e), Agree(d, e), NEW t \in Trees(d), t \in Trees(e),
           NEW leaf \in Item
    PROVE  SetInTree(e, t, leaf) = SetInTree(d, t, leaf)
<1> DEFINE u == Traverse(d, t, leaf.key)
<1>1. leaf.key \in Bits
    BY ItemIs
<1>2. Traverse(e, t, leaf.key) = u
    BY <1>1, TraverseSame
<1>3. u \in Trees(d)
    BY <1>1, TraverseGood
<1> HIDE DEF u
<1>4. SetInTree(d, t, leaf) = IF leaf.value = Zero THEN DeleteLeaf(d, u, leaf.key) ELSE SetLeaf(u, leaf.key)
    BY TheOne DEF SetInTree, u
<1>5. SetInTree(e, t, leaf) = IF leaf.value = Zero THEN DeleteLeaf(e, u, leaf.key) ELSE SetLeaf(u, leaf.key)
    <2>1. SetInTree(e, t, leaf) = The({IF leaf.value = Zero THEN DeleteLeaf(e, w, leaf.key) ELSE SetLeaf(w, leaf.key) : w \in {u}})
        BY <1>2 DEF SetInTree
    <2> QED
        BY <2>1, TheOne
<1>6. DeleteLeaf(e, u, leaf.key) = DeleteLeaf(d, u, leaf.key)
    BY <1>1, <1>3, DeleteLeafSame
<1> QED
    BY <1>4, <1>5, <1>6

LEMMA CommitSame ==
    ASSUME NEW d, NEW e, Agree(d, e), NEW t, NEW C, NEW H, Means(d, t, C, H), NEW items, NEW max, NEW top,
           ValuesOf(d, max, items, C), ValuesOf(e, top, items, C)
    PROVE  Commit(e, top, items, t) = Commit(d, max, items, t)
<1>1. ASSUME NEW p \in DOMAIN t, t[p].kind = "Leaf"
      PROVE  LeafValue(e, top, items, p) = LeafValue(d, max, items, p)
    <2>1. PICK x \in C : x[1] = p
        BY <1>1 DEF Means, LeafIsKey
    <2>2. LeafValue(e, top, items, p) = x[2] /\ LeafValue(d, max, items, p) = x[2]
        BY <2>1 DEF ValuesOf
    <2> QED
        BY <2>2
<1>2. ASSUME NEW p \in DOMAIN t, t[p].kind = "Unresolved"
      PROVE  StoredHash(e, t[p].idx) = StoredHash(d, t[p].idx)
    BY <1>2 DEF Means, Good, FromStore, Agree
<1>3. CanCommit(e, top, items, t) <=> CanCommit(d, max, items, t)
    BY <1>1 DEF CanCommit
<1>4. EndHashes(e, top, items, t) = EndHashes(d, max, items, t)
    <2>1. \A p \in Ends(t) : p \in DOMAIN t /\ t[p].kind \in {"Leaf", "Unresolved"}
        BY DEF Ends
    <2> QED
        BY <1>1, <1>2, <2>1 DEF EndHashes
<1> QED
    BY <1>3, <1>4 DEF Commit

LEMMA UpdateIs ==
    ASSUME NEW d, GoodTables(d), NEW idx \in Stored(d) \union {0}, NEW leaf \in Item, NEW max
    PROVE  TrieUpdate(d, max, idx, <<leaf>>) = Commit(d, max, <<leaf>>, SetInTree(d, OpenTree(idx), leaf))
<1> DEFINE t == OpenTree(idx)
           u == SetAll(d, t, <<leaf>>)
<1>1. u = SetInTree(d, t, leaf)
    BY OpenTreeGood, SetAllOne
<1>2. {Commit(d, max, <<leaf>>, w) : w \in {u}} = {Commit(d, max, <<leaf>>, u)}
    OBVIOUS
<1> HIDE DEF u, t
<1>3. The({Commit(d, max, <<leaf>>, w) : w \in {u}}) = Commit(d, max, <<leaf>>, u)
    BY <1>2, TheOne
<1> QED
    BY <1>1, <1>3 DEF TrieUpdate, u, t

LEMMA UpdateSame ==
    ASSUME NEW d, TrueTables(d), NEW e, GoodTables(e), Agree(d, e), NEW idx \in Stored(d) \union {0},
           NEW H \in Nat, WholeKeys(ContentOf(d, idx), H), NEW leaf \in Item, Len(leaf.key) = H,
           NEW max, NEW top, ValuesKept(d, max, ContentOf(d, idx), leaf), ValuesKept(e, top, ContentOf(d, idx), leaf)
    PROVE  TrieUpdate(e, top, idx, <<leaf>>) = TrieUpdate(d, max, idx, <<leaf>>)
<1> DEFINE C == ContentOf(d, idx)
           t == OpenTree(idx)
           u == SetInTree(d, t, leaf)
<1>1. GoodTables(d) /\ idx \in Stored(e) \union {0}
    BY DEF TrueTables, Agree
<1>2. t \in Trees(d) /\ t \in Trees(e)
    BY <1>1, OpenTreeGood
<1>3. Means(d, t, C, H)
    BY OpenedMeans
<1> HIDE DEF C, t
<1>4. SetInTree(e, t, leaf) = u
    BY <1>1, <1>2, SetInTreeSame
<1>5. SetTo(d, u, C, H, leaf)
    BY <1>3, SetInTreeMeans
<1> HIDE DEF u
<1>6. Means(d, u, After(C, leaf), H)
    BY <1>5 DEF SetTo
<1>7. ValuesOf(d, max, <<leaf>>, After(C, leaf))
    BY ValuesAfter DEF C
<1>8. ValuesOf(e, top, <<leaf>>, After(C, leaf))
    BY ValuesAfter DEF C
<1>9. Commit(e, top, <<leaf>>, u) = Commit(d, max, <<leaf>>, u)
    BY <1>6, <1>7, <1>8, CommitSame
<1>10. TrieUpdate(d, max, idx, <<leaf>>) = Commit(d, max, <<leaf>>, u)
    BY <1>1, UpdateIs DEF u, t
<1>11. TrieUpdate(e, top, idx, <<leaf>>) = Commit(e, top, <<leaf>>, u)
    <2>1. TrieUpdate(e, top, idx, <<leaf>>) = Commit(e, top, <<leaf>>, SetInTree(e, t, leaf))
        BY <1>1, UpdateIs DEF t
    <2> QED
        BY <1>4, <2>1
<1> QED
    BY <1>9, <1>10, <1>11

-----------------------------------------------------------------------------
(* get_proof and verify_proof against the content a true table stands for: *)
(* the proof of a key verifies, as a member with its value or as none.     *)

(* Where verify_proof is after the nodes of a proof. *)
Reaches(proof, root, leaf, v) == \E run : VerifyRun(run, proof, root, leaf) /\ run[Len(proof)] = v

LEMMA ReachesFirst == ASSUME NEW root, NEW leaf PROVE Reaches(<<>>, root, leaf, FirstVerify(root, leaf))
<1> DEFINE run == [n \in {0} |-> FirstVerify(root, leaf)]
<1>1. run[0] = FirstVerify(root, leaf) /\ Len(<<>>) = 0 /\ 1..0 = {}
    OBVIOUS
<1> HIDE DEF run
<1>2. VerifyRun(run, <<>>, root, leaf)
    BY <1>1 DEF VerifyRun
<1> QED
    BY <1>1, <1>2 DEF Reaches

LEMMA ReachesNext ==
    ASSUME NEW proof \in Seq(ProofNode), NEW node \in ProofNode, NEW root, NEW leaf, NEW v,
           Reaches(proof, root, leaf, v)
    PROVE  Reaches(Append(proof, node), root, leaf, VerifyStep(v, node))
<1> DEFINE N == Len(proof)
           longer == Append(proof, node)
<1>1. PICK run : VerifyRun(run, proof, root, leaf) /\ run[N] = v
    BY DEF Reaches
<1>2. N \in Nat /\ Len(longer) = N + 1 /\ longer[N + 1] = node /\ \A n \in 1..N : longer[n] = proof[n]
    OBVIOUS
<1> DEFINE new == [n \in 0..N + 1 |-> IF n = N + 1 THEN VerifyStep(v, node) ELSE run[n]]
<1>3. new[N + 1] = VerifyStep(v, node) /\ \A n \in 0..N : new[n] = run[n]
    <2>1. N + 1 \in 0..N + 1 /\ \A n \in 0..N : n \in 0..N + 1 /\ n # N + 1
        BY <1>2
    <2> HIDE DEF N
    <2> QED
        BY <2>1
<1> HIDE DEF new, N, longer
<1>4. run[0] = FirstVerify(root, leaf) /\ \A n \in 1..N : run[n] = VerifyStep(run[n - 1], proof[n])
    BY <1>1 DEF VerifyRun, N
<1>5. 0 \in 0..N /\ N \in 0..N /\ \A n \in 1..N : n \in 0..N /\ n - 1 \in 0..N
    BY <1>2
<1>6. ASSUME NEW n \in 1..Len(longer) PROVE new[n] = VerifyStep(new[n - 1], longer[n])
    <2>1. CASE n = N + 1
        <3>1. n - 1 = N
            BY <1>2, <2>1
        <3>2. new[n - 1] = v
            BY <1>1, <1>3, <1>5, <3>1
        <3> QED
            BY <1>2, <1>3, <2>1, <3>2
    <2>2. CASE n # N + 1
        <3>1. n \in 1..N
            BY <1>2, <2>2
        <3>2. new[n] = run[n] /\ new[n - 1] = run[n - 1]
            BY <1>3, <1>5, <3>1
        <3> QED
            BY <1>2, <1>4, <3>1, <3>2
    <2> QED
        BY <2>1, <2>2
<1>7. VerifyRun(new, longer, root, leaf)
    BY <1>3, <1>4, <1>5, <1>6 DEF VerifyRun
<1>8. new[Len(longer)] = VerifyStep(v, node)
    BY <1>2, <1>3
<1> QED
    BY <1>7, <1>8 DEF Reaches, longer

LEMMA ReachesVerdict ==
    ASSUME NEW proof \in Seq(ProofNode), NEW root \in Hash, NEW leaf, leaf.key \in Bits, NEW v,
           Reaches(proof, root, leaf, v)
    PROVE  VerifyProof(proof, root, leaf) = Verdict(v, proof, root, leaf)
<1> DEFINE N == Len(proof)
<1>1. PICK run : VerifyRun(run, proof, root, leaf) /\ run[N] = v
    BY DEF Reaches
<1>2. PICK walk : VerifyRun(walk, proof, root, leaf) /\ VerifyProof(proof, root, leaf) = Verdict(walk[N], proof, root, leaf)
    BY VerifyRuns
<1>3. N \in Nat
    OBVIOUS
<1> DEFINE T == {n \in 0..N : walk[n] = run[n]}
<1>4. 0 \in T
    BY <1>1, <1>2, <1>3 DEF VerifyRun
<1>5. ASSUME NEW n \in 0..N, n < N, n \in T PROVE n + 1 \in T
    <2>1. n + 1 \in 1..N /\ n + 1 \in 0..N /\ n + 1 - 1 = n
        BY <1>3, <1>5
    <2>2. walk[n + 1] = VerifyStep(walk[n], proof[n + 1]) /\ run[n + 1] = VerifyStep(run[n], proof[n + 1])
        BY <1>1, <1>2, <2>1 DEF VerifyRun
    <2> QED
        BY <1>5, <2>1, <2>2
<1>6. 0..N \subseteq T
    <2> HIDE DEF T, N
    <2> QED
        BY <1>3, <1>4, <1>5, UpTo
<1>7. walk[N] = run[N]
    <2>1. N \in 0..N
        BY <1>3
    <2> QED
        BY <1>6, <2>1
<1> QED
    BY <1>1, <1>2, <1>7

(* A node whose hash is the one expected. *)
Facing(hash, path) == [expected |-> hash, path |-> path, verdict |-> "open"]

LEMMA FacingBinary ==
    ASSUME NEW l \in Hash, NEW r \in Hash, NEW b \in {0, 1}, NEW tail \in Bits
    PROVE  VerifyStep(Facing(BinaryHash(l, r), <<b>> \o tail), ProofBinary(l, r))
              = Facing(IF b = 0 THEN l ELSE r, tail)
<1> DEFINE w == Facing(BinaryHash(l, r), <<b>> \o tail)
           node == ProofBinary(l, r)
           whole == <<b>> \o tail
<1>1. <<b>> \in Bits /\ Len(<<b>>) = 1 /\ <<b>>[1] = b
    BY DEF Bits
<1>2. whole \in Bits /\ Len(whole) >= 1 /\ whole[1] = b /\ Drop(whole, 1) = tail
    <2>1. 1 \in 1..Len(<<b>>) /\ Len(tail) \in Nat
        BY <1>1, BitsAre
    <2>2. whole \in Bits /\ Len(whole) = Len(<<b>>) + Len(tail) /\ whole[1] = <<b>>[1]
        BY <1>1, <2>1, Prolonged
    <2>3. Drop(whole, Len(<<b>>)) = tail
        BY <1>1, DropProlonged
    <2> QED
        BY <1>1, <2>1, <2>2, <2>3
<1>3. Head(whole) = b
    BY <1>2 DEF Bits
<1>4. node.kind = "Binary" /\ node.left = l /\ node.right = r /\ NodeHash(node) = BinaryHash(l, r)
    BY DEF ProofBinary, NodeHash
<1> HIDE DEF whole, node
<1>5. w = [expected |-> BinaryHash(l, r), path |-> whole, verdict |-> "open"]
    BY DEF Facing, whole
<1>6. VerifyStep(w, node) = [w EXCEPT !.expected = IF Head(w.path) = 0 THEN node.left ELSE node.right, !.path = Drop(@, 1)]
    <2>1. w.verdict = "open" /\ w.expected = NodeHash(node) /\ w.path = whole
        BY <1>4, <1>5
    <2>2. ~ (Len(w.path) < 1)
        BY <1>2, <2>1, BitsAre
    <2> QED
        BY <1>4, <2>1, <2>2 DEF VerifyStep
<1> DEFINE side == IF b = 0 THEN l ELSE r
<1> HIDE DEF w, side
<1>7. \A u, x : u = [expected |-> x, path |-> whole, verdict |-> "open"] =>
                    [u EXCEPT !.path = tail] = [expected |-> x, path |-> tail, verdict |-> "open"]
    OBVIOUS
<1>10. [w EXCEPT !.expected = side] = [expected |-> side, path |-> whole, verdict |-> "open"]
    BY <1>5
<1>8. w.path = whole
    BY <1>5
<1>9. VerifyStep(w, node) = [w EXCEPT !.expected = side, !.path = tail]
    BY <1>2, <1>3, <1>4, <1>6, <1>8 DEF side
<1> QED
    BY <1>7, <1>9, <1>10 DEF Facing, w, node, whole, side

LEMMA FacingEdge ==
    ASSUME NEW path \in Bits, NEW child \in Hash, NEW rest \in Bits, Len(path) <= Len(rest)
    PROVE  /\ \A tail \in Bits : rest = path \o tail =>
                 VerifyStep(Facing(EdgeHash(path, child), rest), ProofEdge(path, child)) = Facing(child, tail)
           /\ ~ IsPrefix(path, rest) =>
                 VerifyStep(Facing(EdgeHash(path, child), rest), ProofEdge(path, child)).verdict = "NonMember"
<1> DEFINE w == Facing(EdgeHash(path, child), rest)
           node == ProofEdge(path, child)
<1>1. node.kind = "Edge" /\ node.path = path /\ node.child = child /\ NodeHash(node) = EdgeHash(path, child)
    BY DEF ProofEdge, NodeHash
<1> HIDE DEF node
<1>2. w = [expected |-> EdgeHash(path, child), path |-> rest, verdict |-> "open"]
    BY DEF Facing
<1>3. VerifyStep(w, node) = IF SubSeq(rest, 1, Len(path)) # path THEN [w EXCEPT !.verdict = "NonMember"]
                            ELSE [w EXCEPT !.expected = child, !.path = Drop(@, Len(path))]
    <2>1. w.verdict = "open" /\ w.expected = NodeHash(node) /\ w.path = rest
        BY <1>1, <1>2
    <2>2. ~ (Len(w.path) < Len(path))
        BY <2>1, BitsAre
    <2> QED
        BY <1>1, <2>1, <2>2 DEF VerifyStep
<1>4. ASSUME NEW tail \in Bits, rest = path \o tail PROVE VerifyStep(w, node) = Facing(child, tail)
    <2>1. IsPrefix(path, rest) /\ Drop(rest, Len(path)) = tail
        BY <1>4, Prolonged, DropProlonged
    <2>2. SubSeq(rest, 1, Len(path)) = path
        BY <2>1, BeginningIs
    <2>3. VerifyStep(w, node) = [w EXCEPT !.expected = child, !.path = Drop(@, Len(path))]
        BY <1>3, <2>2
    <2> QED
        BY <1>2, <2>1, <2>3 DEF Facing
<1>5. ASSUME ~ IsPrefix(path, rest) PROVE VerifyStep(w, node).verdict = "NonMember"
    <2>1. Len(path) \in 0..Len(rest)
        BY BitsAre
    <2>2. IsPrefix(SubSeq(rest, 1, Len(path)), rest)
        BY <2>1, Beginning
    <2>3. SubSeq(rest, 1, Len(path)) # path
        BY <1>5, <2>2
    <2>4. VerifyStep(w, node) = [w EXCEPT !.verdict = "NonMember"]
        BY <1>3, <2>3
    <2> QED
        BY <1>2, <2>4
<1> QED
    BY <1>4, <1>5 DEF w, node

(* Some steps on paths. *)
LEMMA OneIsSome == ASSUME NEW s, Len(s) = 1 PROVE s # <<>>
BY Len(<<>>) = 0

LEMMA FirstBit ==
    ASSUME NEW rest \in Bits, rest # <<>>
    PROVE  \E b \in {0, 1}, tail \in Bits : rest = <<b>> \o tail /\ rest[1] = b /\ Len(rest) = Len(tail) + 1
<1>1. Len(rest) \in Nat /\ Len(rest) >= 1
    BY BitsAre DEF Bits
<1>2. rest[1] \in {0, 1}
    BY <1>1, BitsAre
<1>3. PICK b \in {0, 1} : b = rest[1]
    BY <1>2
<1>4. <<b>> \in Bits /\ Len(<<b>>) = 1 /\ IsPrefix(<<b>>, rest)
    BY <1>1, <1>3, OneBit
<1> DEFINE tail == Drop(rest, Len(<<b>>))
<1>5. tail \in Bits /\ Len(tail) = Len(rest) - Len(<<b>>) /\ rest = <<b>> \o tail
    BY <1>4, Dropped
<1> HIDE DEF tail
<1>6. Len(rest) = Len(tail) + 1
    BY <1>1, <1>4, <1>5
<1> QED
    BY <1>3, <1>5, <1>6

IsMiddle(mid, key, m, n) ==
    /\ mid \in Seq({0, 1}) /\ Len(mid) = IF m <= n THEN n - m + 1 ELSE 0
    /\ \A i \in 1..n - m + 1 : mid[i] = key[m + i - 1]

LEMMA MiddleBits ==
    ASSUME NEW key, NEW m \in Int, NEW n \in Int, \A i \in m..n : key[i] \in {0, 1}
    PROVE  IsMiddle(SubSeq(key, m, n), key, m, n)
BY SubSeqProperties DEF IsMiddle

LEMMA MiddleIs ==
    ASSUME NEW here \in Bits, NEW rest \in Bits, NEW path \in Bits, Len(path) <= Len(rest),
           NEW key, key = here \o rest
    PROVE  SubSeq(key, Len(here) + 1, Len(here) + Len(path)) = path <=> IsPrefix(path, rest)
<1> DEFINE m == Len(here) + 1
           n == Len(here) + Len(path)
           mid == SubSeq(key, m, n)
<1>1. Len(here) \in Nat /\ Len(rest) \in Nat /\ Len(path) \in Nat
    BY BitsAre
<1>2. key \in Bits /\ Len(key) = Len(here) + Len(rest) /\ \A i \in 1..Len(rest) : key[Len(here) + i] = rest[i]
    BY Prolonged
<1>3. m \in Int /\ n \in Int /\ n - m + 1 = Len(path) /\ \A i \in m..n : i \in 1..Len(key)
    BY <1>1, <1>2
<1>4. \A i \in m..n : key[i] \in {0, 1}
    BY <1>2, <1>3, BitsAre
<1>5. /\ mid \in Seq({0, 1}) /\ Len(mid) = IF m <= n THEN n - m + 1 ELSE 0
      /\ \A i \in 1..n - m + 1 : mid[i] = key[m + i - 1]
    <2>1. IsMiddle(mid, key, m, n)
        <3> HIDE DEF m, n
        <3> QED
            BY <1>3, <1>4, MiddleBits
    <2> QED
        BY <2>1 DEF IsMiddle
<1>6. mid \in Bits /\ Len(mid) = Len(path) /\ \A i \in 1..Len(path) : mid[i] = rest[i]
    <2>1. Len(mid) = Len(path)
        <3>1. CASE Len(path) = 0
            BY <1>1, <1>5, <3>1
        <3>2. CASE Len(path) # 0
            <4>1. m <= n
                BY <1>1, <3>2
            <4> HIDE DEF m, n, mid
            <4> QED
                BY <1>3, <1>5, <4>1
        <3> QED
            BY <3>1, <3>2
    <2>2. ASSUME NEW i \in 1..Len(path) PROVE mid[i] = rest[i]
        <3>1. i \in 1..n - m + 1 /\ m + i - 1 = Len(here) + i /\ i \in 1..Len(rest)
            BY <1>1, <1>3
        <3> HIDE DEF m, n, mid
        <3> QED
            BY <1>2, <1>5, <3>1
    <2> QED
        BY <1>5, <2>1, <2>2 DEF Bits
<1> HIDE DEF mid
<1>7. IsPrefix(path, rest) <=> \A i \in 1..Len(path) : path[i] = rest[i]
    BY PrefixBits
<1>8. mid = path <=> \A i \in 1..Len(path) : path[i] = rest[i]
    BY <1>6, SameBits
<1> QED
    BY <1>7, <1>8 DEF mid

LEMMA WithinHeight ==
    ASSUME NEW C, NEW H, WholeKeys(C, H), NEW p \in Bits, Below(C, p) # {}
    PROVE  Len(p) <= H
<1>1. PICK e \in C : IsPrefix(p, e[1])
    BY BelowNonEmpty DEF WholeKeys
<1>2. e[1] \in Bits /\ Len(e[1]) = H
    BY PairsOf DEF WholeKeys
<1> QED
    BY <1>1, <1>2, PrefixBits

(* The leaf values a tree is committed with are those of its content. *)
ValuesAt(d, max, C) == \A e \in C : StorageLeaf(d, max, e[1]) = e[2]

(* get_proof on the way: what is below the node reached, and verify_proof beside it. *)
OnTheWay(d, C, leaf, w) ==
    \E here, rest \in Bits :
        /\ leaf.key = here \o rest /\ w.height = Len(here)
        /\ w.idx \in Stored(d) /\ Below(C, here) = StoredHash(d, w.idx)
        /\ Reaches(w.nodes, C, leaf, Facing(Below(C, here), rest))

AtTheEnd(C, leaf, nodes) ==
    \E v : /\ Reaches(nodes, C, leaf, v)
           /\ \/ v.verdict = "NonMember" /\ \A a \in Nat : <<leaf.key, a>> \notin C
              \/ \E a \in Nat : v = Facing(LeafHash(a), <<>>) /\ <<leaf.key, a>> \in C

HonestWalk(d, C, leaf, n, w) ==
    /\ w \in ProofWalks(d, leaf.key) /\ w.nodes \in Seq(ProofNode)
    /\ w.open => OnTheWay(d, C, leaf, w) /\ w.height >= n
    /\ ~ w.open => AtTheEnd(C, leaf, w.nodes)

(* The two ways a walk goes on. *)
LEMMA WalkOn ==
    ASSUME NEW d, NEW C, NEW leaf, NEW n \in Nat, NEW w, HonestWalk(d, C, leaf, n, w), w.open,
           NEW node \in ProofNode, NEW idx \in Stored(d), NEW here \in Bits, NEW rest \in Bits,
           leaf.key = here \o rest, Len(here) >= n + 1, Below(C, here) = StoredHash(d, idx),
           NEW v, Reaches(w.nodes, C, leaf, v), VerifyStep(v, node) = Facing(StoredHash(d, idx), rest),
           NEW next, next \in ProofWalks(d, leaf.key),
           next = [w EXCEPT !.nodes = Append(@, node), !.idx = idx, !.height = Len(here)]
    PROVE  HonestWalk(d, C, leaf, n + 1, next)
<1>1. w.nodes \in Seq(ProofNode) /\ w \in [nodes : Seq(ProofNode) \union {NoProof}, idx : Stored(d), height : 0..Len(leaf.key), open : BOOLEAN]
    BY DEF HonestWalk, ProofWalks
<1>2. next.nodes = Append(w.nodes, node) /\ next.idx = idx /\ next.height = Len(here) /\ next.open
    BY <1>1
<1>3. next.nodes \in Seq(ProofNode)
    BY <1>1, <1>2
<1>4. Reaches(next.nodes, C, leaf, Facing(Below(C, here), rest))
    <2>1. Reaches(Append(w.nodes, node), C, leaf, VerifyStep(v, node))
        BY <1>1, ReachesNext
    <2> QED
        BY <1>2, <2>1
<1>5. OnTheWay(d, C, leaf, next)
    BY <1>2, <1>4 DEF OnTheWay
<1> QED
    BY <1>2, <1>3, <1>5 DEF HonestWalk

LEMMA WalkEnds ==
    ASSUME NEW d, NEW C, NEW leaf, NEW n \in Nat, NEW w, HonestWalk(d, C, leaf, n, w), w.open,
           NEW node \in ProofNode, NEW v, Reaches(w.nodes, C, leaf, v),
           \/ VerifyStep(v, node).verdict = "NonMember" /\ \A a \in Nat : <<leaf.key, a>> \notin C
           \/ \E a \in Nat : VerifyStep(v, node) = Facing(LeafHash(a), <<>>) /\ <<leaf.key, a>> \in C,
           NEW next, next \in ProofWalks(d, leaf.key),
           next = [w EXCEPT !.nodes = Append(@, node), !.open = FALSE]
    PROVE  HonestWalk(d, C, leaf, n + 1, next)
<1>1. w.nodes \in Seq(ProofNode) /\ w \in [nodes : Seq(ProofNode) \union {NoProof}, idx : Stored(d), height : 0..Len(leaf.key), open : BOOLEAN]
    BY DEF HonestWalk, ProofWalks
<1>2. next.nodes = Append(w.nodes, node) /\ ~ next.open
    BY <1>1
<1>3. next.nodes \in Seq(ProofNode)
    BY <1>1, <1>2
<1>4. Reaches(next.nodes, C, leaf, VerifyStep(v, node))
    <2>1. Reaches(Append(w.nodes, node), C, leaf, VerifyStep(v, node))
        BY <1>1, ReachesNext
    <2> QED
        BY <1>2, <2>1
<1> DEFINE step == VerifyStep(v, node)
<1> HIDE DEF step
<1>5. \/ step.verdict = "NonMember" /\ \A a \in Nat : <<leaf.key, a>> \notin C
      \/ \E a \in Nat : step = Facing(LeafHash(a), <<>>) /\ <<leaf.key, a>> \in C
    BY DEF step
<1>6. AtTheEnd(C, leaf, next.nodes)
    BY <1>4, <1>5 DEF AtTheEnd, step
<1> QED
    BY <1>2, <1>3, <1>6 DEF HonestWalk

LEMMA ProofStepHonest ==
    ASSUME NEW d, TrueTables(d), NEW C, NEW H, WholeKeys(C, H), NEW leaf, leaf.key \in Bits, Len(leaf.key) = H,
           NEW max, ValuesAt(d, max, C), NEW n \in Nat, NEW w, HonestWalk(d, C, leaf, n, w)
    PROVE  HonestWalk(d, C, leaf, n + 1, ProofStep(d, max, leaf.key, w))
<1> DEFINE next == ProofStep(d, max, leaf.key, w)
           key == leaf.key
<1>1. GoodTables(d) /\ C \in Hash /\ w \in ProofWalks(d, key)
    BY DEF TrueTables, WholeKeys, HonestWalk
<1>2. next \in ProofWalks(d, key)
    BY <1>1, ProofStepIs
<1>3. CASE ~ w.open
    <2>1. next = w
        BY <1>3 DEF ProofStep
    <2> QED
        BY <1>3, <2>1 DEF HonestWalk
<1>4. CASE w.open
    <2>1. OnTheWay(d, C, leaf, w) /\ w.height >= n
        BY <1>4 DEF HonestWalk
    <2>2. PICK here, rest \in Bits :
             /\ key = here \o rest /\ w.height = Len(here)
             /\ w.idx \in Stored(d) /\ Below(C, here) = StoredHash(d, w.idx)
             /\ Reaches(w.nodes, C, leaf, Facing(Below(C, here), rest))
        BY <2>1 DEF OnTheWay
    <2> DEFINE data == StoredNode(d, w.idx)
               v == Facing(Below(C, here), rest)
    <2>3. data \in NodeDatum /\ Refs(data) \subseteq Stored(d) /\ TrueNode(d, Below(C, here), data)
        BY <1>1, <2>2, StoredRow DEF TrueTables
    <2>4. \A i \in Stored(d) : StoredHash(d, i) \in Hash /\ StoredHash(d, i) # {}
        BY <1>1, StoredRow DEF TrueTables
    <2>5. /\ Len(here) \in Nat /\ Len(rest) \in Nat /\ H = Len(here) + Len(rest) /\ H \in Nat
          /\ IsPrefix(here, key) /\ SubSeq(key, 1, w.height) = here
        <3>1. Len(here \o rest) = Len(here) + Len(rest) /\ IsPrefix(here, here \o rest)
            BY Prolonged
        <3>2. SubSeq(key, 1, Len(here)) = here
            BY <2>2, <3>1, BeginningIs
        <3> QED
            BY <2>2, <3>1, <3>2, BitsAre
    <2>6. \A b \in {0, 1} : Append(here, b) = here \o <<b>> /\ <<b>> \in Bits /\ Append(here, b) \in Bits /\ Len(Append(here, b)) = Len(here) + 1
        BY BitJoined, NextBit
    <2> HIDE DEF data, v, next
    <2>7. CASE data.kind = "Binary"
        <3> DEFINE l == StoredHash(d, data.left)
                   r == StoredHash(d, data.right)
        <3>1. data.left \in Stored(d) /\ data.right \in Stored(d) /\ l \in Hash /\ r \in Hash /\ l # {}
            BY <2>3, <2>4, <2>7 DEF Refs
        <3>2. Below(C, here) = BinaryHash(l, r)
            BY <2>3, <2>7 DEF TrueNode
        <3> HIDE DEF l, r
        <3>3. Below(C, Append(here, 0)) = l /\ Below(C, Append(here, 1)) = r
            BY <1>1, <3>1, <3>2, UnderBinary
        <3>4. Len(here) + 1 <= H
            <4>1. Len(Append(here, 0)) <= H
                BY <2>6, <3>1, <3>3, WithinHeight
            <4> QED
                BY <2>6, <4>1
        <3>5. PICK b \in {0, 1}, tail \in Bits : rest = <<b>> \o tail /\ rest[1] = b
            <4>1. rest # <<>>
                BY <2>5, <3>4
            <4> QED
                BY <4>1, FirstBit
        <3> DEFINE on == Append(here, b)
                   idx == IF b = 0 THEN data.left ELSE data.right
                   node == ProofBinary(l, r)
        <3>6. key[w.height + 1] = b
            <4>1. 1 \in 1..Len(rest)
                BY <2>5, <3>4
            <4>2. (here \o rest)[Len(here) + 1] = rest[1]
                BY <4>1, Prolonged
            <4> QED
                BY <2>2, <3>5, <4>2
        <3>7. next = [w EXCEPT !.nodes = Append(@, node), !.idx = idx, !.height = Len(on)]
            <4>1. ~ (w.height >= Len(key)) /\ Len(on) = w.height + 1
                BY <2>2, <2>5, <2>6, <3>4
            <4> QED
                BY <1>4, <2>7, <3>6, <4>1 DEF ProofStep, next, data, l, r
        <3>8. key = on \o tail /\ on \in Bits
            <4>1. here \o (<<b>> \o tail) = (here \o <<b>>) \o tail
                <5>1. StartsWith(b, here, tail)
                    BY BitBefore
                <5> QED
                    BY <5>1 DEF StartsWith, Regroups
            <4> QED
                BY <2>2, <2>6, <3>5, <4>1
        <3>9. Below(C, on) = StoredHash(d, idx) /\ idx \in Stored(d) /\ Len(on) >= n + 1
            BY <2>1, <2>2, <2>5, <2>6, <3>1, <3>3 DEF l, r
        <3>10. VerifyStep(v, node) = Facing(StoredHash(d, idx), tail) /\ node \in ProofNode
            <4>1. VerifyStep(Facing(BinaryHash(l, r), <<b>> \o tail), ProofBinary(l, r)) = Facing(IF b = 0 THEN l ELSE r, tail)
                BY <3>1, FacingBinary
            <4>2. (IF b = 0 THEN l ELSE r) = StoredHash(d, idx)
                BY DEF l, r
            <4>3. node \in ProofNode
                BY <3>1 DEF ProofNode, ProofBinary
            <4> QED
                BY <3>2, <3>5, <4>1, <4>2, <4>3 DEF v
        <3> HIDE DEF on, idx, node, key
        <3>11. leaf.key = on \o tail /\ next \in ProofWalks(d, leaf.key) /\ Reaches(w.nodes, C, leaf, v)
            BY <1>2, <2>2, <3>8 DEF key, next, v
        <3>12. HonestWalk(d, C, leaf, n + 1, next)
            BY <1>4, <3>7, <3>8, <3>9, <3>10, <3>11, WalkOn
        <3> QED
            BY <3>12 DEF next
    <2>8. CASE data.kind = "Edge"
        <3> DEFINE path == data.path
                   child == StoredHash(d, data.child)
                   far == here \o path
                   node == ProofEdge(path, child)
        <3>1. data.child \in Stored(d) /\ child \in Hash /\ child # {} /\ path \in Bits /\ path # <<>>
            BY <2>3, <2>4, <2>8, NodeData4 DEF Refs
        <3>2. Below(C, here) = EdgeHash(path, child)
            BY <2>3, <2>8 DEF TrueNode
        <3> HIDE DEF path, child
        <3>3. Below(C, far) = child /\ \A e \in C : IsPrefix(here, e[1]) => IsPrefix(far, e[1])
            BY <1>1, <3>1, <3>2, UnderEdge
        <3>4. far \in Bits /\ Len(far) = Len(here) + Len(path) /\ Len(path) \in Nat /\ Len(path) >= 1
            BY <3>1, Prolonged, BitsAre DEF Bits
        <3>5. Len(path) <= Len(rest)
            <4>1. Len(far) <= H
                BY <3>1, <3>3, <3>4, WithinHeight
            <4> QED
                BY <2>5, <3>4, <4>1
        <3>6. SubSeq(key, w.height + 1, w.height + Len(path)) = path <=> IsPrefix(path, rest)
            <4>1. path \in Bits
                BY <3>1
            <4>2. key = here \o rest /\ w.height = Len(here)
                BY <2>2
            <4>3. SubSeq(key, Len(here) + 1, Len(here) + Len(path)) = path <=> IsPrefix(path, rest)
                BY <3>5, <4>1, <4>2, MiddleIs
            <4> QED
                BY <4>2, <4>3
        <3>7. next = IF IsPrefix(path, rest)
                     THEN [w EXCEPT !.nodes = Append(@, node), !.idx = data.child, !.height = w.height + Len(path)]
                     ELSE [w EXCEPT !.nodes = Append(@, node), !.open = FALSE]
            <4>1. ~ (w.height + Len(path) > Len(key))
                BY <2>2, <2>5, <3>4, <3>5
            <4> QED
                BY <1>4, <2>8, <3>6, <4>1 DEF ProofStep, next, data, path, child
        <3>8. node \in ProofNode
            BY <3>1 DEF ProofNode, ProofEdge
        <3>9. Reaches(w.nodes, C, leaf, v) /\ next \in ProofWalks(d, leaf.key)
            BY <1>2, <2>2 DEF v, next
        <3>10. CASE IsPrefix(path, rest)
            <4>1. PICK tail \in Bits : rest = path \o tail
                BY <3>1, <3>10, PrefixParts
            <4>2. key = far \o tail
                <5>1. here \o (path \o tail) = (here \o path) \o tail
                    <6>1. Regroups(here, path, tail)
                        BY <3>1, Grouped
                    <6> QED
                        BY <6>1 DEF Regroups
                <5> QED
                    BY <2>2, <4>1, <5>1
            <4>3. VerifyStep(v, node) = Facing(child, tail)
                <5>1. VerifyStep(Facing(EdgeHash(path, child), rest), ProofEdge(path, child)) = Facing(child, tail)
                    <6>1. \A x \in Bits : rest = path \o x =>
                             VerifyStep(Facing(EdgeHash(path, child), rest), ProofEdge(path, child)) = Facing(child, x)
                        BY <3>1, <3>5, FacingEdge
                    <6> QED
                        BY <4>1, <6>1
                <5> QED
                    BY <3>2, <5>1 DEF v
            <4>4. next = [w EXCEPT !.nodes = Append(@, node), !.idx = data.child, !.height = Len(far)]
                BY <2>2, <3>4, <3>7, <3>10
            <4>5. Len(far) >= n + 1
                BY <2>1, <2>2, <2>5, <3>4
            <4>6. Below(C, far) = StoredHash(d, data.child) /\ VerifyStep(v, node) = Facing(StoredHash(d, data.child), tail)
                BY <3>3, <4>3 DEF child
            <4> HIDE DEF far, node, key
            <4>7. leaf.key = far \o tail
                BY <4>2 DEF key
            <4>8. HonestWalk(d, C, leaf, n + 1, next)
                BY <1>4, <3>1, <3>4, <3>8, <3>9, <4>4, <4>5, <4>6, <4>7, WalkOn
            <4> QED
                BY <4>8 DEF next
        <3>11. CASE ~ IsPrefix(path, rest)
            <4>1. VerifyStep(v, node).verdict = "NonMember"
                <5>1. VerifyStep(Facing(EdgeHash(path, child), rest), ProofEdge(path, child)).verdict = "NonMember"
                    BY <3>1, <3>5, <3>11, FacingEdge
                <5> QED
                    BY <3>2, <5>1 DEF v
            <4>2. \A a \in Nat : <<leaf.key, a>> \notin C
                <5> SUFFICES ASSUME NEW a \in Nat, <<leaf.key, a>> \in C PROVE FALSE
                    OBVIOUS
                <5>1. IsPrefix(far, key)
                    <6> DEFINE e == <<leaf.key, a>>
                    <6>1. e \in C /\ e[1] = key
                        OBVIOUS
                    <6> HIDE DEF e, far, key
                    <6> QED
                        BY <2>5, <3>3, <6>1
                <5>2. IsPrefix(here \o path, here \o rest)
                    BY <2>2, <5>1
                <5> QED
                    BY <3>1, <3>11, <5>2, PrefixJoined
            <4>3. next = [w EXCEPT !.nodes = Append(@, node), !.open = FALSE]
                BY <3>7, <3>11
            <4> HIDE DEF node
            <4>4. HonestWalk(d, C, leaf, n + 1, next)
                BY <1>4, <3>8, <3>9, <4>1, <4>2, <4>3, WalkEnds
            <4> QED
                BY <4>4 DEF next
        <3> QED
            BY <3>10, <3>11
    <2>9. CASE data.kind = "LeafBinary"
        <3>1. PICK a0, a1 \in Nat : Below(C, here) = BinaryHash(LeafHash(a0), LeafHash(a1))
            BY <2>3, <2>9 DEF TrueNode
        <3>2. LeafHash(a0) \in Hash /\ LeafHash(a1) \in Hash
            BY LeafHashIs
        <3>3. Below(C, Append(here, 0)) = LeafHash(a0) /\ Below(C, Append(here, 1)) = LeafHash(a1)
            BY <1>1, <3>1, <3>2, UnderBinary
        <3>4. <<Append(here, 0), a0>> \in C /\ <<Append(here, 1), a1>> \in C
            BY <1>1, <2>6, <3>3, BelowLeaf
        <3>5. Len(rest) = 1
            <4> DEFINE e == <<Append(here, 0), a0>>
            <4>1. e \in C /\ e[1] = Append(here, 0)
                BY <3>4
            <4> HIDE DEF e
            <4>2. Len(e[1]) = H
                BY <4>1 DEF WholeKeys
            <4>3. Len(here) + 1 = H
                BY <2>6, <4>1, <4>2
            <4>4. Len(here) \in Nat /\ Len(rest) \in Nat /\ H = Len(here) + Len(rest)
                BY <2>5
            <4>5. \A x, y \in Nat : x + 1 = x + y => y = 1
                OBVIOUS
            <4> QED
                BY <4>3, <4>4, <4>5
        <3>6. StorageLeaf(d, max, Append(here, 0)) = a0 /\ StorageLeaf(d, max, Append(here, 1)) = a1
            <4>1. \A x, a : <<x, a>> \in C => StorageLeaf(d, max, x) = a
                BY DEF ValuesAt
            <4> QED
                BY <3>4, <4>1
        <3> DEFINE node == ProofBinary(LeafHash(a0), LeafHash(a1))
        <3>7. next = [w EXCEPT !.nodes = Append(@, node), !.open = FALSE]
            <4>1. NoLeaf \notin {a0, a1}
                BY DEF NoLeaf
            <4> QED
                BY <1>4, <2>5, <2>9, <3>6, <4>1 DEF ProofStep, next, data
        <3>8. PICK b \in {0, 1}, tail \in Bits : rest = <<b>> \o tail /\ Len(rest) = Len(tail) + 1
            <4>1. rest # <<>>
                BY <3>5, OneIsSome
            <4> QED
                BY <4>1, FirstBit
        <3>9. tail = <<>>
            BY <3>5, <3>8, BitsAre DEF Bits
        <3> DEFINE a == IF b = 0 THEN a0 ELSE a1
        <3>10. key = Append(here, b)
            BY <2>2, <2>6, <3>8, <3>9, ToEmpty
        <3>11. VerifyStep(v, node) = Facing(LeafHash(a), <<>>) /\ node \in ProofNode
            <4>1. VerifyStep(Facing(BinaryHash(LeafHash(a0), LeafHash(a1)), <<b>> \o tail), node) = Facing(IF b = 0 THEN LeafHash(a0) ELSE LeafHash(a1), tail)
                BY <3>2, FacingBinary
            <4>2. (IF b = 0 THEN LeafHash(a0) ELSE LeafHash(a1)) = LeafHash(a)
                OBVIOUS
            <4>3. node \in ProofNode
                BY <3>2 DEF ProofNode, ProofBinary
            <4> QED
                BY <3>1, <3>8, <3>9, <4>1, <4>2, <4>3 DEF v
        <3>12. <<leaf.key, a>> \in C /\ a \in Nat
            BY <3>4, <3>10
        <3>13. Reaches(w.nodes, C, leaf, v) /\ next \in ProofWalks(d, leaf.key)
            BY <1>2, <2>2 DEF v, next
        <3> HIDE DEF node, a
        <3>14. \E x \in Nat : VerifyStep(v, node) = Facing(LeafHash(x), <<>>) /\ <<leaf.key, x>> \in C
            BY <3>11, <3>12
        <3>15. HonestWalk(d, C, leaf, n + 1, next)
            BY <1>4, <3>7, <3>11, <3>13, <3>14, WalkEnds
        <3> QED
            BY <3>15 DEF next
    <2>10. CASE data.kind = "LeafEdge"
        <3> DEFINE path == data.path
                   far == here \o path
        <3>0. path \in Bits /\ far \in Bits /\ Len(far) = Len(here) + Len(path) /\ Len(path) \in Nat
            BY <2>3, <2>10, NodeData4, Prolonged, BitsAre
        <3>1. PICK a \in Nat : Below(C, here) = EdgeHash(path, LeafHash(a))
            BY <2>3, <2>10 DEF TrueNode
        <3>2. LeafHash(a) \in Hash
            BY LeafHashIs
        <3> HIDE DEF path
        <3>3. Below(C, far) = LeafHash(a) /\ \A e \in C : IsPrefix(here, e[1]) => IsPrefix(far, e[1])
            BY <1>1, <3>0, <3>1, <3>2, UnderEdge
        <3>4. <<far, a>> \in C
            <4> HIDE DEF far
            <4> QED
                BY <1>1, <3>0, <3>3, BelowLeaf
        <3>5. Len(path) = Len(rest)
            <4> DEFINE e == <<far, a>>
            <4>1. e \in C /\ e[1] = far
                BY <3>4
            <4> HIDE DEF e, far
            <4>2. Len(e[1]) = H
                BY <4>1 DEF WholeKeys
            <4> QED
                BY <2>5, <3>0, <4>1, <4>2
        <3>6. StorageLeaf(d, max, far) = a
            <4>1. \A x, y : <<x, y>> \in C => StorageLeaf(d, max, x) = y
                BY DEF ValuesAt
            <4> QED
                BY <3>4, <4>1
        <3> DEFINE node == ProofEdge(path, LeafHash(a))
        <3>7. next = [w EXCEPT !.nodes = Append(@, node), !.open = FALSE]
            <4>1. a # NoLeaf
                BY DEF NoLeaf
            <4> QED
                BY <1>4, <2>5, <2>10, <3>6, <4>1 DEF ProofStep, next, data, path
        <3>8. node \in ProofNode
            BY <3>0, <3>2 DEF ProofNode, ProofEdge
        <3>9. Reaches(w.nodes, C, leaf, v) /\ next \in ProofWalks(d, leaf.key)
            BY <1>2, <2>2 DEF v, next
        <3>10. Len(path) <= Len(rest)
            BY <2>5, <3>5
        <3>11. CASE IsPrefix(path, rest)
            <4>1. rest = path /\ path = path \o <<>>
                BY <3>0, <3>5, <3>11, PrefixOrder, ToEmpty
            <4>2. VerifyStep(Facing(EdgeHash(path, LeafHash(a)), rest), ProofEdge(path, LeafHash(a))) = Facing(LeafHash(a), <<>>)
                <5>1. \A x \in Bits : rest = path \o x =>
                         VerifyStep(Facing(EdgeHash(path, LeafHash(a)), rest), ProofEdge(path, LeafHash(a))) = Facing(LeafHash(a), x)
                    BY <3>0, <3>2, <3>10, FacingEdge
                <5> QED
                    BY <4>1, <5>1, EmptyBits
            <4>3. VerifyStep(v, node) = Facing(LeafHash(a), <<>>)
                BY <3>1, <4>2 DEF v
            <4>4. <<leaf.key, a>> \in C
                BY <2>2, <3>4, <4>1
            <4> HIDE DEF node
            <4>5. \E x \in Nat : VerifyStep(v, node) = Facing(LeafHash(x), <<>>) /\ <<leaf.key, x>> \in C
                BY <4>3, <4>4
            <4>6. HonestWalk(d, C, leaf, n + 1, next)
                BY <1>4, <3>7, <3>8, <3>9, <4>5, WalkEnds
            <4> QED
                BY <4>6 DEF next
        <3>12. CASE ~ IsPrefix(path, rest)
            <4>1. VerifyStep(v, node).verdict = "NonMember"
                <5>1. VerifyStep(Facing(EdgeHash(path, LeafHash(a)), rest), ProofEdge(path, LeafHash(a))).verdict = "NonMember"
                    BY <3>0, <3>2, <3>10, <3>12, FacingEdge
                <5> QED
                    BY <3>1, <5>1 DEF v
            <4>2. \A x \in Nat : <<leaf.key, x>> \notin C
                <5> SUFFICES ASSUME NEW x \in Nat, <<leaf.key, x>> \in C PROVE FALSE
                    OBVIOUS
                <5>1. IsPrefix(far, key)
                    <6> DEFINE e == <<leaf.key, x>>
                    <6>1. e \in C /\ e[1] = key
                        OBVIOUS
                    <6> HIDE DEF e, far, key
                    <6> QED
                        BY <2>5, <3>3, <6>1
                <5>2. IsPrefix(here \o path, here \o rest)
                    BY <2>2, <5>1
                <5> QED
                    BY <3>0, <3>12, <5>2, PrefixJoined
            <4> HIDE DEF node
            <4>3. HonestWalk(d, C, leaf, n + 1, next)
                BY <1>4, <3>7, <3>8, <3>9, <4>1, <4>2, WalkEnds
            <4> QED
                BY <4>3 DEF next
        <3> QED
            BY <3>11, <3>12
    <2> QED
        BY <2>3, <2>7, <2>8, <2>9, <2>10, NodeData4
<1> QED
    BY <1>3, <1>4, <1>1 DEF HonestWalk, ProofWalks

(* get_proof on true tables, at the root of a content: verify_proof accepts *)
(* its nodes, as a member with the value of the key or, if the key has none *)
(* there, as no member.                                                     *)
THEOREM ProofMeans ==
    ASSUME NEW d, TrueTables(d), NEW idx \in Stored(d), NEW H \in Nat, WholeKeys(StoredHash(d, idx), H),
           NEW leaf, leaf.key \in Bits, Len(leaf.key) = H, NEW max, ValuesAt(d, max, StoredHash(d, idx))
    PROVE  /\ GetProof(d, max, idx, leaf.key) \in Seq(ProofNode)
           /\ leaf.value \in Nat /\ <<leaf.key, leaf.value>> \in StoredHash(d, idx) =>
                 VerifyProof(GetProof(d, max, idx, leaf.key), StoredHash(d, idx), leaf) = "Member"
           /\ (\A a \in Nat : <<leaf.key, a>> \notin StoredHash(d, idx)) =>
                 VerifyProof(GetProof(d, max, idx, leaf.key), StoredHash(d, idx), leaf) = "NonMember"
<1> DEFINE C == StoredHash(d, idx)
           key == leaf.key
           N == H + 1
<1>1. GoodTables(d) /\ C \in Hash
    BY DEF TrueTables, WholeKeys
<1>2. PICK walk : ProofRun(walk, d, max, idx, key)
    BY <1>1, ProofRuns
<1>3. /\ walk[0] = FirstWalk(idx) /\ \A n \in Nat : walk[n + 1] = ProofStep(d, max, key, walk[n])
      /\ GetProof(d, max, idx, key) = walk[N].nodes
    BY <1>2 DEF ProofRun
<1>4. HonestWalk(d, C, leaf, 0, FirstWalk(idx))
    <2> DEFINE w == FirstWalk(idx)
    <2>1. w.nodes = <<>> /\ w.idx = idx /\ w.height = 0 /\ w.open
        BY DEF FirstWalk
    <2>2. w \in ProofWalks(d, key) /\ w.nodes \in Seq(ProofNode)
        <3>1. 0 \in 0..Len(key) /\ <<>> \in Seq(ProofNode)
            BY BitsAre
        <3> QED
            BY <3>1 DEF FirstWalk, ProofWalks
    <2> HIDE DEF w
    <2>3. Below(C, <<>>) = C /\ <<>> \o key = key /\ <<>> \in Bits /\ Len(<<>>) = 0
        BY <1>1, BelowNothing, EmptyBits, ConcatEmptySeq DEF Bits
    <2>4. Reaches(<<>>, C, leaf, Facing(C, key))
        BY ReachesFirst DEF FirstVerify, Facing
    <2>5. OnTheWay(d, C, leaf, w)
        BY <2>1, <2>3, <2>4 DEF OnTheWay
    <2> QED
        BY <2>1, <2>2, <2>5 DEF HonestWalk, w
<1> HIDE DEF C
<1>5. WholeKeys(C, H) /\ ValuesAt(d, max, C)
    BY DEF C
<1> DEFINE T == {n \in 0..N : HonestWalk(d, C, leaf, n, walk[n])}
<1>6. 0 \in T
    BY <1>3, <1>4
<1>7. ASSUME NEW n \in 0..N, n < N, n \in T PROVE n + 1 \in T
    <2>1. n \in Nat /\ n + 1 \in 0..N
        BY <1>7
    <2>2. HonestWalk(d, C, leaf, n + 1, ProofStep(d, max, leaf.key, walk[n]))
        BY <1>5, <1>7, <2>1, ProofStepHonest
    <2> QED
        BY <1>3, <2>1, <2>2
<1>8. 0..N \subseteq T
    <2>1. N \in Nat
        OBVIOUS
    <2> HIDE DEF T, N
    <2> QED
        BY <1>6, <1>7, <2>1, UpTo
<1>9. HonestWalk(d, C, leaf, N, walk[N])
    <2>1. N \in 0..N
        OBVIOUS
    <2> QED
        BY <1>8, <2>1
<1> DEFINE proof == walk[N].nodes
<1>10. proof \in Seq(ProofNode) /\ AtTheEnd(C, leaf, proof)
    <2>1. walk[N].height \in 0..Len(key)
        BY <1>9 DEF HonestWalk, ProofWalks
    <2>2. ~ (walk[N].height >= N)
        BY <2>1
    <2> HIDE DEF N
    <2> QED
        BY <1>9, <2>2 DEF HonestWalk
<1> HIDE DEF proof, N
<1>11. PICK v : /\ Reaches(proof, C, leaf, v)
                /\ \/ v.verdict = "NonMember" /\ \A a \in Nat : <<leaf.key, a>> \notin C
                   \/ \E a \in Nat : v = Facing(LeafHash(a), <<>>) /\ <<leaf.key, a>> \in C
    BY <1>10 DEF AtTheEnd
<1>12. VerifyProof(proof, C, leaf) = Verdict(v, proof, C, leaf)
    BY <1>1, <1>10, <1>11, ReachesVerdict DEF C
<1>13. CASE v.verdict = "NonMember" /\ \A a \in Nat : <<leaf.key, a>> \notin C
    <2>1. VerifyProof(proof, C, leaf) = "NonMember"
        BY <1>12, <1>13 DEF Verdict
    <2> QED
        BY <1>3, <1>10, <1>13, <2>1 DEF proof, C
<1>14. CASE \E a \in Nat : v = Facing(LeafHash(a), <<>>) /\ <<leaf.key, a>> \in C
    <2>1. PICK a \in Nat : v = Facing(LeafHash(a), <<>>) /\ <<leaf.key, a>> \in C
        BY <1>14
    <2>2. ASSUME <<leaf.key, leaf.value>> \in C PROVE VerifyProof(proof, C, leaf) = "Member"
        <3>1. leaf.value = a
            <4> DEFINE e == <<leaf.key, leaf.value>>
                       f == <<leaf.key, a>>
            <4>1. e \in C /\ f \in C /\ e[1] = f[1] /\ e[2] = leaf.value /\ f[2] = a
                BY <2>1, <2>2
            <4> HIDE DEF e, f
            <4>2. e = f
                BY <1>5, <4>1 DEF WholeKeys
            <4> QED
                BY <4>1, <4>2
        <3>2. v.verdict = "open" /\ v.path = <<>> /\ v.expected = LeafHash(a)
            BY <2>1 DEF Facing
        <3> QED
            BY <1>12, <3>1, <3>2 DEF Verdict
    <2> QED
        BY <1>3, <1>10, <2>1, <2>2 DEF proof, C
<1> QED
    BY <1>11, <1>13, <1>14

-----------------------------------------------------------------------------
(* A table whose rows stand at the index they carry, and the rows an update *)
(* adds to it: the new nodes are as true as the old ones were.              *)

InPlace(d) == \A i \in DOMAIN d.nodes : d.nodes[i].trie_idx = i
RowOf(d, hash) == FirstRow(WithHash(d.nodes, hash))

LEMMA FirstIs ==
    ASSUME NEW hits, hits \subseteq Nat, NEW i \in hits, \A j \in hits : i <= j
    PROVE  FirstRow(hits) = i
<1>1. FirstRow(hits) \in hits /\ \A j \in hits : FirstRow(hits) <= j
    BY FirstHit
<1>2. FirstRow(hits) \in Nat /\ i \in Nat /\ FirstRow(hits) <= i /\ i <= FirstRow(hits)
    BY <1>1
<1> QED
    BY <1>2

LEMMA LastIs ==
    ASSUME NEW hits, hits \subseteq Nat, NEW i \in hits, \A j \in hits : j <= i
    PROVE  LastRow(hits) = i
<1>1. hits \subseteq 0..i /\ i \in Nat
    BY DEF FirstRow
<1>2. LastRow(hits) \in hits /\ \A j \in hits : LastRow(hits) >= j
    BY <1>1, LastHit
<1>3. LastRow(hits) \in Nat /\ LastRow(hits) <= i /\ LastRow(hits) >= i
    BY <1>2
<1> QED
    BY <1>1, <1>3

LEMMA InPlaceIs ==
    ASSUME NEW d, GoodTables(d), InPlace(d)
    PROVE  /\ Len(d.nodes) \in Nat /\ DOMAIN d.nodes = 1..Len(d.nodes) /\ Stored(d) = 1..Len(d.nodes)
           /\ \A i \in 1..Len(d.nodes) :
                 /\ d.nodes[i] \in NodeRow
                 /\ StoredHash(d, i) = d.nodes[i].hash /\ StoredNode(d, i) = d.nodes[i].data
           /\ \A hash : GetNodeIdxByHash(d, hash) = RowOf(d, hash)
<1>1. d.nodes \in Seq(NodeRow)
    BY DEF GoodTables
<1>2. Len(d.nodes) \in Nat /\ DOMAIN d.nodes = 1..Len(d.nodes) /\ \A i \in 1..Len(d.nodes) : d.nodes[i] \in NodeRow
    BY <1>1
<1>3. Stored(d) = 1..Len(d.nodes)
    BY <1>2 DEF Stored, InPlace
<1>4. ASSUME NEW i \in 1..Len(d.nodes)
      PROVE  StoredHash(d, i) = d.nodes[i].hash /\ StoredNode(d, i) = d.nodes[i].data
    <2>1. WithIdx(d, i) = {i}
        BY <1>2 DEF WithIdx, InPlace
    <2>2. FirstRow({i}) = i
        <3>1. {i} \subseteq Nat /\ i \in {i} /\ \A j \in {i} : i <= j
            BY <1>2
        <3> QED
            BY <3>1, FirstIs
    <2> QED
        BY <2>1, <2>2 DEF StoredHash, StoredNode
<1>5. ASSUME NEW hash PROVE GetNodeIdxByHash(d, hash) = RowOf(d, hash)
    <2> DEFINE hits == WithHash(d.nodes, hash)
    <2>1. hits \subseteq DOMAIN d.nodes
        BY DEF WithHash
    <2>2. CASE hits = {}
        BY <2>2 DEF GetNodeIdxByHash, RowOf, IdxIn, FirstRow, NoIdx
    <2>3. CASE hits # {}
        <3>1. hits \subseteq Nat
            BY <1>2, <2>1
        <3> HIDE DEF hits
        <3>2. FirstRow(hits) \in hits
            BY <2>3, <3>1, FirstHit
        <3>3. FirstRow(hits) \in DOMAIN d.nodes /\ FirstRow(hits) # 0
            BY <1>2, <2>1, <3>2
        <3> QED
            BY <3>3 DEF GetNodeIdxByHash, RowOf, IdxIn, InPlace, hits
    <2> QED
        BY <2>2, <2>3
<1> QED
    BY <1>2, <1>3, <1>4, <1>5

LEMMA RowsJoined ==
    ASSUME NEW S, NEW s \in Seq(S), NEW t \in Seq(S), NEW m \in 0..Len(t), NEW u, u = s \o SubSeq(t, 1, m)
    PROVE  /\ u \in Seq(S) /\ Len(s) \in Nat /\ Len(t) \in Nat /\ m \in Nat /\ Len(u) = Len(s) + m
           /\ \A i \in 1..Len(s) : u[i] = s[i]
           /\ \A n \in 1..m : u[Len(s) + n] = t[n]
<1> DEFINE part == SubSeq(t, 1, m)
<1>1. Len(s) \in Nat /\ Len(t) \in Nat /\ m \in Nat /\ m <= Len(t) /\ \A i \in 1..m : t[i] \in S
    OBVIOUS
<1>2. part \in Seq(S) /\ Len(part) = m /\ \A i \in 1..m : part[i] = t[i]
    <2>1. /\ part \in Seq(S) /\ Len(part) = IF 1 <= m THEN m - 1 + 1 ELSE 0
          /\ \A i \in 1..m - 1 + 1 : part[i] = t[1 + i - 1]
        BY <1>1, SubSeqProperties
    <2> HIDE DEF part
    <2> QED
        BY <1>1, <2>1
<1> HIDE DEF part
<1>3. u = s \o part
    BY DEF part
<1>4. /\ u \in Seq(S) /\ Len(u) = Len(s) + m
      /\ \A i \in 1..Len(s) + m : u[i] = IF i <= Len(s) THEN s[i] ELSE part[i - Len(s)]
    BY <1>2, <1>3, ConcatProperties
<1>5. \A i \in 1..Len(s) : u[i] = s[i]
    BY <1>1, <1>4
<1>6. ASSUME NEW n \in 1..m PROVE u[Len(s) + n] = t[n]
    <2>1. Len(s) + n \in 1..Len(s) + m /\ ~ (Len(s) + n <= Len(s)) /\ Len(s) + n - Len(s) = n
        BY <1>1
    <2>2. u[Len(s) + n] = part[n]
        BY <1>4, <2>1
    <2> QED
        BY <1>2, <2>2
<1> QED
    BY <1>1, <1>4, <1>5, <1>6

LEMMA OldOrNew ==
    ASSUME NEW K \in Nat, NEW m \in Nat
    PROVE  /\ \A i \in 1..K + m : i \in 1..K \/ \E n \in 1..m : i = K + n
           /\ \A i \in 1..K : i \in 1..K + m
           /\ \A n \in 1..m : K + n \in 1..K + m
<1>1. ASSUME NEW i \in 1..K + m, i \notin 1..K PROVE \E n \in 1..m : i = K + n
    <2>1. i - K \in 1..m /\ i = K + (i - K)
        BY <1>1
    <2> QED
        BY <2>1
<1>2. \A i \in 1..K : i \in 1..K + m
    OBVIOUS
<1>3. \A n \in 1..m : K + n \in 1..K + m
    OBVIOUS
<1> QED
    BY <1>1, <1>2, <1>3

(* The rows of an update, behind the K rows there are. *)
PlanRows(plan, nodes, K) ==
    /\ Len(plan) = Len(nodes) /\ plan \in Seq(NodeRow)
    /\ \A n \in 1..Len(nodes) :
          /\ plan[n].trie_idx = K + n /\ plan[n].hash = nodes[n].hash
          /\ plan[n].data = StoredForm(nodes[n].data, K + 1)

LEMMA PlanIs ==
    ASSUME NEW d, GoodTables(d), NEW update, Added(d, update.nodes_added), NEW K \in Nat
    PROVE  PlanRows(NodesToPersist(update, K), update.nodes_added, K)
<1> DEFINE nodes == update.nodes_added
           rows == NodesToPersist(update, K)
<1>1. Len(nodes) \in Nat /\ DOMAIN nodes = 1..Len(nodes)
    BY DEF Added
<1>2. rows = [n \in DOMAIN nodes |-> [trie_idx |-> K + 1 + n - 1, hash |-> nodes[n].hash,
                                      data |-> StoredForm(nodes[n].data, K + 1)]]
    BY DEF NodesToPersist
<1>3. rows \in Seq(NodeRow)
    BY RowsArePending DEF Pending
<1> HIDE DEF nodes, rows
<1>4. ASSUME NEW n \in 1..Len(nodes)
      PROVE  /\ rows[n].trie_idx = K + n /\ rows[n].hash = nodes[n].hash
             /\ rows[n].data = StoredForm(nodes[n].data, K + 1)
    <2>1. rows[n] = [trie_idx |-> K + 1 + n - 1, hash |-> nodes[n].hash, data |-> StoredForm(nodes[n].data, K + 1)]
        BY <1>1, <1>2
    <2>2. K + 1 + n - 1 = K + n
        BY <1>1
    <2> QED
        BY <2>1, <2>2
<1>5. Len(rows) = Len(nodes)
    BY <1>1, <1>2, <1>3
<1> QED
    BY <1>3, <1>4, <1>5 DEF PlanRows, rows, nodes

(* Some of the rows of an update behind a table. *)
PartOf(d, plan, m, e) ==
    /\ m \in 0..Len(plan) /\ e.nodes = d.nodes \o SubSeq(plan, 1, m) /\ e.leafs \in Seq(LeafRow)

(* e is d with m rows of the update "nodes". *)
PartJoined(d, nodes, plan, K, m, e) ==
    K = Len(d.nodes) /\ PlanRows(plan, nodes, K) /\ Pending(d, plan) /\ PartOf(d, plan, m, e)

LEMMA PartIs ==
    ASSUME NEW d, GoodTables(d), InPlace(d), NEW nodes, NEW plan, NEW K, NEW m, NEW e, PartJoined(d, nodes, plan, K, m, e)
    PROVE  /\ K \in Nat /\ m \in Nat /\ m <= Len(plan) /\ Len(plan) \in Nat /\ Len(e.nodes) = K + m
           /\ \A i \in 1..K : e.nodes[i] = d.nodes[i]
           /\ \A n \in 1..m : e.nodes[K + n] = plan[n] /\ n \in 1..Len(nodes)
           /\ GoodTables(e) /\ InPlace(e) /\ Agree(d, e)
<1>0. K = Len(d.nodes) /\ PlanRows(plan, nodes, K) /\ Pending(d, plan) /\ PartOf(d, plan, m, e)
    BY DEF PartJoined
<1>1. d.nodes \in Seq(NodeRow) /\ plan \in Seq(NodeRow) /\ Len(plan) = Len(nodes) /\ m \in 0..Len(plan)
    BY <1>0 DEF GoodTables, PlanRows, PartOf
<1>2. /\ e.nodes \in Seq(NodeRow) /\ K \in Nat /\ Len(plan) \in Nat /\ m \in Nat /\ Len(e.nodes) = K + m
      /\ \A i \in 1..K : e.nodes[i] = d.nodes[i]
      /\ \A n \in 1..m : e.nodes[K + n] = plan[n]
    <2> DEFINE s == d.nodes
               u == e.nodes
    <2>1. u = s \o SubSeq(plan, 1, m) /\ K = Len(s)
        BY <1>0 DEF PartOf
    <2>2. s \in Seq(NodeRow)
        BY <1>1
    <2> HIDE DEF s, u
    <2>3. /\ u \in Seq(NodeRow) /\ Len(s) \in Nat /\ Len(plan) \in Nat /\ m \in Nat /\ Len(u) = Len(s) + m
          /\ \A i \in 1..Len(s) : u[i] = s[i]
          /\ \A n \in 1..m : u[Len(s) + n] = plan[n]
        BY <1>1, <2>1, <2>2, RowsJoined
    <2> QED
        BY <2>1, <2>3 DEF s, u
<1>3. \A n \in 1..m : n \in 1..Len(nodes)
    BY <1>1, <1>2
<1>4. \A i \in 1..K + m : i \in 1..K \/ \E n \in 1..m : i = K + n
    BY <1>2, OldOrNew
<1>5. DOMAIN e.nodes = 1..K + m
    BY <1>2
<1>6. InPlace(e)
    <2>1. \A i \in 1..K : d.nodes[i].trie_idx = i
        BY <1>0, <1>1, <1>2 DEF InPlace
    <2>2. \A n \in 1..m : plan[n].trie_idx = K + n
        BY <1>0, <1>3 DEF PlanRows
    <2>3. ASSUME NEW i \in 1..K + m PROVE e.nodes[i].trie_idx = i
        <3>1. CASE i \in 1..K
            BY <1>2, <2>1, <3>1
        <3>2. CASE i \notin 1..K
            <4>1. PICK n \in 1..m : i = K + n
                BY <1>4, <3>2
            <4>2. e.nodes[K + n] = plan[n] /\ plan[n].trie_idx = K + n
                BY <1>2, <2>2
            <4> QED
                BY <4>1, <4>2
        <3> QED
            BY <3>1, <3>2
    <2> QED
        BY <1>5, <2>3 DEF InPlace
<1>7. Stored(d) = 1..K /\ Stored(e) = 1..K + m
    <2>1. Stored(d) = 1..K
        BY <1>0, InPlaceIs
    <2>2. Stored(e) = 1..K + m
        BY <1>5, <1>6 DEF Stored, InPlace
    <2> QED
        BY <2>1, <2>2
<1>8. (\A i \in 1..K : i \in 1..K + m) /\ \A n \in 1..m : K + n \in 1..K + m
    BY <1>2, OldOrNew
<1>9. ASSUME NEW i \in 1..K + m PROVE Refs(e.nodes[i].data) \subseteq Stored(e)
    <2>1. CASE i \in 1..K
        <3>1. Refs(d.nodes[i].data) \subseteq Stored(d)
            BY <1>0, <1>1, <1>2, <2>1 DEF GoodTables
        <3> QED
            BY <1>2, <1>7, <1>8, <2>1, <3>1
    <2>2. CASE \E n \in 1..m : i = K + n
        <3>1. PICK n \in 1..m : i = K + n
            BY <2>2
        <3>2. n \in 1..Len(plan)
            BY <1>1, <1>3
        <3>3. Refs(plan[n].data) \subseteq Stored(d) \union {plan[j].trie_idx : j \in 1..n - 1}
            BY <1>0, <3>2 DEF Pending
        <3>4. \A j \in 1..n - 1 : plan[j].trie_idx \in 1..K + m
            <4> TAKE j \in 1..n - 1
            <4>1. j \in 1..m
                BY <1>2, <3>1
            <4>2. j \in 1..Len(nodes) /\ K + j \in 1..K + m
                BY <1>3, <1>8, <4>1
            <4> QED
                BY <1>0, <4>2 DEF PlanRows
        <3>5. Stored(d) \subseteq Stored(e) /\ {plan[j].trie_idx : j \in 1..n - 1} \subseteq Stored(e)
            BY <1>7, <1>8, <3>4
        <3>6. e.nodes[i].data = plan[n].data
            BY <1>2, <3>1
        <3> QED
            BY <3>3, <3>5, <3>6
    <2> QED
        BY <1>4, <2>1, <2>2
<1>10. GoodTables(e)
    BY <1>0, <1>2, <1>5, <1>9 DEF GoodTables, PartOf
<1>11. Agree(d, e)
    <2>1. \A i \in 1..Len(e.nodes) : StoredHash(e, i) = e.nodes[i].hash /\ StoredNode(e, i) = e.nodes[i].data
        BY <1>6, <1>10, InPlaceIs
    <2>2. \A i \in 1..K : StoredHash(d, i) = d.nodes[i].hash /\ StoredNode(d, i) = d.nodes[i].data
        BY <1>0, <1>2, InPlaceIs
    <2> QED
        BY <1>2, <1>7, <1>8, <2>1, <2>2 DEF Agree
<1> QED
    BY <1>1, <1>2, <1>3, <1>6, <1>10, <1>11

LEMMA TrueOn ==
    ASSUME NEW d, NEW e, Agree(d, e), NEW hash, NEW data \in NodeDatum, Refs(data) \subseteq Stored(d), TrueNode(d, hash, data)
    PROVE  TrueNode(e, hash, data)
<1>1. CASE data.kind = "Binary"
    <2>1. data.left \in Stored(d) /\ data.right \in Stored(d)
        BY <1>1 DEF Refs
    <2>2. StoredHash(e, data.left) = StoredHash(d, data.left) /\ StoredHash(e, data.right) = StoredHash(d, data.right)
        BY <2>1 DEF Agree
    <2> QED
        BY <1>1, <2>2 DEF TrueNode
<1>2. CASE data.kind = "Edge"
    <2>1. data.child \in Stored(d)
        BY <1>2 DEF Refs
    <2>2. StoredHash(e, data.child) = StoredHash(d, data.child)
        BY <2>1 DEF Agree
    <2> QED
        BY <1>2, <2>2 DEF TrueNode
<1>3. CASE data.kind \notin {"Binary", "Edge"}
    BY <1>3 DEF TrueNode
<1> QED
    BY <1>1, <1>2, <1>3

LEMMA PartTrue ==
    ASSUME NEW d, TrueTables(d), InPlace(d), NEW nodes, NEW C, NEW H, Added(d, nodes), TrueAdded(d, nodes, C, H),
           NEW plan, NEW K, NEW m, NEW e, PartJoined(d, nodes, plan, K, m, e)
    PROVE  TrueTables(e)
<1>0. GoodTables(d)
    BY DEF TrueTables
<1>r. PlanRows(plan, nodes, K)
    BY DEF PartJoined
<1>1. /\ K \in Nat /\ m \in Nat /\ m <= Len(plan) /\ Len(plan) \in Nat /\ Len(e.nodes) = K + m
      /\ \A i \in 1..K : e.nodes[i] = d.nodes[i]
      /\ \A n \in 1..m : e.nodes[K + n] = plan[n] /\ n \in 1..Len(nodes)
      /\ GoodTables(e) /\ InPlace(e) /\ Agree(d, e)
    BY <1>0, PartIs
<1>2. /\ Stored(d) = 1..K /\ Stored(e) = 1..K + m
      /\ \A i \in 1..K + m : StoredHash(e, i) = e.nodes[i].hash /\ StoredNode(e, i) = e.nodes[i].data
    <2>1. K = Len(d.nodes)
        BY DEF PartJoined
    <2> QED
        BY <1>0, <1>1, <2>1, InPlaceIs
<1>3. ASSUME NEW i \in 1..K PROVE StoredHash(e, i) # {} /\ TrueNode(e, StoredHash(e, i), StoredNode(e, i))
    <2>1. i \in Stored(d)
        BY <1>2
    <2>2. StoredHash(e, i) = StoredHash(d, i) /\ StoredNode(e, i) = StoredNode(d, i)
        BY <1>1, <2>1 DEF Agree
    <2>3. StoredHash(d, i) # {} /\ TrueNode(d, StoredHash(d, i), StoredNode(d, i))
        BY <2>1 DEF TrueTables
    <2>4. StoredNode(d, i) \in NodeDatum /\ Refs(StoredNode(d, i)) \subseteq Stored(d)
        BY <1>0, <2>1, StoredRow
    <2>5. TrueNode(e, StoredHash(d, i), StoredNode(d, i))
        BY <1>1, <2>3, <2>4, TrueOn
    <2> QED
        BY <2>2, <2>3, <2>5
<1>4. ASSUME NEW n \in 1..m PROVE StoredHash(e, K + n) # {} /\ TrueNode(e, StoredHash(e, K + n), StoredNode(e, K + n))
    <2> DEFINE hash == nodes[n].hash
               data == nodes[n].data
    <2>1. n \in 1..Len(nodes) /\ K + n \in 1..K + m
        BY <1>1
    <2>2. StoredHash(e, K + n) = hash /\ StoredNode(e, K + n) = StoredForm(data, K + 1)
        <3>1. StoredHash(e, K + n) = e.nodes[K + n].hash /\ StoredNode(e, K + n) = e.nodes[K + n].data
            BY <1>2, <2>1
        <3>2. e.nodes[K + n] = plan[n]
            BY <1>1, <1>r, <2>1
        <3>3. plan[n].hash = hash /\ plan[n].data = StoredForm(data, K + 1)
            BY <1>r, <2>1 DEF PlanRows
        <3> QED
            BY <3>1, <3>2, <3>3
    <2>3. hash # {} /\ TrueAddedNode(d, nodes, hash, data)
        BY <2>1 DEF TrueAdded
    <2>4. data \in AddedData(d, n)
        BY <2>1 DEF Added
    <2> HIDE DEF hash, data
    <2>5. ASSUME NEW ref \in RefBefore(d, n)
          PROVE  StoredHash(e, NodeRef(ref, K + 1)) = RefHash(d, nodes, ref)
        <3>1. CASE \E i \in Stored(d) : ref = StorageIndex(i)
            <4>1. PICK i \in Stored(d) : ref = StorageIndex(i)
                BY <3>1
            <4>2. ref.at = "storage" /\ ref.idx = i
                BY <4>1 DEF StorageIndex
            <4>3. NodeRef(ref, K + 1) = i /\ RefHash(d, nodes, ref) = StoredHash(d, i)
                BY <4>2 DEF NodeRef, RefHash
            <4>4. StoredHash(e, i) = StoredHash(d, i)
                BY <1>1 DEF Agree
            <4> QED
                BY <4>3, <4>4
        <3>2. CASE \E j \in 0..n - 2 : ref = Index(j)
            <4>1. PICK j \in 0..n - 2 : ref = Index(j)
                BY <3>2
            <4>2. ref.at = "added" /\ ref.idx = j
                BY <4>1 DEF Index
            <4>3. NodeRef(ref, K + 1) = K + 1 + j /\ RefHash(d, nodes, ref) = nodes[j + 1].hash
                BY <4>2 DEF NodeRef, RefHash
            <4>4. j + 1 \in 1..m /\ K + (j + 1) = K + 1 + j /\ K + (j + 1) \in 1..K + m
                <5>1. \A x \in 1..m : \A y \in 0..x - 2 : y + 1 \in 1..m
                    BY <1>1
                <5>2. j + 1 \in 1..m /\ j \in Nat
                    BY <5>1
                <5>3. K + (j + 1) = K + 1 + j
                    BY <1>1, <5>2
                <5> QED
                    BY <1>1, <5>2, <5>3, OldOrNew
            <4>5. e.nodes[K + (j + 1)] = plan[j + 1] /\ j + 1 \in 1..Len(nodes)
                BY <1>1, <4>4
            <4>6. StoredHash(e, K + (j + 1)) = nodes[j + 1].hash
                <5>1. StoredHash(e, K + (j + 1)) = plan[j + 1].hash
                    BY <1>2, <4>4, <4>5
                <5> QED
                    BY <1>r, <4>5, <5>1 DEF PlanRows
            <4> QED
                BY <4>3, <4>4, <4>6
        <3> QED
            BY <3>1, <3>2 DEF RefBefore
    <2>6. \/ data \in [kind : {"Binary"}, left : RefBefore(d, n), right : RefBefore(d, n)]
          \/ data \in [kind : {"Edge"}, child : RefBefore(d, n), path : Bits \ {<<>>}]
          \/ data.kind = "LeafBinary" \/ data.kind = "LeafEdge"
        BY <2>4 DEF AddedData
    <2>7. CASE data \in [kind : {"Binary"}, left : RefBefore(d, n), right : RefBefore(d, n)]
        <3>1. data.kind = "Binary" /\ data.left \in RefBefore(d, n) /\ data.right \in RefBefore(d, n)
            BY <2>7
        <3> DEFINE l == NodeRef(data.left, K + 1)
                   r == NodeRef(data.right, K + 1)
                   new == StoredForm(data, K + 1)
        <3>2. new = [data EXCEPT !.left = l, !.right = r]
            BY <3>1 DEF StoredForm
        <3> HIDE DEF l, r, new
        <3>3. new.kind = "Binary" /\ new.left = l /\ new.right = r
            BY <2>7, <3>2
        <3>4. hash = BinaryHash(RefHash(d, nodes, data.left), RefHash(d, nodes, data.right))
            BY <2>3, <3>1 DEF TrueAddedNode
        <3>5. hash = BinaryHash(StoredHash(e, l), StoredHash(e, r))
            BY <2>5, <3>1, <3>4 DEF l, r
        <3>6. TrueNode(e, hash, new)
            BY <3>3, <3>5 DEF TrueNode
        <3> QED
            BY <2>2, <2>3, <3>6 DEF new
    <2>8. CASE data \in [kind : {"Edge"}, child : RefBefore(d, n), path : Bits \ {<<>>}]
        <3>1. data.kind = "Edge" /\ data.child \in RefBefore(d, n)
            BY <2>8
        <3> DEFINE c == NodeRef(data.child, K + 1)
                   new == StoredForm(data, K + 1)
        <3>2. new = [data EXCEPT !.child = c]
            BY <3>1 DEF StoredForm
        <3> HIDE DEF c, new
        <3>3. new.kind = "Edge" /\ new.child = c /\ new.path = data.path
            BY <2>8, <3>2
        <3>4. hash = EdgeHash(data.path, RefHash(d, nodes, data.child))
            BY <2>3, <3>1 DEF TrueAddedNode
        <3>5. hash = EdgeHash(data.path, StoredHash(e, c))
            BY <2>5, <3>1, <3>4 DEF c
        <3>6. TrueNode(e, hash, new)
            BY <3>3, <3>5 DEF TrueNode
        <3> QED
            BY <2>2, <2>3, <3>6 DEF new
    <2>9. CASE data.kind = "LeafBinary" \/ data.kind = "LeafEdge"
        <3>1. StoredForm(data, K + 1) = data
            BY <2>9 DEF StoredForm
        <3>2. TrueNode(e, hash, data)
            BY <2>3, <2>9 DEF TrueNode, TrueAddedNode
        <3> QED
            BY <2>2, <2>3, <3>1, <3>2
    <2> QED
        BY <2>6, <2>7, <2>8, <2>9
<1>5. \A i \in 1..K + m : i \in 1..K \/ \E n \in 1..m : i = K + n
    BY <1>1, OldOrNew
<1>6. \A i \in Stored(e) : StoredHash(e, i) # {} /\ TrueNode(e, StoredHash(e, i), StoredNode(e, i))
    BY <1>2, <1>3, <1>4, <1>5
<1> QED
    BY <1>1, <1>6 DEF TrueTables

-----------------------------------------------------------------------------
(* The tables after a history of states, each one leaf away from the one   *)
(* before: ch are the states, at[n] the row of the root of ch[n].          *)

HasValue(C, key, v) ==
    /\ \A e \in C : e[1] = key => e[2] = v
    /\ (\A e \in C : e[1] # key) => v \in {NoLeaf, Zero}

History(ch, H) ==
    /\ ch \in Seq(Hash) /\ Len(ch) >= 1 /\ ch[1] = {}
    /\ \A n \in 1..Len(ch) : WholeKeys(ch[n], H) /\ \A e \in ch[n] : e[2] # Zero
    /\ \A n \in 2..Len(ch) : ch[n] # {}
    /\ \A m, n \in 1..Len(ch) : ch[m] = ch[n] => m = n

RootsAt(rows, ch, at, H) ==
    /\ at \in Seq(Nat) /\ Len(at) = Len(ch) /\ at[1] = 0 /\ at[Len(ch)] = Len(rows)
    /\ \A m, n \in 1..Len(ch) : m < n => at[m] < at[n]
    /\ \A n \in 2..Len(ch) : rows[at[n]].hash = ch[n]
    /\ \A i \in 1..Len(rows) : (\E e \in rows[i].hash : Len(e[1]) = H) => \E n \in 2..Len(ch) : i = at[n]

LeafsAt(d, ch, at) ==
    /\ \A i \in DOMAIN d.leafs : d.leafs[i].root_idx <= Len(d.nodes)
    /\ \A n \in 1..Len(ch) : \A key \in Bits : HasValue(ch[n], key, LeafAt(d, key, at[n]))

Settled(d, ch, at, H) ==
    /\ TrueTables(d) /\ InPlace(d) /\ H \in Nat \ {0}
    /\ History(ch, H) /\ RootsAt(d.nodes, ch, at, H) /\ LeafsAt(d, ch, at)

LEMMA SettledIs ==
    ASSUME NEW d, NEW ch, NEW at, NEW H, Settled(d, ch, at, H)
    PROVE  /\ GoodTables(d) /\ H \in Nat /\ Len(ch) \in Nat /\ Len(ch) \in 1..Len(ch) /\ 1 \in 1..Len(ch)
           /\ Len(d.nodes) \in Nat /\ Stored(d) = 1..Len(d.nodes) /\ at[Len(ch)] = Len(d.nodes)
           /\ \A n \in 1..Len(ch) : n \in 2..Len(ch) \/ n = 1
           /\ \A n \in 1..Len(ch) : at[n] \in 0..Len(d.nodes)
           /\ \A n \in 2..Len(ch) : /\ at[n] \in 1..Len(d.nodes) /\ n \in 1..Len(ch)
                                    /\ StoredHash(d, at[n]) = ch[n] /\ d.nodes[at[n]].hash = ch[n]
           /\ at[1] = 0 /\ ch[1] = {}
           /\ \A n \in 1..Len(ch) : WholeKeys(ch[n], H) /\ ContentOf(d, at[n]) = ch[n]
<1>1. GoodTables(d) /\ InPlace(d) /\ H \in Nat /\ History(ch, H) /\ RootsAt(d.nodes, ch, at, H)
    BY DEF Settled, TrueTables
<1>2. /\ Len(d.nodes) \in Nat /\ Stored(d) = 1..Len(d.nodes)
      /\ \A i \in 1..Len(d.nodes) : StoredHash(d, i) = d.nodes[i].hash
    BY <1>1, InPlaceIs
<1>3. /\ Len(ch) \in Nat /\ Len(ch) \in 1..Len(ch) /\ 1 \in 1..Len(ch)
      /\ \A n \in 1..Len(ch) : n \in 2..Len(ch) \/ n = 1
      /\ \A n \in 2..Len(ch) : n \in 1..Len(ch) /\ 1 < n
    BY <1>1 DEF History
<1>4. /\ \A n \in 1..Len(ch) : at[n] \in Nat
      /\ at[1] = 0 /\ at[Len(ch)] = Len(d.nodes)
      /\ \A m, n \in 1..Len(ch) : m < n => at[m] < at[n]
    BY <1>1, <1>3 DEF RootsAt
<1>5. ASSUME NEW n \in 1..Len(ch) PROVE at[n] \in 0..Len(d.nodes)
    <2>1. CASE n = Len(ch)
        BY <1>2, <1>4, <2>1
    <2>2. CASE n # Len(ch)
        <3>1. n < Len(ch)
            BY <1>3, <2>2
        <3>2. at[n] < Len(d.nodes)
            BY <1>3, <1>4, <3>1
        <3> QED
            BY <1>2, <1>4, <3>2
    <2> QED
        BY <2>1, <2>2
<1>6. ASSUME NEW n \in 2..Len(ch)
      PROVE  /\ at[n] \in 1..Len(d.nodes) /\ n \in 1..Len(ch)
             /\ StoredHash(d, at[n]) = ch[n] /\ d.nodes[at[n]].hash = ch[n]
    <2>1. n \in 1..Len(ch) /\ at[1] < at[n]
        BY <1>3, <1>4
    <2>2. at[n] \in 1..Len(d.nodes)
        BY <1>2, <1>4, <1>5, <2>1
    <2>3. d.nodes[at[n]].hash = ch[n]
        BY <1>1 DEF RootsAt
    <2> QED
        BY <1>2, <2>1, <2>2, <2>3
<1>7. ch[1] = {} /\ \A n \in 1..Len(ch) : WholeKeys(ch[n], H)
    BY <1>1 DEF History
<1>8. ASSUME NEW n \in 1..Len(ch) PROVE ContentOf(d, at[n]) = ch[n]
    <2>1. CASE n = 1
        BY <1>4, <1>7, <2>1 DEF ContentOf
    <2>2. CASE n \in 2..Len(ch)
        <3>1. at[n] # 0 /\ StoredHash(d, at[n]) = ch[n]
            BY <1>2, <1>6, <2>2
        <3> QED
            BY <3>1 DEF ContentOf
    <2> QED
        BY <1>3, <2>1, <2>2
<1> QED
    BY <1>1, <1>2, <1>3, <1>4, <1>5, <1>6, <1>7, <1>8

(* Every state opens where its root stands, in the tables and in those with *)
(* more rows behind.                                                        *)
LEMMA SettledOpens ==
    ASSUME NEW d, NEW ch, NEW at, NEW H, Settled(d, ch, at, H),
           NEW e, GoodTables(e), InPlace(e), Len(d.nodes) <= Len(e.nodes),
           \A i \in 1..Len(d.nodes) : e.nodes[i] = d.nodes[i]
    PROVE  \A n \in 1..Len(ch) : CanOpen(e, ch[n]) /\ RootIdx(e, ch[n]) = at[n]
<1>1. /\ Len(ch) \in Nat /\ Len(d.nodes) \in Nat /\ at[1] = 0 /\ ch[1] = {}
      /\ \A n \in 1..Len(ch) : n \in 2..Len(ch) \/ n = 1
      /\ \A n \in 2..Len(ch) : at[n] \in 1..Len(d.nodes) /\ n \in 1..Len(ch) /\ d.nodes[at[n]].hash = ch[n]
    BY SettledIs
<1>2. History(ch, H) /\ RootsAt(d.nodes, ch, at, H)
    BY DEF Settled
<1>3. /\ Len(e.nodes) \in Nat /\ DOMAIN e.nodes = 1..Len(e.nodes)
      /\ \A hash : GetNodeIdxByHash(e, hash) = RowOf(e, hash)
    BY InPlaceIs
<1>4. ASSUME NEW n \in 2..Len(ch) PROVE CanOpen(e, ch[n]) /\ RootIdx(e, ch[n]) = at[n]
    <2> DEFINE hits == WithHash(e.nodes, ch[n])
    <2>1. at[n] \in 1..Len(d.nodes) /\ n \in 1..Len(ch) /\ d.nodes[at[n]].hash = ch[n] /\ ch[n] # {}
        BY <1>1, <1>2 DEF History
    <2>2. at[n] \in 1..Len(e.nodes) /\ e.nodes[at[n]].hash = ch[n]
        BY <1>1, <1>3, <2>1
    <2>3. at[n] \in hits /\ hits \subseteq Nat
        BY <1>3, <2>2 DEF WithHash
    <2>4. ASSUME NEW i \in hits PROVE at[n] <= i
        <3>1. i \in 1..Len(e.nodes) /\ e.nodes[i].hash = ch[n]
            BY <1>3 DEF WithHash
        <3>2. CASE i \in 1..Len(d.nodes)
            <4>1. d.nodes[i].hash = ch[n]
                BY <3>1, <3>2
            <4>2. PICK x \in ch[n] : TRUE
                BY <2>1
            <4>3. Len(x[1]) = H
                BY <1>2, <2>1 DEF History, WholeKeys
            <4>4. PICK m \in 2..Len(ch) : i = at[m]
                BY <1>2, <3>2, <4>1, <4>2, <4>3 DEF RootsAt
            <4>5. ch[m] = ch[n] /\ m \in 1..Len(ch)
                BY <1>1, <4>1, <4>4
            <4>6. m = n
                BY <1>2, <2>1, <4>5 DEF History
            <4> QED
                BY <1>1, <2>1, <4>4, <4>6
        <3>3. CASE i \notin 1..Len(d.nodes)
            BY <1>1, <1>3, <2>1, <3>1, <3>3
        <3> QED
            BY <3>2, <3>3
    <2> HIDE DEF hits
    <2>5. FirstRow(hits) = at[n]
        BY <2>3, <2>4, FirstIs
    <2>6. GetNodeIdxByHash(e, ch[n]) = at[n] /\ at[n] # 0
        BY <1>1, <1>3, <2>1, <2>5 DEF RowOf, hits
    <2> QED
        BY <2>1, <2>6 DEF CanOpen, RootIdx, EmptyHash, NoIdx
<1>5. CanOpen(e, ch[1]) /\ RootIdx(e, ch[1]) = at[1]
    BY <1>1 DEF CanOpen, RootIdx, EmptyHash
<1> QED
    BY <1>1, <1>4, <1>5

(* The values a state needs are those of the leafs below its root's row,   *)
(* and the newest state has the newest ones.                               *)
LEMMA SettledValues ==
    ASSUME NEW d, NEW ch, NEW at, NEW H, Settled(d, ch, at, H)
    PROVE  /\ \A n \in 1..Len(ch) : ValuesAt(d, at[n], ch[n])
           /\ ValuesAt(d, 0, ch[Len(ch)])
<1>1. /\ GoodTables(d) /\ Len(ch) \in 1..Len(ch) /\ Len(d.nodes) \in Nat /\ at[1] = 0 /\ ch[1] = {}
      /\ \A n \in 1..Len(ch) : n \in 2..Len(ch) \/ n = 1
      /\ \A n \in 2..Len(ch) : at[n] \in 1..Len(d.nodes) /\ n \in 1..Len(ch)
      /\ at[Len(ch)] = Len(d.nodes)
      /\ \A n \in 1..Len(ch) : WholeKeys(ch[n], H)
    BY SettledIs
<1>2. LeafsAt(d, ch, at)
    BY DEF Settled
<1>3. ASSUME NEW n \in 1..Len(ch), NEW e \in ch[n] PROVE LeafAt(d, e[1], at[n]) = e[2]
    <2>1. ch[n] \in Hash
        BY <1>1 DEF WholeKeys
    <2>2. e[1] \in Bits
        BY <2>1, PairsOf
    <2>3. HasValue(ch[n], e[1], LeafAt(d, e[1], at[n]))
        BY <1>2, <2>2 DEF LeafsAt
    <2> QED
        BY <2>3 DEF HasValue
<1>4. ASSUME NEW n \in 1..Len(ch) PROVE ValuesAt(d, at[n], ch[n])
    <2>1. CASE n = 1
        BY <1>1, <2>1 DEF ValuesAt
    <2>2. CASE n \in 2..Len(ch)
        <3>1. at[n] > 0
            BY <1>1, <2>2
        <3> QED
            BY <1>3, <3>1 DEF ValuesAt, StorageLeaf
    <2> QED
        BY <1>1, <2>1, <2>2
<1>5. ASSUME NEW key PROVE StorageLeaf(d, 0, key) = LeafAt(d, key, at[Len(ch)])
    <2>1. OfKey(d, key) = {i \in OfKey(d, key) : d.leafs[i].root_idx <= at[Len(ch)]}
        BY <1>1, <1>2 DEF OfKey, LeafsAt
    <2>2. StorageLeaf(d, 0, key) = LeafIn(d, LastRow(OfKey(d, key)))
        BY DEF StorageLeaf
    <2> QED
        BY <2>1, <2>2 DEF LeafAt
<1>6. ValuesAt(d, 0, ch[Len(ch)])
    BY <1>1, <1>3, <1>5 DEF ValuesAt
<1> QED
    BY <1>4, <1>6

-----------------------------------------------------------------------------
(* A write at the newest state: the rows it is going to add. *)

Ready(ch, leaf, H) ==
    /\ leaf \in Item /\ Len(leaf.key) = H
    /\ After(ch[Len(ch)], leaf) # {}
    /\ \A n \in 1..Len(ch) : ch[n] # After(ch[Len(ch)], leaf)

UpdateOf(d, leaf) == TrieUpdate(d, 0, Len(d.nodes), <<leaf>>)
PlanOf(d, leaf) == NodesToPersist(UpdateOf(d, leaf), Len(d.nodes))
NewLeaf(d, leaf) == [key |-> leaf.key, value |-> leaf.value, root_idx |-> Len(d.nodes) + Len(PlanOf(d, leaf))]

(* The plan of the write that leads to "target". *)
Leads(d, plan, target, H) ==
    /\ plan \in Seq(NodeRow) /\ Len(plan) \in Nat \ {0} /\ Pending(d, plan)
    /\ \A n \in 1..Len(plan) :
          /\ plan[n].trie_idx = Len(d.nodes) + n
          /\ n # Len(plan) => \A e \in plan[n].hash : Len(e[1]) < H
    /\ plan[Len(plan)].hash = target

LEMMA PlanLeads ==
    ASSUME NEW d, NEW ch, NEW at, NEW H, Settled(d, ch, at, H), NEW leaf, Ready(ch, leaf, H)
    PROVE  /\ UpdateOf(d, leaf).ok /\ UpdateOf(d, leaf).root_commitment = After(ch[Len(ch)], leaf)
           /\ PlanRows(PlanOf(d, leaf), UpdateOf(d, leaf).nodes_added, Len(d.nodes))
           /\ Added(d, UpdateOf(d, leaf).nodes_added)
           /\ TrueAdded(d, UpdateOf(d, leaf).nodes_added, After(ch[Len(ch)], leaf), H)
           /\ Leads(d, PlanOf(d, leaf), After(ch[Len(ch)], leaf), H)
<1> DEFINE K == Len(d.nodes)
           C == ch[Len(ch)]
           target == After(C, leaf)
           update == UpdateOf(d, leaf)
           nodes == update.nodes_added
           plan == PlanOf(d, leaf)
<1>1. /\ GoodTables(d) /\ TrueTables(d) /\ H \in Nat /\ Len(ch) \in 1..Len(ch) /\ K \in Nat /\ Stored(d) = 1..K
      /\ at[Len(ch)] = K /\ WholeKeys(C, H) /\ ContentOf(d, K) = C
    <2>1. TrueTables(d)
        BY DEF Settled
    <2>2. /\ GoodTables(d) /\ H \in Nat /\ Len(ch) \in 1..Len(ch) /\ K \in Nat /\ Stored(d) = 1..K /\ at[Len(ch)] = K
          /\ \A n \in 1..Len(ch) : WholeKeys(ch[n], H) /\ ContentOf(d, at[n]) = ch[n]
        BY SettledIs
    <2> QED
        BY <2>1, <2>2
<1>2. leaf \in Item /\ Len(leaf.key) = H /\ target # {}
    BY DEF Ready
<1>3. K \in Stored(d) \union {0}
    BY <1>1
<1>4. ValuesKept(d, 0, ContentOf(d, K), leaf)
    <2>1. ValuesAt(d, 0, C)
        BY SettledValues
    <2> QED
        BY <1>1, <2>1 DEF ValuesAt, ValuesKept
<1>5. WholeKeys(ContentOf(d, K), H)
    BY <1>1
<1> HIDE DEF K, C, target
<1>6. update = TrieUpdate(d, 0, K, <<leaf>>) /\ plan = NodesToPersist(update, K)
    BY DEF K, UpdateOf, PlanOf
<1> HIDE DEF update, plan
<1>7. update.ok /\ update.root_commitment = target /\ TrueAdded(d, nodes, target, H)
    <2>1. /\ TrieUpdate(d, 0, K, <<leaf>>).ok
          /\ TrieUpdate(d, 0, K, <<leaf>>).root_commitment = After(ContentOf(d, K), leaf)
          /\ TrueAdded(d, TrieUpdate(d, 0, K, <<leaf>>).nodes_added, After(ContentOf(d, K), leaf), H)
        BY <1>1, <1>2, <1>3, <1>4, <1>5, UpdateMeans
    <2> QED
        BY <1>1, <1>6, <2>1 DEF target
<1>8. Added(d, nodes)
    <2>1. <<leaf>> \in Seq(Item)
        BY <1>2
    <2>2. Added(d, TrieUpdate(d, 0, K, <<leaf>>).nodes_added)
        BY <1>1, <1>3, <2>1, TrieUpdateGood
    <2> QED
        BY <1>6, <2>2
<1>9. PlanRows(plan, nodes, K)
    BY <1>1, <1>6, <1>8, PlanIs
<1>10. Pending(d, plan)
    BY <1>1, <1>6, <1>8, RowsArePending
<1>11. Leads(d, plan, target, H)
    <2>1. /\ plan \in Seq(NodeRow) /\ Len(plan) = Len(nodes) /\ Len(plan) \in Nat
          /\ \A n \in 1..Len(plan) : plan[n].trie_idx = K + n /\ plan[n].hash = nodes[n].hash
        BY <1>9 DEF PlanRows
    <2>2. /\ \A n \in 1..Len(nodes) : n # Len(nodes) => \A e \in nodes[n].hash : Len(e[1]) < H
          /\ Len(nodes) # 0 /\ nodes[Len(nodes)].hash = target
        BY <1>2, <1>7 DEF TrueAdded
    <2>3. Len(plan) \in 1..Len(plan) /\ Len(plan) \in Nat \ {0}
        BY <2>1, <2>2
    <2> QED
        BY <1>10, <2>1, <2>2, <2>3 DEF Leads, K
<1> QED
    BY <1>7, <1>8, <1>9, <1>11 DEF update, plan, target, C, K

(* What is in the tables while the write is carried out: the rows of before, *)
(* the first m of the plan and, with all of them, perhaps the leaf.         *)
Partial(d, leaf, m, e) ==
    /\ m \in 0..Len(PlanOf(d, leaf)) /\ e.nodes = d.nodes \o SubSeq(PlanOf(d, leaf), 1, m)
    /\ \/ e.leafs = d.leafs
       \/ m = Len(PlanOf(d, leaf)) /\ e.leafs = Append(d.leafs, NewLeaf(d, leaf))

LEMMA NewLeafIs ==
    ASSUME NEW d, NEW ch, NEW at, NEW H, Settled(d, ch, at, H), NEW leaf, Ready(ch, leaf, H)
    PROVE  /\ NewLeaf(d, leaf) \in LeafRow
           /\ NewLeaf(d, leaf).key = leaf.key /\ NewLeaf(d, leaf).value = leaf.value
           /\ NewLeaf(d, leaf).root_idx = Len(d.nodes) + Len(PlanOf(d, leaf))
           /\ d.leafs \in Seq(LeafRow) /\ Append(d.leafs, NewLeaf(d, leaf)) \in Seq(LeafRow)
           /\ Len(d.leafs) \in Nat /\ Len(Append(d.leafs, NewLeaf(d, leaf))) = Len(d.leafs) + 1
           /\ \A i \in 1..Len(d.leafs) : Append(d.leafs, NewLeaf(d, leaf))[i] = d.leafs[i]
           /\ Append(d.leafs, NewLeaf(d, leaf))[Len(d.leafs) + 1] = NewLeaf(d, leaf)
<1>1. Leads(d, PlanOf(d, leaf), After(ch[Len(ch)], leaf), H)
    BY PlanLeads
<1>2. Len(PlanOf(d, leaf)) \in Nat \ {0}
    BY <1>1 DEF Leads
<1>3. leaf.key \in Bits /\ leaf.value \in Nat
    BY DEF Ready, Item
<1>4. GoodTables(d) /\ Len(d.nodes) \in Nat
    BY SettledIs
<1>5. Len(d.nodes) + Len(PlanOf(d, leaf)) \in Nat \ {0}
    BY <1>2, <1>4
<1>6. NewLeaf(d, leaf) \in LeafRow
    BY <1>3, <1>5 DEF NewLeaf, LeafRow
<1>7. d.leafs \in Seq(LeafRow)
    BY <1>4 DEF GoodTables
<1> DEFINE row == NewLeaf(d, leaf)
           s == d.leafs
<1>8. row.key = leaf.key /\ row.value = leaf.value /\ row.root_idx = Len(d.nodes) + Len(PlanOf(d, leaf))
    BY DEF NewLeaf
<1> HIDE DEF row, s
<1>9. row \in LeafRow /\ s \in Seq(LeafRow)
    BY <1>6, <1>7 DEF row, s
<1>10. /\ Append(s, row) \in Seq(LeafRow) /\ Len(s) \in Nat /\ Len(Append(s, row)) = Len(s) + 1
       /\ \A i \in 1..Len(s) : Append(s, row)[i] = s[i]
       /\ Append(s, row)[Len(s) + 1] = row
    BY <1>9
<1> QED
    BY <1>8, <1>9, <1>10 DEF row, s

LEMMA PartialIs ==
    ASSUME NEW d, NEW ch, NEW at, NEW H, Settled(d, ch, at, H), NEW leaf, Ready(ch, leaf, H),
           NEW m, NEW e, Partial(d, leaf, m, e)
    PROVE  /\ TrueTables(e) /\ InPlace(e) /\ Agree(d, e) /\ m \in Nat /\ Len(e.nodes) = Len(d.nodes) + m
           /\ \A i \in 1..Len(d.nodes) : e.nodes[i] = d.nodes[i]
           /\ \A n \in 1..m : e.nodes[Len(d.nodes) + n] = PlanOf(d, leaf)[n]
<1> DEFINE K == Len(d.nodes)
           plan == PlanOf(d, leaf)
           nodes == UpdateOf(d, leaf).nodes_added
           target == After(ch[Len(ch)], leaf)
<1>1. /\ PlanRows(plan, nodes, K) /\ Added(d, nodes) /\ TrueAdded(d, nodes, target, H) /\ Leads(d, plan, target, H)
    BY PlanLeads
<1>2. GoodTables(d) /\ TrueTables(d) /\ InPlace(d)
    BY DEF Settled, TrueTables
<1>3. Pending(d, plan)
    BY <1>1 DEF Leads
<1>4. e.leafs \in Seq(LeafRow) /\ m \in 0..Len(plan) /\ e.nodes = d.nodes \o SubSeq(plan, 1, m)
    <2>1. d.leafs \in Seq(LeafRow) /\ Append(d.leafs, NewLeaf(d, leaf)) \in Seq(LeafRow)
        BY NewLeafIs
    <2> QED
        BY <2>1 DEF Partial
<1> HIDE DEF plan, nodes, target
<1>5. PartOf(d, plan, m, e)
    BY <1>4 DEF PartOf
<1>6. PartJoined(d, nodes, plan, K, m, e)
    BY <1>1, <1>3, <1>5 DEF PartJoined
<1> HIDE DEF K
<1>7. /\ m \in Nat /\ Len(e.nodes) = K + m
      /\ \A i \in 1..K : e.nodes[i] = d.nodes[i]
      /\ \A n \in 1..m : e.nodes[K + n] = plan[n]
      /\ InPlace(e) /\ Agree(d, e)
    BY <1>2, <1>6, PartIs
<1>8. TrueTables(e)
    BY <1>1, <1>2, <1>6, PartTrue
<1> QED
    BY <1>7, <1>8 DEF K, plan

LEMMA PlanIsKept ==
    ASSUME NEW d, NEW ch, NEW at, NEW H, Settled(d, ch, at, H), NEW leaf, Ready(ch, leaf, H),
           NEW m, NEW e, Partial(d, leaf, m, e)
    PROVE  /\ \A n \in 1..Len(ch) : CanOpen(e, ch[n]) /\ RootIdx(e, ch[n]) = at[n]
           /\ RootIdx(e, ch[Len(ch)]) = Len(d.nodes)
           /\ TrieUpdate(e, 0, Len(d.nodes), <<leaf>>) = UpdateOf(d, leaf)
<1> DEFINE K == Len(d.nodes)
           C == ch[Len(ch)]
<1>1. /\ GoodTables(e) /\ InPlace(e) /\ Agree(d, e) /\ m \in Nat /\ Len(e.nodes) = K + m
      /\ \A i \in 1..K : e.nodes[i] = d.nodes[i]
    BY PartialIs DEF TrueTables
<1>2. /\ GoodTables(d) /\ H \in Nat /\ Len(ch) \in 1..Len(ch) /\ K \in Nat /\ Stored(d) = 1..K
      /\ at[Len(ch)] = K
      /\ \A n \in 1..Len(ch) : WholeKeys(ch[n], H) /\ ContentOf(d, at[n]) = ch[n]
    BY SettledIs
<1>3. K <= Len(e.nodes)
    BY <1>1, <1>2
<1>4. \A n \in 1..Len(ch) : CanOpen(e, ch[n]) /\ RootIdx(e, ch[n]) = at[n]
    BY <1>1, <1>3, SettledOpens
<1>5. leaf \in Item /\ Len(leaf.key) = H
    BY DEF Ready
<1>6. ValuesAt(d, 0, C)
    BY SettledValues
<1>7. ASSUME NEW key, key # leaf.key PROVE StorageLeaf(e, 0, key) = StorageLeaf(d, 0, key)
    <2>1. CASE e.leafs = d.leafs
        <3>1. OfKey(e, key) = OfKey(d, key)
            BY <2>1 DEF OfKey
        <3> QED
            BY <2>1, <3>1 DEF StorageLeaf, LeafIn
    <2>2. CASE e.leafs = Append(d.leafs, NewLeaf(d, leaf))
        <3> DEFINE rows == e.leafs
                   L == Len(d.leafs)
        <3>1. /\ d.leafs \in Seq(LeafRow) /\ rows \in Seq(LeafRow) /\ L \in Nat /\ Len(rows) = L + 1
              /\ \A i \in 1..L : rows[i] = d.leafs[i]
              /\ rows[L + 1].key = leaf.key
            BY <2>2, NewLeafIs
        <3>2. DOMAIN d.leafs = 1..L /\ DOMAIN rows = 1..L + 1
            BY <3>1
        <3> HIDE DEF L
        <3>3. \A i \in 1..L + 1 : i \in 1..L \/ i = L + 1
            BY <3>1
        <3>4. \A i \in 1..L : i \in 1..L + 1 /\ i # 0
            BY <3>1
        <3>5. OfKey(e, key) = OfKey(d, key)
            BY <1>7, <3>1, <3>2, <3>3, <3>4 DEF OfKey
        <3>6. OfKey(d, key) \subseteq 1..L
            BY <3>2 DEF OfKey
        <3>7. LastRow(OfKey(d, key)) = 0 \/ LastRow(OfKey(d, key)) \in 1..L
            <4>1. CASE OfKey(d, key) = {}
                BY <4>1 DEF LastRow
            <4>2. CASE OfKey(d, key) # {}
                <5>1. OfKey(d, key) \subseteq 0..L
                    BY <3>1, <3>6
                <5>2. LastRow(OfKey(d, key)) \in OfKey(d, key)
                    BY <3>1, <4>2, <5>1, LastHit
                <5> QED
                    BY <3>6, <5>2
            <4> QED
                BY <4>1, <4>2
        <3>8. LeafIn(e, LastRow(OfKey(d, key))) = LeafIn(d, LastRow(OfKey(d, key)))
            BY <3>1, <3>7 DEF LeafIn
        <3> QED
            BY <3>5, <3>8 DEF StorageLeaf
    <2> QED
        BY <2>1, <2>2 DEF Partial
<1>8. ValuesKept(d, 0, C, leaf) /\ ValuesKept(e, 0, C, leaf)
    BY <1>6, <1>7 DEF ValuesAt, ValuesKept
<1>9. /\ K \in Stored(d) \union {0} /\ ContentOf(d, K) = C /\ WholeKeys(C, H) /\ TrueTables(d)
    BY <1>2 DEF Settled
<1>10. TrieUpdate(e, 0, K, <<leaf>>) = TrieUpdate(d, 0, K, <<leaf>>)
    <2> HIDE DEF K, C
    <2>1. WholeKeys(ContentOf(d, K), H) /\ ValuesKept(d, 0, ContentOf(d, K), leaf) /\ ValuesKept(e, 0, ContentOf(d, K), leaf)
        BY <1>8, <1>9
    <2> QED
        BY <1>1, <1>2, <1>5, <1>9, <2>1, UpdateSame
<1> QED
    BY <1>2, <1>4, <1>10 DEF UpdateOf

(* The number of the row of the new root. *)
LEMMA PlanRoot ==
    ASSUME NEW d, NEW ch, NEW at, NEW H, Settled(d, ch, at, H), NEW leaf, Ready(ch, leaf, H)
    PROVE  RootIndexIn(PlanOf(d, leaf), After(ch[Len(ch)], leaf)) = Len(d.nodes) + Len(PlanOf(d, leaf))
<1> DEFINE K == Len(d.nodes)
           C == ch[Len(ch)]
           plan == PlanOf(d, leaf)
           target == After(C, leaf)
           hits == WithHash(plan, target)
<1>1. Leads(d, plan, target, H)
    BY PlanLeads
<1>2. /\ plan \in Seq(NodeRow) /\ Len(plan) \in Nat \ {0}
      /\ \A n \in 1..Len(plan) : plan[n].trie_idx = K + n
      /\ plan[Len(plan)].hash = target
    BY <1>1 DEF Leads
<1>3. DOMAIN plan = 1..Len(plan) /\ Len(plan) \in DOMAIN plan
    BY <1>2
<1>4. Len(plan) \in hits /\ hits \subseteq Nat /\ \A j \in hits : j <= Len(plan)
    BY <1>2, <1>3 DEF WithHash
<1>5. LastRow(hits) = Len(plan)
    <2> HIDE DEF hits
    <2> QED
        BY <1>4, LastIs
<1>6. plan[Len(plan)].trie_idx = K + Len(plan) /\ Len(plan) # 0
    BY <1>2, <1>3
<1> QED
    BY <1>5, <1>6 DEF RootIndexIn, IdxIn

LEMMA HasNew ==
    ASSUME NEW C, NEW H, WholeKeys(C, H), NEW leaf \in Item, Len(leaf.key) = H
    PROVE  HasValue(After(C, leaf), leaf.key, leaf.value)
<1>1. After(C, leaf) \in Hash
    BY AfterIs DEF WholeKeys
<1>2. ASSUME NEW e \in After(C, leaf), e[1] = leaf.key PROVE e[2] = leaf.value
    <2>1. e = <<e[1], e[2]>>
        BY <1>1, PairsOf
    <2>2. <<leaf.key, e[2]>> \in After(C, leaf)
        BY <1>2, <2>1
    <2> QED
        BY <2>2, AfterMember
<1>3. ASSUME \A e \in After(C, leaf) : e[1] # leaf.key PROVE leaf.value = Zero
    <2> DEFINE q == leaf.key
               v == leaf.value
               e == <<q, v>>
    <2>1. e[1] = q
        OBVIOUS
    <2>2. e \notin After(C, leaf)
        BY <1>3, <2>1
    <2> HIDE DEF q, v
    <2>3. <<q, v>> \in After(C, leaf) <=> IF q = leaf.key THEN v = leaf.value /\ v # Zero ELSE <<q, v>> \in C
        BY AfterMember
    <2> QED
        BY <2>2, <2>3 DEF q, v
<1> QED
    BY <1>2, <1>3 DEF HasValue

LEMMA HasOld ==
    ASSUME NEW C, NEW H, WholeKeys(C, H), NEW leaf \in Item, Len(leaf.key) = H,
           NEW key, key # leaf.key, NEW v, HasValue(C, key, v)
    PROVE  HasValue(After(C, leaf), key, v)
<1>1. After(C, leaf) \in Hash /\ C \in Hash
    BY AfterIs DEF WholeKeys
<1>2. ASSUME NEW e \in After(C, leaf), e[1] = key PROVE e \in C
    <2>1. e = <<e[1], e[2]>>
        BY <1>1, PairsOf
    <2>2. <<key, e[2]>> \in After(C, leaf)
        BY <1>2, <2>1
    <2>3. <<key, e[2]>> \in C
        BY <2>2, AfterMember
    <2> QED
        BY <1>2, <2>1, <2>3
<1>3. ASSUME NEW e \in C, e[1] = key PROVE e \in After(C, leaf)
    <2>1. e = <<e[1], e[2]>>
        BY <1>1, PairsOf
    <2>2. <<key, e[2]>> \in C
        BY <1>3, <2>1
    <2>3. <<key, e[2]>> \in After(C, leaf)
        BY <2>2, AfterMember
    <2> QED
        BY <1>3, <2>1, <2>3
<1>4. \A e \in After(C, leaf) : e[1] = key => e[2] = v
    BY <1>2 DEF HasValue
<1>5. (\A e \in After(C, leaf) : e[1] # key) => v \in {NoLeaf, Zero}
    BY <1>3 DEF HasValue
<1> QED
    BY <1>4, <1>5 DEF HasValue

LEMMA NoZeros ==
    ASSUME NEW C, NEW H, WholeKeys(C, H), NEW leaf \in Item, Len(leaf.key) = H, \A e \in C : e[2] # Zero
    PROVE  \A e \in After(C, leaf) : e[2] # Zero
<1>1. After(C, leaf) \in Hash
    BY AfterIs DEF WholeKeys
<1> SUFFICES ASSUME NEW e \in After(C, leaf)
             PROVE  e[2] # Zero
    OBVIOUS
<1>2. e = <<e[1], e[2]>>
    BY <1>1, PairsOf
<1>3. <<e[1], e[2]>> \in After(C, leaf)
    BY <1>2
<1>4. IF e[1] = leaf.key THEN e[2] # Zero ELSE <<e[1], e[2]>> \in C
    BY <1>3, AfterMember
<1> QED
    BY <1>2, <1>4

LEMMA AppendIs ==
    ASSUME NEW S, NEW s \in Seq(S), NEW x \in S
    PROVE  /\ Append(s, x) \in Seq(S) /\ Len(s) \in Nat /\ Len(Append(s, x)) = Len(s) + 1
           /\ \A i \in 1..Len(s) : Append(s, x)[i] = s[i] /\ i \in 1..Len(s) + 1
           /\ Append(s, x)[Len(s) + 1] = x
           /\ \A i \in 1..Len(s) + 1 : i \in 1..Len(s) \/ i = Len(s) + 1
           /\ Len(s) + 1 \in 1..Len(s) + 1
    OBVIOUS

(* A write that is carried out leaves tables of the longer history. *)
LEMMA HistoryGrows ==
    ASSUME NEW d, NEW ch, NEW at, NEW H, Settled(d, ch, at, H), NEW leaf, Ready(ch, leaf, H)
    PROVE  History(Append(ch, After(ch[Len(ch)], leaf)), H)
<1> DEFINE target == After(ch[Len(ch)], leaf)
           more == Append(ch, target)
           N == Len(ch)
<1>1. History(ch, H) /\ N \in Nat /\ N \in 1..N
    BY SettledIs DEF Settled
<1>2. leaf \in Item /\ Len(leaf.key) = H /\ target # {} /\ \A n \in 1..N : ch[n] # target
    BY DEF Ready
<1>3. WholeKeys(target, H) /\ \A e \in target : e[2] # Zero
    <2>1. WholeKeys(ch[N], H) /\ \A e \in ch[N] : e[2] # Zero
        BY <1>1 DEF History
    <2>2. WholeKeys(target, H)
        BY <1>2, <2>1, AfterIs
    <2>3. \A e \in target : e[2] # Zero
        BY <1>2, <2>1, NoZeros
    <2> QED
        BY <2>2, <2>3
<1>4. target \in Hash /\ ch \in Seq(Hash) /\ N >= 1 /\ ch[1] = {}
    BY <1>1, <1>3 DEF WholeKeys, History
<1> HIDE DEF target
<1>5. /\ more \in Seq(Hash) /\ Len(more) = N + 1
      /\ \A i \in 1..N : more[i] = ch[i] /\ i \in 1..N + 1
      /\ more[N + 1] = target
      /\ \A i \in 1..N + 1 : i \in 1..N \/ i = N + 1
    BY <1>4, AppendIs
<1> HIDE DEF more, N
<1>6. 1 \in 1..N /\ \A i \in 2..N + 1 : i \in 2..N \/ i = N + 1
    BY <1>1
<1>7. more[1] = {} /\ Len(more) >= 1
    BY <1>1, <1>4, <1>5, <1>6
<1>8. \A n \in 1..N + 1 : WholeKeys(more[n], H) /\ \A e \in more[n] : e[2] # Zero
    BY <1>1, <1>3, <1>5 DEF History, N
<1>9. \A n \in 2..N + 1 : more[n] # {}
    <2>1. \A n \in 2..N : more[n] = ch[n] /\ ch[n] # {}
        <3>1. \A n \in 2..N : n \in 1..N
            BY <1>1
        <3> QED
            BY <1>1, <1>5, <3>1 DEF History, N
    <2> QED
        BY <1>2, <1>5, <1>6, <2>1
<1>10. \A m, n \in 1..N + 1 : more[m] = more[n] => m = n
    BY <1>1, <1>2, <1>5 DEF History, N
<1> QED
    BY <1>5, <1>7, <1>8, <1>9, <1>10 DEF History, more, N, target

LEMMA RootsGrow ==
    ASSUME NEW d, NEW ch, NEW at, NEW H, Settled(d, ch, at, H), NEW leaf, Ready(ch, leaf, H),
           NEW e, Partial(d, leaf, Len(PlanOf(d, leaf)), e)
    PROVE  RootsAt(e.nodes, Append(ch, After(ch[Len(ch)], leaf)), Append(at, Len(d.nodes) + Len(PlanOf(d, leaf))), H)
<1> DEFINE target == After(ch[Len(ch)], leaf)
           plan == PlanOf(d, leaf)
           K == Len(d.nodes)
           M == Len(plan)
           more == Append(ch, target)
           rows == Append(at, K + M)
           N == Len(ch)
<1>1. /\ History(ch, H) /\ RootsAt(d.nodes, ch, at, H) /\ N \in Nat /\ N \in 1..N /\ K \in Nat
      /\ \A n \in 1..N : at[n] \in 0..K
      /\ \A n \in 2..N : n \in 1..N /\ at[n] \in 1..K
      /\ 1 \in 1..N
    BY SettledIs DEF Settled
<1>2. Leads(d, plan, target, H)
    BY PlanLeads
<1>3. M \in Nat /\ M # 0 /\ plan[M].hash = target /\ \A n \in 1..M : n # M => \A x \in plan[n].hash : Len(x[1]) < H
    BY <1>2 DEF Leads
<1>4. /\ Len(e.nodes) = K + M
      /\ \A i \in 1..K : e.nodes[i] = d.nodes[i]
      /\ \A n \in 1..M : e.nodes[K + n] = plan[n]
    BY PartialIs
<1>5. target \in Hash /\ ch \in Seq(Hash)
    <2>1. WholeKeys(ch[N], H) /\ leaf \in Item /\ Len(leaf.key) = H
        BY <1>1 DEF History, Ready
    <2>2. WholeKeys(target, H)
        BY <2>1, AfterIs
    <2> QED
        BY <1>1, <2>2 DEF WholeKeys, History
<1>6. at \in Seq(Nat) /\ Len(at) = N /\ at[1] = 0
    BY <1>1 DEF RootsAt
<1> HIDE DEF target, plan
<1>7. /\ Len(more) = N + 1
      /\ \A i \in 1..N : more[i] = ch[i] /\ i \in 1..N + 1
      /\ more[N + 1] = target
      /\ \A i \in 1..N + 1 : i \in 1..N \/ i = N + 1
      /\ N + 1 \in 1..N + 1
    BY <1>5, AppendIs
<1>8. /\ rows \in Seq(Nat) /\ Len(rows) = N + 1
      /\ \A i \in 1..N : rows[i] = at[i]
      /\ rows[N + 1] = K + M
    <2>1. K + M \in Nat
        BY <1>1, <1>3
    <2> QED
        BY <1>6, <2>1, AppendIs
<1> HIDE DEF more, rows, N, M, K
<1>9. rows[1] = 0 /\ Len(rows) = Len(more) /\ rows[Len(more)] = Len(e.nodes)
    BY <1>1, <1>4, <1>6, <1>7, <1>8
<1>10. ASSUME NEW m \in 1..N + 1, NEW n \in 1..N + 1, m < n PROVE rows[m] < rows[n]
    <2>1. m \in 1..N
        BY <1>1, <1>10
    <2>2. CASE n \in 1..N
        BY <1>1, <1>8, <1>10, <2>1, <2>2 DEF RootsAt, N
    <2>3. CASE n = N + 1
        <3>1. rows[m] \in 0..K /\ rows[n] = K + M
            BY <1>1, <1>8, <2>1, <2>3
        <3> QED
            BY <1>1, <1>3, <3>1
    <2> QED
        BY <1>7, <2>2, <2>3
<1>11. \A i \in 2..N + 1 : i \in 2..N \/ i = N + 1
    BY <1>1
<1>12. M \in 1..M /\ K + M \in 1..K + M
    BY <1>1, <1>3
<1>13. ASSUME NEW n \in 2..N + 1 PROVE e.nodes[rows[n]].hash = more[n]
    <2>1. CASE n \in 2..N
        <3>1. n \in 1..N /\ at[n] \in 1..K /\ d.nodes[at[n]].hash = ch[n]
            BY <1>1, <2>1 DEF RootsAt, N
        <3> QED
            BY <1>4, <1>7, <1>8, <3>1
    <2>2. CASE n = N + 1
        <3>1. e.nodes[K + M] = plan[M]
            BY <1>4, <1>12
        <3> QED
            BY <1>3, <1>7, <1>8, <2>2, <3>1
    <2> QED
        BY <1>11, <2>1, <2>2
<1>14. ASSUME NEW i \in 1..K + M, \E x \in e.nodes[i].hash : Len(x[1]) = H
       PROVE  \E n \in 2..N + 1 : i = rows[n]
    <2>1. CASE i \in 1..K
        <3>1. PICK n \in 2..N : i = at[n]
            BY <1>1, <1>4, <1>14, <2>1 DEF RootsAt, N, K
        <3>2. n \in 1..N /\ n \in 2..N + 1
            BY <1>1
        <3>3. i = rows[n]
            BY <1>8, <3>1, <3>2
        <3> QED
            BY <3>2, <3>3
    <2>2. CASE i \notin 1..K
        <3>1. PICK n \in 1..M : i = K + n
            BY <1>1, <1>3, <2>2, OldOrNew
        <3>2. e.nodes[i] = plan[n]
            BY <1>4, <3>1
        <3>3. H \in Nat
            BY SettledIs
        <3>4. n = M
            BY <1>3, <1>14, <3>2, <3>3
        <3>5. i = rows[N + 1] /\ N + 1 \in 2..N + 1
            BY <1>1, <1>8, <3>1, <3>4
        <3> QED
            BY <3>5
    <2> QED
        BY <2>1, <2>2
<1>15. Len(e.nodes) = K + M /\ Len(more) = N + 1
    BY <1>4, <1>7
<1>16. RootsAt(e.nodes, more, rows, H)
    BY <1>8, <1>9, <1>10, <1>13, <1>14, <1>15 DEF RootsAt
<1> QED
    BY <1>16 DEF more, rows, target, plan, K, M, N

LEMMA LeafsGrow ==
    ASSUME NEW d, NEW ch, NEW at, NEW H, Settled(d, ch, at, H), NEW leaf, Ready(ch, leaf, H),
           NEW e, Partial(d, leaf, Len(PlanOf(d, leaf)), e), e.leafs = Append(d.leafs, NewLeaf(d, leaf))
    PROVE  LeafsAt(e, Append(ch, After(ch[Len(ch)], leaf)), Append(at, Len(d.nodes) + Len(PlanOf(d, leaf))))
<1> DEFINE target == After(ch[Len(ch)], leaf)
           K == Len(d.nodes)
           M == Len(PlanOf(d, leaf))
           more == Append(ch, target)
           rows == Append(at, K + M)
           N == Len(ch)
           L == Len(d.leafs)
<1>1. /\ LeafsAt(d, ch, at) /\ N \in Nat /\ N \in 1..N /\ K \in Nat
      /\ \A n \in 1..N : at[n] \in 0..K
      /\ at[N] = K /\ at \in Seq(Nat) /\ Len(at) = N /\ ch \in Seq(Hash)
    BY SettledIs DEF Settled, RootsAt, History
<1>2. WholeKeys(ch[N], H) /\ leaf \in Item /\ Len(leaf.key) = H
    BY SettledIs DEF Ready
<1>3. target \in Hash
    BY <1>2, AfterIs DEF WholeKeys
<1>4. M \in Nat /\ M # 0 /\ Len(e.nodes) = K + M
    <2>1. Leads(d, PlanOf(d, leaf), target, H)
        BY PlanLeads
    <2>2. M \in Nat /\ M # 0
        BY <2>1 DEF Leads
    <2>3. Len(e.nodes) = K + M
        BY PartialIs
    <2> QED
        BY <2>2, <2>3
<1>5. /\ e.leafs \in Seq(LeafRow) /\ d.leafs \in Seq(LeafRow) /\ L \in Nat /\ Len(e.leafs) = L + 1
      /\ \A i \in 1..L : e.leafs[i] = d.leafs[i]
      /\ e.leafs[L + 1].key = leaf.key /\ e.leafs[L + 1].value = leaf.value /\ e.leafs[L + 1].root_idx = K + M
    <2>1. /\ NewLeaf(d, leaf).key = leaf.key /\ NewLeaf(d, leaf).value = leaf.value /\ NewLeaf(d, leaf).root_idx = K + M
          /\ d.leafs \in Seq(LeafRow) /\ Append(d.leafs, NewLeaf(d, leaf)) \in Seq(LeafRow)
          /\ L \in Nat /\ Len(Append(d.leafs, NewLeaf(d, leaf))) = L + 1
          /\ \A i \in 1..L : Append(d.leafs, NewLeaf(d, leaf))[i] = d.leafs[i]
          /\ Append(d.leafs, NewLeaf(d, leaf))[L + 1] = NewLeaf(d, leaf)
        BY NewLeafIs
    <2> QED
        BY <2>1
<1>6. DOMAIN d.leafs = 1..L /\ DOMAIN e.leafs = 1..L + 1
    BY <1>5
<1> HIDE DEF target
<1>7. /\ Len(more) = N + 1
      /\ \A i \in 1..N : more[i] = ch[i]
      /\ more[N + 1] = target
      /\ \A i \in 1..N + 1 : i \in 1..N \/ i = N + 1
    BY <1>1, <1>3, AppendIs
<1>8. (\A i \in 1..N : rows[i] = at[i]) /\ rows[N + 1] = K + M
    <2>1. K + M \in Nat
        BY <1>1, <1>4
    <2> QED
        BY <1>1, <2>1, AppendIs
<1> HIDE DEF K, M, N, L, more, rows
<1>9. (\A i \in 1..L + 1 : i \in 1..L \/ i = L + 1) /\ (\A i \in 1..L : i \in 1..L + 1 /\ i # L + 1 /\ i <= L + 1 /\ i # 0) /\ L + 1 \in 1..L + 1
    BY <1>5
<1>10. \A i \in 1..L : d.leafs[i].root_idx \in Nat /\ d.leafs[i].root_idx <= K
    <2>1. \A i \in 1..L : d.leafs[i].root_idx <= K
        BY <1>1, <1>6 DEF LeafsAt, K
    <2>2. \A i \in 1..L : d.leafs[i] \in LeafRow
        BY <1>5, <1>6
    <2> QED
        BY <2>1, <2>2 DEF LeafRow
<1>11. \A i \in 1..L + 1 : e.leafs[i].root_idx <= K + M
    <2>1. \A x \in Nat : x <= K => x <= K + M
        BY <1>1, <1>4
    <2>2. \A i \in 1..L : e.leafs[i].root_idx <= K + M
        BY <1>5, <1>10, <2>1
    <2>3. K + M <= K + M
        BY <1>1, <1>4
    <2> QED
        BY <1>5, <1>9, <2>2, <2>3
<1>12. ASSUME NEW hits, hits \subseteq 1..L PROVE LeafIn(e, LastRow(hits)) = LeafIn(d, LastRow(hits))
    <2>1. CASE hits = {}
        BY <2>1 DEF LastRow, LeafIn
    <2>2. CASE hits # {}
        <3>1. hits \subseteq 0..L
            BY <1>5, <1>12
        <3>2. LastRow(hits) \in hits
            BY <1>5, <2>2, <3>1, LastHit
        <3>3. LastRow(hits) \in 1..L
            BY <1>12, <3>2
        <3> QED
            BY <1>5, <3>3 DEF LeafIn
    <2> QED
        BY <2>1, <2>2
<1>13. ASSUME NEW key, NEW max \in Nat, max <= K PROVE LeafAt(e, key, max) = LeafAt(d, key, max)
    <2> DEFINE old == {i \in OfKey(d, key) : d.leafs[i].root_idx <= max}
               new == {i \in OfKey(e, key) : e.leafs[i].root_idx <= max}
    <2>1. old \subseteq 1..L
        BY <1>6 DEF OfKey
    <2>2. ~ (e.leafs[L + 1].root_idx <= max)
        BY <1>1, <1>4, <1>5, <1>13
    <2>3. new = old
        BY <1>5, <1>6, <1>9, <2>2 DEF OfKey
    <2>4. LeafAt(e, key, max) = LeafIn(e, LastRow(old)) /\ LeafAt(d, key, max) = LeafIn(d, LastRow(old))
        BY <2>3 DEF LeafAt
    <2> HIDE DEF old
    <2> QED
        BY <1>12, <2>1, <2>4
<1>14. LeafAt(e, leaf.key, K + M) = leaf.value
    <2> DEFINE hits == {i \in OfKey(e, leaf.key) : e.leafs[i].root_idx <= K + M}
    <2>1. L + 1 \in hits
        BY <1>5, <1>6, <1>9, <1>11 DEF OfKey
    <2>2. hits \subseteq 1..L + 1
        BY <1>6 DEF OfKey
    <2> HIDE DEF hits
    <2>3. hits \subseteq Nat /\ \A i \in hits : i <= L + 1
        <3>1. \A i \in 1..L + 1 : i \in Nat /\ i <= L + 1
            BY <1>5
        <3> QED
            BY <2>2, <3>1
    <2>4. LastRow(hits) = L + 1
        BY <2>1, <2>3, LastIs
    <2>5. L + 1 # 0
        BY <1>5
    <2> QED
        BY <1>5, <2>4, <2>5 DEF LeafAt, LeafIn, hits
<1>15. ASSUME NEW key, key # leaf.key PROVE LeafAt(e, key, K + M) = LeafAt(d, key, K)
    <2> DEFINE old == {i \in OfKey(d, key) : d.leafs[i].root_idx <= K}
               new == {i \in OfKey(e, key) : e.leafs[i].root_idx <= K + M}
    <2>1. old \subseteq 1..L
        BY <1>6 DEF OfKey
    <2>2. new = old
        BY <1>5, <1>6, <1>9, <1>10, <1>11, <1>15 DEF OfKey
    <2>3. LeafAt(e, key, K + M) = LeafIn(e, LastRow(old)) /\ LeafAt(d, key, K) = LeafIn(d, LastRow(old))
        BY <2>2 DEF LeafAt
    <2> HIDE DEF old
    <2> QED
        BY <1>12, <2>1, <2>3
<1>16. ASSUME NEW n \in 1..N + 1, NEW key \in Bits PROVE HasValue(more[n], key, LeafAt(e, key, rows[n]))
    <2>1. CASE n \in 1..N
        <3>1. HasValue(ch[n], key, LeafAt(d, key, at[n]))
            BY <1>1, <2>1 DEF LeafsAt, N
        <3>2. at[n] \in Nat /\ at[n] <= K
            BY <1>1, <2>1
        <3>3. LeafAt(e, key, at[n]) = LeafAt(d, key, at[n])
            BY <1>13, <3>2
        <3> QED
            BY <1>7, <1>8, <2>1, <3>1, <3>3
    <2>2. CASE n = N + 1
        <3>1. CASE key = leaf.key
            <4>1. HasValue(target, leaf.key, leaf.value)
                BY <1>2, HasNew DEF target, N
            <4> QED
                BY <1>7, <1>8, <1>14, <2>2, <3>1, <4>1
        <3>2. CASE key # leaf.key
            <4>1. HasValue(ch[N], key, LeafAt(d, key, K))
                BY <1>1 DEF LeafsAt, N
            <4>2. HasValue(target, key, LeafAt(d, key, K))
                BY <1>2, <3>2, <4>1, HasOld DEF target, N
            <4> QED
                BY <1>7, <1>8, <1>15, <2>2, <3>2, <4>2
        <3> QED
            BY <3>1, <3>2
    <2> QED
        BY <1>7, <2>1, <2>2
<1>17. LeafsAt(e, more, rows)
    <2>1. \A i \in DOMAIN e.leafs : e.leafs[i].root_idx <= Len(e.nodes)
        BY <1>4, <1>6, <1>11
    <2>2. \A n \in 1..Len(more) : \A key \in Bits : HasValue(more[n], key, LeafAt(e, key, rows[n]))
        BY <1>7, <1>16
    <2> QED
        BY <2>1, <2>2 DEF LeafsAt
<1> QED
    BY <1>17 DEF more, rows, target, K, M

(* When all rows of a write are in the tables of a history, they are the    *)
(* tables of that history with the state the write led to.                  *)
THEOREM WriteSettles ==
    ASSUME NEW d, NEW ch, NEW at, NEW H, Settled(d, ch, at, H), NEW leaf, Ready(ch, leaf, H),
           NEW e, Partial(d, leaf, Len(PlanOf(d, leaf)), e), e.leafs = Append(d.leafs, NewLeaf(d, leaf))
    PROVE  Settled(e, Append(ch, After(ch[Len(ch)], leaf)), Append(at, Len(d.nodes) + Len(PlanOf(d, leaf))), H)
<1>1. TrueTables(e) /\ InPlace(e)
    BY PartialIs
<1>2. History(Append(ch, After(ch[Len(ch)], leaf)), H)
    BY HistoryGrows
<1>3. RootsAt(e.nodes, Append(ch, After(ch[Len(ch)], leaf)), Append(at, Len(d.nodes) + Len(PlanOf(d, leaf))), H)
    BY RootsGrow
<1>4. LeafsAt(e, Append(ch, After(ch[Len(ch)], leaf)), Append(at, Len(d.nodes) + Len(PlanOf(d, leaf))))
    BY LeafsGrow
<1>5. H \in Nat \ {0}
    BY DEF Settled
<1> QED
    BY <1>1, <1>2, <1>3, <1>4, <1>5 DEF Settled

-----------------------------------------------------------------------------
(* What the tables answer about a state of their history. *)

Given(v) == IF v = NoLeaf THEN Zero ELSE v
GoodProof(proof, root, leaf) ==
    /\ proof \in Seq(ProofNode)
    /\ VerifyProof(proof, root, leaf) = IF leaf.value = Zero THEN "NonMember" ELSE "Member"

LEMMA EmptyProof ==
    ASSUME NEW leaf, leaf.key \in Bits, leaf.key # <<>>
    PROVE  <<>> \in Seq(ProofNode) /\ VerifyProof(<<>>, {}, leaf) = "NonMember"
<1> DEFINE first == FirstVerify({}, leaf)
<1>1. Reaches(<<>>, {}, leaf, first)
    BY ReachesFirst
<1>2. VerifyProof(<<>>, {}, leaf) = Verdict(first, <<>>, {}, leaf)
    <2>1. <<>> \in Seq(ProofNode) /\ {} \in Hash
        BY DEF Hash
    <2> QED
        BY <1>1, <2>1, ReachesVerdict
<1>3. first.verdict = "open" /\ first.path # <<>>
    BY DEF FirstVerify
<1> HIDE DEF first
<1>4. Verdict(first, <<>>, {}, leaf) = "NonMember"
    BY <1>3 DEF Verdict, EmptyHash
<1> QED
    BY <1>2, <1>4

(* Tables that answer for a history: a settled one, and one where a write   *)
(* at the newest state has stored a part of its rows.                       *)
Told(e, ch, at, H) ==
    /\ TrueTables(e) /\ InPlace(e) /\ H \in Nat \ {0} /\ History(ch, H)
    /\ Len(at) = Len(ch) /\ at[1] = 0
    /\ \A n \in 1..Len(ch) :
          /\ CanOpen(e, ch[n]) /\ RootIdx(e, ch[n]) = at[n] /\ ContentOf(e, at[n]) = ch[n]
          /\ at[n] \in 0..Len(e.nodes) /\ (n \in 2..Len(ch) => at[n] # 0)
          /\ \A key \in Bits : HasValue(ch[n], key, LeafAt(e, key, at[n]))

LEMMA ToldValues ==
    ASSUME NEW e, NEW ch, NEW at, NEW H, Told(e, ch, at, H), NEW n \in 1..Len(ch)
    PROVE  ValuesAt(e, at[n], ch[n])
<1>1. /\ ch[1] = {} /\ (n = 1 \/ n \in 2..Len(ch))
      /\ WholeKeys(ch[n], H) /\ at[n] \in Nat
    <2>1. History(ch, H) /\ Len(e.nodes) \in Nat
        BY InPlaceIs DEF Told, TrueTables
    <2>2. Len(ch) \in Nat
        BY <2>1 DEF History
    <2> QED
        BY <2>1, <2>2 DEF Told, History
<1>2. CASE n = 1
    BY <1>1, <1>2 DEF ValuesAt
<1>3. CASE n \in 2..Len(ch)
    <2>1. at[n] > 0
        BY <1>1, <1>3 DEF Told
    <2>2. ASSUME NEW x \in ch[n] PROVE LeafAt(e, x[1], at[n]) = x[2]
        <3>1. x[1] \in Bits
            BY <1>1, PairsOf DEF WholeKeys
        <3>2. HasValue(ch[n], x[1], LeafAt(e, x[1], at[n]))
            BY <3>1 DEF Told
        <3> QED
            BY <3>2 DEF HasValue
    <2> QED
        BY <2>1, <2>2 DEF ValuesAt, StorageLeaf
<1> QED
    BY <1>1, <1>2, <1>3

LEMMA SettledTells ==
    ASSUME NEW d, NEW ch, NEW at, NEW H, Settled(d, ch, at, H)
    PROVE  Told(d, ch, at, H)
<1>1. /\ TrueTables(d) /\ InPlace(d) /\ H \in Nat \ {0} /\ History(ch, H)
      /\ RootsAt(d.nodes, ch, at, H) /\ LeafsAt(d, ch, at)
    BY DEF Settled
<1>2. /\ GoodTables(d) /\ Len(d.nodes) \in Nat
      /\ \A n \in 1..Len(ch) : at[n] \in 0..Len(d.nodes) /\ ContentOf(d, at[n]) = ch[n]
      /\ \A n \in 2..Len(ch) : at[n] \in 1..Len(d.nodes)
    BY SettledIs
<1>3. \A n \in 1..Len(ch) : CanOpen(d, ch[n]) /\ RootIdx(d, ch[n]) = at[n]
    BY <1>1, <1>2, SettledOpens
<1>4. Len(at) = Len(ch) /\ at[1] = 0
    BY <1>1 DEF RootsAt
<1>5. \A n \in 2..Len(ch) : at[n] # 0
    BY <1>2
<1> QED
    BY <1>1, <1>2, <1>3, <1>4, <1>5 DEF Told, LeafsAt

AddsLeaf(d, row, e) == e.leafs = Append(d.leafs, row)

(* A row for a root beyond idx, added last, is not read at idx. *)
LEMMA LaterLeaf ==
    ASSUME NEW d, GoodTables(d), NEW e, NEW row \in LeafRow, AddsLeaf(d, row, e),
           NEW idx \in Nat, row.root_idx > idx, NEW key
    PROVE  LeafAt(e, key, idx) = LeafAt(d, key, idx)
<1> DEFINE L == Len(d.leafs)
           hits == {i \in OfKey(d, key) : d.leafs[i].root_idx <= idx}
<1>1. /\ d.leafs \in Seq(LeafRow) /\ L \in Nat /\ DOMAIN d.leafs = 1..L
      /\ DOMAIN e.leafs = 1..L + 1 /\ e.leafs[L + 1] = row /\ \A i \in 1..L : e.leafs[i] = d.leafs[i]
    BY DEF GoodTables, AddsLeaf
<1>2. ~ (row.root_idx <= idx)
    BY DEF LeafRow
<1> HIDE DEF L
<1>3. \A i \in 1..L + 1 : i \in 1..L \/ i = L + 1
    BY <1>1
<1>4. \A i \in 1..L : i \in 1..L + 1
    BY <1>1
<1>5. {i \in OfKey(e, key) : e.leafs[i].root_idx <= idx} = hits
    BY <1>1, <1>2, <1>3, <1>4 DEF OfKey
<1>6. hits \subseteq 1..L
    BY <1>1 DEF OfKey
<1> HIDE DEF hits
<1>7. LastRow(hits) = 0 \/ LastRow(hits) \in 1..L
    <2>1. CASE hits = {}
        BY <2>1 DEF LastRow
    <2>2. CASE hits # {}
        <3>1. hits \subseteq 0..L
            BY <1>1, <1>6
        <3>2. LastRow(hits) \in hits
            BY <1>1, <2>2, <3>1, LastHit
        <3> QED
            BY <1>6, <3>2
    <2> QED
        BY <2>1, <2>2
<1>8. LeafIn(e, LastRow(hits)) = LeafIn(d, LastRow(hits))
    BY <1>1, <1>7 DEF LeafIn
<1> QED
    BY <1>5, <1>8 DEF LeafAt, hits

LEMMA PartialTells ==
    ASSUME NEW d, NEW ch, NEW at, NEW H, Settled(d, ch, at, H), NEW leaf, Ready(ch, leaf, H),
           NEW m, NEW e, Partial(d, leaf, m, e)
    PROVE  Told(e, ch, at, H)
<1> DEFINE K == Len(d.nodes)
           P == Len(PlanOf(d, leaf))
<1>1. Told(d, ch, at, H)
    BY SettledTells
<1>2. /\ TrueTables(e) /\ InPlace(e) /\ Agree(d, e) /\ m \in Nat /\ Len(e.nodes) = K + m
      /\ \A i \in 1..K : e.nodes[i] = d.nodes[i]
    BY PartialIs
<1>3. \A n \in 1..Len(ch) : CanOpen(e, ch[n]) /\ RootIdx(e, ch[n]) = at[n]
    <2>1. Len(d.nodes) <= Len(e.nodes) /\ GoodTables(e)
        <3>1. Len(d.nodes) \in Nat
            BY SettledIs
        <3> QED
            BY <1>2, <3>1 DEF TrueTables
    <2> QED
        BY <1>2, <2>1, SettledOpens
<1>4. GoodTables(d) /\ K \in Nat /\ \A n \in 1..Len(ch) : at[n] \in 0..K
    BY SettledIs
<1>5. P \in Nat \ {0}
    BY PlanLeads DEF Leads
<1>6. ASSUME NEW n \in 1..Len(ch), NEW key PROVE LeafAt(e, key, at[n]) = LeafAt(d, key, at[n])
    <2>1. CASE e.leafs = d.leafs
        <3>1. OfKey(e, key) = OfKey(d, key)
            BY <2>1 DEF OfKey
        <3> QED
            BY <2>1, <3>1 DEF LeafAt, LeafIn
    <2>2. CASE e.leafs = Append(d.leafs, NewLeaf(d, leaf))
        <3>1. NewLeaf(d, leaf) \in LeafRow /\ NewLeaf(d, leaf).root_idx = K + P
            BY NewLeafIs
        <3>2. at[n] \in Nat /\ at[n] <= K
            BY <1>4
        <3> DEFINE row == NewLeaf(d, leaf)
                   idx == at[n]
        <3>3. row \in LeafRow /\ row.root_idx = K + P /\ AddsLeaf(d, row, e) /\ idx \in Nat /\ idx <= K
            BY <2>2, <3>1, <3>2 DEF AddsLeaf
        <3> HIDE DEF K, P, row, idx
        <3>4. row.root_idx > idx
            BY <1>4, <1>5, <3>3
        <3>5. LeafAt(e, key, idx) = LeafAt(d, key, idx)
            BY <1>4, <3>3, <3>4, LaterLeaf
        <3> QED
            BY <3>5 DEF idx
    <2> QED
        BY <2>1, <2>2 DEF Partial
<1>7. \A n \in 1..Len(ch) : at[n] \in 0..Len(e.nodes)
    BY <1>2, <1>4
<1>8. ASSUME NEW n \in 1..Len(ch) PROVE ContentOf(e, at[n]) = ch[n]
    <2>1. ContentOf(d, at[n]) = ch[n] /\ at[n] \in 0..K
        BY <1>1, <1>4 DEF Told
    <2>2. at[n] # 0 => at[n] \in 1..K
        BY <1>4, <2>1
    <2>3. at[n] # 0 => StoredHash(e, at[n]) = StoredHash(d, at[n])
        <3>1. Stored(d) = 1..K
            BY SettledIs
        <3> QED
            BY <1>2, <2>2, <3>1 DEF Agree
    <2> QED
        BY <2>1, <2>3 DEF ContentOf
<1> HIDE DEF K, P
<1>9. ASSUME NEW n \in 1..Len(ch), NEW key \in Bits PROVE HasValue(ch[n], key, LeafAt(e, key, at[n]))
    <2>1. HasValue(ch[n], key, LeafAt(d, key, at[n]))
        BY <1>1 DEF Told
    <2> QED
        BY <1>6, <2>1
<1> QED
    BY <1>1, <1>2, <1>3, <1>7, <1>8, <1>9 DEF Told

LEMMA ToldIs ==
    ASSUME NEW e, NEW ch, NEW at, NEW H, Told(e, ch, at, H), NEW n \in 1..Len(ch)
    PROVE  /\ GoodTables(e) /\ H \in Nat /\ Len(e.nodes) \in Nat /\ Stored(e) = 1..Len(e.nodes)
           /\ at[1] = 0 /\ ch[1] = {} /\ (n \in 2..Len(ch) \/ n = 1)
           /\ at[n] \in 0..Len(e.nodes) /\ ContentOf(e, at[n]) = ch[n] /\ WholeKeys(ch[n], H)
           /\ n \in 2..Len(ch) => at[n] \in 1..Len(e.nodes) /\ StoredHash(e, at[n]) = ch[n]
<1>1. TrueTables(e) /\ InPlace(e) /\ History(ch, H) /\ GoodTables(e)
    BY DEF Told, TrueTables
<1>2. Len(e.nodes) \in Nat /\ Stored(e) = 1..Len(e.nodes)
    BY <1>1, InPlaceIs
<1>3. n \in 2..Len(ch) \/ n = 1
    BY <1>1 DEF History
<1>4. /\ at[1] = 0 /\ at[n] \in 0..Len(e.nodes) /\ ContentOf(e, at[n]) = ch[n]
      /\ n \in 2..Len(ch) => at[n] # 0
    BY DEF Told
<1>5. n \in 2..Len(ch) => at[n] \in 1..Len(e.nodes) /\ StoredHash(e, at[n]) = ch[n]
    BY <1>2, <1>4 DEF ContentOf
<1> QED
    BY <1>1, <1>2, <1>3, <1>4, <1>5 DEF History, Told

(* get_leaf_proof at any state of a history, for any key: a proof of the    *)
(* value the key has there.                                                 *)
LEMMA ToldProof ==
    ASSUME NEW d, NEW ch, NEW at, NEW H, Told(d, ch, at, H), NEW n \in 1..Len(ch),
           NEW leaf, leaf.key \in Bits, Len(leaf.key) = H, NEW v, HasValue(ch[n], leaf.key, v),
           leaf.value = Given(v), leaf.value \in Nat
    PROVE  GoodProof(GetLeafProof(d, at[n], ch[n], leaf.key), ch[n], leaf)
<1>1. /\ H \in Nat \ {0} /\ TrueTables(d) /\ InPlace(d) /\ History(ch, H)
    BY DEF Told
<1>2. /\ GoodTables(d) /\ Stored(d) = 1..Len(d.nodes) /\ at[1] = 0 /\ ch[1] = {}
      /\ n \in 2..Len(ch) \/ n = 1
      /\ n \in 2..Len(ch) => at[n] \in 1..Len(d.nodes) /\ StoredHash(d, at[n]) = ch[n]
      /\ WholeKeys(ch[n], H)
    BY ToldIs
<1>3. \A e \in ch[n] : e[2] # Zero /\ e[2] \in Nat /\ e = <<e[1], e[2]>>
    <2>1. ch[n] \in Hash
        BY <1>2 DEF WholeKeys
    <2>2. \A e \in ch[n] : e[2] # Zero
        BY <1>1 DEF History
    <2> QED
        BY <2>1, <2>2, PairsOf
<1>4. CASE n = 1
    <2>1. GetLeafProof(d, at[n], ch[n], leaf.key) = <<>> /\ ch[n] = {}
        BY <1>2, <1>4 DEF GetLeafProof, EmptyHash
    <2>2. leaf.key # <<>>
        BY <1>1, EmptyBits
    <2>3. leaf.value = Zero
        BY <2>1 DEF HasValue, Given, Zero
    <2> QED
        BY <2>1, <2>2, <2>3, EmptyProof DEF GoodProof
<1>5. CASE n \in 2..Len(ch)
    <2> DEFINE idx == at[n]
               C == ch[n]
               proof == GetProof(d, idx, idx, leaf.key)
    <2>1. idx \in Stored(d) /\ StoredHash(d, idx) = C /\ C # {}
        BY <1>1, <1>2, <1>5 DEF History
    <2>2. GetNodeIdxByHash(d, C) = idx
        <3>1. RootIdx(d, ch[n]) = at[n]
            BY DEF Told
        <3> QED
            BY <2>1, <3>1 DEF RootIdx, EmptyHash
    <2>3. GetLeafProof(d, at[n], ch[n], leaf.key) = proof
        BY <2>1, <2>2 DEF GetLeafProof, EmptyHash
    <2>4. ValuesAt(d, idx, C)
        BY ToldValues
    <2>5. WholeKeys(C, H)
        BY <1>2
    <2> HIDE DEF idx, C
    <2>6. /\ proof \in Seq(ProofNode)
          /\ leaf.value \in Nat /\ <<leaf.key, leaf.value>> \in C => VerifyProof(proof, C, leaf) = "Member"
          /\ (\A a \in Nat : <<leaf.key, a>> \notin C) => VerifyProof(proof, C, leaf) = "NonMember"
        <3>1. WholeKeys(StoredHash(d, idx), H) /\ ValuesAt(d, idx, StoredHash(d, idx)) /\ H \in Nat
            BY <1>1, <2>1, <2>4, <2>5
        <3> QED
            BY <1>1, <2>1, <3>1, ProofMeans
    <2>7. CASE leaf.value = Zero
        <3>1. v \in {NoLeaf, Zero}
            BY <2>7 DEF Given
        <3>2. \A e \in C : e[1] # leaf.key
            <4> SUFFICES ASSUME NEW e \in C, e[1] = leaf.key
                         PROVE  FALSE
                OBVIOUS
            <4>1. e[2] = v
                BY DEF HasValue, C
            <4> QED
                BY <1>3, <3>1, <4>1 DEF C, NoLeaf
        <3>3. \A a \in Nat : <<leaf.key, a>> \notin C
            BY <3>2
        <3> QED
            BY <2>3, <2>6, <2>7, <3>3 DEF GoodProof, C
    <2>8. CASE leaf.value # Zero
        <3>1. v \notin {NoLeaf, Zero} /\ leaf.value = v
            BY <2>8 DEF Given
        <3>2. PICK e \in C : e[1] = leaf.key
            BY <3>1 DEF HasValue, C
        <3>3. e = <<leaf.key, leaf.value>>
            BY <1>3, <3>1, <3>2 DEF HasValue, C
        <3> QED
            BY <2>3, <2>6, <2>8, <3>2, <3>3 DEF GoodProof, C
    <2> QED
        BY <2>7, <2>8
<1> QED
    BY <1>2, <1>4, <1>5

(* The proof of a write that led from one state to the next one. *)
LEMMA ToldWriteProof ==
    ASSUME NEW d, NEW ch, NEW at, NEW H, Told(d, ch, at, H),
           NEW n \in 1..Len(ch), n + 1 \in 1..Len(ch), NEW leaf \in Item, Len(leaf.key) = H,
           ch[n + 1] = After(ch[n], leaf)
    PROVE  /\ CanProveWrite(d, ch[n], leaf)
           /\ LET p == StateProofWrite(d, ch[n], leaf)
              IN  /\ p.trie_root_prev = ch[n] /\ p.trie_root_post = ch[n + 1]
                  /\ p.leaf_prev = LeafOrEmpty(leaf.key, LeafAt(d, leaf.key, at[n])) /\ p.leaf_post = leaf
                  /\ GoodProof(p.state_proof_prev, ch[n], p.leaf_prev)
                  /\ GoodProof(p.state_proof_post, ch[n + 1], leaf)
<1> DEFINE idx == at[n]
           update == TrieUpdate(d, idx, idx, <<leaf>>)
           post == After(ch[n], leaf)
           prev == LeafOrEmpty(leaf.key, LeafAt(d, leaf.key, idx))
<1>1. TrueTables(d) /\ InPlace(d) /\ History(ch, H)
    BY DEF Told
<1>2. /\ GoodTables(d) /\ Stored(d) = 1..Len(d.nodes) /\ Len(d.nodes) \in Nat /\ H \in Nat
      /\ idx \in 0..Len(d.nodes) /\ WholeKeys(ch[n], H) /\ ContentOf(d, idx) = ch[n]
    BY ToldIs
<1>3. /\ CanOpen(d, ch[n]) /\ RootIdx(d, ch[n]) = idx
      /\ CanOpen(d, ch[n + 1]) /\ RootIdx(d, ch[n + 1]) = at[n + 1]
    BY DEF Told
<1>4. ch[n + 1] # {}
    <2>1. n + 1 \in 2..Len(ch)
        OBVIOUS
    <2> QED
        BY <1>1, <2>1 DEF History
<1>5. GetNodeIdxByHash(d, post) = at[n + 1] /\ at[n + 1] # NoIdx
    BY <1>3, <1>4 DEF CanOpen, RootIdx, EmptyHash
<1>6. leaf.key \in Bits /\ leaf.value \in Nat
    BY DEF Item
<1> HIDE DEF post
<1>7. update.ok /\ update.root_commitment = post
    <2>1. ValuesAt(d, idx, ch[n])
        BY ToldValues
    <2> HIDE DEF idx
    <2>2. ValuesKept(d, idx, ContentOf(d, idx), leaf)
        BY <1>2, <2>1 DEF ValuesAt, ValuesKept
    <2>3. idx \in Stored(d) \union {0} /\ WholeKeys(ContentOf(d, idx), H)
        BY <1>2
    <2>4. /\ TrieUpdate(d, idx, idx, <<leaf>>).ok
          /\ TrieUpdate(d, idx, idx, <<leaf>>).root_commitment = After(ContentOf(d, idx), leaf)
        BY <1>1, <1>2, <2>2, <2>3, UpdateMeans
    <2> QED
        BY <1>2, <2>4 DEF post
<1>8. CanProveWrite(d, ch[n], leaf)
    BY <1>3, <1>5, <1>7 DEF CanProveWrite
<1> DEFINE p == [trie_root_prev |-> ch[n], leaf_prev |-> prev,
                 state_proof_prev |-> GetLeafProof(d, idx, ch[n], leaf.key),
                 trie_root_post |-> post, leaf_post |-> leaf,
                 state_proof_post |-> GetLeafProof(d, GetNodeIdxByHash(d, post), post, leaf.key)]
<1>9. StateProofWrite(d, ch[n], leaf) = p
    <2> DEFINE ProofOf(root) ==
                   [trie_root_prev |-> ch[n], leaf_prev |-> prev,
                    state_proof_prev |-> GetLeafProof(d, idx, ch[n], leaf.key),
                    trie_root_post |-> root, leaf_post |-> leaf,
                    state_proof_post |-> GetLeafProof(d, GetNodeIdxByHash(d, root), root, leaf.key)]
    <2>1. StateProofWrite(d, ch[n], leaf) = The({ProofOf(root) : root \in {update.root_commitment}})
        BY <1>3 DEF StateProofWrite
    <2>2. {ProofOf(root) : root \in {update.root_commitment}} = {ProofOf(post)}
        BY <1>7
    <2>3. ProofOf(post) = p
        OBVIOUS
    <2> HIDE DEF ProofOf, p
    <2> QED
        BY <2>1, <2>2, <2>3, TheOne
<1>10. GoodProof(GetLeafProof(d, idx, ch[n], leaf.key), ch[n], prev)
    <2> DEFINE v == LeafAt(d, leaf.key, idx)
    <2>1. HasValue(ch[n], leaf.key, v)
        BY <1>6 DEF Told
    <2>2. v \in Values
        BY <1>2, LeafAtIs
    <2>3. prev.key = leaf.key /\ prev.value = Given(v)
        BY DEF LeafOrEmpty, Given
    <2> HIDE DEF prev, v
    <2>4. prev.value \in Nat
        BY <2>2, <2>3 DEF Given, Values, Zero
    <2>5. prev.key \in Bits /\ Len(prev.key) = H /\ HasValue(ch[n], prev.key, v)
        BY <1>6, <2>1, <2>3
    <2>6. GoodProof(GetLeafProof(d, at[n], ch[n], prev.key), ch[n], prev)
        BY <2>3, <2>4, <2>5, ToldProof
    <2> QED
        BY <2>3, <2>6
<1>11. GoodProof(GetLeafProof(d, at[n + 1], ch[n + 1], leaf.key), ch[n + 1], leaf)
    <2>1. HasValue(post, leaf.key, leaf.value)
        BY <1>2, HasNew DEF post
    <2>2. HasValue(ch[n + 1], leaf.key, leaf.value) /\ leaf.value = Given(leaf.value)
        BY <1>6, <2>1 DEF post, Given, NoLeaf
    <2> QED
        BY <1>6, <2>2, ToldProof
<1>12. /\ p.trie_root_prev = ch[n] /\ p.trie_root_post = post /\ p.leaf_prev = prev /\ p.leaf_post = leaf
       /\ p.state_proof_prev = GetLeafProof(d, idx, ch[n], leaf.key)
       /\ p.state_proof_post = GetLeafProof(d, at[n + 1], post, leaf.key)
    BY <1>5
<1>13. post = ch[n + 1]
    BY DEF post
<1> HIDE DEF p
<1> QED
    BY <1>8, <1>9, <1>10, <1>11, <1>12, <1>13
=============================================================================
