--------------------------- MODULE PatriciaProofs ---------------------------
(***************************************************************************)
(* The Patricia update, for trees of any height and contents of any size.  *)
(*                                                                         *)
(* First for any hints and any nodes: an accepted update changed its own   *)
(* leaf only (OnlyTheKeyChanged).  Then for the hints of the Rust code and *)
(* the writes of the state server: what the tree of a content is, that the *)
(* descents recorded are the longest (DescentsAreLongest), and that such a *)
(* write is accepted unless it is one of zero that leaves its key beside a *)
(* binary node (HonestWritesAreAccepted).                                  *)
(***************************************************************************)
EXTENDS PatriciaUpdate, PatriciaHints, LeastElement

Path == Seq({0, 1})

-----------------------------------------------------------------------------
(* The way down a path. *)

(* NodesOn is what its definition says: such a function exists.             *)
GoesDown(f, root, path, N) == f = [n \in 0..N |-> IF n = 0 THEN root ELSE Child(f[n - 1], path[n])]

LEMMA NodesOnExists ==
    ASSUME NEW root, NEW path, NEW N \in Nat
    PROVE  \E f : GoesDown(f, root, path, N)
<1> DEFINE T == {m \in 0..N : \E f : GoesDown(f, root, path, m)}
<1>1. 0 \in T
    <2>1. GoesDown([n \in 0..0 |-> root], root, path, 0)
        BY DEF GoesDown
    <2> QED
        BY <2>1
<1>2. ASSUME NEW m \in 0..N, m < N, m \in T PROVE m + 1 \in T
    <2>1. PICK f : GoesDown(f, root, path, m)
        BY <1>2
    <2> DEFINE g == [n \in 0..m + 1 |-> IF n = m + 1 THEN Child(f[m], path[m + 1]) ELSE f[n]]
    <2>2. ASSUME NEW n \in 0..m + 1 PROVE g[n] = IF n = 0 THEN root ELSE Child(g[n - 1], path[n])
        <3>1. CASE n = 0
            BY <2>1, <3>1 DEF GoesDown
        <3>2. CASE n = m + 1
            BY <3>2
        <3>3. CASE n \in 1..m
            <4>1. f[n] = Child(f[n - 1], path[n])
                BY <2>1, <3>3 DEF GoesDown
            <4>2. g[n] = f[n] /\ g[n - 1] = f[n - 1]
                BY <3>3
            <4> QED
                BY <3>3, <4>1, <4>2
        <3> QED
            BY <3>1, <3>2, <3>3
    <2>3. GoesDown(g, root, path, m + 1)
        BY <2>2 DEF GoesDown
    <2>4. m + 1 \in 0..N
        BY <1>2
    <2> HIDE DEF g
    <2> QED
        BY <2>3, <2>4
<1>3. N \in T
    <2> HIDE DEF T
    <2> QED
        BY <1>1, <1>2, UpTo
<1> QED
    BY <1>3

LEMMA NodesOnStep ==
    ASSUME NEW root, NEW path \in Path
    PROVE  /\ NodesOn(root, path)[0] = root
           /\ \A n \in 1..Len(path) : NodesOn(root, path)[n] = Child(NodesOn(root, path)[n - 1], path[n])
<1>1. Len(path) \in Nat
    BY DEF Path
<1>2. \E f : GoesDown(f, root, path, Len(path))
    BY <1>1, NodesOnExists
<1>3. NodesOn(root, path) = CHOOSE f : GoesDown(f, root, path, Len(path))
    BY DEF NodesOn, GoesDown
<1>4. GoesDown(NodesOn(root, path), root, path, Len(path))
    BY <1>2, <1>3
<1> QED
    BY <1>1, <1>4 DEF GoesDown

(* What one meets depends on the bits passed only. *)
LEMMA SameWay ==
    ASSUME NEW root, NEW p \in Path, NEW q \in Path, NEW N \in Nat, N <= Len(p), N <= Len(q),
           \A n \in 1..N : p[n] = q[n]
    PROVE  \A n \in 0..N : NodesOn(root, p)[n] = NodesOn(root, q)[n]
<1> DEFINE T == {n \in 0..N : NodesOn(root, p)[n] = NodesOn(root, q)[n]}
<1>1. 0 \in T
    BY NodesOnStep
<1>2. ASSUME NEW n \in 0..N, n < N, n \in T PROVE n + 1 \in T
    <2>1. n + 1 \in 1..Len(p) /\ n + 1 \in 1..Len(q) /\ n + 1 \in 1..N /\ n + 1 - 1 = n
        BY <1>2 DEF Path
    <2>2. /\ NodesOn(root, p)[n + 1] = Child(NodesOn(root, p)[n], p[n + 1])
          /\ NodesOn(root, q)[n + 1] = Child(NodesOn(root, q)[n], q[n + 1])
        BY <2>1, NodesOnStep
    <2> QED
        BY <1>2, <2>1, <2>2
<1>3. 0..N \subseteq T
    <2> HIDE DEF T
    <2> QED
        BY <1>1, <1>2, UpTo
<1> QED
    BY <1>3

(* A walk goes on from the node it has reached. *)
LEMMA Further ==
    ASSUME NEW root, NEW path \in Path, NEW word \in Path
    PROVE  /\ path \o word \in Path /\ Len(path \o word) = Len(path) + Len(word)
           /\ \A n \in 1..Len(path) : (path \o word)[n] = path[n]
           /\ \A n \in 1..Len(word) : (path \o word)[Len(path) + n] = word[n]
           /\ \A n \in 0..Len(path) : NodesOn(root, path \o word)[n] = NodesOn(root, path)[n]
           /\ \A n \in 0..Len(word) :
                 NodesOn(root, path \o word)[Len(path) + n] = NodesOn(LeafOn(root, path), word)[n]
<1> DEFINE on == path \o word
           start == LeafOn(root, path)
           T == {n \in 0..Len(word) : NodesOn(root, on)[Len(path) + n] = NodesOn(start, word)[n]}
<1>1. on \in Path /\ Len(on) = Len(path) + Len(word) /\ Len(path) \in Nat /\ Len(word) \in Nat
    BY DEF Path
<1>2. \A n \in 1..Len(path) : on[n] = path[n]
    BY DEF Path
<1>3. \A n \in 1..Len(word) : on[Len(path) + n] = word[n]
    BY DEF Path
<1>4. \A n \in 0..Len(path) : NodesOn(root, on)[n] = NodesOn(root, path)[n]
    <2> HIDE DEF on
    <2>1. Len(path) <= Len(on) /\ Len(path) <= Len(path)
        BY <1>1
    <2> QED
        BY <1>1, <1>2, <2>1, SameWay
<1> HIDE DEF on
<1>5. 0 \in T
    <2>1. NodesOn(start, word)[0] = start
        BY NodesOnStep
    <2>2. NodesOn(root, on)[Len(path)] = NodesOn(root, path)[Len(path)]
        BY <1>1, <1>4
    <2> QED
        BY <1>1, <2>1, <2>2 DEF LeafOn
<1>6. ASSUME NEW n \in 0..Len(word), n < Len(word), n \in T PROVE n + 1 \in T
    <2>1. n + 1 \in 1..Len(word) /\ Len(path) + (n + 1) \in 1..Len(on)
          /\ Len(path) + (n + 1) - 1 = Len(path) + n /\ n + 1 - 1 = n
        BY <1>1, <1>6
    <2>2. NodesOn(root, on)[Len(path) + (n + 1)] = Child(NodesOn(root, on)[Len(path) + n], on[Len(path) + (n + 1)])
        BY <1>1, <2>1, NodesOnStep
    <2>3. NodesOn(start, word)[n + 1] = Child(NodesOn(start, word)[n], word[n + 1])
        BY <2>1, NodesOnStep
    <2> QED
        BY <1>3, <1>6, <2>1, <2>2, <2>3
<1>7. 0..Len(word) \subseteq T
    <2> HIDE DEF T
    <2> QED
        BY <1>1, <1>5, <1>6, UpTo
<1> QED
    BY <1>1, <1>2, <1>3, <1>4, <1>7 DEF on

(* So do its siblings. *)
LEMMA SiblingsFurther ==
    ASSUME NEW root, NEW path \in Path, NEW word \in Path
    PROVE  /\ LeafOn(root, path \o word) = LeafOn(LeafOn(root, path), word)
           /\ \A n \in 1..Len(path) : Sibling(root, path \o word, n) = Sibling(root, path, n)
           /\ \A n \in 1..Len(word) : Sibling(root, path \o word, Len(path) + n) = Sibling(LeafOn(root, path), word, n)
<1> DEFINE on == path \o word
<1>1. Len(path) \in Nat /\ Len(word) \in Nat
    BY DEF Path
<1>2. /\ Len(on) = Len(path) + Len(word)
      /\ \A n \in 1..Len(path) : on[n] = path[n]
      /\ \A n \in 1..Len(word) : on[Len(path) + n] = word[n]
      /\ \A n \in 0..Len(path) : NodesOn(root, on)[n] = NodesOn(root, path)[n]
      /\ \A n \in 0..Len(word) : NodesOn(root, on)[Len(path) + n] = NodesOn(LeafOn(root, path), word)[n]
    BY Further
<1> HIDE DEF on
<1>3. LeafOn(root, on) = LeafOn(LeafOn(root, path), word)
    <2>1. Len(word) \in 0..Len(word)
        BY <1>1
    <2>2. NodesOn(root, on)[Len(on)] = NodesOn(LeafOn(root, path), word)[Len(word)]
        BY <1>2, <2>1
    <2>3. LeafOn(root, on) = NodesOn(root, on)[Len(on)]
        BY DEF LeafOn
    <2>4. \A start : LeafOn(start, word) = NodesOn(start, word)[Len(word)]
        BY DEF LeafOn
    <2> QED
        BY <2>2, <2>3, <2>4
<1>4. ASSUME NEW n \in 1..Len(path) PROVE Sibling(root, on, n) = Sibling(root, path, n)
    <2>1. n - 1 \in 0..Len(path)
        BY <1>1
    <2> QED
        BY <1>2, <2>1 DEF Sibling
<1>5. ASSUME NEW n \in 1..Len(word) PROVE Sibling(root, on, Len(path) + n) = Sibling(LeafOn(root, path), word, n)
    <2>1. n - 1 \in 0..Len(word) /\ Len(path) + n - 1 = Len(path) + (n - 1)
        BY <1>1
    <2> QED
        BY <1>2, <2>1 DEF Sibling
<1> QED
    BY <1>3, <1>4, <1>5 DEF on

-----------------------------------------------------------------------------
(* One step of a walk. *)

(* From a node down a word: where it ends, and the siblings it lists.       *)
Down(node, word, end, listed) ==
    /\ word \in Path /\ end = LeafOn(node, word)
    /\ \/ word = <<>> /\ listed = <<>>
       \/ Len(word) = 1 /\ listed = <<Sibling(node, word, 1)>>
       \/ /\ Len(word) >= 2 /\ listed = <<Felt(Len(word))>>
          /\ \A n \in 1..Len(word) : Sibling(node, word, n) = Zero

LEMMA DownNothing == ASSUME NEW node PROVE Down(node, <<>>, node, <<>>)
<1>1. <<>> \in Path /\ Len(<<>>) = 0
    BY DEF Path
<1>2. NodesOn(node, <<>>)[0] = node
    BY <1>1, NodesOnStep
<1> QED
    BY <1>1, <1>2 DEF Down, LeafOn

LEMMA DownOneBit ==
    ASSUME NEW node, NEW bit \in {0, 1}
    PROVE  Down(node, <<bit>>, Child(node, bit), <<Child(node, 1 - bit)>>)
<1>1. <<bit>> \in Path /\ Len(<<bit>>) = 1 /\ <<bit>>[1] = bit
    BY DEF Path
<1>2. NodesOn(node, <<bit>>)[0] = node /\ NodesOn(node, <<bit>>)[1] = Child(NodesOn(node, <<bit>>)[1 - 1], <<bit>>[1])
    BY <1>1, NodesOnStep
<1>3. LeafOn(node, <<bit>>) = Child(node, bit) /\ Sibling(node, <<bit>>, 1) = Child(node, 1 - bit)
    BY <1>1, <1>2 DEF LeafOn, Sibling
<1> QED
    BY <1>1, <1>3 DEF Down

LEMMA DownEmpty ==
    ASSUME NEW node, NEW word \in Path, word # <<>>, \A n \in 1..Len(word) : Sibling(node, word, n) = Zero
    PROVE  Down(node, word, LeafOn(node, word), EmptySiblings(word))
<1>1. Len(word) \in Nat /\ Len(word) # 0
    BY DEF Path
<1>2. CASE Len(word) = 1
    <2>1. EmptySiblings(word) = <<Sibling(node, word, 1)>>
        BY <1>2 DEF EmptySiblings
    <2> QED
        BY <1>2, <2>1 DEF Down
<1>3. CASE Len(word) >= 2
    BY <1>3 DEF Down, EmptySiblings
<1>4. Len(word) = 1 \/ Len(word) >= 2
    <2>1. \A n \in Nat : n # 0 => n = 1 \/ n >= 2
        OBVIOUS
    <2> QED
        BY <1>1, <2>1
<1> QED
    BY <1>2, <1>3, <1>4

(* Below an empty node every node is empty.                                 *)
LEMMA DownZero ==
    ASSUME NEW word \in Path, word # <<>>
    PROVE  Down(Zero, word, Zero, EmptySiblings(word))
<1> DEFINE T == {n \in 0..Len(word) : NodesOn(Zero, word)[n] = Zero}
<1>1. Len(word) \in Nat /\ \A n \in 1..Len(word) : word[n] \in {0, 1}
    BY DEF Path
<1>2. \A bit \in {0, 1} : Child(Zero, bit) = Zero
    BY DEF Child, GetChildren, Zero, Felt
<1>3. 0 \in T
    BY <1>1, NodesOnStep
<1>4. ASSUME NEW n \in 0..Len(word), n < Len(word), n \in T PROVE n + 1 \in T
    <2>1. n + 1 \in 1..Len(word) /\ n + 1 - 1 = n
        BY <1>1, <1>4
    <2>2. NodesOn(Zero, word)[n + 1] = Child(NodesOn(Zero, word)[n], word[n + 1])
        BY <2>1, NodesOnStep
    <2> QED
        BY <1>1, <1>2, <1>4, <2>1, <2>2
<1>5. 0..Len(word) \subseteq T
    <2> HIDE DEF T
    <2> QED
        BY <1>1, <1>3, <1>4, UpTo
<1>6. LeafOn(Zero, word) = Zero
    BY <1>1, <1>5 DEF LeafOn
<1>7. ASSUME NEW n \in 1..Len(word) PROVE Sibling(Zero, word, n) = Zero
    <2>1. n - 1 \in 0..Len(word) /\ 1 - word[n] \in {0, 1}
        BY <1>1
    <2> QED
        BY <1>2, <1>5, <2>1 DEF Sibling
<1> QED
    BY <1>6, <1>7, DownEmpty

(* Down an edge, its other sides are empty; an edge with no bits left is its bottom. *)
Opened(edge) == IF edge.path = <<>> THEN edge.bottom ELSE edge
LEMMA DownEdge ==
    ASSUME NEW edge, edge.kind = "Edge", edge.path \in Path,
           NEW word \in Path, word # <<>>, IsPrefix(word, edge.path)
    PROVE  /\ Drop(edge.path, Len(word)) \in Path
           /\ Down(edge, word, Opened(Edge(Drop(edge.path, Len(word)), edge.bottom)), EmptySiblings(word))
<1> DEFINE L == Len(edge.path)
           Left(n) == IF n = 0 THEN edge ELSE IF n = L THEN edge.bottom ELSE Edge(Drop(edge.path, n), edge.bottom)
           T == {n \in 0..Len(word) : NodesOn(edge, word)[n] = Left(n)}
<1>1. Len(word) \in Nat /\ Len(word) # 0 /\ L \in Nat /\ Len(word) <= L /\ \A n \in 1..Len(word) : word[n] \in {0, 1} /\ word[n] = edge.path[n]
    BY DEF Path, IsPrefix
<1>2. \A n \in 0..L : Drop(edge.path, n) \in Path /\ Len(Drop(edge.path, n)) = L - n /\ \A i \in 1..L - n : Drop(edge.path, n)[i] = edge.path[n + i]
    BY DEF Path, Drop
<1>3. ASSUME NEW n \in 0..L - 1 PROVE Drop(edge.path, n) # <<>> /\ Head(Drop(edge.path, n)) = edge.path[n + 1]
    <2>1. n \in 0..L /\ 1 \in 1..L - n
        BY <1>1
    <2>2. Drop(edge.path, n)[1] = edge.path[n + 1] /\ Len(Drop(edge.path, n)) # 0
        <3> HIDE DEF L
        <3> QED
            BY <1>2, <2>1
    <2> QED
        BY <2>1, <2>2
<1>4. Drop(edge.path, 0) = edge.path
    BY DEF Drop, Path
<1>5. ASSUME NEW n \in 0..L - 1 PROVE Len(Drop(edge.path, n)) # 1 => Tail(Drop(edge.path, n)) = Drop(edge.path, n + 1)
    BY <1>1, <1>2 DEF Path, Drop
<1>6. ASSUME NEW n \in 0..L - 1
      PROVE  Child(Left(n), edge.path[n + 1]) = Left(n + 1) /\ Child(Left(n), 1 - edge.path[n + 1]) = Zero
    <2>1. Left(n).kind = "Edge" /\ Left(n).path = Drop(edge.path, n) /\ Left(n).bottom = edge.bottom
        BY <1>1, <1>4, <1>6 DEF Edge
    <2>2. Cut(Left(n)) = Left(n + 1)
        <3>1. n + 1 # 0 /\ n \in 0..L
            BY <1>1
        <3>2. Left(n + 1) = IF n + 1 = L THEN edge.bottom ELSE Edge(Drop(edge.path, n + 1), edge.bottom)
            BY <3>1
        <3>3. Len(Left(n).path) = L - n
            BY <1>2, <2>1, <3>1
        <3> HIDE DEF Left, L
        <3>4. CASE n + 1 = L
            BY <1>1, <2>1, <3>4, <3>2, <3>3 DEF Cut
        <3>5. CASE n + 1 # L
            <4>1. Len(Left(n).path) # 1
                BY <1>1, <3>5, <3>3
            <4>2. Tail(Left(n).path) = Drop(edge.path, n + 1)
                BY <1>5, <2>1, <4>1
            <4> QED
                BY <2>1, <3>5, <3>2, <4>1, <4>2 DEF Cut
        <3> QED
            BY <3>4, <3>5
    <2>3. Head(Left(n).path) = edge.path[n + 1] /\ edge.path[n + 1] \in {0, 1}
        BY <1>1, <1>3, <1>6, <2>1 DEF Path
    <2> HIDE DEF Left
    <2>4. GetChildren(Left(n)) = IF edge.path[n + 1] = 0 THEN <<Left(n + 1), Zero>> ELSE <<Zero, Left(n + 1)>>
        BY <2>1, <2>2, <2>3 DEF GetChildren
    <2> QED
        BY <2>3, <2>4 DEF Child
<1>7. 0 \in T
    BY <1>1, NodesOnStep
<1>8. ASSUME NEW n \in 0..Len(word), n < Len(word), n \in T PROVE n + 1 \in T
    <2>1. n + 1 \in 1..Len(word) /\ n + 1 - 1 = n /\ n \in 0..L - 1
        BY <1>1, <1>8
    <2>2. NodesOn(edge, word)[n + 1] = Child(NodesOn(edge, word)[n], word[n + 1])
        BY <2>1, NodesOnStep
    <2>3. NodesOn(edge, word)[n] = Left(n) /\ word[n + 1] = edge.path[n + 1]
        BY <1>1, <1>8, <2>1
    <2>4. NodesOn(edge, word)[n + 1] = Left(n + 1)
        BY <1>6, <2>1, <2>2, <2>3
    <2> QED
        BY <1>1, <2>1, <2>4
<1>9. 0..Len(word) \subseteq T
    <2> HIDE DEF T
    <2> QED
        BY <1>1, <1>7, <1>8, UpTo
<1>10. ASSUME NEW n \in 1..Len(word) PROVE Sibling(edge, word, n) = Zero
    <2>1. n - 1 \in 0..Len(word) /\ n - 1 \in 0..L - 1 /\ n - 1 + 1 = n
        BY <1>1
    <2>2. NodesOn(edge, word)[n - 1] = Left(n - 1)
        BY <1>9, <2>1
    <2> QED
        BY <1>1, <1>6, <2>1, <2>2 DEF Sibling
<1>11. LeafOn(edge, word) = Opened(Edge(Drop(edge.path, Len(word)), edge.bottom))
    <2>1. LeafOn(edge, word) = Left(Len(word))
        BY <1>1, <1>9 DEF LeafOn
    <2>2. CASE Len(word) = L
        <3>1. Drop(edge.path, Len(word)) = <<>>
            BY <1>1, <1>2, <2>2 DEF Path
        <3> QED
            BY <1>1, <2>1, <2>2, <3>1 DEF Opened, Edge
    <2>3. CASE Len(word) # L
        <3>1. Drop(edge.path, Len(word)) # <<>>
            BY <1>1, <1>3, <2>3
        <3> QED
            BY <1>1, <2>1, <2>3, <3>1 DEF Opened, Edge
    <2> QED
        BY <2>2, <2>3
<1>12. Len(word) \in 0..L
    BY <1>1
<1> QED
    BY <1>2, <1>10, <1>11, <1>12, DownEmpty

-----------------------------------------------------------------------------
(* What one call does. *)

(* The node of the tree that a call is about. *)
Meaning(call) ==
    CASE call.fn = "empty" -> Zero
      [] call.fn = "edge" -> Opened(call.node)
      [] OTHER -> call.node

CallOK(call) ==
    /\ call.path \in Path
    /\ call.fn = "edge" => call.node.path \in Path /\ (call.node.path # <<>> => call.node.kind = "Edge")

JobOK ==
    /\ job.key \in Path
    /\ HashesAreNoNumbers(job.prev_root, Len(job.key)) /\ HashesAreNoNumbers(job.new_root, Len(job.key))
    /\ job.honest => \A place \in DOMAIN job.descent_map : job.descent_map[place] \in Path \ {<<>>}

(* It reaches the leaf of the key, goes both ways, or goes one way.         *)
Reaches(call, o) ==
    /\ o.updates = 1 /\ o.calls = <<>> /\ o.siblings = <<>>
    /\ update_ptr = 0 /\ call.path = job.key
    /\ Meaning(call).kind = "Felt" /\ Meaning(call).n = AccessOffset
Parts(o) == o.updates = 0 /\ o.siblings = <<>> /\ \E a, b : o.calls = <<a, b>>
Onward(call, next, listed) ==
    /\ CallOK(next)
    /\ \E word \in Path : next.path = call.path \o word /\ Down(Meaning(call), word, Meaning(next), listed)
GoesOn(call, o) ==
    /\ o.updates = 0
    /\ o.siblings = <<>> \/ \E s : o.siblings = <<s>>
    /\ \E next : o.calls = <<next>> /\ (CallOK(call) => Onward(call, next, o.siblings))
Goes(call, o) == Reaches(call, o) \/ Parts(o) \/ GoesOn(call, o)

LEMMA WordsAreWords ==
    ASSUME JobOK, NEW path \in Path
    PROVE  /\ Words(path) \subseteq Path \ {<<>>}
           /\ \A bit \in Children(path) : bit = <<0>> \/ bit = <<1>>
<1>1. \A key \in Path : \A n \in DOMAIN key : key[n] = 0 \/ key[n] = 1
    BY DEF Path
<1>2. \A bit \in Case(path) : bit = <<0>> \/ bit = <<1>>
    BY <1>1 DEF JobOK, Case
<1>3. <<0>> \in Path \ {<<>>} /\ <<1>> \in Path \ {<<>>}
    BY DEF Path
<1>4. Case(path) \subseteq Path \ {<<>>}
    BY <1>2, <1>3
<1>5. ASSUME NEW n \in Nat, n # 0, NEW word \in [1..n -> {0, 1}] PROVE word \in Path \ {<<>>}
    <2>1. word \in Seq({0, 1}) /\ Len(word) = n
        BY <1>5
    <2> QED
        BY <1>5, <2>1 DEF Path
<1>6. \A n \in 1..Height(path) : [1..n -> {0, 1}] \subseteq Path \ {<<>>}
    BY <1>5
<1>7. Words(path) \subseteq Path \ {<<>>}
    <2>1. CASE ~ job.honest
        BY <1>6, <2>1 DEF Words
    <2>2. CASE job.honest
        BY <1>4, <2>2 DEF Words, JobOK
    <2> QED
        BY <2>1, <2>2
<1> QED
    BY <1>2, <1>7 DEF Children, Bits

LEMMA BothWays == ASSUME NEW a, NEW b, NEW o, o = Calls(<<>>, <<a, b>>) PROVE Parts(o)
<1>1. o.updates = 0 /\ o.siblings = <<>> /\ o.calls = <<a, b>>
    BY DEF Calls
<1> QED
    BY <1>1 DEF Parts

LEMMA OneWay ==
    ASSUME NEW call, NEW next, NEW listed, NEW o, o = Calls(listed, <<next>>),
           listed = <<>> \/ \E s : listed = <<s>>,
           CallOK(call) => Onward(call, next, listed)
    PROVE  GoesOn(call, o)
<1>1. o.updates = 0 /\ o.siblings = listed /\ o.calls = <<next>>
    BY DEF Calls
<1> QED
    BY <1>1 DEF GoesOn

LEMMA NoWay ==
    ASSUME NEW call, NEW next, CallOK(next), next.path = call.path, call.path \in Path, Meaning(next) = Meaning(call)
    PROVE  Onward(call, next, <<>>)
<1>1. <<>> \in Path /\ call.path = call.path \o <<>>
    BY DEF Path
<1> QED
    BY <1>1, DownNothing DEF Onward

LEMMA EmptyGoes ==
    ASSUME JobOK, NEW call, call.fn = "empty", NEW o \in TraverseEmpty(call.path)
    PROVE  Goes(call, o)
<1>1. CASE Height(call.path) = 0
    <2>1. o \in LeafUpdate(call.path, 0)
        BY <1>1 DEF TraverseEmpty
    <2>2. Meaning(call) = Felt(0)
        BY DEF Meaning, Zero
    <2> QED
        BY <2>1, <2>2 DEF LeafUpdate, Goes, Reaches, Felt
<1>2. ASSUME Height(call.path) # 0,
             NEW word \in Words(call.path), o = Calls(EmptySiblings(word), <<Call("empty", call.path \o word, Zero)>>)
      PROVE  GoesOn(call, o)
    <2> DEFINE next == Call("empty", call.path \o word, Zero)
    <2>1. \E s : EmptySiblings(word) = <<s>>
        BY DEF EmptySiblings
    <2>2. ASSUME CallOK(call) PROVE Onward(call, next, EmptySiblings(word))
        <3>1. call.path \in Path /\ word \in Path /\ word # <<>>
            BY <2>2, WordsAreWords DEF CallOK
        <3>2. Down(Zero, word, Zero, EmptySiblings(word))
            BY <3>1, DownZero
        <3>3. call.path \o word \in Path
            BY <3>1, Further
        <3>4. next.fn = "empty" /\ next.path = call.path \o word /\ Meaning(next) = Zero /\ Meaning(call) = Zero
            BY DEF Meaning, Call
        <3> HIDE DEF next
        <3> QED
            BY <3>1, <3>2, <3>3, <3>4 DEF Onward, CallOK
    <2> HIDE DEF next
    <2>3. o = Calls(EmptySiblings(word), <<next>>)
        BY <1>2 DEF next
    <2> QED
        BY <2>1, <2>2, <2>3, OneWay
<1>3. CASE o = Calls(<<>>, <<Call("empty", call.path \o <<0>>, Zero), Call("empty", call.path \o <<1>>, Zero)>>)
    BY <1>3, BothWays DEF Goes
<1> QED
    BY <1>1, <1>2, <1>3 DEF TraverseEmpty, Goes

LEMMA BinaryOrLeafGoes ==
    ASSUME JobOK, NEW call, call.fn = "binary_or_leaf", NEW o \in TraverseBinaryOrLeaf(call.path, call.node)
    PROVE  Goes(call, o)
<1>1. Meaning(call) = call.node
    BY DEF Meaning
<1> DEFINE Into(bit) == Call("non_empty", call.path \o bit, IF bit = <<0>> THEN call.node.left ELSE call.node.right)
           Passed(bit) == IF bit = <<0>> THEN call.node.right ELSE call.node.left
<1>2. CASE Height(call.path) = 0
    BY <1>1, <1>2 DEF TraverseBinaryOrLeaf, LeafUpdate, Goes, Reaches
<1>3. ASSUME call.node.kind = "Binary", NEW bit \in Children(call.path), o = Calls(<<Passed(bit)>>, <<Into(bit)>>)
      PROVE  GoesOn(call, o)
    <2>1. \E s : <<Passed(bit)>> = <<s>>
        OBVIOUS
    <2>2. ASSUME CallOK(call) PROVE Onward(call, Into(bit), <<Passed(bit)>>)
        <3>1. call.path \in Path /\ call.path \o <<0>> \in Path /\ call.path \o <<1>> \in Path
              /\ <<0>> \in Path /\ <<1>> \in Path
            BY <2>2 DEF CallOK, Path
        <3>2. bit = <<0>> \/ bit = <<1>>
            BY <1>3, <3>1, WordsAreWords
        <3>3. Child(call.node, 0) = call.node.left /\ Child(call.node, 1) = call.node.right
            BY <1>3 DEF Child, GetChildren
        <3>4. /\ Down(call.node, <<0>>, call.node.left, <<call.node.right>>)
              /\ Down(call.node, <<1>>, call.node.right, <<call.node.left>>)
            <4>1. 1 - 0 = 1 /\ 1 - 1 = 0 /\ 0 \in {0, 1} /\ 1 \in {0, 1}
                OBVIOUS
            <4> QED
                BY <3>3, <4>1, DownOneBit
        <3>5. <<1>> # <<0>>
            OBVIOUS
        <3>6. Down(call.node, bit, Meaning(Into(bit)), <<Passed(bit)>>)
            BY <3>2, <3>4, <3>5 DEF Meaning, Call
        <3>7. Into(bit).path = call.path \o bit /\ Into(bit).fn = "non_empty" /\ bit \in Path /\ call.path \o bit \in Path
            BY <3>1, <3>2 DEF Call
        <3> HIDE DEF Into, Passed
        <3> QED
            BY <1>1, <3>6, <3>7 DEF Onward, CallOK
    <2> HIDE DEF Into, Passed
    <2> QED
        BY <1>3, <2>1, <2>2, OneWay
<1>4. CASE o = Calls(<<>>, <<Into(<<0>>), Into(<<1>>)>>)
    BY <1>4, BothWays DEF Goes
<1> QED
    BY <1>2, <1>3, <1>4 DEF TraverseBinaryOrLeaf, Goes

LEMMA EdgeGoes ==
    ASSUME JobOK, NEW call, call.fn = "edge", NEW o \in TraverseEdge(call.path, call.node)
    PROVE  Goes(call, o)
<1> DEFINE edge == call.node
           path == call.path
<1>1. Meaning(call) = Opened(edge)
    BY DEF Meaning
<1>2. ASSUME edge.path = <<>>, o = Calls(<<>>, <<Call("binary_or_leaf", path, edge.bottom)>>)
      PROVE  GoesOn(call, o)
    <2> DEFINE next == Call("binary_or_leaf", path, edge.bottom)
    <2>1. next.fn = "binary_or_leaf" /\ next.path = path /\ Meaning(next) = Meaning(call)
        BY <1>1, <1>2 DEF Meaning, Call, Opened
    <2> HIDE DEF next
    <2>2. CallOK(call) => Onward(call, next, <<>>)
        BY <2>1, NoWay DEF CallOK
    <2>3. o = Calls(<<>>, <<next>>)
        BY <1>2 DEF next
    <2> QED
        BY <2>2, <2>3, OneWay
<1>3. ASSUME edge.path # <<>>, NEW word \in Words(path), IsPrefix(word, edge.path),
             o = Calls(EmptySiblings(word),
                       <<Call("edge", path \o word, Edge(Drop(edge.path, Len(word)), edge.bottom))>>)
      PROVE  GoesOn(call, o)
    <2> DEFINE next == Call("edge", path \o word, Edge(Drop(edge.path, Len(word)), edge.bottom))
    <2>1. \E s : EmptySiblings(word) = <<s>>
        BY DEF EmptySiblings
    <2>2. ASSUME CallOK(call) PROVE Onward(call, next, EmptySiblings(word))
        <3>1. path \in Path /\ word \in Path /\ word # <<>> /\ edge.kind = "Edge" /\ edge.path \in Path
            BY <1>3, <2>2, WordsAreWords DEF CallOK
        <3>2. /\ Drop(edge.path, Len(word)) \in Path
              /\ Down(edge, word, Opened(Edge(Drop(edge.path, Len(word)), edge.bottom)), EmptySiblings(word))
            BY <1>3, <3>1, DownEdge
        <3>3. path \o word \in Path
            BY <3>1, Further
        <3>4. /\ next.fn = "edge" /\ next.path = path \o word
              /\ Meaning(next) = Opened(Edge(Drop(edge.path, Len(word)), edge.bottom))
              /\ next.node.path = Drop(edge.path, Len(word)) /\ next.node.kind = "Edge"
            BY DEF Meaning, Call, Edge
        <3>5. Meaning(call) = edge
            BY <1>1, <1>3 DEF Opened
        <3> HIDE DEF next
        <3> QED
            BY <3>1, <3>2, <3>3, <3>4, <3>5 DEF Onward, CallOK
    <2> HIDE DEF next
    <2>3. o = Calls(EmptySiblings(word), <<next>>)
        BY <1>3 DEF next
    <2> QED
        BY <2>1, <2>2, <2>3, OneWay
<1>4. ASSUME edge.path # <<>>, NEW away, away = 1 - Head(edge.path),
             o = Calls(<<Cut(edge)>>, <<Call("empty", path \o <<away>>, Zero)>>)
      PROVE  GoesOn(call, o)
    <2> DEFINE next == Call("empty", path \o <<away>>, Zero)
    <2>1. \E s : <<Cut(edge)>> = <<s>>
        OBVIOUS
    <2>2. ASSUME CallOK(call) PROVE Onward(call, next, <<Cut(edge)>>)
        <3>1. path \in Path /\ edge.kind = "Edge" /\ edge.path \in Path /\ Head(edge.path) \in {0, 1}
            BY <1>4, <2>2 DEF CallOK, Path
        <3>2. away \in {0, 1} /\ 1 - away = Head(edge.path)
            BY <1>4, <3>1
        <3>3. Child(edge, away) = Zero /\ Child(edge, 1 - away) = Cut(edge)
            BY <1>4, <3>1, <3>2 DEF Child, GetChildren
        <3>4. Down(edge, <<away>>, Zero, <<Cut(edge)>>)
            BY <3>2, <3>3, DownOneBit
        <3>5. <<away>> \in Path /\ path \o <<away>> \in Path
            BY <3>1, <3>2 DEF Path
        <3>6. next.fn = "empty" /\ next.path = path \o <<away>> /\ Meaning(next) = Zero /\ Meaning(call) = edge
            BY <1>1, <1>4 DEF Meaning, Call, Opened
        <3> HIDE DEF next
        <3> QED
            BY <3>4, <3>5, <3>6 DEF Onward, CallOK
    <2> HIDE DEF next
    <2>3. o = Calls(<<Cut(edge)>>, <<next>>)
        BY <1>4 DEF next
    <2> QED
        BY <2>1, <2>2, <2>3, OneWay
<1>5. ASSUME NEW a, NEW b, o = Calls(<<>>, <<a, b>>) PROVE Parts(o)
    BY <1>5, BothWays
<1>6. edge.path = <<>> => GoesOn(call, o)
    BY <1>2 DEF TraverseEdge
<1>7. edge.path # <<>> /\ o \in AlongEdge(path, edge) => GoesOn(call, o)
    BY <1>3 DEF AlongEdge
<1>8. edge.path # <<>> /\ o \in OffEdge(path, edge) => GoesOn(call, o)
    BY <1>4 DEF OffEdge
<1>9. o \in BothSidesOfEdge(path, edge) => Parts(o)
    BY <1>5 DEF BothSidesOfEdge
<1> QED
    BY <1>6, <1>7, <1>8, <1>9 DEF TraverseEdge, Goes

LEMMA NonEmptyGoes ==
    ASSUME JobOK, NEW call, call.fn = "non_empty", NEW o \in TraverseNonEmpty(call.path, call.node)
    PROVE  Goes(call, o)
<1>1. Meaning(call) = call.node
    BY DEF Meaning
<1>2. ASSUME o = Calls(<<>>, <<Call("binary_or_leaf", call.path, call.node)>>) PROVE GoesOn(call, o)
    <2> DEFINE next == Call("binary_or_leaf", call.path, call.node)
    <2>1. next.fn = "binary_or_leaf" /\ next.path = call.path /\ Meaning(next) = Meaning(call)
        BY <1>1 DEF Meaning, Call
    <2> HIDE DEF next
    <2>2. CallOK(call) => Onward(call, next, <<>>)
        BY <2>1, NoWay DEF CallOK
    <2>3. o = Calls(<<>>, <<next>>)
        BY <1>2 DEF next
    <2> QED
        BY <2>2, <2>3, OneWay
<1>3. ASSUME OpensAsEdge(call.node), o = Calls(<<>>, <<Call("edge", call.path, call.node)>>) PROVE GoesOn(call, o)
    <2> DEFINE next == Call("edge", call.path, call.node)
    <2>1. next.fn = "edge" /\ next.path = call.path /\ next.node = call.node /\ Meaning(next) = Meaning(call)
        BY <1>1, <1>3 DEF Meaning, Call, Opened, OpensAsEdge
    <2> HIDE DEF next
    <2>2. CallOK(call) => Onward(call, next, <<>>)
        BY <1>3, <2>1, NoWay DEF CallOK, OpensAsEdge, Path
    <2>3. o = Calls(<<>>, <<next>>)
        BY <1>3 DEF next
    <2> QED
        BY <2>2, <2>3, OneWay
<1> QED
    BY <1>2, <1>3 DEF TraverseNonEmpty, Goes

LEMMA OutcomesGo ==
    ASSUME JobOK, NEW call, call.fn \in {"empty", "edge", "binary_or_leaf", "non_empty"}, NEW o \in Outcomes(call)
    PROVE  Goes(call, o)
BY EmptyGoes, EdgeGoes, BinaryOrLeafGoes, NonEmptyGoes DEF Outcomes

-----------------------------------------------------------------------------
(* The siblings a walk has listed. *)

(* Entry by entry, the list covers the siblings beside the path: the i-th  *)
(* entry is about those after at[i - 1] bits, up to at[i].                  *)
Covers(root, path, entry, from, to) ==
    \/ to = from + 1 /\ entry = Sibling(root, path, to)
    \/ to >= from + 2 /\ entry = Felt(to - from) /\ \A n \in from + 1..to : Sibling(root, path, n) = Zero
ListsAt(root, path, list, at) ==
    /\ at \in [0..Len(list) -> 0..Len(path)]
    /\ at[0] = 0 /\ at[Len(list)] = Len(path)
    /\ \A i \in 1..Len(list) : Covers(root, path, list[i], at[i - 1], at[i])
Lists(root, path, list) == \E at : ListsAt(root, path, list, at)

IsList(s) == \E T : s \in Seq(T)

LEMMA Joined ==
    ASSUME NEW s, NEW t, IsList(s), IsList(t)
    PROVE  /\ IsList(s \o t) /\ Len(s) \in Nat /\ Len(t) \in Nat /\ Len(s \o t) = Len(s) + Len(t)
           /\ \A i \in 1..Len(s) : (s \o t)[i] = s[i]
           /\ \A i \in 1..Len(t) : (s \o t)[Len(s) + i] = t[i]
<1>1. PICK S : s \in Seq(S)
    BY DEF IsList
<1>2. PICK T : t \in Seq(T)
    BY DEF IsList
<1>3. s \in Seq(S \union T) /\ t \in Seq(S \union T)
    BY <1>1, <1>2
<1>4. s \o t \in Seq(S \union T)
    BY <1>3
<1>5. IsList(s \o t)
    BY <1>4 DEF IsList
<1> QED
    BY <1>3, <1>5

LEMMA ShortLists ==
    /\ IsList(<<>>)
    /\ \A a : IsList(<<a>>) /\ Len(<<a>>) = 1 /\ <<a>> \o <<>> = <<a>>
    /\ \A a, b : IsList(<<a, b>>) /\ Len(<<a, b>>) = 2 /\ <<a, b>> \o <<>> = <<a, b>>
<1>1. \A a, b : <<>> \in Seq({a, b}) /\ <<a>> \in Seq({a, b}) /\ <<a, b>> \in Seq({a, b})
    OBVIOUS
<1>2. \A T, s : s \in Seq(T) => s \o <<>> = s
    OBVIOUS
<1> QED
    BY <1>1, <1>2 DEF IsList

LEMMA ListsNothing == ASSUME NEW root PROVE Lists(root, <<>>, <<>>)
<1>1. ListsAt(root, <<>>, <<>>, [n \in 0..0 |-> 0])
    BY DEF ListsAt
<1> QED
    BY <1>1 DEF Lists

(* A step of the walk keeps the list. *)
LEMMA ListsOn ==
    ASSUME NEW root, NEW path \in Path, NEW list, IsList(list), Lists(root, path, list),
           NEW word \in Path, NEW listed, NEW end, Down(LeafOn(root, path), word, end, listed)
    PROVE  Lists(root, path \o word, list \o listed) /\ LeafOn(root, path \o word) = end
<1> DEFINE on == path \o word
           start == LeafOn(root, path)
<1>1. LeafOn(root, on) = end
    BY SiblingsFurther DEF Down
<1>2. Len(path) \in Nat /\ Len(word) \in Nat /\ Len(on) = Len(path) + Len(word)
    BY Further DEF Path
<1>3. PICK at : ListsAt(root, path, list, at)
    BY DEF Lists
<1>4. CASE word = <<>> /\ listed = <<>>
    <2>1. path \o word = path /\ list \o listed = list
        BY <1>4 DEF Path, IsList
    <2> QED
        BY <1>1, <2>1
<1>5. CASE \E s : listed = <<s>>
    <2>1. PICK s : listed = <<s>>
        BY <1>5
    <2>2. Len(word) >= 1
        <3>1. listed # <<>>
            BY <2>1
        <3> QED
            BY <1>2, <3>1 DEF Down
    <2>3. /\ Len(list) \in Nat /\ Len(list \o listed) = Len(list) + 1
          /\ \A i \in 1..Len(list) : (list \o listed)[i] = list[i]
          /\ (list \o listed)[Len(list) + 1] = s
        <3>1. listed \in Seq({s}) /\ Len(listed) = 1 /\ listed[1] = s
            BY <2>1
        <3>2. IsList(listed)
            BY <3>1 DEF IsList
        <3>3. /\ Len(list) \in Nat /\ Len(list \o listed) = Len(list) + Len(listed)
              /\ \A i \in 1..Len(list) : (list \o listed)[i] = list[i]
              /\ \A i \in 1..Len(listed) : (list \o listed)[Len(list) + i] = listed[i]
            BY <3>2, Joined
        <3> QED
            BY <3>1, <3>3
    <2> DEFINE L == Len(list)
               more == [i \in 0..L + 1 |-> IF i = L + 1 THEN Len(on) ELSE at[i]]
               longer == list \o listed
    <2>4. /\ at \in [0..L -> 0..Len(path)] /\ at[0] = 0 /\ at[L] = Len(path)
          /\ \A i \in 1..L : Covers(root, path, list[i], at[i - 1], at[i])
        BY <1>3 DEF ListsAt
    <2>5. more \in [0..L + 1 -> 0..Len(on)] /\ more[0] = 0 /\ more[L + 1] = Len(on) /\ more[L] = Len(path)
          /\ \A i \in 1..L : more[i] = at[i] /\ more[i - 1] = at[i - 1]
        BY <1>2, <2>3, <2>4
    <2> HIDE DEF more, longer
    <2>6. ASSUME NEW i \in 1..L PROVE Covers(root, on, longer[i], more[i - 1], more[i])
        <3>1. longer[i] = list[i] /\ more[i] = at[i] /\ more[i - 1] = at[i - 1]
            BY <2>3, <2>5 DEF longer
        <3>2. at[i] \in 0..Len(path) /\ at[i - 1] \in 0..Len(path)
            BY <2>3, <2>4
        <3>3. Covers(root, path, list[i], at[i - 1], at[i])
            BY <2>4
        <3>4. \A n \in 1..Len(path) : Sibling(root, on, n) = Sibling(root, path, n)
            BY SiblingsFurther
        <3> HIDE DEF on
        <3>5. CASE at[i] = at[i - 1] + 1
            <4>1. at[i] \in 1..Len(path)
                BY <3>2, <3>5
            <4> QED
                BY <1>2, <3>1, <3>2, <3>3, <3>4, <3>5, <4>1 DEF Covers
        <3>6. CASE at[i] >= at[i - 1] + 2
            <4>1. \A n \in at[i - 1] + 1..at[i] : n \in 1..Len(path)
                BY <1>2, <3>2
            <4>2. list[i] = Felt(at[i] - at[i - 1]) /\ \A n \in at[i - 1] + 1..at[i] : Sibling(root, path, n) = Zero
                BY <3>2, <3>3, <3>6 DEF Covers
            <4>3. \A n \in at[i - 1] + 1..at[i] : Sibling(root, on, n) = Zero
                BY <3>4, <4>1, <4>2
            <4> QED
                BY <3>1, <3>6, <4>2, <4>3 DEF Covers
        <3> QED
            BY <3>3, <3>5, <3>6 DEF Covers
    <2>7. Covers(root, on, longer[L + 1], more[L + 1 - 1], more[L + 1])
        <3>1. longer[L + 1] = s /\ more[L + 1 - 1] = Len(path) /\ more[L + 1] = Len(on)
            BY <2>3, <2>5 DEF longer
        <3>2. \A n \in 1..Len(word) : Sibling(root, on, Len(path) + n) = Sibling(start, word, n)
            BY SiblingsFurther
        <3>3. CASE Len(word) = 1 /\ listed = <<Sibling(start, word, 1)>>
            <4>1. s = Sibling(start, word, 1)
                BY <2>1, <3>3
            <4>2. Len(path) + 1 = Len(on) /\ 1 \in 1..Len(word)
                BY <1>2, <3>3
            <4> HIDE DEF on, start
            <4>3. s = Sibling(root, on, Len(on))
                BY <3>2, <4>1, <4>2
            <4> QED
                BY <3>1, <4>2, <4>3 DEF Covers
        <3>4. CASE Len(word) >= 2 /\ listed = <<Felt(Len(word))>> /\ \A n \in 1..Len(word) : Sibling(start, word, n) = Zero
            <4>1. s = Felt(Len(word))
                BY <2>1, <3>4
            <4> HIDE DEF on, start
            <4>2. Len(on) >= Len(path) + 2 /\ Len(on) - Len(path) = Len(word)
                BY <1>2, <3>4
            <4>3. ASSUME NEW n \in Len(path) + 1..Len(on) PROVE Sibling(root, on, n) = Zero
                <5>1. n - Len(path) \in 1..Len(word) /\ Len(path) + (n - Len(path)) = n
                    BY <1>2
                <5> QED
                    BY <3>2, <3>4, <5>1
            <4> QED
                BY <3>1, <4>1, <4>2, <4>3 DEF Covers
        <3>5. listed # <<>>
            BY <2>1
        <3> QED
            BY <3>3, <3>4, <3>5 DEF Down
    <2>8. \A i \in 1..L + 1 : Covers(root, on, longer[i], more[i - 1], more[i])
        BY <2>3, <2>6, <2>7
    <2>9. Len(longer) = L + 1
        BY <2>3 DEF longer
    <2>10. ListsAt(root, on, longer, more)
        BY <2>5, <2>8, <2>9 DEF ListsAt
    <2> QED
        BY <1>1, <2>10 DEF Lists, longer
<1>6. (word = <<>> /\ listed = <<>>) \/ \E s : listed = <<s>>
    BY DEF Down
<1> QED
    BY <1>4, <1>5, <1>6

-----------------------------------------------------------------------------
(* Two trees with the same list: their siblings are the same. *)

(* The path that leaves another at its n-th bit. *)
Away(key, n) == [i \in 1..Len(key) |-> IF i = n THEN 1 - key[i] ELSE key[i]]

LEMMA SiblingIsMet ==
    ASSUME NEW root, NEW key \in Path, NEW q \in Path, Len(q) = Len(key), NEW n \in 1..Len(key),
           q[n] = 1 - key[n], \A i \in 1..n - 1 : q[i] = key[i]
    PROVE  NodesOn(root, q)[n] = Sibling(root, key, n)
<1>1. Len(key) \in Nat /\ n - 1 \in Nat /\ n - 1 <= Len(q) /\ n - 1 <= Len(key) /\ n \in 1..Len(q) /\ n - 1 \in 0..n - 1
    BY DEF Path
<1>2. NodesOn(root, q)[n - 1] = NodesOn(root, key)[n - 1]
    BY <1>1, SameWay
<1>3. NodesOn(root, q)[n] = Child(NodesOn(root, q)[n - 1], q[n])
    BY <1>1, NodesOnStep
<1> QED
    BY <1>2, <1>3 DEF Sibling

(* No node on the way to a leaf is a number but zero. *)
LEMMA NoNumber ==
    ASSUME NEW root, NEW path \in Path, HashesAreNoNumbers(root, Len(path)), NEW n \in 0..Len(path) - 1,
           NodesOn(root, path)[n].kind = "Felt"
    PROVE  NodesOn(root, path)[n].n = 0
<1> DEFINE place == [i \in 1..n |-> path[i]]
<1>1. Len(path) \in Nat /\ n \in Nat /\ n <= Len(path) /\ \A i \in 1..n : path[i] \in {0, 1}
    BY DEF Path
<1>2. place \in Paths(n) /\ place \in Path /\ Len(place) = n /\ \A i \in 1..n : place[i] = path[i]
    BY <1>1 DEF Paths, Path
<1> HIDE DEF place
<1>3. \A m \in 0..n : NodesOn(root, place)[m] = NodesOn(root, path)[m]
    BY <1>1, <1>2, SameWay
<1>4. LeafOn(root, place) = NodesOn(root, path)[n]
    BY <1>1, <1>2, <1>3 DEF LeafOn
<1>5. LeafOn(root, place).kind = "Felt" => LeafOn(root, place).n = 0
    BY <1>2 DEF HashesAreNoNumbers
<1> QED
    BY <1>4, <1>5

LEMMA SiblingIsNoNumber ==
    ASSUME NEW root, NEW key \in Path, HashesAreNoNumbers(root, Len(key)), NEW n \in 1..Len(key) - 1,
           Sibling(root, key, n).kind = "Felt"
    PROVE  Sibling(root, key, n).n = 0
<1> DEFINE q == Away(key, n)
<1>1. Len(key) \in Nat /\ \A i \in 1..Len(key) : key[i] \in {0, 1} /\ 1 - key[i] \in {0, 1}
    BY DEF Path
<1>2. q \in Paths(Len(key)) /\ q[n] = 1 - key[n] /\ \A i \in 1..n - 1 : q[i] = key[i]
    BY <1>1 DEF Away, Paths
<1>3. q \in Path /\ Len(q) = Len(key)
    BY <1>1, <1>2 DEF Paths, Path
<1> HIDE DEF q
<1>4. n \in 1..Len(key) /\ n \in 0..Len(key) - 1
    BY <1>1
<1>5. NodesOn(root, q)[n] = Sibling(root, key, n)
    BY <1>2, <1>3, <1>4, SiblingIsMet
<1> QED
    BY <1>3, <1>4, <1>5, NoNumber

LEMMA SameOffset ==
    ASSUME NEW key \in Path, NEW a, NEW b, HashesAreNoNumbers(a, Len(key)), HashesAreNoNumbers(b, Len(key)),
           NEW from \in 0..Len(key), NEW s \in 0..Len(key), NEW t \in 0..Len(key), NEW entry,
           Covers(a, key, entry, from, s), Covers(b, key, entry, from, t)
    PROVE  s = t
<1>1. Len(key) \in Nat
    BY DEF Path
<1>2. \A m, n : Felt(m) = Felt(n) => m = n
    BY DEF Felt
<1>3. \A n : Felt(n).kind = "Felt" /\ Felt(n).n = n
    BY DEF Felt
<1>4. ASSUME NEW root, HashesAreNoNumbers(root, Len(key)), NEW u \in 0..Len(key), u >= from + 2,
             entry = Felt(u - from), entry = Sibling(root, key, from + 1)
      PROVE  FALSE
    <2>1. from + 1 \in 1..Len(key) - 1
        BY <1>1, <1>4
    <2>2. u - from = 0
        BY <1>3, <1>4, <2>1, SiblingIsNoNumber
    <2> QED
        BY <1>1, <1>4, <2>2
<1>5. CASE s = from + 1 /\ t = from + 1
    BY <1>5
<1>6. CASE s >= from + 2 /\ t >= from + 2
    <2>1. entry = Felt(s - from) /\ entry = Felt(t - from)
        BY <1>1, <1>6 DEF Covers
    <2>2. s - from = t - from
        BY <1>2, <2>1
    <2> QED
        BY <1>1, <2>2
<1>7. CASE s = from + 1 /\ t >= from + 2
    <2>1. entry = Felt(t - from) /\ entry = Sibling(a, key, from + 1)
        BY <1>1, <1>7 DEF Covers
    <2> QED
        BY <1>4, <1>7, <2>1
<1>8. CASE s >= from + 2 /\ t = from + 1
    <2>1. entry = Felt(s - from) /\ entry = Sibling(b, key, from + 1)
        BY <1>1, <1>8 DEF Covers
    <2> QED
        BY <1>4, <1>8, <2>1
<1> QED
    BY <1>5, <1>6, <1>7, <1>8 DEF Covers

LEMMA SameSiblings ==
    ASSUME NEW key \in Path, NEW a, NEW b, HashesAreNoNumbers(a, Len(key)), HashesAreNoNumbers(b, Len(key)),
           NEW list, IsList(list), Lists(a, key, list), Lists(b, key, list)
    PROVE  \A n \in 1..Len(key) : Sibling(a, key, n) = Sibling(b, key, n)
<1> DEFINE L == Len(list)
<1>1. PICK at : ListsAt(a, key, list, at)
    BY DEF Lists
<1>2. PICK bt : ListsAt(b, key, list, bt)
    BY DEF Lists
<1>3. L \in Nat /\ Len(key) \in Nat
    BY DEF IsList, Path
<1>4. /\ at \in [0..L -> 0..Len(key)] /\ at[0] = 0 /\ at[L] = Len(key)
      /\ \A i \in 1..L : Covers(a, key, list[i], at[i - 1], at[i])
    BY <1>1 DEF ListsAt
<1>5. /\ bt \in [0..L -> 0..Len(key)] /\ bt[0] = 0 /\ bt[L] = Len(key)
      /\ \A i \in 1..L : Covers(b, key, list[i], bt[i - 1], bt[i])
    BY <1>2 DEF ListsAt
<1> HIDE DEF L
<1>6. 0..L \subseteq {i \in 0..L : at[i] = bt[i]}
    <2> DEFINE T == {i \in 0..L : at[i] = bt[i]}
    <2>1. 0 \in T
        BY <1>3, <1>4, <1>5
    <2>2. ASSUME NEW i \in 0..L, i < L, i \in T PROVE i + 1 \in T
        <3>1. i + 1 \in 1..L /\ i + 1 - 1 = i /\ i + 1 \in 0..L /\ at[i] = bt[i]
            BY <1>3, <2>2
        <3>2. at[i] \in 0..Len(key) /\ at[i + 1] \in 0..Len(key) /\ bt[i + 1] \in 0..Len(key)
            BY <1>4, <1>5, <3>1
        <3>3. Covers(a, key, list[i + 1], at[i], at[i + 1]) /\ Covers(b, key, list[i + 1], at[i], bt[i + 1])
            BY <1>4, <1>5, <3>1
        <3>4. at[i + 1] = bt[i + 1]
            BY <3>2, <3>3, SameOffset
        <3> QED
            BY <3>1, <3>4
    <2> HIDE DEF T
    <2>3. 0..L \subseteq T
        BY <1>3, <2>1, <2>2, UpTo
    <2> QED
        BY <2>3 DEF T
<1>7. ASSUME NEW n \in 1..Len(key) PROVE Sibling(a, key, n) = Sibling(b, key, n)
    <2> DEFINE past == {i \in 0..L : n <= at[i]}
    <2>1. past \subseteq Nat /\ L \in past
        BY <1>3, <1>4
    <2>2. PICK i \in past : \A j \in past : i <= j
        BY <2>1, LeastNumber
    <2>3. i \in 1..L /\ i - 1 \in 0..L /\ n <= at[i]
        BY <1>3, <1>4, <2>2
    <2>4. i - 1 \notin past
        BY <2>2, <2>3
    <2>5. at[i - 1] \in 0..Len(key) /\ at[i] \in 0..Len(key) /\ n \in at[i - 1] + 1..at[i]
        BY <1>3, <1>4, <2>3, <2>4
    <2>6. bt[i - 1] = at[i - 1] /\ bt[i] = at[i]
        BY <1>3, <1>6, <2>3
    <2>7. Covers(a, key, list[i], at[i - 1], at[i]) /\ Covers(b, key, list[i], at[i - 1], at[i])
        BY <1>4, <1>5, <2>3, <2>6
    <2>8. CASE at[i] = at[i - 1] + 1
        <3>1. n = at[i]
            BY <2>5, <2>8
        <3> QED
            BY <2>5, <2>7, <2>8, <3>1 DEF Covers
    <2>9. CASE at[i] # at[i - 1] + 1
        BY <2>5, <2>7, <2>9 DEF Covers
    <2> QED
        BY <2>8, <2>9
<1> QED
    BY <1>7

(* Then every leaf but the key's is the same. *)
LEMMA OtherLeaves ==
    ASSUME NEW key \in Path, NEW a, NEW b, \A n \in 1..Len(key) : Sibling(a, key, n) = Sibling(b, key, n),
           NEW q \in Paths(Len(key)), q # key
    PROVE  LeafOn(a, q) = LeafOn(b, q)
<1> DEFINE H == Len(key)
           apart == {n \in 1..H : q[n] # key[n]}
<1>1. H \in Nat /\ \A i \in 1..H : key[i] \in {0, 1} /\ q[i] \in {0, 1}
    BY DEF Path, Paths
<1>2. q \in Path /\ Len(q) = H
    BY <1>1 DEF Paths, Path
<1>3. apart # {} /\ apart \subseteq Nat
    <2>1. key = [i \in 1..H |-> key[i]] /\ q = [i \in 1..H |-> q[i]]
        BY DEF Path, Paths
    <2> QED
        BY <1>1, <2>1
<1>4. PICK d \in apart : \A n \in apart : d <= n
    BY <1>3, LeastNumber
<1>5. d \in 1..H /\ q[d] = 1 - key[d] /\ \A i \in 1..d - 1 : q[i] = key[i]
    BY <1>1, <1>4
<1>6. NodesOn(a, q)[d] = NodesOn(b, q)[d]
    <2> HIDE DEF apart
    <2>1. NodesOn(a, q)[d] = Sibling(a, key, d)
        BY <1>2, <1>5, SiblingIsMet
    <2>2. NodesOn(b, q)[d] = Sibling(b, key, d)
        BY <1>2, <1>5, SiblingIsMet
    <2> QED
        BY <1>5, <2>1, <2>2
<1> DEFINE T == {k \in 0..H - d : NodesOn(a, q)[d + k] = NodesOn(b, q)[d + k]}
<1>7. 0 \in T
    BY <1>1, <1>5, <1>6
<1>8. ASSUME NEW k \in 0..H - d, k < H - d, k \in T PROVE k + 1 \in T
    <2>1. d + (k + 1) \in 1..H /\ d + (k + 1) - 1 = d + k /\ k + 1 \in 0..H - d
        BY <1>1, <1>5, <1>8
    <2>2. /\ NodesOn(a, q)[d + (k + 1)] = Child(NodesOn(a, q)[d + k], q[d + (k + 1)])
          /\ NodesOn(b, q)[d + (k + 1)] = Child(NodesOn(b, q)[d + k], q[d + (k + 1)])
        BY <1>2, <2>1, NodesOnStep
    <2> QED
        BY <1>8, <2>1, <2>2
<1>9. H - d \in Nat
    BY <1>1, <1>5
<1>10. 0..H - d \subseteq T
    <2> HIDE DEF T
    <2> QED
        BY <1>7, <1>8, <1>9, UpTo
<1>11. H - d \in 0..H - d /\ d + (H - d) = H
    BY <1>1, <1>5, <1>9
<1>12. NodesOn(a, q)[H] = NodesOn(b, q)[H]
    BY <1>10, <1>11
<1> QED
    BY <1>2, <1>12 DEF LeafOn

-----------------------------------------------------------------------------
(* The contents. *)

LEMMA KeyIsAPath == ASSUME NEW key \in Path PROVE Len(key) \in Nat /\ key \in Paths(Len(key))
<1>1. Len(key) \in Nat /\ key \in [1..Len(key) -> {0, 1}]
    BY DEF Path
<1> QED
    BY <1>1 DEF Paths

LEMMA ContentIs ==
    ASSUME NEW root, NEW height, NEW entry
    PROVE  entry \in Content(root, height) <=>
               \E q \in Paths(height) : /\ entry = <<q, LeafOn(root, q).n>>
                                        /\ LeafOn(root, q).kind = "Felt" /\ LeafOn(root, q).n # 0
BY DEF Content

LEMMA ValueIsTheLeaf ==
    ASSUME NEW root, NEW key \in Path, LeafOn(root, key).kind = "Felt"
    PROVE  ValueAt(Content(root, Len(key)), key) = LeafOn(root, key).n
<1> DEFINE content == Content(root, Len(key))
           value == LeafOn(root, key).n
<1>1. \A e \in content : e[1] = key => e = <<key, value>> /\ value # 0
    <2>1. ASSUME NEW e \in content, e[1] = key PROVE e = <<key, value>> /\ value # 0
        <3>1. PICK q \in Paths(Len(key)) : e = <<q, LeafOn(root, q).n>> /\ LeafOn(root, q).n # 0
            BY <2>1, ContentIs
        <3>2. q = key
            BY <2>1, <3>1
        <3> QED
            BY <3>1, <3>2
    <2> QED
        BY <2>1
<1>2. value # 0 => <<key, value>> \in content
    BY KeyIsAPath, ContentIs
<1> HIDE DEF content, value
<1>3. CASE \E e \in content : e[1] = key
    <2> DEFINE found == CHOOSE e \in content : e[1] = key
    <2>1. found \in content /\ found[1] = key
        BY <1>3
    <2>2. found[2] = value
        <3> HIDE DEF found
        <3>1. found = <<key, value>>
            BY <1>1, <2>1
        <3> QED
            BY <3>1
    <2>3. ValueAt(content, key) = found[2]
        BY <1>3 DEF ValueAt
    <2> HIDE DEF found
    <2> QED
        BY <2>2, <2>3 DEF content, value
<1>4. CASE ~ \E e \in content : e[1] = key
    <2>1. ValueAt(content, key) = 0
        BY <1>4 DEF ValueAt
    <2>2. <<key, value>>[1] = key
        OBVIOUS
    <2>3. value = 0
        BY <1>2, <1>4, <2>2
    <2> QED
        BY <2>1, <2>3 DEF content, value
<1> QED
    BY <1>3, <1>4

LEMMA ContentAfter ==
    ASSUME NEW a, NEW b, NEW key \in Path, LeafOn(b, key).kind = "Felt",
           \A q \in Paths(Len(key)) : q # key => LeafOn(a, q) = LeafOn(b, q)
    PROVE  Content(b, Len(key)) = Put(Content(a, Len(key)), key, LeafOn(b, key).n)
<1> DEFINE value == LeafOn(b, key).n
<1>1. ASSUME NEW entry PROVE entry \in Content(b, Len(key)) <=> entry \in Put(Content(a, Len(key)), key, value)
    <2>1. ASSUME entry \in Content(b, Len(key)) PROVE entry \in Put(Content(a, Len(key)), key, value)
        <3>1. PICK q \in Paths(Len(key)) : /\ entry = <<q, LeafOn(b, q).n>>
                                           /\ LeafOn(b, q).kind = "Felt" /\ LeafOn(b, q).n # 0
            BY <2>1, ContentIs
        <3>2. CASE q = key
            BY <3>1, <3>2 DEF Put
        <3>3. CASE q # key
            <4>1. entry \in Content(a, Len(key))
                BY <3>1, <3>3, ContentIs
            <4>2. entry[1] = q
                BY <3>1
            <4> QED
                BY <3>3, <4>1, <4>2 DEF Put
        <3> QED
            BY <3>2, <3>3
    <2>2. ASSUME entry \in Put(Content(a, Len(key)), key, value) PROVE entry \in Content(b, Len(key))
        <3>1. CASE entry \in Content(a, Len(key)) /\ entry[1] # key
            <4>1. PICK q \in Paths(Len(key)) : /\ entry = <<q, LeafOn(a, q).n>>
                                               /\ LeafOn(a, q).kind = "Felt" /\ LeafOn(a, q).n # 0
                BY <3>1, ContentIs
            <4>2. q # key
                BY <3>1, <4>1
            <4> QED
                BY <4>1, <4>2, ContentIs
        <3>2. CASE value # 0 /\ entry = <<key, value>>
            BY <3>2, KeyIsAPath, ContentIs
        <3> QED
            BY <2>2, <3>1, <3>2 DEF Put
    <2> QED
        BY <2>1, <2>2
<1> HIDE DEF value
<1>2. Content(b, Len(key)) = Put(Content(a, Len(key)), key, value)
    BY <1>1
<1> QED
    BY <1>2 DEF value

-----------------------------------------------------------------------------
(* The inductive invariant. *)

RootOf(tree) == IF tree = "prev" THEN job.prev_root ELSE job.new_root
ValueOf(tree) == IF tree = "prev" THEN job.prev_value ELSE job.new_value

(* A walk that is over reached the leaf of the key, and listed its siblings. *)
Walked(tree) ==
    /\ Lists(RootOf(tree), job.key, siblings[tree])
    /\ LeafOn(RootOf(tree), job.key).kind = "Felt" /\ LeafOn(RootOf(tree), job.key).n = ValueOf(tree)

(* A walk that has not parted is at one call, about the node on its path; a *)
(* walk that has parted never ends, for a second update is missing.         *)
AtOneCall(tree) ==
    /\ update_ptr = 0
    /\ \E call :
         /\ stack = <<call>> /\ CallOK(call)
         /\ Lists(RootOf(tree), call.path, siblings[tree])
         /\ LeafOn(RootOf(tree), call.path) = Meaning(call)
AtTheEnd(tree) == stack = <<>> /\ update_ptr = 1 /\ Walked(tree)
Parted == IsList(stack) /\ update_ptr \in {0, 1} /\ Len(stack) + update_ptr >= 2
Walking(tree) == AtOneCall(tree) \/ AtTheEnd(tree) \/ Parted

SameSoFar ==
    \A i \in 1..Len(siblings["prev"]) : i <= Len(siblings["new"]) => siblings["prev"][i] = siblings["new"][i]

IInv ==
    /\ JobOK
    /\ siblings = [prev |-> siblings["prev"], new |-> siblings["new"]]
    /\ IsList(siblings["prev"]) /\ IsList(siblings["new"]) /\ SameSoFar
    /\ pass = "prev" => siblings["new"] = <<>> /\ Walking("prev")
    /\ pass = "new" => Walked("prev") /\ Walking("new")
    /\ pass = "accepted" => Walked("prev") /\ Walked("new") /\ siblings["prev"] = siblings["new"]

LEMMA AcceptedIsRight == IInv => OnlyTheKeyChanged
<1> SUFFICES ASSUME IInv, pass = "accepted"
             PROVE  /\ ValueAt(Before, job.key) = job.prev_value
                    /\ After = Put(Before, job.key, job.new_value)
    BY DEF OnlyTheKeyChanged
<1> DEFINE a == job.prev_root
           b == job.new_root
           key == job.key
           list == siblings["prev"]
<1>1. key \in Path /\ HashesAreNoNumbers(a, Len(key)) /\ HashesAreNoNumbers(b, Len(key)) /\ IsList(list)
    BY DEF IInv, JobOK
<1>2. /\ Lists(a, key, list) /\ LeafOn(a, key).kind = "Felt" /\ LeafOn(a, key).n = job.prev_value
      /\ Lists(b, key, list) /\ LeafOn(b, key).kind = "Felt" /\ LeafOn(b, key).n = job.new_value
    BY DEF IInv, Walked, RootOf, ValueOf
<1>3. \A n \in 1..Len(key) : Sibling(a, key, n) = Sibling(b, key, n)
    <2> HIDE DEF a, b, key, list
    <2> QED
        BY <1>1, <1>2, SameSiblings
<1>4. \A q \in Paths(Len(key)) : q # key => LeafOn(a, q) = LeafOn(b, q)
    <2> HIDE DEF a, b, key
    <2> QED
        BY <1>1, <1>3, OtherLeaves
<1>5. ValueAt(Content(a, Len(key)), key) = LeafOn(a, key).n
    BY <1>1, <1>2, ValueIsTheLeaf
<1>6. Content(b, Len(key)) = Put(Content(a, Len(key)), key, LeafOn(b, key).n)
    BY <1>1, <1>2, <1>4, ContentAfter
<1> QED
    BY <1>2, <1>5, <1>6 DEF Before, After

-----------------------------------------------------------------------------
(* Every step keeps it. *)

LEMMA StartOfAWalk ==
    ASSUME NEW root
    PROVE  /\ CallOK(TraverseNode(<<>>, root)) /\ TraverseNode(<<>>, root).path = <<>>
           /\ Lists(root, <<>>, <<>>) /\ LeafOn(root, <<>>) = Meaning(TraverseNode(<<>>, root))
<1>1. <<>> \in Path /\ LeafOn(root, <<>>) = root
    BY DownNothing DEF Down, Path
<1>2. TraverseNode(<<>>, root).path = <<>> /\ TraverseNode(<<>>, root).fn \in {"empty", "non_empty"}
    BY DEF TraverseNode, Call
<1>3. CallOK(TraverseNode(<<>>, root))
    BY <1>1, <1>2 DEF CallOK
<1>4. Meaning(TraverseNode(<<>>, root)) = root
    BY DEF TraverseNode, Call, Meaning
<1> QED
    BY <1>1, <1>2, <1>3, <1>4, ListsNothing

LEMMA InitIsGood == Init => IInv
<1> SUFFICES ASSUME Init PROVE IInv
    OBVIOUS
<1>1. JobOK
    <2>1. CASE job \in HonestUpdates
        BY <2>1, UpdatesAssumption DEF JobOK, Path
    <2>2. ASSUME NEW key \in Key, NEW prev \in LeafValue \X Root, NEW new \in LeafValue \X Root, job = AnyUpdate(key, prev, new)
          PROVE  JobOK
        <3>1. job.key = key /\ job.prev_root = prev[2] /\ job.new_root = new[2] /\ job.honest = FALSE
            BY <2>2 DEF AnyUpdate
        <3>2. prev[2] \in Root /\ new[2] \in Root
            OBVIOUS
        <3> QED
            BY <3>1, <3>2, UpdatesAssumption DEF JobOK, Path
    <2> QED
        BY <2>1, <2>2 DEF Init
<1>2. siblings["prev"] = <<>> /\ siblings["new"] = <<>> /\ siblings = [prev |-> siblings["prev"], new |-> siblings["new"]]
    BY DEF Init
<1>3. IsList(<<>>)
    <2>1. <<>> \in Seq({})
        OBVIOUS
    <2> QED
        BY <2>1 DEF IsList
<1>4. SameSoFar
    BY <1>2 DEF SameSoFar
<1>5. AtOneCall("prev")
    BY <1>2, StartOfAWalk DEF Init, AtOneCall, RootOf
<1> QED
    BY <1>1, <1>2, <1>3, <1>4, <1>5 DEF IInv, Walking, Init

(* The walk after one outcome of its next call. *)
LEMMA WalkGoesOn ==
    ASSUME JobOK, NEW tree, tree = pass, tree \in {"prev", "new"}, IsList(siblings[tree]), Walking(tree), stack # <<>>,
           Head(stack).fn \in {"empty", "edge", "binary_or_leaf", "non_empty"},
           NEW o \in Outcomes(Head(stack)),
           stack' = o.calls \o Tail(stack), siblings'[tree] = siblings[tree] \o o.siblings,
           update_ptr' = update_ptr + o.updates, job' = job
    PROVE  Walking(tree)' /\ IsList(o.siblings)
<1>1. Goes(Head(stack), o)
    BY OutcomesGo
<1>2. IsList(o.siblings)
    BY <1>1, ShortLists DEF Goes, Reaches, Parts, GoesOn
<1>3. stack' = o.calls \o Tail(stack) /\ update_ptr' = update_ptr + o.updates
    OBVIOUS
<1>4. RootOf(tree)' = RootOf(tree) /\ ValueOf(tree)' = ValueOf(tree) /\ AccessOffset = ValueOf(tree)
    BY DEF RootOf, ValueOf, AccessOffset
<1>5. CASE AtOneCall(tree)
    <2>1. PICK call : /\ stack = <<call>> /\ CallOK(call)
                      /\ Lists(RootOf(tree), call.path, siblings[tree])
                      /\ LeafOn(RootOf(tree), call.path) = Meaning(call)
        BY <1>5 DEF AtOneCall
    <2>2. Head(stack) = call /\ Tail(stack) = <<>> /\ update_ptr = 0
        BY <1>5, <2>1 DEF AtOneCall
    <2>3. CASE Reaches(call, o)
        <3>1. stack' = <<>> /\ update_ptr' = 1
            BY <2>2, <2>3 DEF Reaches
        <3>2. siblings'[tree] = siblings[tree]
            BY <2>3 DEF Reaches, IsList
        <3>3. Walked(tree)'
            BY <1>4, <2>1, <2>3, <3>2 DEF Walked, Reaches
        <3> QED
            BY <1>2, <3>1, <3>3 DEF Walking, AtTheEnd
    <2>4. CASE Parts(o)
        <3>1. PICK a, b : o.calls = <<a, b>>
            BY <2>4 DEF Parts
        <3>2. stack' = <<a, b>> /\ update_ptr' = 0
            <4>1. stack' = <<a, b>> \o <<>>
                BY <1>3, <2>2, <3>1
            <4>2. update_ptr' = 0 + 0
                BY <1>3, <2>2, <2>4 DEF Parts
            <4>3. <<a, b>> \o <<>> = <<a, b>>
                BY ShortLists, Zenon
            <4>4. 0 + 0 = 0
                OBVIOUS
            <4> QED
                BY <4>1, <4>2, <4>3, <4>4, Zenon
        <3>3. Len(stack') = 2 /\ IsList(stack')
            BY <3>2, ShortLists
        <3>4. Parted'
            BY <3>2, <3>3 DEF Parted, IsList
        <3> QED
            BY <1>2, <3>4 DEF Walking
    <2>5. CASE GoesOn(call, o)
        <3>1. PICK next : o.calls = <<next>> /\ Onward(call, next, o.siblings)
            BY <2>1, <2>5 DEF GoesOn
        <3>2. PICK word \in Path : next.path = call.path \o word /\ Down(Meaning(call), word, Meaning(next), o.siblings)
            BY <3>1 DEF Onward
        <3>3. stack' = <<next>> /\ update_ptr' = 0
            <4>1. stack' = <<next>> \o <<>>
                BY <1>3, <2>2, <3>1
            <4>2. update_ptr' = 0 + 0
                BY <1>3, <2>2, <2>5 DEF GoesOn
            <4>3. <<next>> \o <<>> = <<next>>
                BY ShortLists, Zenon
            <4>4. 0 + 0 = 0
                OBVIOUS
            <4> QED
                BY <4>1, <4>2, <4>3, <4>4, Zenon
        <3>4. /\ Lists(RootOf(tree), next.path, siblings[tree] \o o.siblings)
              /\ LeafOn(RootOf(tree), next.path) = Meaning(next)
            BY <2>1, <3>2, ListsOn DEF CallOK
        <3>5. CallOK(next)
            BY <3>1 DEF Onward
        <3>6. AtOneCall(tree)'
            BY <1>4, <3>3, <3>4, <3>5 DEF AtOneCall
        <3> QED
            BY <1>2, <3>6 DEF Walking
    <2> QED
        BY <1>1, <2>2, <2>3, <2>4, <2>5 DEF Goes
<1>6. CASE Parted
    <2>1. PICK T : stack \in Seq(T)
        BY <1>6 DEF Parted, IsList
    <2>2. Tail(stack) \in Seq(T) /\ Len(Tail(stack)) = Len(stack) - 1 /\ Len(stack) \in Nat /\ Len(stack) >= 1
        BY <2>1
    <2>3. IsList(Tail(stack)) /\ update_ptr \in {0, 1} /\ Len(stack) + update_ptr >= 2
        BY <1>6, <2>2 DEF Parted, IsList
    <2>4. CASE Reaches(Head(stack), o)
        <3>1. stack' = Tail(stack) /\ update_ptr' = 1 /\ update_ptr = 0
            BY <2>2, <2>4 DEF Reaches
        <3>2. Len(stack') + update_ptr' >= 2
            BY <2>2, <2>3, <3>1
        <3>3. Parted'
            BY <2>3, <3>1, <3>2 DEF Parted, IsList
        <3> QED
            BY <1>2, <3>3 DEF Walking
    <2>5. ASSUME o.updates = 0, IsList(o.calls), Len(o.calls) >= 1 PROVE Parted'
        <3>1. IsList(o.calls \o Tail(stack)) /\ Len(o.calls \o Tail(stack)) = Len(o.calls) + Len(Tail(stack)) /\ Len(o.calls) \in Nat
            BY <2>3, <2>5, Joined
        <3>2. Len(stack') + update_ptr' >= 2 /\ update_ptr' = update_ptr
            BY <2>2, <2>3, <2>5, <3>1
        <3> QED
            BY <2>3, <3>1, <3>2 DEF Parted, IsList
    <2>6. CASE Parts(o)
        <3>1. PICK a, b : o.calls = <<a, b>>
            BY <2>6 DEF Parts
        <3>2. Len(o.calls) >= 1 /\ IsList(o.calls)
            BY <3>1, ShortLists
        <3> QED
            BY <1>2, <2>5, <2>6, <3>2 DEF Walking, Parts
    <2>7. CASE GoesOn(Head(stack), o)
        <3>1. PICK next : o.calls = <<next>>
            BY <2>7 DEF GoesOn
        <3>2. Len(o.calls) >= 1 /\ IsList(o.calls)
            BY <3>1, ShortLists
        <3> QED
            BY <1>2, <2>5, <2>7, <3>2 DEF Walking, GoesOn
    <2> QED
        BY <1>1, <2>4, <2>6, <2>7 DEF Goes
<1> QED
    BY <1>5, <1>6 DEF Walking, AtTheEnd

LEMMA StepIsGood ==
    ASSUME IInv, NEW fn \in {"empty", "edge", "binary_or_leaf", "non_empty"}, Step(fn)
    PROVE  IInv'
<1>1. PICK o \in Outcomes(Head(stack)) : /\ stack' = o.calls \o Tail(stack)
                                         /\ siblings' = [siblings EXCEPT ![pass] = @ \o o.siblings]
                                         /\ update_ptr' = update_ptr + o.updates
    BY DEF Step
<1>2. pass \in {"prev", "new"} /\ stack # <<>> /\ Head(stack).fn = fn /\ job' = job /\ pass' = pass
    BY DEF Step
<1>3. JobOK /\ IsList(siblings["prev"]) /\ IsList(siblings["new"]) /\ SameSoFar /\ Walking(pass)
      /\ siblings = [prev |-> siblings["prev"], new |-> siblings["new"]]
    BY <1>2 DEF IInv
<1>4. JobOK'
    BY <1>2, <1>3 DEF JobOK
<1>5. siblings'[pass] = siblings[pass] \o o.siblings
    BY <1>1, <1>2, <1>3
<1>6. \A tree \in {"prev", "new"} : tree # pass => siblings'[tree] = siblings[tree]
    BY <1>1, <1>2, <1>3
<1>7. siblings' = [prev |-> siblings'["prev"], new |-> siblings'["new"]]
    BY <1>1, <1>2, <1>3
<1>8. Walking(pass)' /\ IsList(o.siblings)
    <2>1. Head(stack).fn \in {"empty", "edge", "binary_or_leaf", "non_empty"} /\ IsList(siblings[pass])
        BY <1>2, <1>3
    <2> QED
        BY <1>1, <1>2, <1>3, <1>5, <2>1, WalkGoesOn
<1>9. IsList(siblings[pass] \o o.siblings) /\ IsList(siblings[pass])
    BY <1>2, <1>3, <1>8, Joined
<1>10. IsList(siblings'["prev"]) /\ IsList(siblings'["new"])
    BY <1>2, <1>3, <1>5, <1>6, <1>9
<1>11. CASE pass = "prev"
    <2>1. siblings'["new"] = <<>> /\ Walking("prev")'
        BY <1>2, <1>6, <1>8, <1>11 DEF IInv
    <2>2. SameSoFar'
        <3>1. Len(siblings'["new"]) = 0
            BY <2>1
        <3> QED
            BY <3>1 DEF SameSoFar
    <2> QED
        BY <1>2, <1>4, <1>7, <1>10, <1>11, <2>1, <2>2 DEF IInv
<1>12. CASE pass = "new"
    <2>1. Walked("prev")'
        BY <1>2, <1>6, <1>12 DEF IInv, Walked, RootOf, ValueOf
    <2>2. SameSoFar'
        <3> DEFINE prev == siblings["prev"]
                   new == siblings["new"]
        <3>1. siblings'["prev"] = prev /\ siblings'["new"] = new \o o.siblings
            BY <1>5, <1>6, <1>12
        <3>2. /\ Len(new) \in Nat /\ Len(o.siblings) \in Nat /\ Len(new \o o.siblings) = Len(new) + Len(o.siblings)
              /\ \A i \in 1..Len(new) : (new \o o.siblings)[i] = new[i]
              /\ \A i \in 1..Len(o.siblings) : (new \o o.siblings)[Len(new) + i] = o.siblings[i]
            BY <1>3, <1>8, Joined
        <3>3. Len(prev) \in Nat /\ DOMAIN prev = 1..Len(prev) /\ DOMAIN o.siblings = 1..Len(o.siblings)
            BY <1>3, <1>8 DEF IsList
        <3>4. Fits(o.siblings)
            BY <1>1 DEF Outcomes
        <3>5. \A i \in DOMAIN o.siblings : Len(new) + i \in DOMAIN prev => o.siblings[i] = prev[Len(new) + i]
            BY <1>12, <3>4 DEF Fits
        <3>6. \A i \in 1..Len(prev) : i <= Len(new) => prev[i] = new[i]
            BY <1>3 DEF SameSoFar
        <3> DEFINE longer == new \o o.siblings
        <3>7. ASSUME NEW i \in 1..Len(prev), i <= Len(longer) PROVE prev[i] = longer[i]
            <4> HIDE DEF prev, new
            <4>1. CASE i <= Len(new)
                BY <3>2, <3>3, <3>6, <4>1
            <4>2. CASE i > Len(new)
                <5>1. i - Len(new) \in 1..Len(o.siblings) /\ Len(new) + (i - Len(new)) = i
                    BY <3>2, <3>3, <3>7, <4>2
                <5> QED
                    BY <3>2, <3>3, <3>5, <5>1
            <4>3. i <= Len(new) \/ i > Len(new)
                BY <3>2
            <4> QED
                BY <4>1, <4>2, <4>3
        <3> HIDE DEF prev, longer
        <3>8. siblings'["prev"] = prev /\ siblings'["new"] = longer
            BY <3>1 DEF longer
        <3> QED
            BY <3>7, <3>8 DEF SameSoFar
    <2> QED
        BY <1>2, <1>4, <1>7, <1>8, <1>10, <1>12, <2>1, <2>2 DEF IInv
<1> QED
    BY <1>2, <1>11, <1>12

LEMMA FailIsGood == ASSUME IInv, Fail PROVE IInv'
<1>1. pass' = "rejected" /\ UNCHANGED <<job, stack, update_ptr, siblings>>
    BY DEF Fail
<1> QED
    BY <1>1 DEF IInv, JobOK, SameSoFar

LEMMA EndPrevIsGood == ASSUME IInv, EndPrev PROVE IInv'
<1>1. /\ pass = "prev" /\ pass' = "new" /\ update_ptr' = 0 /\ UNCHANGED <<job, siblings>>
      /\ stack = <<>> /\ update_ptr = 1 /\ stack' = <<TraverseNode(<<>>, job.new_root)>>
    BY DEF EndPrev
<1>2. JobOK' /\ SameSoFar'
    BY <1>1 DEF IInv, JobOK, SameSoFar
<1>3. AtTheEnd("prev")
    BY <1>1 DEF IInv, Walking, AtOneCall, Parted
<1>4. Walked("prev")'
    BY <1>1, <1>3 DEF AtTheEnd, Walked, RootOf, ValueOf
<1>5. AtOneCall("new")'
    <2>1. siblings["new"] = <<>>
        BY <1>1 DEF IInv
    <2> QED
        BY <1>1, <2>1, StartOfAWalk DEF AtOneCall, RootOf
<1> QED
    BY <1>1, <1>2, <1>4, <1>5 DEF IInv, Walking

LEMMA EndNewIsGood == ASSUME IInv, EndNew PROVE IInv'
<1>1. /\ pass = "new" /\ UNCHANGED <<job, stack, update_ptr, siblings>> /\ stack = <<>> /\ update_ptr = 1
      /\ pass' = IF Len(siblings["new"]) = Len(siblings["prev"]) THEN "accepted" ELSE "rejected"
    BY DEF EndNew
<1>2. JobOK' /\ SameSoFar'
    BY <1>1 DEF IInv, JobOK, SameSoFar
<1>3. AtTheEnd("new") /\ Walked("prev")
    BY <1>1 DEF IInv, Walking, AtOneCall, Parted
<1>4. Walked("prev")' /\ Walked("new")'
    BY <1>1, <1>3 DEF AtTheEnd, Walked, RootOf, ValueOf
<1>5. ASSUME Len(siblings["new"]) = Len(siblings["prev"]) PROVE siblings["prev"] = siblings["new"]
    <2> DEFINE prev == siblings["prev"]
               new == siblings["new"]
    <2>1. PICK S : prev \in Seq(S)
        BY DEF IInv, IsList
    <2>2. PICK T : new \in Seq(T)
        BY DEF IInv, IsList
    <2>3. \A i \in 1..Len(prev) : prev[i] = new[i]
        BY <1>5, <2>1 DEF IInv, SameSoFar
    <2>4. Len(prev) = Len(new)
        BY <1>5
    <2> HIDE DEF prev, new
    <2>5. prev \in Seq(S \union T) /\ new \in Seq(S \union T)
        BY <2>1, <2>2
    <2>6. prev = new
        BY <2>3, <2>4, <2>5
    <2> QED
        BY <2>6 DEF prev, new
<1> QED
    BY <1>1, <1>2, <1>4, <1>5 DEF IInv

(* The invariant of the walks holds: each has met, beside its path, the     *)
(* siblings it has listed, and stands at the node its next call is about.   *)
THEOREM WalksAreTrue == Spec => []IInv
<1>1. IInv /\ [Next]_vars => IInv'
    <2> SUFFICES ASSUME IInv, [Next]_vars PROVE IInv'
        OBVIOUS
    <2>1. CASE StepEmpty
        BY <2>1, StepIsGood DEF StepEmpty
    <2>2. CASE StepEdge
        BY <2>2, StepIsGood DEF StepEdge
    <2>3. CASE StepBinaryOrLeaf
        BY <2>3, StepIsGood DEF StepBinaryOrLeaf
    <2>4. CASE StepNonEmpty
        BY <2>4, StepIsGood DEF StepNonEmpty
    <2>5. CASE Fail
        BY <2>5, FailIsGood
    <2>6. CASE EndPrev
        BY <2>6, EndPrevIsGood
    <2>7. CASE EndNew
        BY <2>7, EndNewIsGood
    <2>8. CASE UNCHANGED vars
        BY <2>8 DEF vars, IInv, JobOK, SameSoFar, Walking, AtOneCall, AtTheEnd, Parted, Walked, RootOf, ValueOf
    <2> QED
        BY <2>1, <2>2, <2>3, <2>4, <2>5, <2>6, <2>7, <2>8 DEF Next
<1> QED
    BY <1>1, InitIsGood, PTL DEF Spec

(* Whatever the hints answer, for keys of any length and any two roots: an  *)
(* update that patricia_update accepts changed the leaf of its key from     *)
(* prev_value to new_value, and no other.                                   *)
THEOREM OnlyTheKeyChangedCorrect == Spec => []OnlyTheKeyChanged
BY WalksAreTrue, AcceptedIsRight, PTL

-----------------------------------------------------------------------------
(* The tree of a content. *)

(* Levels is what its definition says: such a function exists.             *)
LevelOver(f, content, height, h) ==
    [place \in Paths(height - h) |->
        IF h = 0 THEN Felt(ValueAt(content, place))
        ELSE Join(f[h - 1][Append(place, 0)], f[h - 1][Append(place, 1)])]
IsLevels(f, content, height, N) == f = [h \in 0..N |-> LevelOver(f, content, height, h)]

LEMMA LevelsExist ==
    ASSUME NEW content, NEW height, NEW N \in Nat
    PROVE  \E f : IsLevels(f, content, height, N)
<1> DEFINE T == {m \in 0..N : \E f : IsLevels(f, content, height, m)}
<1>1. 0 \in T
    <2> DEFINE g == [h \in 0..0 |-> LevelOver(<<>>, content, height, 0)]
    <2>1. LevelOver(g, content, height, 0) = LevelOver(<<>>, content, height, 0)
        BY Zenon DEF LevelOver
    <2>2. g = [h \in 0..0 |-> LevelOver(g, content, height, h)]
        BY <2>1
    <2> HIDE DEF g
    <2>3. IsLevels(g, content, height, 0)
        BY <2>2 DEF IsLevels
    <2> QED
        BY <2>3
<1>2. ASSUME NEW m \in 0..N, m < N, m \in T PROVE m + 1 \in T
    <2>1. PICK f : IsLevels(f, content, height, m)
        BY <1>2
    <2> DEFINE g == [h \in 0..m + 1 |-> IF h = m + 1 THEN LevelOver(f, content, height, m + 1) ELSE f[h]]
    <2>2. ASSUME NEW h \in 0..m + 1 PROVE g[h] = LevelOver(g, content, height, h)
        <3>1. h # 0 => g[h - 1] = f[h - 1]
            OBVIOUS
        <3>2. LevelOver(g, content, height, h) = LevelOver(f, content, height, h)
            <4> HIDE DEF g
            <4>1. CASE h = 0
                BY <4>1, Zenon DEF LevelOver
            <4>2. CASE h # 0
                BY <3>1, <4>2, Zenon DEF LevelOver
            <4> QED
                BY <4>1, <4>2
        <3>3. h # m + 1 => f[h] = LevelOver(f, content, height, h)
            BY <2>1 DEF IsLevels
        <3>4. g[h] = LevelOver(f, content, height, h)
            BY <3>3
        <3> QED
            BY <3>2, <3>4
    <2>3. IsLevels(g, content, height, m + 1)
        <3>1. g = [h \in 0..m + 1 |-> g[h]]
            OBVIOUS
        <3> HIDE DEF g
        <3>2. [h \in 0..m + 1 |-> g[h]] = [h \in 0..m + 1 |-> LevelOver(g, content, height, h)]
            BY <2>2
        <3> QED
            BY <3>1, <3>2 DEF IsLevels
    <2>4. m + 1 \in 0..N
        BY <1>2
    <2> HIDE DEF g
    <2> QED
        BY <2>3, <2>4
<1>3. N \in T
    <2> HIDE DEF T
    <2> QED
        BY <1>1, <1>2, UpTo
<1> QED
    BY <1>3

(* A level is leaves, or joins of the level below. *)
LEMMA LevelsStep ==
    ASSUME NEW content, NEW height \in Nat
    PROVE  /\ \A place \in Paths(height) : Levels(content, height)[0][place] = Felt(ValueAt(content, place))
           /\ \A h \in 1..height : \A place \in Paths(height - h) :
                 Levels(content, height)[h][place]
                    = Join(Levels(content, height)[h - 1][Append(place, 0)], Levels(content, height)[h - 1][Append(place, 1)])
<1> DEFINE f == Levels(content, height)
<1>1. \E g : IsLevels(g, content, height, height)
    BY LevelsExist
<1>2. f = CHOOSE g : IsLevels(g, content, height, height)
    BY Zenon DEF Levels, IsLevels, LevelOver
<1>3. IsLevels(f, content, height, height)
    BY <1>1, <1>2
<1> HIDE DEF f
<1>4. \A h \in 0..height : f[h] = LevelOver(f, content, height, h)
    BY <1>3 DEF IsLevels
<1>5. ASSUME NEW place \in Paths(height) PROVE f[0][place] = Felt(ValueAt(content, place))
    <2>1. 0 \in 0..height /\ place \in Paths(height - 0)
        OBVIOUS
    <2>2. LevelOver(f, content, height, 0)[place] = Felt(ValueAt(content, place))
        BY <2>1, Zenon DEF LevelOver
    <2> QED
        BY <1>4, <2>1, <2>2
<1>6. ASSUME NEW h \in 1..height, NEW place \in Paths(height - h)
      PROVE  f[h][place] = Join(f[h - 1][Append(place, 0)], f[h - 1][Append(place, 1)])
    <2>1. h \in 0..height /\ h # 0
        OBVIOUS
    <2>2. LevelOver(f, content, height, h)[place] = Join(f[h - 1][Append(place, 0)], f[h - 1][Append(place, 1)])
        BY <2>1, Zenon DEF LevelOver
    <2> QED
        BY <1>4, <2>1, <2>2
<1> QED
    BY <1>5, <1>6 DEF f

(* The nodes such a tree has, with so many bits left below them.           *)
Shape(node, left) ==
    \/ node = Zero
    \/ left = 0 /\ \E v \in Nat \ {0} : node = Felt(v)
    \/ left > 0 /\ \E l, r : node = Binary(l, r) /\ l # Zero /\ r # Zero
    \/ /\ left > 0
       /\ \E p, bottom :
            /\ p \in Path \ {<<>>} /\ node = Edge(p, bottom) /\ Len(p) <= left /\ bottom # Zero
            /\ bottom.kind = IF Len(p) = left THEN "Felt" ELSE "Binary"

(* The three kinds of node are apart, and give back what they are made of. *)
LEMMA Kinds ==
    ASSUME NEW v, NEW l, NEW r, NEW p, NEW b
    PROVE  /\ Felt(v).kind = "Felt" /\ Felt(v).n = v
           /\ Binary(l, r).kind = "Binary" /\ Binary(l, r).left = l /\ Binary(l, r).right = r
           /\ Edge(p, b).kind = "Edge" /\ Edge(p, b).path = p /\ Edge(p, b).bottom = b
           /\ Zero.kind = "Felt" /\ Zero.n = 0
           /\ (Felt(v) = Zero <=> v = 0) /\ Binary(l, r) # Zero /\ Edge(p, b) # Zero
<1>1. Felt(v).kind = "Felt" /\ Felt(v).n = v /\ Zero.kind = "Felt" /\ Zero.n = 0 /\ (v = 0 => Felt(v) = Zero)
    BY DEF Felt, Zero
<1>2. Binary(l, r).kind = "Binary" /\ Binary(l, r).left = l /\ Binary(l, r).right = r
    BY DEF Binary
<1>3. Edge(p, b).kind = "Edge" /\ Edge(p, b).path = p /\ Edge(p, b).bottom = b
    BY DEF Edge
<1> QED
    BY <1>1, <1>2, <1>3

(* A bit put before a path, and taken off again. *)
LEMMA BitBefore ==
    ASSUME NEW bit \in {0, 1}, NEW p \in Path
    PROVE  /\ <<bit>> \o p \in Path \ {<<>>} /\ Len(<<bit>> \o p) = Len(p) + 1
           /\ Head(<<bit>> \o p) = bit /\ Tail(<<bit>> \o p) = p
<1>1. p \in Seq({0, 1}) /\ <<bit>> \in Seq({0, 1}) /\ Len(<<bit>>) = 1
    BY DEF Path
<1>2. <<bit>> \o p \in Seq({0, 1}) /\ Len(<<bit>> \o p) = Len(p) + 1
    BY <1>1
<1>3. Head(<<bit>> \o p) = bit /\ Tail(<<bit>> \o p) = p
    BY <1>1, <1>2
<1> QED
    BY <1>1, <1>2, <1>3 DEF Path

(* An edge to a node: its children are the node and nothing.               *)
LEMMA EdgeToIs ==
    ASSUME NEW left \in Nat, NEW node, Shape(node, left), node # Zero, NEW bit \in {0, 1}
    PROVE  /\ Shape(EdgeTo(bit, node), left + 1) /\ EdgeTo(bit, node) # Zero
           /\ Child(EdgeTo(bit, node), bit) = node /\ Child(EdgeTo(bit, node), 1 - bit) = Zero
<1>1. PICK p, bottom :
            /\ p \in Path \ {<<>>}
            /\ EdgeTo(bit, node) = Edge(p, bottom) /\ Len(p) <= left + 1 /\ bottom # Zero
            /\ bottom.kind = IF Len(p) = left + 1 THEN "Felt" ELSE "Binary"
            /\ Head(p) = bit /\ Cut(Edge(p, bottom)) = node
    <2>1. CASE node.kind = "Edge"
        <3>1. PICK q, b :
                /\ q \in Path \ {<<>>}
                /\ node = Edge(q, b) /\ Len(q) <= left /\ b # Zero
                /\ b.kind = IF Len(q) = left THEN "Felt" ELSE "Binary"
            BY <2>1, Kinds DEF Shape
        <3> DEFINE p == <<bit>> \o q
        <3>2. p \in Path \ {<<>>} /\ Len(p) = Len(q) + 1 /\ Head(p) = bit /\ Tail(p) = q
            BY <3>1, BitBefore
        <3> HIDE DEF p
        <3>3. EdgeTo(bit, node) = Edge(p, b)
            BY <2>1, <3>1, Kinds DEF EdgeTo, p
        <3>4. Len(q) \in Nat /\ Len(q) # 0
            BY <3>1 DEF Path
        <3>5. Cut(Edge(p, b)) = node
            <4>1. Edge(p, b).path = p /\ Edge(p, b).bottom = b
                BY Kinds
            <4>2. Len(p) # 1
                BY <3>2, <3>4
            <4>3. Cut(Edge(p, b)) = Edge(Tail(p), b)
                BY <4>1, <4>2, Zenon DEF Cut
            <4> QED
                BY <3>1, <3>2, <4>3
        <3>6. Len(p) <= left + 1 /\ (Len(p) = left + 1 <=> Len(q) = left)
            BY <3>1, <3>2, <3>4
        <3> QED
            BY <3>1, <3>2, <3>3, <3>5, <3>6
    <2>2. CASE node.kind # "Edge"
        <3>1. EdgeTo(bit, node) = Edge(<<bit>>, node)
            BY <2>2 DEF EdgeTo
        <3>2. <<bit>> \in Path \ {<<>>} /\ Len(<<bit>>) = 1 /\ Head(<<bit>>) = bit
            BY DEF Path
        <3>3. node.kind = IF 1 = left + 1 THEN "Felt" ELSE "Binary"
            BY <2>2, Kinds DEF Shape
        <3>4. Cut(Edge(<<bit>>, node)) = node
            BY <3>2, Kinds DEF Cut
        <3> DEFINE p == <<bit>>
        <3> HIDE DEF p
        <3>5. /\ p \in Path \ {<<>>} /\ EdgeTo(bit, node) = Edge(p, node) /\ Len(p) <= left + 1
              /\ node.kind = IF Len(p) = left + 1 THEN "Felt" ELSE "Binary"
              /\ Head(p) = bit /\ Cut(Edge(p, node)) = node
            BY <3>1, <3>2, <3>3, <3>4 DEF p
        <3> QED
            BY <3>5
    <2> QED
        BY <2>1, <2>2
<1>2. Shape(Edge(p, bottom), left + 1)
    <2> DEFINE edge == Edge(p, bottom)
    <2>1. /\ p \in Path \ {<<>>} /\ edge = Edge(p, bottom) /\ Len(p) <= left + 1 /\ bottom # Zero
          /\ bottom.kind = IF Len(p) = left + 1 THEN "Felt" ELSE "Binary"
        BY <1>1
    <2> HIDE DEF edge
    <2>2. Shape(edge, left + 1)
        BY <2>1 DEF Shape
    <2> QED
        BY <2>2 DEF edge
<1>3. GetChildren(Edge(p, bottom)) = IF bit = 0 THEN <<node, Zero>> ELSE <<Zero, node>>
    <2> DEFINE edge == Edge(p, bottom)
    <2>1. edge.kind = "Edge" /\ Head(edge.path) = bit /\ Cut(edge) = node
        BY <1>1, Kinds
    <2> HIDE DEF edge
    <2>2. GetChildren(edge) = IF bit = 0 THEN <<node, Zero>> ELSE <<Zero, node>>
        BY <2>1 DEF GetChildren
    <2> QED
        BY <2>2 DEF edge
<1>4. Child(Edge(p, bottom), bit) = node /\ Child(Edge(p, bottom), 1 - bit) = Zero
    BY <1>3 DEF Child
<1> QED
    BY <1>1, <1>2, <1>4, Kinds

(* A node over two children is well formed, and has those two children. *)
LEMMA JoinIs ==
    ASSUME NEW left \in Nat, NEW a, NEW b, Shape(a, left), Shape(b, left)
    PROVE  /\ Shape(Join(a, b), left + 1)
           /\ Child(Join(a, b), 0) = a /\ Child(Join(a, b), 1) = b
           /\ (Join(a, b) = Zero <=> a = Zero /\ b = Zero)
           /\ (Join(a, b).kind = "Binary" <=> a # Zero /\ b # Zero)
<1>1. CASE a = Zero /\ b = Zero
    BY <1>1, Kinds DEF Join, Shape, Child, GetChildren
<1>2. CASE a # Zero /\ b = Zero
    <2>1. Join(a, b) = EdgeTo(0, a)
        BY <1>2 DEF Join
    <2>2. /\ Shape(EdgeTo(0, a), left + 1) /\ EdgeTo(0, a) # Zero
          /\ Child(EdgeTo(0, a), 0) = a /\ Child(EdgeTo(0, a), 1 - 0) = Zero
        BY <1>2, EdgeToIs
    <2>3. EdgeTo(0, a).kind = "Edge"
        BY Kinds DEF EdgeTo
    <2> QED
        BY <1>2, <2>1, <2>2, <2>3
<1>3. CASE a = Zero /\ b # Zero
    <2>1. Join(a, b) = EdgeTo(1, b)
        BY <1>3 DEF Join
    <2>2. /\ Shape(EdgeTo(1, b), left + 1) /\ EdgeTo(1, b) # Zero
          /\ Child(EdgeTo(1, b), 1) = b /\ Child(EdgeTo(1, b), 1 - 1) = Zero
        BY <1>3, EdgeToIs
    <2>3. EdgeTo(1, b).kind = "Edge"
        BY Kinds DEF EdgeTo
    <2> QED
        BY <1>3, <2>1, <2>2, <2>3
<1>4. CASE a # Zero /\ b # Zero
    <2>1. Join(a, b) = Binary(a, b)
        BY <1>4 DEF Join
    <2>2. Shape(Binary(a, b), left + 1)
        BY <1>4 DEF Shape
    <2>3. Child(Binary(a, b), 0) = a /\ Child(Binary(a, b), 1) = b
        BY Kinds DEF Child, GetChildren
    <2> QED
        BY <1>4, <2>1, <2>2, <2>3, Kinds
<1> QED
    BY <1>1, <1>2, <1>3, <1>4

-----------------------------------------------------------------------------
(* Places of a tree. *)

(* Paths of one length with the same bits are the same. *)
LEMMA SamePath ==
    ASSUME NEW p \in Path, NEW q \in Path, Len(p) = Len(q), \A i \in 1..Len(p) : p[i] = q[i]
    PROVE  p = q
<1>1. p = [i \in 1..Len(p) |-> p[i]] /\ q = [i \in 1..Len(q) |-> q[i]]
    BY DEF Path
<1> QED
    BY <1>1

LEMMA PathsArePaths ==
    ASSUME NEW n \in Nat, NEW p
    PROVE  p \in Paths(n) <=> p \in Path /\ Len(p) = n
<1>1. ASSUME p \in Paths(n) PROVE p \in Path /\ Len(p) = n
    BY <1>1 DEF Paths, Path
<1>2. ASSUME p \in Path, Len(p) = n PROVE p \in Paths(n)
    BY <1>2, KeyIsAPath
<1> QED
    BY <1>1, <1>2

LEMMA NextPlace ==
    ASSUME NEW place \in Path, NEW bit \in {0, 1}
    PROVE  /\ Append(place, bit) \in Path /\ Len(Append(place, bit)) = Len(place) + 1
           /\ \A i \in 1..Len(place) : Append(place, bit)[i] = place[i]
           /\ Append(place, bit)[Len(place) + 1] = bit
BY DEF Path

LEMMA PlaceOn ==
    ASSUME NEW path \in Path, NEW n \in 0..Len(path)
    PROVE  /\ SubSeq(path, 1, n) \in Path /\ Len(SubSeq(path, 1, n)) = n
           /\ \A i \in 1..n : SubSeq(path, 1, n)[i] = path[i]
<1>1. Len(path) \in Nat /\ \A i \in 1..Len(path) : path[i] \in {0, 1}
    BY DEF Path
<1>2. \A i \in 1..n : path[i] \in {0, 1}
    BY <1>1
<1>3. SubSeq(path, 1, n) \in Seq({0, 1})
    BY <1>1, <1>2
<1> QED
    BY <1>1, <1>3 DEF Path

LEMMA PlaceAfter ==
    ASSUME NEW path \in Path, NEW n \in 0..Len(path) - 1
    PROVE  /\ path[n + 1] \in {0, 1}
           /\ SubSeq(path, 1, n + 1) = Append(SubSeq(path, 1, n), path[n + 1])
<1> DEFINE a == SubSeq(path, 1, n + 1)
           b == SubSeq(path, 1, n)
           c == Append(b, path[n + 1])
<1>1. Len(path) \in Nat /\ n \in 0..Len(path) /\ n + 1 \in 0..Len(path) /\ n \in Nat /\ n + 1 \in 1..Len(path)
    BY DEF Path
<1>2. path[n + 1] \in {0, 1}
    BY <1>1 DEF Path
<1>3. a \in Path /\ Len(a) = n + 1 /\ \A i \in 1..n + 1 : a[i] = path[i]
    BY <1>1, PlaceOn
<1>4. b \in Path /\ Len(b) = n /\ \A i \in 1..n : b[i] = path[i]
    BY <1>1, PlaceOn
<1> HIDE DEF a, b
<1>5. /\ c \in Path /\ Len(c) = n + 1 /\ c[n + 1] = path[n + 1] /\ \A i \in 1..n : c[i] = b[i]
    BY <1>2, <1>4, NextPlace
<1> HIDE DEF c
<1>6. \A i \in 1..n + 1 : a[i] = c[i]
    <2>1. \A i \in 1..n + 1 : i \in 1..n \/ i = n + 1
        BY <1>1
    <2> QED
        BY <1>1, <1>3, <1>4, <1>5, <2>1
<1>7. a = c
    BY <1>3, <1>5, <1>6, SamePath
<1> QED
    BY <1>2, <1>7 DEF a, b, c

(* A path goes through a place. *)
Through(path, place) == \A i \in 1..Len(place) : path[i] = place[i]

LEMMA ThroughNext ==
    ASSUME NEW place \in Path, NEW path, NEW bit \in {0, 1}
    PROVE  Through(path, Append(place, bit)) <=> Through(path, place) /\ path[Len(place) + 1] = bit
<1>1. Len(place) \in Nat
    BY DEF Path
<1>2. \A i \in 1..Len(place) + 1 : i \in 1..Len(place) \/ i = Len(place) + 1
    BY <1>1
<1>3. \A i \in 1..Len(place) : i \in 1..Len(place) + 1
    BY <1>1
<1> QED
    BY <1>1, <1>2, <1>3, NextPlace DEF Through

(* What a content is: values of paths, one of each. *)
IsContent(content, height) ==
    /\ \A e \in content : \E path \in Paths(height), value \in Nat \ {0} : e = <<path, value>>
    /\ \A e, f \in content : e[1] = f[1] => e = f

LEMMA ValueIs ==
    ASSUME NEW height, NEW content, IsContent(content, height)
    PROVE  /\ \A e \in content : ValueAt(content, e[1]) = e[2]
           /\ \A path : /\ ValueAt(content, path) \in Nat
                        /\ ValueAt(content, path) = 0 <=> \A e \in content : e[1] # path
<1>1. \A e \in content : e[1] \in Paths(height) /\ e[2] \in Nat \ {0}
    BY DEF IsContent
<1>2. ASSUME NEW path, NEW e \in content, e[1] = path PROVE ValueAt(content, path) = e[2]
    <2> DEFINE found == CHOOSE f \in content : f[1] = path
    <2>1. found \in content /\ found[1] = path
        BY <1>2
    <2>2. found = e
        BY <1>2, <2>1 DEF IsContent
    <2>3. ValueAt(content, path) = found[2]
        BY <1>2 DEF ValueAt
    <2> QED
        BY <2>2, <2>3
<1>3. ASSUME NEW path, \A e \in content : e[1] # path PROVE ValueAt(content, path) = 0
    BY <1>3 DEF ValueAt
<1> QED
    BY <1>1, <1>2, <1>3

(* The node a tree has at a place. *)
NodeAt(content, height, place) == Levels(content, height)[height - Len(place)][place]

(* A place holds the value of its leaf, or what joins the places after it. *)
LEMMA NodeAtIs ==
    ASSUME NEW content, NEW height \in Nat, NEW place \in Path, Len(place) <= height
    PROVE  NodeAt(content, height, place) =
              IF Len(place) = height THEN Felt(ValueAt(content, place))
              ELSE Join(NodeAt(content, height, Append(place, 0)), NodeAt(content, height, Append(place, 1)))
<1>1. Len(place) \in Nat
    BY DEF Path
<1>2. CASE Len(place) = height
    <2>1. place \in Paths(height) /\ height - Len(place) = 0
        BY <1>2, PathsArePaths
    <2> QED
        BY <1>2, <2>1, LevelsStep DEF NodeAt
<1>3. CASE Len(place) # height
    <2> DEFINE h == height - Len(place)
    <2>1. h \in 1..height /\ height - h = Len(place)
        BY <1>1, <1>3
    <2>2. place \in Paths(height - h)
        BY <1>1, <2>1, PathsArePaths
    <2>3. Levels(content, height)[h][place]
             = Join(Levels(content, height)[h - 1][Append(place, 0)], Levels(content, height)[h - 1][Append(place, 1)])
        BY <2>1, <2>2, LevelsStep
    <2>4. \A bit \in {0, 1} : height - Len(Append(place, bit)) = h - 1
        BY <1>1, NextPlace
    <2> QED
        BY <1>3, <2>3, <2>4 DEF NodeAt
<1> QED
    BY <1>2, <1>3

LEMMA LeafAtIs ==
    ASSUME NEW content, NEW height \in Nat, NEW place \in Path, Len(place) = height
    PROVE  NodeAt(content, height, place) = Felt(ValueAt(content, place))
<1>1. Len(place) <= height
    OBVIOUS
<1> QED
    BY <1>1, NodeAtIs, Zenon

(* Every place of a tree is well formed: no empty child, no edge over an edge. *)
LEMMA NodeShape ==
    ASSUME NEW height \in Nat, NEW content, IsContent(content, height)
    PROVE  \A place \in Path : Len(place) <= height => Shape(NodeAt(content, height, place), height - Len(place))
<1> DEFINE T == {h \in 0..height : \A place \in Path : Len(place) = height - h => Shape(NodeAt(content, height, place), h)}
<1>1. 0 \in T
    <2>1. ASSUME NEW place \in Path, Len(place) = height PROVE Shape(NodeAt(content, height, place), 0)
        <3>1. NodeAt(content, height, place) = Felt(ValueAt(content, place))
            BY <2>1, LeafAtIs
        <3>2. ValueAt(content, place) \in Nat
            BY ValueIs
        <3> QED
            BY <3>1, <3>2, Kinds DEF Shape
    <2> QED
        BY <2>1
<1>2. ASSUME NEW h \in 0..height, h < height, h \in T PROVE h + 1 \in T
    <2>1. ASSUME NEW place \in Path, Len(place) = height - (h + 1) PROVE Shape(NodeAt(content, height, place), h + 1)
        <3>1. \A bit \in {0, 1} : Append(place, bit) \in Path /\ Len(Append(place, bit)) = height - h
            BY <1>2, <2>1, NextPlace
        <3>2. \A bit \in {0, 1} : Shape(NodeAt(content, height, Append(place, bit)), h)
            BY <1>2, <3>1
        <3>3. NodeAt(content, height, place) = Join(NodeAt(content, height, Append(place, 0)), NodeAt(content, height, Append(place, 1)))
            BY <1>2, <2>1, NodeAtIs
        <3> QED
            BY <3>2, <3>3, JoinIs
    <2> QED
        BY <1>2, <2>1
<1>3. 0..height \subseteq T
    <2> HIDE DEF T
    <2> QED
        BY <1>1, <1>2, UpTo
<1>4. ASSUME NEW place \in Path, Len(place) <= height PROVE Shape(NodeAt(content, height, place), height - Len(place))
    <2>1. Len(place) \in Nat
        BY DEF Path
    <2>2. height - Len(place) \in 0..height /\ Len(place) = height - (height - Len(place))
        BY <1>4, <2>1
    <2> QED
        BY <1>3, <2>2
<1> QED
    BY <1>4

(* A place of a tree is empty when no leaf is below it. *)
LEMMA EmptyPlace ==
    ASSUME NEW height \in Nat, NEW content, IsContent(content, height)
    PROVE  \A place \in Path : Len(place) <= height =>
               (NodeAt(content, height, place) = Zero <=> \A e \in content : ~ Through(e[1], place))
<1> DEFINE Empty(place) == NodeAt(content, height, place) = Zero <=> \A e \in content : ~ Through(e[1], place)
           T == {h \in 0..height : \A place \in Path : Len(place) = height - h => Empty(place)}
<1>0. \A e \in content : e[1] \in Path /\ Len(e[1]) = height
    BY PathsArePaths DEF IsContent
<1>1. 0 \in T
    <2>1. ASSUME NEW place \in Path, Len(place) = height PROVE Empty(place)
        <3>1. NodeAt(content, height, place) = Felt(ValueAt(content, place))
            BY <2>1, LeafAtIs
        <3>2. ValueAt(content, place) = 0 <=> \A e \in content : e[1] # place
            BY ValueIs
        <3>3. ASSUME NEW e \in content PROVE e[1] = place <=> Through(e[1], place)
            <4>1. e[1] \in Path /\ Len(e[1]) = Len(place)
                BY <1>0, <2>1
            <4>2. Through(e[1], place) => e[1] = place
                BY <4>1, SamePath DEF Through
            <4> QED
                BY <4>2 DEF Through
        <3> QED
            BY <3>1, <3>2, <3>3, Kinds
    <2> QED
        BY <2>1
<1>2. ASSUME NEW h \in 0..height, h < height, h \in T PROVE h + 1 \in T
    <2>1. ASSUME NEW place \in Path, Len(place) = height - (h + 1) PROVE Empty(place)
        <3> DEFINE ChildOf(bit) == NodeAt(content, height, Append(place, bit))
        <3>1. \A bit \in {0, 1} : Append(place, bit) \in Path /\ Len(Append(place, bit)) = height - h
            BY <1>2, <2>1, NextPlace
        <3>2. \A bit \in {0, 1} : Empty(Append(place, bit))
            BY <1>2, <3>1
        <3>3. NodeAt(content, height, place) = Join(ChildOf(0), ChildOf(1))
            BY <1>2, <2>1, NodeAtIs
        <3>4. \A bit \in {0, 1} : Shape(ChildOf(bit), h)
            <4>1. Len(place) \in Nat /\ \A bit \in {0, 1} : height - Len(Append(place, bit)) = h /\ Len(Append(place, bit)) <= height
                BY <2>1, <3>1
            <4> QED
                BY <3>1, <4>1, NodeShape
        <3>5. NodeAt(content, height, place) = Zero <=> ChildOf(0) = Zero /\ ChildOf(1) = Zero
            <4> HIDE DEF ChildOf
            <4> QED
                BY <3>3, <3>4, JoinIs
        <3>6. \A e \in content : e[1][Len(place) + 1] \in {0, 1}
            <4>1. Len(place) + 1 \in 1..height
                BY <1>2, <2>1
            <4> QED
                BY <1>0, <4>1 DEF Path
        <3>7. \A e \in content : Through(e[1], place) <=> \E bit \in {0, 1} : Through(e[1], Append(place, bit))
            BY <3>6, ThroughNext
        <3> QED
            BY <3>2, <3>5, <3>7
    <2> QED
        BY <1>2, <2>1
<1>3. 0..height \subseteq T
    <2> HIDE DEF T
    <2> QED
        BY <1>1, <1>2, UpTo
<1>4. ASSUME NEW place \in Path, Len(place) <= height PROVE Empty(place)
    <2>1. Len(place) \in Nat
        BY DEF Path
    <2>2. height - Len(place) \in 0..height /\ Len(place) = height - (height - Len(place))
        BY <1>4, <2>1
    <2> QED
        BY <1>3, <2>2
<1> QED
    BY <1>4

(* What a tree has at a place comes of the leaves below it alone. *)
LEMMA SameBelow ==
    ASSUME NEW height \in Nat, NEW a, NEW b, IsContent(a, height), IsContent(b, height),
           NEW place \in Path, Len(place) <= height,
           \A e : e[1] \in Path /\ Through(e[1], place) => (e \in a <=> e \in b)
    PROVE  NodeAt(a, height, place) = NodeAt(b, height, place)
<1> DEFINE Alike(p) == \A e : e[1] \in Path /\ Through(e[1], p) => (e \in a <=> e \in b)
           T == {h \in 0..height : \A p \in Path : Len(p) = height - h /\ Alike(p) =>
                                        NodeAt(a, height, p) = NodeAt(b, height, p)}
<1>1. 0 \in T
    <2>1. ASSUME NEW p \in Path, Len(p) = height, Alike(p) PROVE NodeAt(a, height, p) = NodeAt(b, height, p)
        <3>1. NodeAt(a, height, p) = Felt(ValueAt(a, p)) /\ NodeAt(b, height, p) = Felt(ValueAt(b, p))
            BY <2>1, LeafAtIs
        <3>2. \A e : e[1] = p => (e \in a <=> e \in b)
            BY <2>1 DEF Through
        <3>3. ValueAt(a, p) = ValueAt(b, p)
            <4>1. CASE \E e \in a : e[1] = p
                <5>1. PICK e \in a : e[1] = p
                    BY <4>1
                <5>2. e \in b
                    BY <3>2, <5>1
                <5> QED
                    BY <5>1, <5>2, ValueIs
            <4>2. CASE \A e \in a : e[1] # p
                <5>1. \A e \in b : e[1] # p
                    BY <3>2, <4>2
                <5>2. ValueAt(a, p) = 0
                    BY <4>2, ValueIs
                <5>3. ValueAt(b, p) = 0
                    BY <5>1, ValueIs
                <5> QED
                    BY <5>2, <5>3
            <4> QED
                BY <4>1, <4>2
        <3> QED
            BY <3>1, <3>3
    <2> QED
        BY <2>1
<1>2. ASSUME NEW h \in 0..height, h < height, h \in T PROVE h + 1 \in T
    <2>1. ASSUME NEW p \in Path, Len(p) = height - (h + 1), Alike(p) PROVE NodeAt(a, height, p) = NodeAt(b, height, p)
        <3>1. \A bit \in {0, 1} : Append(p, bit) \in Path /\ Len(Append(p, bit)) = height - h
            BY <1>2, <2>1, NextPlace
        <3>2. \A bit \in {0, 1} : Alike(Append(p, bit))
            BY <2>1, ThroughNext
        <3>3. \A bit \in {0, 1} : NodeAt(a, height, Append(p, bit)) = NodeAt(b, height, Append(p, bit))
            BY <1>2, <3>1, <3>2
        <3>4. /\ NodeAt(a, height, p) = Join(NodeAt(a, height, Append(p, 0)), NodeAt(a, height, Append(p, 1)))
              /\ NodeAt(b, height, p) = Join(NodeAt(b, height, Append(p, 0)), NodeAt(b, height, Append(p, 1)))
            BY <1>2, <2>1, NodeAtIs
        <3> QED
            BY <3>3, <3>4
    <2> QED
        BY <1>2, <2>1
<1>3. 0..height \subseteq T
    <2> HIDE DEF T
    <2> QED
        BY <1>1, <1>2, UpTo
<1>4. Len(place) \in Nat
    BY DEF Path
<1>5. height - Len(place) \in 0..height /\ Len(place) = height - (height - Len(place))
    BY <1>4
<1> QED
    BY <1>3, <1>5

(* The children of a place are the places after it. *)
LEMMA ChildAt ==
    ASSUME NEW height \in Nat, NEW content, IsContent(content, height), NEW place \in Path, Len(place) < height
    PROVE  \A bit \in {0, 1} : Child(NodeAt(content, height, place), bit) = NodeAt(content, height, Append(place, bit))
<1>1. NodeAt(content, height, place) = Join(NodeAt(content, height, Append(place, 0)), NodeAt(content, height, Append(place, 1)))
    BY NodeAtIs DEF Path
<1>2. \A bit \in {0, 1} : Shape(NodeAt(content, height, Append(place, bit)), height - (Len(place) + 1))
    <2>1. \A bit \in {0, 1} : Append(place, bit) \in Path /\ Len(Append(place, bit)) = Len(place) + 1
        BY NextPlace
    <2>2. Len(place) + 1 <= height
        BY DEF Path
    <2>3. \A p \in Path : Len(p) = Len(place) + 1 => Shape(NodeAt(content, height, p), height - (Len(place) + 1))
        BY <2>2, NodeShape
    <2> QED
        BY <2>1, <2>3
<1>3. height - (Len(place) + 1) \in Nat
    BY DEF Path
<1> QED
    BY <1>1, <1>2, <1>3, JoinIs

(* What one meets in the tree of a content. *)
LEMMA OnTheWay ==
    ASSUME NEW height \in Nat, NEW content, IsContent(content, height), NEW path \in Path, Len(path) = height
    PROVE  \A n \in 0..height : NodesOn(TreeOf(content, height), path)[n] = NodeAt(content, height, SubSeq(path, 1, n))
<1> DEFINE root == TreeOf(content, height)
           At(n) == NodeAt(content, height, SubSeq(path, 1, n))
           T == {n \in 0..height : NodesOn(root, path)[n] = At(n)}
<1>1. 0 \in T
    <2>1. SubSeq(path, 1, 0) = <<>> /\ Len(<<>>) = 0 /\ height - 0 = height
        BY DEF Path
    <2>2. At(0) = root
        BY <2>1 DEF NodeAt, TreeOf
    <2>3. NodesOn(root, path)[0] = root
        BY NodesOnStep
    <2> QED
        BY <2>2, <2>3
<1>2. ASSUME NEW n \in 0..height, n < height, n \in T PROVE n + 1 \in T
    <2> DEFINE place == SubSeq(path, 1, n)
    <2>1. place \in Path /\ Len(place) = n /\ path[n + 1] \in {0, 1} /\ SubSeq(path, 1, n + 1) = Append(place, path[n + 1])
        BY <1>2, PlaceOn, PlaceAfter
    <2> HIDE DEF place
    <2>4. \A bit \in {0, 1} : Child(NodeAt(content, height, place), bit) = NodeAt(content, height, Append(place, bit))
        <3>1. Len(place) < height
            BY <1>2, <2>1
        <3> QED
            BY <2>1, <3>1, ChildAt
    <2>5. NodesOn(root, path)[n + 1] = Child(NodesOn(root, path)[n], path[n + 1])
        <3>1. n + 1 \in 1..Len(path) /\ n + 1 - 1 = n
            BY <1>2
        <3> QED
            BY <3>1, NodesOnStep
    <2>6. NodesOn(root, path)[n] = NodeAt(content, height, place)
        BY <1>2 DEF place
    <2>7. NodesOn(root, path)[n + 1] = At(n + 1)
        BY <2>1, <2>4, <2>5, <2>6
    <2> QED
        BY <1>2, <2>7
<1>3. 0..height \subseteq T
    <2> HIDE DEF T
    <2> QED
        BY <1>1, <1>2, UpTo
<1> QED
    BY <1>3

(* What one passes by. *)
Aside(path, n) == Append(SubSeq(path, 1, n - 1), 1 - path[n])

(* The place beside the way after n bits: the other way at the last of them. *)
LEMMA AsideIs ==
    ASSUME NEW path \in Path, NEW n \in 1..Len(path)
    PROVE  /\ Aside(path, n) \in Path /\ Len(Aside(path, n)) = n
           /\ \A other \in Path : Len(other) = Len(path) =>
                 (Through(other, Aside(path, n)) <=>
                     (\A i \in 1..n - 1 : other[i] = path[i]) /\ other[n] # path[n])
<1> DEFINE place == SubSeq(path, 1, n - 1)
<1>1. Len(path) \in Nat /\ n - 1 \in 0..Len(path) /\ n \in Nat /\ path[n] \in {0, 1} /\ 1 - path[n] \in {0, 1}
    BY DEF Path
<1>2. place \in Path /\ Len(place) = n - 1 /\ \A i \in 1..n - 1 : place[i] = path[i]
    BY <1>1, PlaceOn
<1> HIDE DEF place
<1>3. Aside(path, n) = Append(place, 1 - path[n])
    BY DEF Aside, place
<1>4. Append(place, 1 - path[n]) \in Path /\ Len(Append(place, 1 - path[n])) = n
    BY <1>1, <1>2, NextPlace
<1>5. ASSUME NEW other \in Path, Len(other) = Len(path)
      PROVE  Through(other, Append(place, 1 - path[n])) <=> (\A i \in 1..n - 1 : other[i] = path[i]) /\ other[n] # path[n]
    <2>1. other[n] \in {0, 1}
        BY <1>1, <1>5 DEF Path
    <2>2. other[n] # path[n] <=> other[n] = 1 - path[n]
        BY <1>1, <2>1
    <2>3. Len(place) + 1 = n
        BY <1>1, <1>2
    <2>4. Through(other, Append(place, 1 - path[n])) <=> Through(other, place) /\ other[n] = 1 - path[n]
        BY <1>1, <1>2, <2>3, ThroughNext
    <2> QED
        BY <1>2, <2>2, <2>4 DEF Through
<1> QED
    BY <1>3, <1>4, <1>5

(* What is beside the way is the node there, empty when no leaf parts there. *)
LEMMA BesideTheWay ==
    ASSUME NEW height \in Nat, NEW content, IsContent(content, height), NEW path \in Path, Len(path) = height,
           NEW n \in 1..height
    PROVE  /\ Sibling(TreeOf(content, height), path, n) = NodeAt(content, height, Aside(path, n))
           /\ Sibling(TreeOf(content, height), path, n) # Zero <=>
                 \E e \in content : (\A i \in 1..n - 1 : e[1][i] = path[i]) /\ e[1][n] # path[n]
<1> DEFINE place == SubSeq(path, 1, n - 1)
           root == TreeOf(content, height)
<1>1. n - 1 \in 0..Len(path) /\ 1 - path[n] \in {0, 1} /\ n - 1 < height /\ n \in 1..Len(path) /\ n - 1 \in 0..height
    BY DEF Path
<1>2. place \in Path /\ Len(place) < height
    BY <1>1, PlaceOn
<1>3. NodesOn(root, path)[n - 1] = NodeAt(content, height, place)
    BY <1>1, OnTheWay
<1>4. Child(NodeAt(content, height, place), 1 - path[n]) = NodeAt(content, height, Append(place, 1 - path[n]))
    <2> HIDE DEF place
    <2> QED
        BY <1>1, <1>2, ChildAt
<1>5. Sibling(root, path, n) = NodeAt(content, height, Aside(path, n))
    BY <1>3, <1>4 DEF Sibling, Aside
<1>6. Aside(path, n) \in Path /\ Len(Aside(path, n)) <= height
    BY <1>1, AsideIs
<1>7. NodeAt(content, height, Aside(path, n)) = Zero <=> \A e \in content : ~ Through(e[1], Aside(path, n))
    BY <1>6, EmptyPlace
<1>8. \A e \in content : Through(e[1], Aside(path, n)) <=> (\A i \in 1..n - 1 : e[1][i] = path[i]) /\ e[1][n] # path[n]
    <2>1. \A e \in content : e[1] \in Path /\ Len(e[1]) = Len(path)
        BY PathsArePaths DEF IsContent
    <2> QED
        BY <1>1, <2>1, AsideIs
<1> QED
    BY <1>5, <1>7, <1>8

(* The leaves of the tree of a content are the content. *)
LEMMA LeafOfTree ==
    ASSUME NEW height \in Nat, NEW content, IsContent(content, height), NEW path \in Path, Len(path) = height
    PROVE  LeafOn(TreeOf(content, height), path) = Felt(ValueAt(content, path))
<1>1. SubSeq(path, 1, height) = path
    <2>1. height \in 0..Len(path)
        OBVIOUS
    <2>2. /\ SubSeq(path, 1, height) \in Path /\ Len(SubSeq(path, 1, height)) = height
          /\ \A i \in 1..height : SubSeq(path, 1, height)[i] = path[i]
        BY <2>1, PlaceOn
    <2> QED
        BY <2>2, SamePath
<1>2. NodesOn(TreeOf(content, height), path)[height] = NodeAt(content, height, path)
    <2>1. height \in 0..height
        OBVIOUS
    <2>2. \A n \in 0..height : NodesOn(TreeOf(content, height), path)[n] = NodeAt(content, height, SubSeq(path, 1, n))
        BY OnTheWay
    <2> QED
        BY <1>1, <2>1, <2>2
<1> QED
    BY <1>2, LeafAtIs DEF LeafOn

(* The tree of a content holds the content. *)
LEMMA ContentOfTree ==
    ASSUME NEW height \in Nat, NEW content, IsContent(content, height)
    PROVE  Content(TreeOf(content, height), height) = content
<1> DEFINE root == TreeOf(content, height)
<1>1. ASSUME NEW path \in Paths(height)
      PROVE  LeafOn(root, path).kind = "Felt" /\ LeafOn(root, path).n = ValueAt(content, path)
    <2>1. path \in Path /\ Len(path) = height
        BY PathsArePaths
    <2> QED
        BY <2>1, LeafOfTree, Kinds
<1>2. ASSUME NEW e \in Content(root, height) PROVE e \in content
    <2> HIDE DEF root
    <2>1. PICK path \in Paths(height) : e = <<path, ValueAt(content, path)>> /\ ValueAt(content, path) # 0
        BY <1>1, ContentIs
    <2>2. PICK f \in content : f[1] = path
        BY <2>1, ValueIs
    <2>3. f = <<path, f[2]>> /\ f[2] = ValueAt(content, path)
        BY <2>2, ValueIs DEF IsContent
    <2> QED
        BY <2>1, <2>3
<1>3. ASSUME NEW e \in content PROVE e \in Content(root, height)
    <2> HIDE DEF root
    <2>1. PICK path \in Paths(height), value \in Nat \ {0} : e = <<path, value>>
        BY DEF IsContent
    <2>2. ValueAt(content, path) = value
        BY <2>1, ValueIs
    <2> QED
        BY <1>1, <2>1, <2>2, ContentIs
<1> QED
    BY <1>2, <1>3

(* A value put is the value of its key, and no other's. *)
LEMMA PutIsContent ==
    ASSUME NEW height \in Nat, NEW content, IsContent(content, height), NEW key \in Paths(height), NEW value \in Nat
    PROVE  /\ IsContent(Put(content, key, value), height)
           /\ ValueAt(Put(content, key, value), key) = value
           /\ \A e : e[1] # key => (e \in Put(content, key, value) <=> e \in content)
<1> DEFINE after == Put(content, key, value)
<1>1. \A e : e \in after <=> (e \in content /\ e[1] # key) \/ (value # 0 /\ e = <<key, value>>)
    BY DEF Put
<1>2. <<key, value>>[1] = key /\ <<key, value>>[2] = value
    OBVIOUS
<1> HIDE DEF after
<1>3. IsContent(after, height)
    BY <1>1, <1>2 DEF IsContent
<1>4. ValueAt(after, key) = value
    <2>1. CASE value = 0
        <3>1. \A e \in after : e[1] # key
            BY <1>1, <2>1
        <3> QED
            BY <1>3, <2>1, <3>1, ValueIs
    <2>2. CASE value # 0
        <3>1. <<key, value>> \in after
            BY <1>1, <2>2
        <3> QED
            BY <1>2, <1>3, <3>1, ValueIs
    <2> QED
        BY <2>1, <2>2
<1> QED
    BY <1>1, <1>2, <1>3, <1>4 DEF after

-----------------------------------------------------------------------------
(* The descents. *)

(* Where a descent that starts at n ends, when it may not go past parts.   *)
EndsAt(parts, height, n, m) == m \in n..height /\ m \in parts \union {height} /\ \A i \in n..m - 1 : i \notin parts
End(parts, height, n) ==
    CHOOSE m \in n..height : m \in parts \union {height} /\ \A i \in n..m - 1 : i \notin parts
Starts(parts) == {0} \union {n + 1 : n \in parts}
Long(parts, height) == {n \in Starts(parts) : End(parts, height, n) - n > 1}

(* There is one place where a descent ends. *)
LEMMA EndIs ==
    ASSUME NEW height \in Nat, NEW parts, parts \subseteq 0..height - 1, NEW n \in 0..height
    PROVE  EndsAt(parts, height, n, End(parts, height, n)) /\ \A m : EndsAt(parts, height, n, m) => m = End(parts, height, n)
<1> DEFINE T == {m \in n..height : m \in parts \union {height}}
<1>1. T # {} /\ T \subseteq Nat
    <2>1. height \in T
        OBVIOUS
    <2> QED
        BY <2>1
<1>2. PICK m \in T : \A k \in T : m <= k
    BY <1>1, LeastNumber
<1>3. EndsAt(parts, height, n, m)
    <2>1. ASSUME NEW i \in n..m - 1, i \in parts PROVE FALSE
        <3>1. i \in T /\ ~ (m <= i)
            BY <2>1
        <3> QED
            BY <1>2, <3>1
    <2> QED
        BY <2>1 DEF EndsAt
<1>4. EndsAt(parts, height, n, End(parts, height, n))
    BY <1>3 DEF EndsAt, End
<1>5. ASSUME NEW a, NEW b, EndsAt(parts, height, n, a), EndsAt(parts, height, n, b) PROVE a = b
    <2>1. a \in n..height /\ b \in n..height
        BY <1>5 DEF EndsAt
    <2>2. ASSUME a < b PROVE FALSE
        <3>1. a \in n..b - 1 /\ a # height
            BY <2>1, <2>2
        <3> QED
            BY <1>5, <3>1 DEF EndsAt
    <2>3. ASSUME b < a PROVE FALSE
        <3>1. b \in n..a - 1 /\ b # height
            BY <2>1, <2>3
        <3> QED
            BY <1>5, <3>1 DEF EndsAt
    <2> QED
        BY <2>1, <2>2, <2>3
<1> QED
    BY <1>4, <1>5

(* A map of the descents that start before n, and no other.                *)
Found(descent_map, key, parts, n) ==
    /\ DOMAIN descent_map = {SubSeq(key, 1, k) : k \in {i \in Long(parts, Len(key)) : i < n}}
    /\ \A k \in Long(parts, Len(key)) : k < n =>
          descent_map[SubSeq(key, 1, k)] = SubSeq(key, k + 1, End(parts, Len(key), k))

LEMMA StartsAre ==
    ASSUME NEW height \in Nat, NEW parts, parts \subseteq 0..height - 1
    PROVE  Starts(parts) \subseteq 0..height /\ Long(parts, height) \subseteq Starts(parts)
BY DEF Starts, Long

LEMMA PlacesDiffer ==
    ASSUME NEW key \in Path, NEW m \in 0..Len(key), NEW n \in 0..Len(key), SubSeq(key, 1, m) = SubSeq(key, 1, n)
    PROVE  m = n
<1>1. Len(SubSeq(key, 1, m)) = m /\ Len(SubSeq(key, 1, n)) = n
    BY PlaceOn
<1> QED
    BY <1>1

(* A descent that has come to its end adds itself to the map, when long. *)
LEMMA DescendIs ==
    ASSUME NEW key \in Path, NEW parts, parts \subseteq 0..Len(key) - 1,
           NEW from \in Starts(parts), NEW descent_map, Found(descent_map, key, parts, from),
           NEW to, EndsAt(parts, Len(key), from, to)
    PROVE  Found(Descend(descent_map, key, from, to), key, parts, from + 1)
<1> DEFINE H == Len(key)
           long == Long(parts, H)
           start == SubSeq(key, 1, from)
           after == Descend(descent_map, key, from, to)
<1>1. H \in Nat
    BY DEF Path
<1>2. Starts(parts) \subseteq 0..H /\ long \subseteq 0..H
    BY <1>1, StartsAre
<1>3. to = End(parts, H, from) /\ to \in 0..H
    <2>1. from \in 0..H
        BY <1>2
    <2>2. to = End(parts, H, from)
        BY <1>1, <2>1, EndIs
    <2>3. to \in from..H
        BY DEF EndsAt
    <2> QED
        BY <2>1, <2>2, <2>3
<1>4. from \in long <=> to - from > 1
    BY <1>3 DEF Long
<1>5. CASE to - from > 1
    <2>1. after = [place \in DOMAIN descent_map \union {start} |->
                      IF place = start THEN SubSeq(key, from + 1, to) ELSE descent_map[place]]
        <3>1. ~ (to - from <= 1)
            BY <1>2, <1>3, <1>5
        <3> QED
            BY <3>1 DEF Descend
    <2>2. {i \in long : i < from + 1} = {i \in long : i < from} \union {from}
        BY <1>2, <1>4, <1>5
    <2>3. DOMAIN after = {SubSeq(key, 1, k) : k \in {i \in long : i < from + 1}}
        <3>1. DOMAIN after = DOMAIN descent_map \union {start}
            BY <2>1
        <3>2. DOMAIN descent_map = {SubSeq(key, 1, k) : k \in {i \in long : i < from}}
            BY DEF Found
        <3> HIDE DEF after
        <3> QED
            BY <2>2, <3>1, <3>2
    <2>4. ASSUME NEW k \in long, k < from + 1 PROVE after[SubSeq(key, 1, k)] = SubSeq(key, k + 1, End(parts, H, k))
        <3>1. CASE k = from
            BY <1>3, <2>1, <3>1
        <3>2. CASE k # from
            <4>1. k < from
                BY <1>2, <2>4, <3>2
            <4>2. SubSeq(key, 1, k) # start
                BY <1>2, <3>2, PlacesDiffer
            <4>3. SubSeq(key, 1, k) \in DOMAIN descent_map
                BY <4>1 DEF Found
            <4>4. after[SubSeq(key, 1, k)] = descent_map[SubSeq(key, 1, k)]
                BY <2>1, <4>2, <4>3
            <4> QED
                BY <4>1, <4>4 DEF Found
        <3> QED
            BY <3>1, <3>2
    <2> HIDE DEF after
    <2> QED
        BY <2>3, <2>4 DEF Found, after
<1>6. CASE ~ (to - from > 1)
    <2>1. after = descent_map
        <3>1. to - from <= 1
            BY <1>2, <1>3, <1>6
        <3> QED
            BY <3>1 DEF Descend
    <2>2. from \notin long
        BY <1>4, <1>6
    <2>3. \A i \in long : i < from + 1 <=> i < from
        BY <1>2, <2>2
    <2> HIDE DEF after
    <2> QED
        BY <2>1, <2>3 DEF Found, after
<1> QED
    BY <1>5, <1>6

(* A map of the descents before n is one of those before m when none starts in between. *)
LEMMA FoundFurther ==
    ASSUME NEW key \in Path, NEW parts, parts \subseteq 0..Len(key) - 1, NEW n \in Nat, NEW m \in Nat, n <= m,
           NEW descent_map, Found(descent_map, key, parts, n), \A k \in n..m - 1 : k \notin Starts(parts)
    PROVE  Found(descent_map, key, parts, m)
<1>1. Len(key) \in Nat
    BY DEF Path
<1>2. \A k \in Long(parts, Len(key)) : k < n <=> k < m
    <2>1. \A k \in Long(parts, Len(key)) : k \in Nat /\ k \in Starts(parts)
        <3>1. Starts(parts) \subseteq 0..Len(key) /\ Long(parts, Len(key)) \subseteq Starts(parts)
            BY <1>1, StartsAre
        <3> QED
            BY <1>1, <3>1
    <2>2. \A k \in Nat : n <= k /\ k < m => k \in n..m - 1
        OBVIOUS
    <2> QED
        BY <2>1, <2>2
<1> QED
    BY <1>2 DEF Found

(* GetDescents is what its definition says: such a function exists.        *)
WalkOver(f, key, a, b, n) ==
    IF n = 0 THEN [start |-> 0, found |-> <<>>]
    ELSE IF NothingBeside(key, a, b, n) THEN f[n - 1]
    ELSE [start |-> n, found |-> Descend(f[n - 1].found, key, f[n - 1].start, n - 1)]
IsWalk(f, key, a, b, N) == f = [n \in 0..N |-> WalkOver(f, key, a, b, n)]

(* get_descents' walk is what its definition says: such a function exists. *)
LEMMA WalkExists ==
    ASSUME NEW key, NEW a, NEW b, NEW N \in Nat
    PROVE  \E f : IsWalk(f, key, a, b, N)
<1> DEFINE T == {m \in 0..N : \E f : IsWalk(f, key, a, b, m)}
<1>1. 0 \in T
    <2> DEFINE g == [n \in 0..0 |-> WalkOver(<<>>, key, a, b, 0)]
    <2>1. WalkOver(g, key, a, b, 0) = WalkOver(<<>>, key, a, b, 0)
        BY Zenon DEF WalkOver
    <2>2. g = [n \in 0..0 |-> WalkOver(g, key, a, b, n)]
        BY <2>1
    <2> HIDE DEF g
    <2>3. IsWalk(g, key, a, b, 0)
        BY <2>2 DEF IsWalk
    <2> QED
        BY <2>3
<1>2. ASSUME NEW m \in 0..N, m < N, m \in T PROVE m + 1 \in T
    <2>1. PICK f : IsWalk(f, key, a, b, m)
        BY <1>2
    <2> DEFINE g == [n \in 0..m + 1 |-> IF n = m + 1 THEN WalkOver(f, key, a, b, m + 1) ELSE f[n]]
    <2>2. ASSUME NEW n \in 0..m + 1 PROVE g[n] = WalkOver(g, key, a, b, n)
        <3>1. n # 0 => g[n - 1] = f[n - 1]
            OBVIOUS
        <3>2. WalkOver(g, key, a, b, n) = WalkOver(f, key, a, b, n)
            <4> HIDE DEF g
            <4>1. CASE n = 0
                BY <4>1, Zenon DEF WalkOver
            <4>2. CASE n # 0
                BY <3>1, <4>2, Zenon DEF WalkOver
            <4> QED
                BY <4>1, <4>2
        <3>3. n # m + 1 => f[n] = WalkOver(f, key, a, b, n)
            BY <2>1 DEF IsWalk
        <3>4. g[n] = WalkOver(f, key, a, b, n)
            BY <3>3
        <3> QED
            BY <3>2, <3>4
    <2>3. IsWalk(g, key, a, b, m + 1)
        <3>1. g = [n \in 0..m + 1 |-> g[n]]
            OBVIOUS
        <3> HIDE DEF g
        <3>2. [n \in 0..m + 1 |-> g[n]] = [n \in 0..m + 1 |-> WalkOver(g, key, a, b, n)]
            BY <2>2
        <3> QED
            BY <3>1, <3>2 DEF IsWalk
    <2>4. m + 1 \in 0..N
        BY <1>2
    <2> HIDE DEF g
    <2> QED
        BY <2>3, <2>4
<1>3. N \in T
    <2> HIDE DEF T
    <2> QED
        BY <1>1, <1>2, UpTo
<1> QED
    BY <1>3

LEMMA WalkStep ==
    ASSUME NEW key \in Path, NEW a, NEW b
    PROVE  \A n \in 0..Len(key) : GetDescents(key, a, b)[n] = WalkOver(GetDescents(key, a, b), key, a, b, n)
<1>1. Len(key) \in Nat
    BY DEF Path
<1>2. \E f : IsWalk(f, key, a, b, Len(key))
    BY <1>1, WalkExists
<1>3. GetDescents(key, a, b) = CHOOSE f : IsWalk(f, key, a, b, Len(key))
    BY Zenon DEF GetDescents, IsWalk, WalkOver
<1>4. IsWalk(GetDescents(key, a, b), key, a, b, Len(key))
    BY <1>2, <1>3
<1> QED
    BY <1>4 DEF IsWalk

(* The places where a leaf parts from the key, in either tree.             *)
PartsOf(key, a, b) == {n \in 0..Len(key) - 1 : ~ NothingBeside(key, a, b, n + 1)}

(* What get_descents has found after n bits. *)
LEMMA DescentsSoFar ==
    ASSUME NEW key \in Path, NEW a, NEW b
    PROVE  \A n \in 0..Len(key) :
              LET walk == GetDescents(key, a, b)[n]
              IN  /\ walk.start \in Starts(PartsOf(key, a, b)) /\ walk.start \in 0..n
                  /\ \A i \in walk.start..n - 1 : i \notin PartsOf(key, a, b)
                  /\ Found(walk.found, key, PartsOf(key, a, b), walk.start)
<1> DEFINE H == Len(key)
           parts == PartsOf(key, a, b)
           walk(n) == GetDescents(key, a, b)[n]
           Right(w, n) == /\ w.start \in Starts(parts) /\ w.start \in 0..n
                          /\ \A i \in w.start..n - 1 : i \notin parts
                          /\ Found(w.found, key, parts, w.start)
           T == {n \in 0..H : Right(walk(n), n)}
<1>1. H \in Nat /\ parts \subseteq 0..H - 1
    BY DEF Path, PartsOf
<1>2. Starts(parts) \subseteq 0..H /\ Long(parts, H) \subseteq Starts(parts) /\ 0 \in Starts(parts)
    <2> HIDE DEF parts
    <2> QED
        BY <1>1, StartsAre DEF Starts
<1>3. 0 \in T
    <2>1. walk(0) = [start |-> 0, found |-> <<>>]
        <3>1. 0 \in 0..H
            BY <1>1
        <3> QED
            BY <3>1, WalkStep DEF WalkOver
    <2>2. DOMAIN <<>> = {}
        OBVIOUS
    <2> HIDE DEF parts
    <2>3. \A k \in Long(parts, H) : ~ (k < 0)
        BY <1>1, <1>2
    <2>4. Found(<<>>, key, parts, 0)
        BY <2>2, <2>3 DEF Found
    <2>5. Right(walk(0), 0)
        BY <1>2, <2>1, <2>4
    <2> QED
        BY <1>1, <2>5
<1>4. ASSUME NEW n \in 0..H, n < H, n \in T PROVE n + 1 \in T
    <2> DEFINE w == walk(n)
               v == walk(n + 1)
    <2>1. n + 1 \in 0..H /\ n + 1 # 0 /\ n + 1 - 1 = n /\ n \in 0..H - 1
        BY <1>1, <1>4
    <2>2. v = IF NothingBeside(key, a, b, n + 1) THEN w
              ELSE [start |-> n + 1, found |-> Descend(w.found, key, w.start, n)]
        BY <2>1, WalkStep DEF WalkOver
    <2>3. Right(w, n)
        BY <1>4
    <2>4. n \in parts <=> ~ NothingBeside(key, a, b, n + 1)
        BY <2>1 DEF PartsOf
    <2> HIDE DEF w, v, parts
    <2>5. CASE n \notin parts
        <3>1. v = w
            BY <2>2, <2>4, <2>5
        <3>2. \A i \in w.start..n + 1 - 1 : i \notin parts
            BY <2>1, <2>3, <2>5
        <3>3. w.start \in 0..n + 1
            BY <2>1, <2>3
        <3> QED
            BY <2>1, <2>3, <3>1, <3>2, <3>3 DEF v
    <2>6. CASE n \in parts
        <3>1. v = [start |-> n + 1, found |-> Descend(w.found, key, w.start, n)]
            BY <2>2, <2>4, <2>6
        <3>2. EndsAt(parts, H, w.start, n)
            BY <1>1, <2>1, <2>3, <2>6 DEF EndsAt
        <3>3. Found(v.found, key, parts, w.start + 1)
            BY <1>1, <2>3, <3>1, <3>2, DescendIs
        <3>4. \A k \in w.start + 1..n + 1 - 1 : k \notin Starts(parts)
            <4>1. w.start \in Nat /\ n \in Nat
                BY <2>1, <2>3
            <4>2. ASSUME NEW k \in w.start + 1..n + 1 - 1 PROVE k - 1 \notin parts /\ k # 0
                <5>1. k - 1 \in w.start..n - 1 /\ k # 0
                    BY <4>1
                <5> QED
                    BY <2>3, <5>1
            <4>3. \A j \in parts : j \in Nat
                BY <1>1
            <4> QED
                BY <4>2, <4>3 DEF Starts
        <3>5. Found(v.found, key, parts, n + 1)
            <4> DEFINE from == w.start + 1
                       to == n + 1
            <4>1. from \in Nat /\ to \in Nat /\ from <= to
                BY <2>1, <2>3
            <4>2. Found(v.found, key, parts, from) /\ \A k \in from..to - 1 : k \notin Starts(parts)
                BY <3>3, <3>4
            <4> HIDE DEF from, to
            <4>3. Found(v.found, key, parts, to)
                BY <1>1, <4>1, <4>2, FoundFurther
            <4> QED
                BY <4>3 DEF to
        <3>6. v.start = n + 1 /\ n + 1 \in Starts(parts)
            BY <2>6, <3>1 DEF Starts
        <3>7. Right(v, n + 1)
            BY <2>1, <3>5, <3>6
        <3> QED
            BY <2>1, <3>7 DEF v
    <2> QED
        BY <2>5, <2>6
<1>5. 0..H \subseteq T
    <2> HIDE DEF T
    <2> QED
        BY <1>1, <1>3, <1>4, UpTo
<1> QED
    BY <1>5

(* The descent map has the longest descents, and no other.                 *)
LEMMA DescentsFound ==
    ASSUME NEW key \in Path, NEW a, NEW b
    PROVE  Found(PatriciaGuessDescents(key, a, b), key, PartsOf(key, a, b), Len(key) + 1)
<1> DEFINE H == Len(key)
           parts == PartsOf(key, a, b)
           w == GetDescents(key, a, b)[H]
<1>1. H \in Nat /\ H \in 0..H /\ parts \subseteq 0..H - 1
    BY DEF Path, PartsOf
<1>2. /\ w.start \in Starts(parts) /\ w.start \in 0..H
      /\ \A i \in w.start..H - 1 : i \notin parts
      /\ Found(w.found, key, parts, w.start)
    BY <1>1, DescentsSoFar
<1>3. PatriciaGuessDescents(key, a, b) = Descend(w.found, key, w.start, H)
    BY DEF PatriciaGuessDescents
<1> HIDE DEF w, parts
<1>4. EndsAt(parts, H, w.start, H)
    BY <1>1, <1>2 DEF EndsAt
<1>5. Found(Descend(w.found, key, w.start, H), key, parts, w.start + 1)
    BY <1>1, <1>2, <1>4, DescendIs
<1>6. \A k \in w.start + 1..H + 1 - 1 : k \notin Starts(parts)
    BY <1>1, <1>2 DEF Starts
<1>7. w.start + 1 \in Nat /\ H + 1 \in Nat /\ w.start + 1 <= H + 1
    BY <1>1, <1>2
<1> QED
    BY <1>1, <1>3, <1>5, <1>6, <1>7, FoundFurther DEF parts

-----------------------------------------------------------------------------
(* What the Rust code knows of a write the state server made. *)

(* A write of a value to a key of a content. *)
IsWrite(write) ==
    write.key \in Path /\ IsContent(write.content, Len(write.key)) /\ write.value \in Nat

(* A node is a stored one, not an edge cut on the way.                     *)
Stored(root, key, n) ==
    \/ n = 0
    \/ NodesOn(root, key)[n - 1].kind = "Binary"
    \/ NodesOn(root, key)[n - 1].kind = "Edge" /\ Len(NodesOn(root, key)[n - 1].path) = 1

(* The tree on the way to the key, and what is known of it. *)
Proved(u, root, value) ==
    /\ \A n \in 0..Len(u.key) : Shape(NodesOn(root, u.key)[n], Len(u.key) - n)
    /\ LeafOn(root, u.key) = Felt(value)
    /\ \A n \in 0..Len(u.key) - 1 :
          NodesOn(root, u.key)[n].kind # "Felt" /\ Stored(root, u.key, n) => NodesOn(root, u.key)[n] \in u.preimage

IsHonest(u) ==
    /\ u.honest = TRUE /\ u.key \in Path
    /\ \A n \in 1..Len(u.key) : Sibling(u.prev_root, u.key, n) = Sibling(u.new_root, u.key, n)
    /\ Proved(u, u.prev_root, u.prev_value) /\ Proved(u, u.new_root, u.new_value)
    /\ Found(u.descent_map, u.key, PartsOf(u.key, u.prev_root, u.new_root), Len(u.key) + 1)

(* The proof of a key has all the walks need of the tree. *)
LEMMA TreeIsProved ==
    ASSUME NEW height \in Nat, NEW content, IsContent(content, height),
           NEW u, u.key \in Path, Len(u.key) = height, Proof(TreeOf(content, height), u.key) \subseteq u.preimage
    PROVE  Proved(u, TreeOf(content, height), ValueAt(content, u.key))
<1> DEFINE root == TreeOf(content, height)
           key == u.key
<1>1. ASSUME NEW n \in 0..height PROVE Shape(NodesOn(root, key)[n], height - n)
    <2>1. NodesOn(root, key)[n] = NodeAt(content, height, SubSeq(key, 1, n))
        BY OnTheWay
    <2>2. SubSeq(key, 1, n) \in Path /\ Len(SubSeq(key, 1, n)) = n
        BY PlaceOn
    <2>3. n <= height
        OBVIOUS
    <2> QED
        BY <2>1, <2>2, <2>3, NodeShape
<1>2. LeafOn(root, key) = Felt(ValueAt(content, key))
    BY LeafOfTree
<1>3. ASSUME NEW n \in 0..Len(key) - 1, NodesOn(root, key)[n].kind # "Felt", Stored(root, key, n)
      PROVE  NodesOn(root, key)[n] \in Proof(root, key)
    <2> HIDE DEF root, key
    <2> QED
        BY <1>3 DEF Proof, Stored
<1> QED
    BY <1>1, <1>2, <1>3 DEF Proved

(* A write leaves what is beside the way to its key as it was. *)
LEMMA SiblingsStay ==
    ASSUME NEW height \in Nat, NEW content, IsContent(content, height), NEW key \in Path, Len(key) = height,
           NEW value \in Nat, NEW n \in 1..height
    PROVE  Sibling(TreeOf(content, height), key, n) = Sibling(TreeOf(Put(content, key, value), height), key, n)
<1> DEFINE after == Put(content, key, value)
<1>1. key \in Paths(height)
    BY PathsArePaths
<1>2. IsContent(after, height) /\ \A e : e[1] # key => (e \in after <=> e \in content)
    BY <1>1, PutIsContent
<1> HIDE DEF after
<1>3. Aside(key, n) \in Path /\ Len(Aside(key, n)) = n /\ ~ Through(key, Aside(key, n))
    BY AsideIs
<1>4. \A e : e[1] \in Path /\ Through(e[1], Aside(key, n)) => (e \in content <=> e \in after)
    BY <1>2, <1>3
<1>5. n <= height
    OBVIOUS
<1>6. NodeAt(content, height, Aside(key, n)) = NodeAt(after, height, Aside(key, n))
    BY <1>2, <1>3, <1>4, <1>5, SameBelow
<1> QED
    BY <1>2, <1>6, BesideTheWay DEF after

(* What build_descent_map makes of a write is what the lemmas below need. *)
LEMMA HonestUpdateIs ==
    ASSUME NEW write, IsWrite(write)
    PROVE  IsHonest(HonestUpdate(write))
<1> DEFINE u == HonestUpdate(write)
           key == write.key
           H == Len(key)
           before == write.content
           after == Put(before, key, write.value)
           a == TreeOf(before, H)
           b == TreeOf(after, H)
<1>1. H \in Nat /\ key \in Path /\ key \in Paths(H) /\ IsContent(before, H) /\ write.value \in Nat
    BY KeyIsAPath DEF IsWrite
<1>2. IsContent(after, H) /\ ValueAt(after, key) = write.value
    <2> HIDE DEF H, key, before
    <2> QED
        BY <1>1, PutIsContent
<1>3. /\ u.honest = TRUE /\ u.key = key /\ u.prev_root = a /\ u.new_root = b
      /\ u.prev_value = ValueAt(before, key) /\ u.new_value = write.value
      /\ u.preimage = Proof(a, key) \union Proof(b, key)
      /\ u.descent_map = PatriciaGuessDescents(key, a, b)
    BY DEF HonestUpdate, Preimage, GeneratePreimage
<1> HIDE DEF u, H, key, before
<1>4. \A n \in 1..H : Sibling(a, key, n) = Sibling(b, key, n)
    BY <1>1, SiblingsStay DEF H
<1> HIDE DEF after
<1>5. Proved(u, a, ValueAt(before, key)) /\ Proved(u, b, ValueAt(after, key))
    BY <1>1, <1>2, <1>3, TreeIsProved DEF H
<1> HIDE DEF a, b
<1>6. Found(PatriciaGuessDescents(key, a, b), key, PartsOf(key, a, b), H + 1)
    BY <1>1, DescentsFound DEF H
<1>7. Len(u.key) = H
    BY <1>3 DEF H
<1> QED
    BY <1>1, <1>2, <1>3, <1>4, <1>5, <1>6, <1>7 DEF IsHonest, u

-----------------------------------------------------------------------------
(* What the update module assumes of the writes it is given is so of every *)
(* write: no constant of the model is asked for more than the code gives.  *)

(* No felt but zero stands above the leaves of a tree. *)
LEMMA TreesHashNoNumbers ==
    ASSUME NEW height \in Nat, NEW content, IsContent(content, height)
    PROVE  HashesAreNoNumbers(TreeOf(content, height), height)
<1> DEFINE root == TreeOf(content, height)
<1>1. ASSUME NEW n \in 0..height - 1, NEW place \in Paths(n), LeafOn(root, place).kind = "Felt"
      PROVE  LeafOn(root, place).n = 0
    <2> DEFINE path == [i \in 1..height |-> IF i \in 1..n THEN place[i] ELSE 0]
    <2>1. n \in Nat /\ n \in 0..height /\ n <= height /\ height - n > 0 /\ height - n # 0
        OBVIOUS
    <2>2. place \in Path /\ Len(place) = n /\ \A i \in 1..n : place[i] \in {0, 1}
        BY <2>1, PathsArePaths DEF Paths
    <2>3. path \in Paths(height) /\ \A i \in 1..n : path[i] = place[i]
        BY <2>1, <2>2 DEF Paths
    <2> HIDE DEF path
    <2>4. path \in Path /\ Len(path) = height
        BY <2>3, PathsArePaths
    <2>5. LeafOn(root, place) = NodesOn(root, path)[n]
        <3>1. \A m \in 0..n : NodesOn(root, place)[m] = NodesOn(root, path)[m]
            BY <2>1, <2>2, <2>3, <2>4, SameWay
        <3> QED
            BY <2>1, <2>2, <3>1 DEF LeafOn
    <2>6. NodesOn(root, path)[n] = NodeAt(content, height, SubSeq(path, 1, n))
        BY <2>1, <2>4, OnTheWay
    <2>7. SubSeq(path, 1, n) \in Path /\ Len(SubSeq(path, 1, n)) = n
        BY <2>1, <2>4, PlaceOn
    <2> DEFINE node == LeafOn(root, place)
    <2>8. Shape(node, height - n) /\ node.kind = "Felt"
        BY <1>1, <2>1, <2>5, <2>6, <2>7, NodeShape
    <2> HIDE DEF node
    <2>9. node = Zero
        BY <2>1, <2>8, Kinds DEF Shape
    <2> QED
        BY <2>9, Kinds DEF node
<1> QED
    BY <1>1 DEF HashesAreNoNumbers

(* A descent recorded goes down by bits, at least one. *)
LEMMA DescentsAreBits ==
    ASSUME NEW u, IsHonest(u), NEW place \in DOMAIN u.descent_map
    PROVE  u.descent_map[place] \in Path \ {<<>>}
<1> DEFINE H == Len(u.key)
           parts == PartsOf(u.key, u.prev_root, u.new_root)
<1>1. u.key \in Path /\ H \in Nat /\ Found(u.descent_map, u.key, parts, H + 1)
    BY DEF IsHonest, Path
<1>2. parts \subseteq 0..H - 1
    BY DEF PartsOf
<1> HIDE DEF parts
<1>3. PICK k \in Long(parts, H) : k < H + 1 /\ place = SubSeq(u.key, 1, k)
    BY <1>1 DEF Found
<1>4. u.descent_map[place] = SubSeq(u.key, k + 1, End(parts, H, k))
    BY <1>1, <1>3 DEF Found
<1>5. k \in 0..H
    BY <1>1, <1>2, <1>3, StartsAre
<1>6. End(parts, H, k) \in k..H /\ End(parts, H, k) - k > 1
    <2>1. EndsAt(parts, H, k, End(parts, H, k))
        BY <1>1, <1>2, <1>5, EndIs
    <2> QED
        BY <1>3, <2>1 DEF EndsAt, Long
<1>7. ASSUME NEW m \in k..H, m - k > 1 PROVE SubSeq(u.key, k + 1, m) \in Path \ {<<>>}
    <2>1. SubSeq(u.key, k + 1, m) \in Seq({0, 1}) /\ Len(SubSeq(u.key, k + 1, m)) = m - k
        BY <1>1, <1>5, <1>7 DEF Path
    <2>2. Len(SubSeq(u.key, k + 1, m)) # 0
        BY <1>5, <1>7, <2>1
    <2>3. \A s : Len(s) # 0 => s # <<>>
        OBVIOUS
    <2>4. SubSeq(u.key, k + 1, m) # <<>>
        BY <2>2, <2>3
    <2>5. SubSeq(u.key, k + 1, m) \in Path
        BY <2>1 DEF Path
    <2> QED
        BY <2>4, <2>5
<1> QED
    BY <1>4, <1>6, <1>7

(* What build_descent_map makes of a write: an update of the tree that     *)
(* holds the content to the one that holds it with the value put, from the *)
(* value of the key to the one written, and all that UpdatesAssumption     *)
(* asks of an update.                                                      *)
THEOREM AWriteIsAnUpdate ==
    ASSUME NEW write, IsWrite(write)
    PROVE  LET u == HonestUpdate(write) IN
           /\ Content(u.prev_root, Len(u.key)) = write.content
           /\ Content(u.new_root, Len(u.key)) = Put(write.content, write.key, write.value)
           /\ LeafOn(u.prev_root, u.key) = Felt(u.prev_value) /\ LeafOn(u.new_root, u.key) = Felt(u.new_value)
           /\ u.honest = TRUE /\ u.key \in Path
           /\ HashesAreNoNumbers(u.prev_root, Len(u.key)) /\ HashesAreNoNumbers(u.new_root, Len(u.key))
           /\ \A place \in DOMAIN u.descent_map : u.descent_map[place] \in Path \ {<<>>}
<1> DEFINE u == HonestUpdate(write)
           key == write.key
           H == Len(key)
           before == write.content
           after == Put(before, key, write.value)
<1>1. H \in Nat /\ key \in Path /\ key \in Paths(H) /\ IsContent(before, H) /\ write.value \in Nat
    BY KeyIsAPath DEF IsWrite
<1>2. u.key = key /\ u.prev_root = TreeOf(before, H) /\ u.new_root = TreeOf(after, H)
    BY DEF HonestUpdate
<1>3. IsHonest(u)
    BY HonestUpdateIs
<1> HIDE DEF u, H, key, before
<1>4. IsContent(after, H)
    BY <1>1, PutIsContent
<1> HIDE DEF after
<1>5. Len(u.key) = H
    BY <1>2 DEF H
<1>6. Content(u.prev_root, H) = before /\ Content(u.new_root, H) = after
    BY <1>1, <1>2, <1>4, ContentOfTree
<1>7. HashesAreNoNumbers(u.prev_root, H) /\ HashesAreNoNumbers(u.new_root, H)
    BY <1>1, <1>2, <1>4, TreesHashNoNumbers
<1>8. LeafOn(u.prev_root, u.key) = Felt(u.prev_value) /\ LeafOn(u.new_root, u.key) = Felt(u.new_value)
    BY <1>3 DEF IsHonest, Proved
<1>9. \A place \in DOMAIN u.descent_map : u.descent_map[place] \in Path \ {<<>>}
    BY <1>3, DescentsAreBits
<1>10. u.honest = TRUE
    BY <1>3 DEF IsHonest
<1>11. /\ Content(u.prev_root, Len(u.key)) = before /\ Content(u.new_root, Len(u.key)) = after
       /\ HashesAreNoNumbers(u.prev_root, Len(u.key)) /\ HashesAreNoNumbers(u.new_root, Len(u.key))
    BY <1>5, <1>6, <1>7
<1> QED
    BY <1>1, <1>2, <1>8, <1>9, <1>10, <1>11 DEF u, key, before, after

-----------------------------------------------------------------------------
(* The descents are those the property names. *)

AgreeTo(p, key, n) == \A i \in 1..n : p[i] = key[i]

(* The common prefixes of two paths are what they agree in. *)
LEMMA PrefixesAre ==
    ASSUME NEW p \in Path, NEW key \in Path, Len(p) = Len(key), NEW s
    PROVE  s \in CommonPrefixes({p, key}) <=> \E m \in 0..Len(key) : s = SubSeq(key, 1, m) /\ AgreeTo(p, key, m)
<1>1. \A q \in Path : \A m \in 0..Len(q) :
         /\ SubSeq(q, 1, m) \in Path /\ Len(SubSeq(q, 1, m)) = m
         /\ \A i \in 1..m : SubSeq(q, 1, m)[i] = q[i]
    BY PlaceOn
<1>2. Len(key) \in Nat
    BY KeyIsAPath
<1>3. \A m \in 0..Len(key) : AgreeTo(p, key, m) <=> SubSeq(p, 1, m) = SubSeq(key, 1, m)
    <2>1. ASSUME NEW m \in 0..Len(key), AgreeTo(p, key, m) PROVE SubSeq(p, 1, m) = SubSeq(key, 1, m)
        <3> DEFINE a == SubSeq(p, 1, m)
                   b == SubSeq(key, 1, m)
        <3>1. a \in Path /\ Len(a) = m /\ (\A i \in 1..m : a[i] = p[i]) /\ b \in Path /\ Len(b) = m /\ (\A i \in 1..m : b[i] = key[i])
            BY <1>1
        <3> HIDE DEF a, b
        <3>2. a = b
            BY <2>1, <3>1, SamePath DEF AgreeTo
        <3> QED
            BY <3>2 DEF a, b
    <2>2. ASSUME NEW m \in 0..Len(key), SubSeq(p, 1, m) = SubSeq(key, 1, m) PROVE AgreeTo(p, key, m)
        BY <1>1, <2>2 DEF AgreeTo
    <2> QED
        BY <2>1, <2>2
<1>4. ASSUME NEW t \in {p, key}, NEW m \in 0..Len(key)
      PROVE  \A u \in {p, key} : IsPrefix(SubSeq(t, 1, m), u) <=> SubSeq(t, 1, m) = SubSeq(u, 1, m)
    <2>1. Len(SubSeq(t, 1, m)) = m
        BY <1>1
    <2>2. SubSeq(SubSeq(t, 1, m), 1, m) = SubSeq(t, 1, m)
        <3> DEFINE a == SubSeq(t, 1, m)
                   b == SubSeq(a, 1, m)
        <3>1. a \in Path /\ Len(a) = m
            BY <1>1
        <3>2. b \in Path /\ Len(b) = m /\ \A i \in 1..m : b[i] = a[i]
            <4> HIDE DEF a
            <4>1. m \in 0..Len(a)
                BY <1>2, <3>1
            <4> QED
                BY <1>1, <3>1, <4>1
        <3> HIDE DEF a, b
        <3>3. b = a
            BY <3>1, <3>2, SamePath
        <3> QED
            BY <3>3 DEF a, b
    <2> QED
        BY <2>1, <2>2 DEF IsPrefix
<1>5. ASSUME s \in CommonPrefixes({p, key}) PROVE \E m \in 0..Len(key) : s = SubSeq(key, 1, m) /\ AgreeTo(p, key, m)
    <2>1. PICK t \in {p, key} : s \in Prefixes(t)
        BY <1>5 DEF CommonPrefixes
    <2>2. PICK m \in 0..Len(key) : s = SubSeq(t, 1, m)
        BY <2>1 DEF Prefixes
    <2>3. IsPrefix(s, p) /\ IsPrefix(s, key)
        BY <1>5 DEF CommonPrefixes
    <2>4. s = SubSeq(p, 1, m) /\ s = SubSeq(key, 1, m)
        BY <1>4, <2>2, <2>3
    <2> QED
        BY <1>3, <2>4
<1>6. ASSUME NEW m \in 0..Len(key), s = SubSeq(key, 1, m), AgreeTo(p, key, m) PROVE s \in CommonPrefixes({p, key})
    <2>1. s \in Prefixes(key)
        BY <1>6 DEF Prefixes
    <2>2. SubSeq(key, 1, m) = SubSeq(p, 1, m)
        BY <1>3, <1>6
    <2>3. IsPrefix(s, p) /\ IsPrefix(s, key)
        BY <1>4, <1>6, <2>2
    <2> QED
        BY <2>1, <2>3 DEF CommonPrefixes
<1> QED
    BY <1>5, <1>6

(* The longest is as long as they agree, and they part right after it. *)
LEMMA CommonPrefixIs ==
    ASSUME NEW p \in Path, NEW key \in Path, Len(p) = Len(key), NEW n \in 0..Len(key) - 1
    PROVE  Len(LongestCommonPrefix({p, key})) = n <=> AgreeTo(p, key, n) /\ p[n + 1] # key[n + 1]
<1>1. Len(key) \in Nat
    BY KeyIsAPath
<1> DEFINE H == Len(key)
           C == CommonPrefixes({p, key})
           L == LongestCommonPrefix({p, key})
<1>2. \A s : s \in C <=> \E m \in 0..H : s = SubSeq(key, 1, m) /\ AgreeTo(p, key, m)
    BY PrefixesAre
<1>3. \A m \in 0..H : Len(SubSeq(key, 1, m)) = m
    BY PlaceOn
<1>4. L = CHOOSE longest \in C : \A other \in C : Len(other) <= Len(longest)
    BY Zenon DEF LongestCommonPrefix
<1> HIDE DEF C, L
<1>5. \E longest \in C : \A other \in C : Len(other) <= Len(longest)
    <2> DEFINE T == {m \in 0..H : AgreeTo(p, key, H - m)}
    <2>1. H \in T
        BY <1>1 DEF AgreeTo
    <2>2. PICK k \in T : \A m \in T : k <= m
        <3>1. T # {} /\ T \subseteq Nat
            BY <2>1
        <3> QED
            BY <3>1, LeastNumber
    <2>3. \A m \in 0..H : AgreeTo(p, key, m) => m <= H - k
        <3>1. ASSUME NEW m \in 0..H, AgreeTo(p, key, m) PROVE m <= H - k
            <4>1. H - m \in 0..H /\ H - (H - m) = m
                BY <1>1
            <4>2. H - m \in T
                BY <3>1, <4>1
            <4>3. k <= H - m /\ k \in 0..H
                BY <2>2, <4>2
            <4> QED
                BY <1>1, <4>3
        <3> QED
            BY <3>1
    <2>4. H - k \in 0..H /\ AgreeTo(p, key, H - k)
        BY <1>1
    <2>5. SubSeq(key, 1, H - k) \in C
        BY <1>2, <2>4
    <2>6. \A other \in C : Len(other) <= H - k
        BY <1>2, <1>3, <2>3
    <2> QED
        BY <1>3, <2>4, <2>5, <2>6
<1>6. L \in C /\ \A other \in C : Len(other) <= Len(L)
    BY <1>4, <1>5
<1>7. PICK m \in 0..H : L = SubSeq(key, 1, m) /\ AgreeTo(p, key, m) /\ Len(L) = m
    BY <1>2, <1>3, <1>6
<1>8. \A k \in 0..H : AgreeTo(p, key, k) => k <= m
    BY <1>2, <1>3, <1>6, <1>7
<1>9. ASSUME m = n PROVE AgreeTo(p, key, n) /\ p[n + 1] # key[n + 1]
    <2>1. ASSUME p[n + 1] = key[n + 1] PROVE FALSE
        <3>1. n + 1 \in 0..H /\ ~ (n + 1 <= m) /\ \A i \in 1..n + 1 : i \in 1..n \/ i = n + 1
            BY <1>1, <1>9
        <3>2. AgreeTo(p, key, n + 1)
            BY <1>7, <1>9, <2>1, <3>1 DEF AgreeTo
        <3> QED
            BY <1>8, <3>1, <3>2
    <2> QED
        BY <1>7, <1>9, <2>1
<1>10. ASSUME AgreeTo(p, key, n), p[n + 1] # key[n + 1] PROVE m = n
    <2>1. n \in 0..H
        BY <1>1
    <2>2. n <= m
        BY <1>8, <1>10, <2>1
    <2>3. ASSUME n < m PROVE FALSE
        <3>1. n + 1 \in 1..m
            BY <1>1, <2>3
        <3> QED
            BY <1>7, <1>10, <3>1 DEF AgreeTo
    <2> QED
        BY <1>1, <2>2, <2>3
<1>11. Len(L) = m
    BY <1>7
<1> QED
    BY <1>9, <1>10, <1>11 DEF L

(* The paths of the leaves of both trees, and where they part from the key. *)
LeafPaths(u) == {e[1] : e \in Content(u.prev_root, Len(u.key)) \union Content(u.new_root, Len(u.key))}
Partings(paths, key) == {n \in 0..Len(key) - 1 : \E p \in paths : Len(LongestCommonPrefix({p, key})) = n}

(* A leaf of either tree parts from the key where a sibling is.            *)
LEMMA PartsAreParts ==
    ASSUME NEW write, IsWrite(write), NEW u, u = HonestUpdate(write)
    PROVE  PartsOf(u.key, u.prev_root, u.new_root) = Partings(LeafPaths(u), u.key)
<1> DEFINE paths == LeafPaths(u)
<1> DEFINE key == write.key
           H == Len(key)
           C == write.content
           D == Put(C, key, write.value)
<1>1. /\ key \in Path /\ H \in Nat /\ IsContent(C, H) /\ write.value \in Nat /\ key \in Paths(H)
    BY KeyIsAPath DEF IsWrite
<1>2. IsContent(D, H)
    BY <1>1, PutIsContent
<1>3. u.key = key /\ u.prev_root = TreeOf(C, H) /\ u.new_root = TreeOf(D, H)
    BY DEF HonestUpdate
<1>4. Content(u.prev_root, H) = C /\ Content(u.new_root, H) = D
    BY <1>1, <1>2, <1>3, ContentOfTree
<1>5. paths = {e[1] : e \in C \union D}
    BY <1>3, <1>4 DEF LeafPaths
<1>6. \A e \in C \union D : e[1] \in Path /\ Len(e[1]) = H
    <2>1. \A e \in C \union D : e[1] \in Paths(H)
        BY <1>1, <1>2 DEF IsContent
    <2> QED
        BY <1>1, <2>1, PathsArePaths
<1> HIDE DEF D, C, H, key, paths
<1>7. ASSUME NEW n \in 0..H - 1
      PROVE  ~ NothingBeside(key, u.prev_root, u.new_root, n + 1) <=> \E p \in paths : Len(LongestCommonPrefix({p, key})) = n
    <2> DEFINE Parting(e) == (\A i \in 1..n : e[1][i] = key[i]) /\ e[1][n + 1] # key[n + 1]
    <2>1. n + 1 \in 1..H /\ n + 1 - 1 = n
        BY <1>1
    <2>2. Len(key) = H
        BY DEF H
    <2>3. Sibling(TreeOf(C, H), key, n + 1) # Zero <=> \E e \in C : Parting(e)
        BY <1>1, <2>1, <2>2, BesideTheWay
    <2>4. Sibling(TreeOf(D, H), key, n + 1) # Zero <=> \E e \in D : Parting(e)
        BY <1>1, <1>2, <2>1, <2>2, BesideTheWay
    <2>5. \A e \in C \union D : Len(LongestCommonPrefix({e[1], key})) = n <=> Parting(e)
        BY <1>1, <1>6, <2>2, CommonPrefixIs DEF AgreeTo
    <2> HIDE DEF Parting
    <2>6. ~ NothingBeside(key, u.prev_root, u.new_root, n + 1) <=> \E e \in C \union D : Parting(e)
        BY <1>3, <2>3, <2>4 DEF NothingBeside
    <2>7. (\E p \in paths : Len(LongestCommonPrefix({p, key})) = n) <=> \E e \in C \union D : Len(LongestCommonPrefix({e[1], key})) = n
        BY <1>5
    <2> QED
        BY <2>5, <2>6, <2>7
<1> QED
    BY <1>3, <1>7 DEF PartsOf, Partings, paths, H

(* What HonestUpdates stands for: writes the state server made of a content, *)
(* with the hints of the Rust code for them.                                *)
HonestUpdatesAreWrites == \A u \in HonestUpdates : \E write : IsWrite(write) /\ u = HonestUpdate(write)

(* The update checked stays the one the walks began with. *)
JobStays == job.honest => job \in HonestUpdates

LEMMA JobStaysAlways == Spec => []JobStays
<1>1. Init => JobStays
    BY DEF Init, JobStays, AnyUpdate
<1>2. JobStays /\ [Next]_vars => JobStays'
    BY DEF JobStays, Next, vars, StepEmpty, StepEdge, StepBinaryOrLeaf, StepNonEmpty, Step, Fail, EndPrev, EndNew
<1> QED
    BY <1>1, <1>2, PTL DEF Spec

LEMMA DescentsOfAWrite == ASSUME HonestUpdatesAreWrites, JobStays PROVE DescentsAreLongest
<1> SUFFICES ASSUME job.honest PROVE DescentsAreLongest
    BY DEF DescentsAreLongest
<1> DEFINE key == job.key
           paths == {e[1] : e \in Before \union After}
           parts == {n \in 0..Len(key) - 1 :
                        \E p \in paths : Len(LongestCommonPrefix({p, key})) = n}
<1>1. PICK write : IsWrite(write) /\ job = HonestUpdate(write)
    BY DEF HonestUpdatesAreWrites, JobStays
<1>2. parts = PartsOf(key, job.prev_root, job.new_root)
    <2>1. PartsOf(key, job.prev_root, job.new_root) = Partings(LeafPaths(job), key)
        BY <1>1, PartsAreParts
    <2>2. LeafPaths(job) = paths
        BY DEF LeafPaths, Before, After
    <2> HIDE DEF paths
    <2> QED
        BY <2>1, <2>2 DEF Partings
<1>3. Found(job.descent_map, key, parts, Len(key) + 1) /\ key \in Path
    BY <1>1, <1>2, HonestUpdateIs DEF IsHonest
<1>4. Len(key) \in Nat /\ parts \subseteq 0..Len(key) - 1
    BY <1>3, KeyIsAPath
<1> HIDE DEF parts
<1>5. Long(parts, Len(key)) \subseteq 0..Len(key)
    BY <1>4, StartsAre
<1>6. /\ DOMAIN job.descent_map = {SubSeq(key, 1, n) : n \in Long(parts, Len(key))}
      /\ \A n \in Long(parts, Len(key)) : job.descent_map[SubSeq(key, 1, n)] = SubSeq(key, n + 1, End(parts, Len(key), n))
    <2>1. \A n \in Long(parts, Len(key)) : n < Len(key) + 1
        BY <1>4, <1>5
    <2>2. {i \in Long(parts, Len(key)) : i < Len(key) + 1} = Long(parts, Len(key))
        BY <2>1
    <2> HIDE DEF key
    <2> QED
        BY <1>3, <2>1, <2>2 DEF Found
<1> QED
    BY <1>6, Zenon DEF DescentsAreLongest, parts, paths, Long, Starts, End, key

(* For a write to a content of any size, under a key of any length: each   *)
(* descent that get_descents records goes on for as long as no leaf of the *)
(* tree before or after leaves the way to the key, and none is missing.    *)
THEOREM DescentsAreLongestCorrect == ASSUME HonestUpdatesAreWrites PROVE Spec => []DescentsAreLongest
<1>1. JobStays => DescentsAreLongest
    BY DescentsOfAWrite
<1> QED
    BY <1>1, JobStaysAlways, PTL

-----------------------------------------------------------------------------
(* The writes of zero that expose a binary node. *)

(* One side of an edge is the rest of it, the other is empty.              *)
LEMMA EdgeChildren ==
    ASSUME NEW p \in Path \ {<<>>}, NEW bottom
    PROVE  /\ Head(p) \in {0, 1} /\ Head(p) = p[1]
           /\ Child(Edge(p, bottom), Head(p)) = Cut(Edge(p, bottom))
           /\ Child(Edge(p, bottom), 1 - Head(p)) = Zero
           /\ Len(p) = 1 => Cut(Edge(p, bottom)) = bottom
<1>1. Head(p) \in {0, 1} /\ Head(p) = p[1]
    BY DEF Path
<1>2. GetChildren(Edge(p, bottom)) = IF Head(p) = 0 THEN <<Cut(Edge(p, bottom)), Zero>> ELSE <<Zero, Cut(Edge(p, bottom))>>
    BY Kinds DEF GetChildren
<1>3. Len(p) = 1 => Cut(Edge(p, bottom)) = bottom
    BY Kinds DEF Cut
<1> QED
    BY <1>1, <1>2, <1>3 DEF Child

(* An edge of one bit that the key leaves, its bottom above the leaves.    *)
Exposes(node, bit) == node.kind = "Edge" /\ Len(node.path) = 1 /\ Head(node.path) # bit

(* A node exposes its binary child when the other child is empty. *)
LEMMA ExposedBinary ==
    ASSUME NEW left \in Nat \ {0}, NEW a, NEW b, Shape(a, left), Shape(b, left), NEW bit \in {0, 1}
    PROVE  Exposes(Join(a, b), bit) <=> Child(Join(a, b), bit) = Zero /\ Child(Join(a, b), 1 - bit).kind = "Binary"
<1> DEFINE node == Join(a, b)
<1>1. /\ Shape(node, left + 1) /\ Child(node, 0) = a /\ Child(node, 1) = b
    BY JoinIs
<1>2. ASSUME Exposes(node, bit) PROVE Child(node, bit) = Zero /\ Child(node, 1 - bit).kind = "Binary"
    <2>1. PICK p, bottom :
            /\ p \in Path \ {<<>>}
            /\ node = Edge(p, bottom) /\ Len(p) <= left + 1
            /\ bottom.kind = IF Len(p) = left + 1 THEN "Felt" ELSE "Binary"
        BY <1>1, <1>2, Kinds DEF Shape, Exposes
    <2>2. Len(p) = 1 /\ Head(p) # bit
        BY <1>2, <2>1, Kinds DEF Exposes
    <2>3. Head(p) = 1 - bit /\ 1 - Head(p) = bit
        BY <2>1, <2>2, EdgeChildren
    <2>4. Child(node, bit) = Zero /\ Child(node, 1 - bit) = bottom
        BY <2>1, <2>2, <2>3, EdgeChildren
    <2>5. bottom.kind = "Binary"
        BY <2>1, <2>2
    <2> QED
        BY <2>4, <2>5
<1>3. ASSUME Child(node, bit) = Zero, Child(node, 1 - bit).kind = "Binary" PROVE Exposes(node, bit)
    <2>1. PICK off : off.kind = "Binary" /\ off # Zero /\ node = EdgeTo(1 - bit, off)
        <3>1. Zero.kind # "Binary"
            BY Kinds
        <3>2. CASE bit = 0
            BY <1>1, <1>3, <3>1, <3>2 DEF Join
        <3>3. CASE bit = 1
            BY <1>1, <1>3, <3>1, <3>3 DEF Join
        <3> QED
            BY <3>2, <3>3
    <2>2. node = Edge(<<1 - bit>>, off)
        BY <2>1 DEF EdgeTo
    <2> QED
        BY <2>2, Kinds DEF Exposes
<1> QED
    BY <1>2, <1>3

(* To agree in m bits is to have one prefix of m bits. *)
LEMMA AgreeIs ==
    ASSUME NEW p \in Path, NEW key \in Path, Len(p) = Len(key), NEW m \in 0..Len(key)
    PROVE  /\ AgreeTo(p, key, m) <=> SubSeq(p, 1, m) = SubSeq(key, 1, m)
           /\ AgreeTo(p, key, m) <=> Through(p, SubSeq(key, 1, m))
<1>1. /\ SubSeq(p, 1, m) \in Path /\ Len(SubSeq(p, 1, m)) = m /\ \A i \in 1..m : SubSeq(p, 1, m)[i] = p[i]
      /\ SubSeq(key, 1, m) \in Path /\ Len(SubSeq(key, 1, m)) = m /\ \A i \in 1..m : SubSeq(key, 1, m)[i] = key[i]
    BY PlaceOn
<1> DEFINE a == SubSeq(p, 1, m)
           b == SubSeq(key, 1, m)
<1> HIDE DEF a, b
<1>2. /\ a \in Path /\ Len(a) = m /\ (\A i \in 1..m : a[i] = p[i])
      /\ b \in Path /\ Len(b) = m /\ (\A i \in 1..m : b[i] = key[i])
    BY <1>1 DEF a, b
<1>3. AgreeTo(p, key, m) => a = b
    BY <1>2, SamePath DEF AgreeTo
<1>4. a = b => AgreeTo(p, key, m)
    BY <1>2 DEF AgreeTo
<1>5. AgreeTo(p, key, m) <=> Through(p, b)
    BY <1>2 DEF AgreeTo, Through
<1> QED
    BY <1>3, <1>4, <1>5 DEF a, b

(* What lies below the place the key leaves. *)
LEMMA ExposedPlace ==
    ASSUME NEW height \in Nat, NEW content, IsContent(content, height), NEW key \in Path, Len(key) = height,
           NEW n \in 0..height - 2
    PROVE  Exposes(NodesOn(TreeOf(content, height), key)[n], key[n + 1]) <=>
              /\ \A e \in content : ~ AgreeTo(e[1], key, n + 1)
              /\ \A bit \in {0, 1} : \E e \in content : AgreeTo(e[1], key, n) /\ e[1][n + 2] = bit
<1> DEFINE place == SubSeq(key, 1, n)
           on == Append(place, key[n + 1])
           off == Append(place, 1 - key[n + 1])
           At(p) == NodeAt(content, height, p)
<1>1. /\ n \in 0..height /\ n + 1 \in 0..height /\ n \in 0..height - 1 /\ n + 1 \in Nat /\ n + 2 <= height
      /\ height - (n + 1) \in Nat \ {0}
    OBVIOUS
<1>2. place \in Path /\ Len(place) = n /\ key[n + 1] \in {0, 1} /\ 1 - key[n + 1] \in {0, 1} /\ on = SubSeq(key, 1, n + 1)
    <2>1. place \in Path /\ Len(place) = n
        BY <1>1, PlaceOn
    <2>2. key[n + 1] \in {0, 1} /\ on = SubSeq(key, 1, n + 1)
        BY <1>1, PlaceAfter
    <2> QED
        BY <2>1, <2>2
<1>3. NodesOn(TreeOf(content, height), key)[n] = At(place)
    BY <1>1, OnTheWay
<1>4. \A e \in content : e[1] \in Path /\ Len(e[1]) = height /\ e[1][n + 1] \in {0, 1} /\ e[1][n + 2] \in {0, 1}
    <2>1. \A e \in content : e[1] \in Path /\ Len(e[1]) = height
        BY PathsArePaths DEF IsContent
    <2> QED
        BY <2>1 DEF Path
<1>5. \A e \in content : /\ AgreeTo(e[1], key, n) <=> Through(e[1], place)
                         /\ AgreeTo(e[1], key, n + 1) <=> Through(e[1], on)
    <2>1. \A p \in Path : Len(p) = Len(key) =>
             /\ AgreeTo(p, key, n) <=> Through(p, SubSeq(key, 1, n))
             /\ AgreeTo(p, key, n + 1) <=> Through(p, SubSeq(key, 1, n + 1))
        BY <1>1, AgreeIs
    <2> HIDE DEF on, place
    <2>2. on = SubSeq(key, 1, n + 1) /\ place = SubSeq(key, 1, n)
        BY <1>2 DEF place
    <2>3. ASSUME NEW e \in content
          PROVE  /\ AgreeTo(e[1], key, n) <=> Through(e[1], place)
                 /\ AgreeTo(e[1], key, n + 1) <=> Through(e[1], on)
        <3>1. e[1] \in Path /\ Len(e[1]) = Len(key)
            BY <1>4
        <3> QED
            BY <2>1, <2>2, <3>1
    <2> QED
        BY <2>3
<1> HIDE DEF place
<1>6. /\ on \in Path /\ Len(on) = n + 1 /\ off \in Path /\ Len(off) = n + 1
    BY <1>2, NextPlace
<1>7. /\ Shape(At(Append(place, 0)), height - (n + 1)) /\ Shape(At(Append(place, 1)), height - (n + 1))
      /\ At(place) = Join(At(Append(place, 0)), At(Append(place, 1)))
    <2>1. \A bit \in {0, 1} : Append(place, bit) \in Path /\ Len(Append(place, bit)) = n + 1
        BY <1>2, NextPlace
    <2>2. \A p \in Path : Len(p) = n + 1 => Shape(At(p), height - (n + 1))
        BY <1>1, NodeShape
    <2>3. At(place) = Join(At(Append(place, 0)), At(Append(place, 1)))
        BY <1>1, <1>2, NodeAtIs
    <2> QED
        BY <2>1, <2>2, <2>3
<1>8. Child(At(place), key[n + 1]) = At(on) /\ Child(At(place), 1 - key[n + 1]) = At(off)
    <2>1. Len(place) < height
        BY <1>1, <1>2
    <2> QED
        BY <1>2, <2>1, ChildAt
<1>9. Exposes(At(place), key[n + 1]) <=> At(on) = Zero /\ At(off).kind = "Binary"
    <2> DEFINE h == height - (n + 1)
    <2>1. h \in Nat \ {0} /\ Shape(At(Append(place, 0)), h) /\ Shape(At(Append(place, 1)), h)
        BY <1>1, <1>7
    <2> HIDE DEF h, At, on, off
    <2> QED
        BY <1>2, <1>7, <1>8, <2>1, ExposedBinary
<1> HIDE DEF on, off
<1>10. At(on) = Zero <=> \A e \in content : ~ Through(e[1], on)
    <2>1. Len(on) <= height
        BY <1>1, <1>6
    <2> QED
        BY <1>6, <2>1, EmptyPlace
<1>11. At(off).kind = "Binary" <=> \A bit \in {0, 1} : At(Append(off, bit)) # Zero
    <2>1. /\ \A bit \in {0, 1} : Append(off, bit) \in Path /\ Len(Append(off, bit)) = n + 2
        BY <1>1, <1>6, NextPlace
    <2>2. \A p \in Path : Len(p) = n + 2 => Shape(At(p), height - (n + 2))
        BY <1>1, NodeShape
    <2>3. At(off) = Join(At(Append(off, 0)), At(Append(off, 1)))
        BY <1>1, <1>6, NodeAtIs
    <2>4. height - (n + 2) \in Nat
        BY <1>1
    <2>5. Shape(At(Append(off, 0)), height - (n + 2)) /\ Shape(At(Append(off, 1)), height - (n + 2))
        BY <2>1, <2>2
    <2> HIDE DEF At
    <2> QED
        BY <2>3, <2>4, <2>5, JoinIs
<1>12. \A bit \in {0, 1} : At(Append(off, bit)) # Zero <=> \E e \in content : Through(e[1], off) /\ e[1][n + 2] = bit
    <2>1. /\ \A bit \in {0, 1} : Append(off, bit) \in Path /\ Len(Append(off, bit)) <= height
        BY <1>1, <1>6, NextPlace
    <2>2. \A bit \in {0, 1} : At(Append(off, bit)) = Zero <=> \A e \in content : ~ Through(e[1], Append(off, bit))
        BY <2>1, EmptyPlace
    <2>3. \A bit \in {0, 1} : \A e \in content : Through(e[1], Append(off, bit)) <=> Through(e[1], off) /\ e[1][n + 2] = bit
        <3>1. Len(off) + 1 = n + 2
            BY <1>1, <1>6
        <3> QED
            BY <1>6, <3>1, ThroughNext
    <2> QED
        BY <2>2, <2>3
<1>13. \A e \in content : /\ Through(e[1], on) <=> Through(e[1], place) /\ e[1][n + 1] = key[n + 1]
                          /\ Through(e[1], off) <=> Through(e[1], place) /\ e[1][n + 1] = 1 - key[n + 1]
    BY <1>2, ThroughNext DEF on, off
<1>14. \A e \in content : e[1][n + 1] = key[n + 1] \/ e[1][n + 1] = 1 - key[n + 1]
    BY <1>2, <1>4
<1> HIDE DEF At
<1>15. Exposes(At(place), key[n + 1]) <=>
          /\ \A e \in content : ~ Through(e[1], on)
          /\ \A bit \in {0, 1} : \E e \in content : Through(e[1], off) /\ e[1][n + 2] = bit
    BY <1>9, <1>10, <1>11, <1>12
<1>16. (\A e \in content : ~ Through(e[1], on)) => \A e \in content : Through(e[1], off) <=> Through(e[1], place)
    BY <1>13, <1>14
<1> QED
    BY <1>3, <1>5, <1>15, <1>16

(* The place where the key leaves all the paths it shares most with. *)
SharedTo(paths, key, n) ==
    /\ \E p \in paths : SubSeq(p, 1, n) = SubSeq(key, 1, n)
    /\ \A p \in paths : SubSeq(p, 1, n + 1) # SubSeq(key, 1, n + 1)

(* The most that the leaves share with a key that is not among them. *)
LEMMA SharedIs ==
    ASSUME NEW height \in Nat, NEW key \in Path, Len(key) = height, NEW paths, paths # {}, key \notin paths,
           \A p \in paths : p \in Path /\ Len(p) = height
    PROVE  /\ \A n \in 0..height - 1 :
                 SharedTo(paths, key, n) <=>
                     (\E p \in paths : AgreeTo(p, key, n)) /\ \A p \in paths : ~ AgreeTo(p, key, n + 1)
           /\ \E n \in 0..height - 1 : SharedTo(paths, key, n)
           /\ \A n \in 0..height : \A m \in 0..height : SharedTo(paths, key, n) /\ SharedTo(paths, key, m) => n = m
<1>1. \A p \in paths : \A m \in 0..height : AgreeTo(p, key, m) <=> SubSeq(p, 1, m) = SubSeq(key, 1, m)
    BY AgreeIs
<1>2. \A p \in paths : ~ AgreeTo(p, key, height)
    BY SamePath DEF AgreeTo
<1>3. ASSUME NEW n \in 0..height - 1
      PROVE  SharedTo(paths, key, n) <=>
                 (\E p \in paths : AgreeTo(p, key, n)) /\ \A p \in paths : ~ AgreeTo(p, key, n + 1)
    <2>1. n \in 0..height /\ n + 1 \in 0..height
        OBVIOUS
    <2> QED
        BY <1>1, <2>1 DEF SharedTo
<1>4. ~ SharedTo(paths, key, height)
    <2>1. height \in 0..height
        OBVIOUS
    <2> QED
        BY <1>1, <1>2, <2>1 DEF SharedTo
<1>5. ASSUME NEW n \in 0..height, NEW m \in 0..height, SharedTo(paths, key, n), SharedTo(paths, key, m), n < m PROVE FALSE
    <2>1. n \in 0..height - 1 /\ n + 1 \in 1..m /\ \A i \in 1..n + 1 : i \in 1..m
        BY <1>5
    <2>2. PICK p \in paths : AgreeTo(p, key, m)
        BY <1>1, <1>5 DEF SharedTo
    <2>3. AgreeTo(p, key, n + 1)
        BY <2>1, <2>2 DEF AgreeTo
    <2> QED
        BY <1>3, <1>5, <2>1, <2>3
<1>6. \E n \in 0..height - 1 : SharedTo(paths, key, n)
    <2> DEFINE T == {k \in 0..height : \E p \in paths : AgreeTo(p, key, height - k)}
    <2>1. height \in T
        BY DEF AgreeTo
    <2>2. PICK k \in T : \A m \in T : k <= m
        <3>1. T \subseteq Nat
            OBVIOUS
        <3> HIDE DEF T
        <3> QED
            BY <2>1, <3>1, LeastNumber
    <2>3. k # 0
        BY <1>2
    <2> DEFINE n == height - k
    <2>4. n \in 0..height - 1 /\ k - 1 \in 0..height /\ height - (k - 1) = n + 1 /\ ~ (k <= k - 1)
        BY <2>3
    <2>5. k - 1 \notin T
        BY <2>2, <2>4
    <2>6. (\E p \in paths : AgreeTo(p, key, n)) /\ \A p \in paths : ~ AgreeTo(p, key, n + 1)
        BY <2>4, <2>5
    <2> HIDE DEF n
    <2> QED
        BY <1>3, <2>4, <2>6
<1> QED
    BY <1>3, <1>5, <1>6

(* A binary node is exposed: the tree after has, on the way to the key, an *)
(* edge of one bit to a binary node that the key leaves.                   *)
Exposed(u) == \E n \in 0..Len(u.key) - 2 : Exposes(NodesOn(u.new_root, u.key)[n], u.key[n + 1])

BesideIs(paths, key, value) ==
    LET shared == CHOOSE n \in 0..Len(key) : SharedTo(paths, key, n)
        beside == {p \in paths : SubSeq(p, 1, shared) = SubSeq(key, 1, shared)}
    IN  /\ value = 0 /\ paths # {}
        /\ shared + 2 <= Len(key)
        /\ \E p, q \in beside : p[shared + 2] # q[shared + 2]

(* The condition of the property, about leaves, is the one about nodes. *)
LEMMA ExposedIs ==
    ASSUME NEW write, IsWrite(write), job = HonestUpdate(write)
    PROVE  BesideABinaryNode <=> Exposed(job)
<1> DEFINE key == write.key
           H == Len(key)
           D == Put(write.content, key, write.value)
           paths == {e[1] : e \in D}
           beside(n) == {p \in paths : SubSeq(p, 1, n) = SubSeq(key, 1, n)}
           shared == CHOOSE n \in 0..H : SharedTo(paths, key, n)
<1>1. /\ key \in Path /\ H \in Nat /\ IsContent(write.content, H) /\ write.value \in Nat /\ key \in Paths(H)
    BY KeyIsAPath DEF IsWrite
<1>2. IsContent(D, H) /\ ValueAt(D, key) = write.value
    <2> HIDE DEF H
    <2> QED
        BY <1>1, PutIsContent
<1>3. job.key = key /\ job.new_root = TreeOf(D, H) /\ job.new_value = write.value
    BY DEF HonestUpdate
<1>4. Content(job.new_root, H) = D
    BY <1>1, <1>2, <1>3, ContentOfTree
<1>5. BesideABinaryNode <=>
         /\ write.value = 0 /\ paths # {}
         /\ shared + 2 <= H
         /\ \E p, q \in beside(shared) : p[shared + 2] # q[shared + 2]
    <2>1. BesideABinaryNode <=> BesideIs({e[1] : e \in After}, job.key, job.new_value)
        BY Zenon DEF BesideABinaryNode, BesideIs, SharedTo
    <2>2. After = D
        BY <1>3, <1>4 DEF After
    <2>3. BesideABinaryNode <=> BesideIs(paths, key, write.value)
        <3> HIDE DEF D, key
        <3> QED
            BY <1>3, <2>1, <2>2
    <2> HIDE DEF D, key, paths
    <2> QED
        BY <2>3, Zenon DEF BesideIs
<1>6. \A e \in D : e[1] \in Path /\ Len(e[1]) = H
    <2>1. \A e \in D : e[1] \in Paths(H)
        BY <1>2 DEF IsContent
    <2> QED
        BY <1>1, <2>1, PathsArePaths
<1>7. write.value = 0 <=> key \notin paths
    BY <1>2, ValueIs
<1> HIDE DEF D
<1>8. \A n \in 0..H - 2 : Exposes(NodesOn(job.new_root, key)[n], key[n + 1]) <=>
              /\ \A p \in paths : ~ AgreeTo(p, key, n + 1)
              /\ \A bit \in {0, 1} : \E p \in paths : AgreeTo(p, key, n) /\ p[n + 2] = bit
    <2>1. \A n \in 0..H - 2 : Exposes(NodesOn(TreeOf(D, H), key)[n], key[n + 1]) <=>
              /\ \A e \in D : ~ AgreeTo(e[1], key, n + 1)
              /\ \A bit \in {0, 1} : \E e \in D : AgreeTo(e[1], key, n) /\ e[1][n + 2] = bit
        BY <1>1, <1>2, ExposedPlace DEF H
    <2> QED
        BY <1>3, <2>1
<1>9. \A p \in paths : p \in Path /\ Len(p) = H /\ \A i \in 1..H : p[i] \in {0, 1}
    BY <1>1, <1>6 DEF Path
<1>10. Len(key) = H
    BY DEF H
<1> HIDE DEF paths, key, H, shared
<1>11. ASSUME BesideABinaryNode PROVE Exposed(job)
    <2>1. write.value = 0 /\ paths # {} /\ key \notin paths
        BY <1>5, <1>7, <1>11
    <2>2. PICK n \in 0..H - 1 : SharedTo(paths, key, n)
        BY <1>1, <1>9, <1>10, <2>1, SharedIs
    <2>3. \A m \in 0..H : SharedTo(paths, key, n) /\ SharedTo(paths, key, m) => n = m
        <3>1. \A k \in 0..H : \A m \in 0..H : SharedTo(paths, key, k) /\ SharedTo(paths, key, m) => k = m
            BY <1>1, <1>9, <1>10, <2>1, SharedIs
        <3>2. n \in 0..H
            BY <1>1
        <3> QED
            BY <3>1, <3>2
    <2>4. shared = n
        <3>1. n \in 0..H
            BY <1>1
        <3>2. shared \in 0..H /\ SharedTo(paths, key, shared)
            BY <2>2, <3>1 DEF shared
        <3> QED
            BY <2>2, <2>3, <3>2
    <2>5. (\E p \in paths : AgreeTo(p, key, n)) /\ \A p \in paths : ~ AgreeTo(p, key, n + 1)
        BY <1>1, <1>9, <1>10, <2>1, <2>2, SharedIs
    <2>6. n + 2 <= H /\ \E p, q \in beside(n) : p[n + 2] # q[n + 2]
        BY <1>5, <1>11, <2>4
    <2>7. n \in 0..H - 2 /\ n \in 0..H /\ n + 2 \in 1..H
        BY <1>1, <2>6
    <2>8. PICK p, q \in paths : p[n + 2] # q[n + 2] /\ AgreeTo(p, key, n) /\ AgreeTo(q, key, n)
        <3>1. \A p \in paths : AgreeTo(p, key, n) <=> SubSeq(p, 1, n) = SubSeq(key, 1, n)
            BY <1>1, <1>9, <1>10, <2>7, AgreeIs
        <3> QED
            BY <2>6, <3>1
    <2>9. p[n + 2] \in {0, 1} /\ q[n + 2] \in {0, 1}
        BY <1>9, <2>7
    <2>10. Exposes(NodesOn(job.new_root, key)[n], key[n + 1])
        BY <1>8, <2>5, <2>7, <2>8, <2>9
    <2> QED
        BY <1>3, <1>10, <2>7, <2>10 DEF Exposed
<1>12. ASSUME Exposed(job) PROVE BesideABinaryNode
    <2>1. PICK n \in 0..H - 2 : Exposes(NodesOn(job.new_root, key)[n], key[n + 1])
        BY <1>3, <1>10, <1>12 DEF Exposed
    <2>2. /\ \A p \in paths : ~ AgreeTo(p, key, n + 1)
          /\ \A bit \in {0, 1} : \E p \in paths : AgreeTo(p, key, n) /\ p[n + 2] = bit
        BY <1>8, <2>1
    <2>3. paths # {} /\ key \notin paths
        <3>1. AgreeTo(key, key, n + 1)
            BY DEF AgreeTo
        <3> QED
            BY <2>2, <3>1
    <2>4. n \in 0..H - 1 /\ n \in 0..H /\ n + 2 \in 1..H
        BY <1>1
    <2>5. SharedTo(paths, key, n)
        <3>1. \E p \in paths : AgreeTo(p, key, n)
            BY <2>2
        <3> QED
            BY <1>1, <1>9, <1>10, <2>2, <2>3, <2>4, <3>1, SharedIs
    <2>6. shared = n
        <3>1. shared \in 0..H /\ SharedTo(paths, key, shared)
            BY <2>4, <2>5 DEF shared
        <3>2. \A k \in 0..H : \A m \in 0..H : SharedTo(paths, key, k) /\ SharedTo(paths, key, m) => k = m
            BY <1>1, <1>9, <1>10, <2>3, SharedIs
        <3> QED
            BY <2>4, <2>5, <3>1, <3>2
    <2>7. PICK p, q \in paths : p[n + 2] = 0 /\ q[n + 2] = 1 /\ AgreeTo(p, key, n) /\ AgreeTo(q, key, n)
        BY <2>2
    <2>8. p \in beside(n) /\ q \in beside(n)
        BY <1>1, <1>9, <1>10, <2>4, <2>7, AgreeIs
    <2> QED
        BY <1>5, <1>7, <2>3, <2>4, <2>6, <2>7, <2>8
<1> QED
    BY <1>11, <1>12

-----------------------------------------------------------------------------
(* The walk of honest hints.  It has no choice: it goes from place to      *)
(* place on the way to the key, the same places in both trees.             *)

Turns(u) == PartsOf(u.key, u.prev_root, u.new_root)
EndOf(u, n) == End(Turns(u), Len(u.key), n)

(* Where it goes next, and what it lists: past one sibling where a leaf    *)
(* parts from the key, else past empty ones to the end of the descent.     *)
Onto(u, n) == IF n \in Turns(u) THEN n + 1 ELSE EndOf(u, n)
Entry(u, n) == IF n \in Turns(u) THEN Sibling(u.prev_root, u.key, n + 1)
               ELSE IF EndOf(u, n) - n = 1 THEN Zero ELSE Felt(EndOf(u, n) - n)

RouteAt(u, list, at) ==
    /\ at \in [0..Len(list) -> 0..Len(u.key)] /\ at[0] = 0
    /\ \A i \in 1..Len(list) : /\ at[i - 1] < Len(u.key) /\ at[i] = Onto(u, at[i - 1])
                               /\ list[i] = Entry(u, at[i - 1])
Route(u, list, n) == \E at : RouteAt(u, list, at) /\ at[Len(list)] = n

(* A place the walk comes by: where a descent starts, where it ends.       *)
OnRoute(u, n) == n \in 0..Len(u.key) /\ n \in Starts(Turns(u)) \union Turns(u) \union {Len(u.key)}

(* The call the walk of a tree is at, in a place. *)
CallAt(u, root, n, call) ==
    LET node == NodesOn(root, u.key)[n]
        Opens == Stored(root, u.key, n) /\ (n = Len(u.key) \/ node.kind = "Binary")
    IN  /\ call.path = SubSeq(u.key, 1, n)
        /\ \/ call.fn = "empty" /\ node = Zero
           \/ call.fn = "non_empty" /\ call.node = node /\ node # Zero /\ Stored(root, u.key, n)
           \/ call.fn = "binary_or_leaf" /\ call.node = node /\ node # Zero /\ Opens
           \/ /\ call.fn = "edge" /\ node # Zero
              /\ \/ call.node.path = <<>> /\ call.node.bottom = node /\ Opens
                 \/ call.node.path # <<>> /\ call.node = node /\ node.kind = "Edge" /\ n < Len(u.key)

(* The second walk does not get past an exposed binary node.               *)
NotPastExposed(u, tree, n) ==
    tree = "new" =>
        \A m \in 0..Len(u.key) - 2 : Exposes(NodesOn(u.new_root, u.key)[m], u.key[m + 1]) => n <= m

(* The walk of a tree, at a place of the route with the list it gives.     *)
OnItsWay(tree) ==
    \E n \in 0..Len(job.key) :
       /\ OnRoute(job, n) /\ Route(job, siblings[tree], n)
       /\ \/ update_ptr = 0 /\ \E call : stack = <<call>> /\ CallAt(job, RootOf(tree), n, call)
          \/ update_ptr = 1 /\ stack = <<>> /\ n = Len(job.key)
       /\ NotPastExposed(job, tree, n)

HonestWalks ==
    /\ siblings = [prev |-> siblings["prev"], new |-> siblings["new"]]
    /\ IsList(siblings["prev"]) /\ IsList(siblings["new"])
    /\ pass \in {"prev", "new", "accepted", "rejected"}
    /\ pass = "prev" => siblings["new"] = <<>> /\ OnItsWay("prev")
    /\ pass = "new" => Route(job, siblings["prev"], Len(job.key)) /\ OnItsWay("new")
    /\ pass = "accepted" => ~ Exposed(job)
    /\ pass = "rejected" => Exposed(job)

(* One of the two trees of an honest update. *)
Way(u, root, value) ==
    /\ IsHonest(u) /\ Proved(u, root, value)
    /\ \A n \in 1..Len(u.key) : Sibling(root, u.key, n) = Sibling(u.prev_root, u.key, n)

LEMMA WaysAre ==
    ASSUME NEW u, IsHonest(u)
    PROVE  Way(u, u.prev_root, u.prev_value) /\ Way(u, u.new_root, u.new_value)
BY DEF Way, IsHonest

(* The next place. *)
LEMMA NodeOnWay ==
    ASSUME NEW u, NEW root, NEW value, Way(u, root, value), NEW n \in 0..Len(u.key) - 1
    PROVE  LET node == NodesOn(root, u.key)[n]
               bit == u.key[n + 1]
           IN  /\ bit \in {0, 1} /\ Shape(node, Len(u.key) - n) /\ Len(u.key) - n \in Nat \ {0}
               /\ NodesOn(root, u.key)[n + 1] = Child(node, bit)
               /\ Child(node, 1 - bit) = Sibling(u.prev_root, u.key, n + 1)
               /\ n \in Turns(u) <=> Child(node, 1 - bit) # Zero
<1>1. u.key \in Path /\ Len(u.key) \in Nat
    BY KeyIsAPath DEF Way, IsHonest
<1>2. n + 1 \in 1..Len(u.key) /\ n + 1 - 1 = n /\ n \in 0..Len(u.key) /\ Len(u.key) - n \in Nat \ {0}
    BY <1>1
<1>3. u.key[n + 1] \in {0, 1}
    BY <1>1, <1>2 DEF Path
<1>4. NodesOn(root, u.key)[n + 1] = Child(NodesOn(root, u.key)[n], u.key[n + 1])
    <2> DEFINE key == u.key
               nodes == NodesOn(root, key)
    <2>1. \A i \in 1..Len(key) : nodes[i] = Child(nodes[i - 1], key[i])
        BY <1>1, NodesOnStep
    <2>2. n + 1 \in 1..Len(key) /\ n + 1 - 1 = n
        BY <1>2
    <2> HIDE DEF nodes, key
    <2>3. nodes[n + 1] = Child(nodes[n], key[n + 1])
        BY <2>1, <2>2
    <2> QED
        BY <2>3 DEF nodes, key
<1>5. Sibling(root, u.key, n + 1) = Child(NodesOn(root, u.key)[n], 1 - u.key[n + 1])
    BY <1>2 DEF Sibling
<1>6. Sibling(root, u.key, n + 1) = Sibling(u.prev_root, u.key, n + 1) /\ Sibling(u.new_root, u.key, n + 1) = Sibling(u.prev_root, u.key, n + 1)
    BY <1>2 DEF Way, IsHonest
<1>7. n \in Turns(u) <=> Sibling(u.prev_root, u.key, n + 1) # Zero
    BY <1>6 DEF Turns, PartsOf, NothingBeside
<1>8. Shape(NodesOn(root, u.key)[n], Len(u.key) - n)
    BY <1>2 DEF Way, Proved
<1> QED
    BY <1>2, <1>3, <1>4, <1>5, <1>6, <1>7, <1>8

(* A turn is at every binary node, none is at an empty one.                *)
LEMMA BinaryOnWay ==
    ASSUME NEW u, NEW root, NEW value, Way(u, root, value), NEW n \in 0..Len(u.key) - 1,
           NodesOn(root, u.key)[n].kind = "Binary"
    PROVE  LET node == NodesOn(root, u.key)[n]
           IN  /\ Child(node, 0) = node.left /\ Child(node, 1) = node.right
               /\ node.left # Zero /\ node.right # Zero
               /\ n \in Turns(u) /\ NodesOn(root, u.key)[n + 1] # Zero
<1> DEFINE node == NodesOn(root, u.key)[n]
           bit == u.key[n + 1]
<1>1. /\ bit \in {0, 1} /\ Shape(node, Len(u.key) - n)
      /\ NodesOn(root, u.key)[n + 1] = Child(node, bit) /\ (n \in Turns(u) <=> Child(node, 1 - bit) # Zero)
    BY NodeOnWay
<1> HIDE DEF node
<1>2. PICK l, r : node = Binary(l, r) /\ l # Zero /\ r # Zero
    BY <1>1, Kinds DEF Shape, node
<1>3. Child(node, 0) = node.left /\ Child(node, 1) = node.right /\ node.left # Zero /\ node.right # Zero
    BY <1>2, Kinds DEF Child, GetChildren
<1>4. CASE bit = 0
    BY <1>1, <1>3, <1>4 DEF node
<1>5. CASE bit = 1
    BY <1>1, <1>3, <1>5 DEF node
<1> QED
    BY <1>1, <1>4, <1>5

(* Below an empty place nothing turns off. *)
LEMMA ZeroOnWay ==
    ASSUME NEW u, NEW root, NEW value, Way(u, root, value), NEW n \in 0..Len(u.key) - 1,
           NodesOn(root, u.key)[n] = Zero
    PROVE  n \notin Turns(u) /\ NodesOn(root, u.key)[n + 1] = Zero
<1>1. Child(Zero, 0) = Zero /\ Child(Zero, 1) = Zero
    BY Kinds DEF Child, GetChildren
<1> DEFINE bit == u.key[n + 1]
<1>2. /\ bit \in {0, 1} /\ NodesOn(root, u.key)[n + 1] = Child(Zero, bit)
      /\ (n \in Turns(u) <=> Child(Zero, 1 - bit) # Zero)
    BY NodeOnWay
<1> HIDE DEF bit
<1>3. CASE bit = 0
    BY <1>1, <1>2, <1>3
<1>4. CASE bit = 1
    BY <1>1, <1>2, <1>4
<1> QED
    BY <1>2, <1>3, <1>4

(* Down an empty tree. *)
LEMMA ZeroFurther ==
    ASSUME NEW u, NEW root, NEW value, Way(u, root, value), NEW n \in 0..Len(u.key),
           NodesOn(root, u.key)[n] = Zero
    PROVE  \A m \in n..Len(u.key) : NodesOn(root, u.key)[m] = Zero
<1> DEFINE H == Len(u.key)
           T == {i \in 0..H - n : NodesOn(root, u.key)[n + i] = Zero}
<1>1. H \in Nat /\ H - n \in Nat
    BY KeyIsAPath DEF Way, IsHonest
<1>2. 0 \in T
    BY <1>1
<1>3. ASSUME NEW i \in 0..H - n, i < H - n, i \in T PROVE i + 1 \in T
    <2>1. n + i \in 0..H - 1 /\ n + i + 1 = n + (i + 1) /\ i + 1 \in 0..H - n
        BY <1>1, <1>3
    <2>2. NodesOn(root, u.key)[n + i + 1] = Zero
        BY <1>3, <2>1, ZeroOnWay
    <2> QED
        BY <2>1, <2>2
<1>4. 0..H - n \subseteq T
    <2> HIDE DEF T
    <2> QED
        BY <1>1, <1>2, <1>3, UpTo
<1>5. ASSUME NEW m \in n..H PROVE NodesOn(root, u.key)[m] = Zero
    <2>1. m - n \in 0..H - n /\ n + (m - n) = m
        BY <1>1
    <2>2. NodesOn(root, u.key)[n + (m - n)] = Zero
        BY <1>4, <2>1
    <2> QED
        BY <2>1, <2>2
<1> QED
    BY <1>5

(* A node that is an edge, and how the key leaves it.                      *)
LEMMA EdgeOnWay ==
    ASSUME NEW u, NEW root, NEW value, Way(u, root, value), NEW n \in 0..Len(u.key) - 1,
           NEW p, NEW bottom, NodesOn(root, u.key)[n] = Edge(p, bottom), p \in Path \ {<<>>}, bottom # Zero
    PROVE  LET node == NodesOn(root, u.key)[n]
               bit == u.key[n + 1]
           IN  /\ Head(p) \in {0, 1} /\ Cut(node) # Zero
               /\ n \in Turns(u) <=> Head(p) = 1 - bit
               /\ Head(p) = bit => NodesOn(root, u.key)[n + 1] = Cut(node)
               /\ Head(p) = 1 - bit => /\ NodesOn(root, u.key)[n + 1] = Zero
                                       /\ Sibling(u.prev_root, u.key, n + 1) = Cut(node)
<1> DEFINE node == NodesOn(root, u.key)[n]
           bit == u.key[n + 1]
<1>1. /\ bit \in {0, 1} /\ NodesOn(root, u.key)[n + 1] = Child(node, bit)
      /\ Child(node, 1 - bit) = Sibling(u.prev_root, u.key, n + 1) /\ (n \in Turns(u) <=> Child(node, 1 - bit) # Zero)
    BY NodeOnWay
<1>2. Head(p) \in {0, 1} /\ Child(node, Head(p)) = Cut(node) /\ Child(node, 1 - Head(p)) = Zero
    BY EdgeChildren
<1>3. Cut(node) # Zero
    BY Kinds DEF Cut
<1> HIDE DEF node, bit
<1>4. ASSUME Head(p) = bit PROVE n \notin Turns(u) /\ NodesOn(root, u.key)[n + 1] = Cut(node)
    BY <1>1, <1>2, <1>4
<1>5. ASSUME Head(p) = 1 - bit
      PROVE  n \in Turns(u) /\ NodesOn(root, u.key)[n + 1] = Zero /\ Sibling(u.prev_root, u.key, n + 1) = Cut(node)
    <2>1. 1 - Head(p) = bit
        BY <1>1, <1>5
    <2> QED
        BY <1>1, <1>2, <1>3, <1>5, <2>1
<1>6. Head(p) = bit \/ Head(p) = 1 - bit
    BY <1>1, <1>2
<1>7. bit # 1 - bit
    BY <1>1
<1> QED
    BY <1>2, <1>3, <1>4, <1>5, <1>6, <1>7, Zenon DEF node, bit

(* Where a descent from a place ends. *)
LEMMA EndOfIs ==
    ASSUME NEW u, IsHonest(u), NEW n \in 0..Len(u.key)
    PROVE  /\ Len(u.key) \in Nat /\ Turns(u) \subseteq 0..Len(u.key) - 1
           /\ EndOf(u, n) \in n..Len(u.key) /\ EndOf(u, n) \in Turns(u) \union {Len(u.key)}
           /\ \A i \in n..EndOf(u, n) - 1 : i \notin Turns(u)
           /\ \A m : EndsAt(Turns(u), Len(u.key), n, m) => m = EndOf(u, n)
<1>1. Len(u.key) \in Nat /\ Turns(u) \subseteq 0..Len(u.key) - 1
    BY KeyIsAPath DEF IsHonest, Turns, PartsOf
<1>2. /\ EndsAt(Turns(u), Len(u.key), n, EndOf(u, n))
      /\ \A m : EndsAt(Turns(u), Len(u.key), n, m) => m = EndOf(u, n)
    BY <1>1, EndIs DEF EndOf
<1> QED
    BY <1>1, <1>2 DEF EndsAt

(* The walk goes on, from one place on its route to the next.              *)
LEMMA OntoIs ==
    ASSUME NEW u, IsHonest(u), NEW n \in 0..Len(u.key) - 1
    PROVE  /\ Onto(u, n) \in n + 1..Len(u.key) /\ OnRoute(u, Onto(u, n))
           /\ \A m \in Turns(u) : n < m => Onto(u, n) <= m
<1> DEFINE H == Len(u.key)
           E == EndOf(u, n)
<1>0. H \in Nat
    BY KeyIsAPath DEF IsHonest
<1>1. n \in 0..H
    BY <1>0
<1>2. /\ Turns(u) \subseteq 0..H - 1 /\ E \in n..H /\ E \in Turns(u) \union {H}
      /\ \A i \in n..E - 1 : i \notin Turns(u)
    BY <1>1, EndOfIs
<1> HIDE DEF H, E
<1>3. CASE n \in Turns(u)
    <2>1. Onto(u, n) = n + 1 /\ n + 1 \in Starts(Turns(u)) /\ n + 1 \in 0..H
        BY <1>0, <1>3 DEF Onto, Starts, H
    <2>2. \A m \in Turns(u) : n < m => n + 1 <= m
        BY <1>0, <1>2
    <2> QED
        BY <1>0, <2>1, <2>2 DEF OnRoute, H
<1>4. CASE n \notin Turns(u)
    <2>1. Onto(u, n) = E
        BY <1>4 DEF Onto, E
    <2>2. n # E
        BY <1>0, <1>2, <1>4 DEF H
    <2>3. E \in n + 1..H
        BY <1>0, <1>1, <1>2, <2>2
    <2>4. ASSUME NEW m \in Turns(u), n < m, m < E PROVE FALSE
        <3>1. m \in n..E - 1
            BY <1>0, <1>1, <1>2, <2>4
        <3> QED
            BY <1>2, <3>1
    <2>5. \A m \in Turns(u) : n < m => E <= m
        <3>1. \A m \in Turns(u) : m \in Int
            BY <1>2
        <3> QED
            BY <1>0, <2>3, <2>4, <3>1
    <2>6. OnRoute(u, E)
        BY <1>0, <1>2, <2>3 DEF OnRoute, H
    <2> QED
        BY <2>1, <2>3, <2>5, <2>6 DEF H
<1> QED
    BY <1>3, <1>4

(* The bits of the key from one place to another. *)
LEMMA BitsOn ==
    ASSUME NEW key \in Path, NEW n \in 0..Len(key), NEW m \in n..Len(key)
    PROVE  /\ SubSeq(key, n + 1, m) \in Path /\ Len(SubSeq(key, n + 1, m)) = m - n
           /\ \A i \in 1..m - n : SubSeq(key, n + 1, m)[i] = key[n + i]
           /\ SubSeq(key, 1, n) \o SubSeq(key, n + 1, m) = SubSeq(key, 1, m)
<1>1. Len(key) \in Nat /\ \A i \in 1..Len(key) : key[i] \in {0, 1}
    BY DEF Path
<1> DEFINE w == SubSeq(key, n + 1, m)
           a == SubSeq(key, 1, n)
           b == SubSeq(key, 1, m)
<1>2. w \in Path /\ Len(w) = m - n /\ \A i \in 1..m - n : w[i] = key[n + i]
    <2>1. \A i \in n + 1..m : key[i] \in {0, 1}
        BY <1>1
    <2>2. key \in Seq({0, 1})
        BY DEF Path
    <2> QED
        BY <1>1, <2>1, <2>2 DEF Path
<1>3. /\ a \in Path /\ Len(a) = n /\ \A i \in 1..n : a[i] = key[i]
      /\ b \in Path /\ Len(b) = m /\ \A i \in 1..m : b[i] = key[i]
    <2>1. n \in 0..Len(key) /\ m \in 0..Len(key)
        BY <1>1
    <2> QED
        BY <2>1, PlaceOn
<1> HIDE DEF w, a, b
<1>4. /\ a \o w \in Path /\ Len(a \o w) = n + (m - n)
      /\ \A i \in 1..n : (a \o w)[i] = a[i]
      /\ \A i \in 1..m - n : (a \o w)[n + i] = w[i]
    <2>1. /\ a \o w \in Path /\ Len(a \o w) = Len(a) + Len(w)
          /\ \A i \in 1..Len(a) : (a \o w)[i] = a[i]
          /\ \A i \in 1..Len(w) : (a \o w)[Len(a) + i] = w[i]
        BY <1>2, <1>3, Further
    <2> QED
        BY <1>2, <1>3, <2>1
<1>5. Len(a \o w) = m
    BY <1>1, <1>4
<1>6. ASSUME NEW i \in 1..m PROVE (a \o w)[i] = b[i]
    <2>1. CASE i \in 1..n
        BY <1>3, <1>4, <2>1
    <2>2. CASE i \notin 1..n
        <3>1. i - n \in 1..m - n /\ n + (i - n) = i
            BY <1>1, <2>2
        <3>2. (a \o w)[n + (i - n)] = key[n + (i - n)]
            BY <1>2, <1>4, <3>1
        <3> QED
            BY <1>3, <3>1, <3>2
    <2> QED
        BY <2>1, <2>2
<1>7. a \o w = b
    BY <1>3, <1>4, <1>5, <1>6, SamePath
<1> QED
    BY <1>2, <1>7 DEF w, a, b

(* An edge goes as far as the descent, at least.                           *)
LEMMA EdgeGoesOn ==
    ASSUME NEW u, NEW root, NEW value, Way(u, root, value), NEW n \in 0..Len(u.key) - 1,
           NEW p, NEW bottom, NodesOn(root, u.key)[n] = Edge(p, bottom), p \in Path \ {<<>>}, bottom # Zero,
           Len(p) <= Len(u.key) - n, bottom.kind = IF Len(p) = Len(u.key) - n THEN "Felt" ELSE "Binary"
    PROVE  \A i \in 0..EndOf(u, n) - n :
              /\ i <= Len(p) /\ \A j \in 1..i : u.key[n + j] = p[j]
              /\ NodesOn(root, u.key)[n + i] = Opened(Edge(Drop(p, i), bottom))
<1> DEFINE H == Len(u.key)
           E == EndOf(u, n)
           Good(i) == /\ i <= Len(p) /\ \A j \in 1..i : u.key[n + j] = p[j]
                      /\ NodesOn(root, u.key)[n + i] = Opened(Edge(Drop(p, i), bottom))
           T == {i \in 0..E - n : Good(i)}
<1>1. IsHonest(u) /\ H \in Nat /\ n \in 0..H
    BY KeyIsAPath DEF Way, IsHonest
<1>2. E \in n..H /\ \A i \in n..E - 1 : i \notin Turns(u)
    BY <1>1, EndOfIs
<1>3. E - n \in Nat /\ Len(p) \in Nat
    BY <1>1, <1>2 DEF Path
<1> HIDE DEF E
<1>4. \A i \in 0..Len(p) : /\ Drop(p, i) \in Path /\ Len(Drop(p, i)) = Len(p) - i
                           /\ i < Len(p) => /\ Drop(p, i) # <<>> /\ Head(Drop(p, i)) = p[i + 1]
                                            /\ Tail(Drop(p, i)) = Drop(p, i + 1)
    <2>1. ASSUME NEW i \in 0..Len(p)
          PROVE  /\ Drop(p, i) \in Path /\ Len(Drop(p, i)) = Len(p) - i
                 /\ \A j \in 1..Len(p) - i : Drop(p, i)[j] = p[i + j]
        <3>1. Len(p) \in i..Len(p)
            BY <1>3
        <3> QED
            BY <3>1, BitsOn DEF Drop
    <2>2. ASSUME NEW i \in 0..Len(p), i < Len(p)
          PROVE  /\ Drop(p, i) # <<>> /\ Head(Drop(p, i)) = p[i + 1] /\ Tail(Drop(p, i)) = Drop(p, i + 1)
        <3> DEFINE d == Drop(p, i)
                   e == Drop(p, i + 1)
        <3>1. d \in Path /\ Len(d) = Len(p) - i /\ \A j \in 1..Len(p) - i : d[j] = p[i + j]
            BY <2>1
        <3>2. e \in Path /\ Len(e) = Len(p) - (i + 1) /\ \A j \in 1..Len(p) - (i + 1) : e[j] = p[i + 1 + j]
            <4>1. i + 1 \in 0..Len(p)
                BY <1>3, <2>2
            <4> QED
                BY <2>1, <4>1
        <3> HIDE DEF d, e
        <3>3. d # <<>> /\ Head(d) = p[i + 1]
            BY <1>3, <2>2, <3>1 DEF Path
        <3>4. Tail(d) \in Path /\ Len(Tail(d)) = Len(p) - (i + 1) /\ \A j \in 1..Len(p) - (i + 1) : Tail(d)[j] = p[i + 1 + j]
            <4>1. d \in Seq({0, 1}) /\ Tail(d) \in Seq({0, 1}) /\ Len(Tail(d)) = Len(d) - 1
                BY <3>1, <3>3 DEF Path
            <4>2. \A j \in 1..Len(d) - 1 : Tail(d)[j] = d[j + 1]
                BY <4>1
            <4>3. \A j \in 1..Len(p) - (i + 1) : j \in 1..Len(d) - 1 /\ j + 1 \in 1..Len(p) - i /\ i + (j + 1) = i + 1 + j
                BY <1>3, <3>1
            <4>4. Len(d) - 1 = Len(p) - (i + 1)
                BY <1>3, <3>1
            <4>5. ASSUME NEW j \in 1..Len(p) - (i + 1) PROVE Tail(d)[j] = p[i + 1 + j]
                <5>1. Tail(d)[j] = d[j + 1] /\ d[j + 1] = p[i + (j + 1)] /\ i + (j + 1) = i + 1 + j
                    BY <3>1, <4>2, <4>3
                <5> QED
                    BY <5>1
            <4> QED
                BY <4>1, <4>4, <4>5 DEF Path
        <3>5. Tail(d) = e
            BY <3>2, <3>4, SamePath
        <3> QED
            BY <3>3, <3>5 DEF d, e
    <2> QED
        BY <2>1, <2>2
<1>5. 0 \in T
    <2>1. Drop(p, 0) = p
        BY DEF Drop, Path
    <2>2. Opened(Edge(p, bottom)) = Edge(p, bottom)
        BY Kinds DEF Opened
    <2>3. 0 \in 0..E - n /\ n + 0 = n /\ 0 <= Len(p)
        BY <1>1, <1>3
    <2> QED
        BY <2>1, <2>2, <2>3
<1>6. ASSUME NEW i \in 0..E - n, i < E - n, Good(i) PROVE Good(i + 1)
    <2> DEFINE k == n + i
               q == Drop(p, i)
               rest == Drop(p, i + 1)
               bit == u.key[k + 1]
    <2> HIDE DEF Good
    <2>1. /\ k \in 0..Len(u.key) - 1 /\ k \in n..E - 1 /\ n + (i + 1) = k + 1 /\ i \in Nat
          /\ k \in Nat /\ k < H
        <3>1. E \in n..H
            BY <1>2
        <3>2. H \in Nat /\ n \in Nat /\ E \in Nat /\ n <= E /\ E <= H
            BY <1>1, <3>1
        <3>3. i \in Nat /\ i < E - n
            BY <1>3, <1>6
        <3> HIDE DEF H
        <3>4. k \in Nat /\ n <= k /\ k < E /\ k < H /\ k <= H - 1 /\ n + (i + 1) = k + 1
            BY <3>2, <3>3
        <3> HIDE DEF k
        <3> QED
            BY <3>2, <3>3, <3>4 DEF H
    <2>2. i <= Len(p) /\ (\A j \in 1..i : u.key[n + j] = p[j]) /\ NodesOn(root, u.key)[k] = Opened(Edge(q, bottom))
        BY <1>6 DEF Good
    <2>3. k \notin Turns(u)
        BY <1>2, <2>1
    <2>4. i # Len(p)
        <3> SUFFICES ASSUME i = Len(p) PROVE FALSE
            OBVIOUS
        <3>1. q = <<>>
            BY <1>3, <1>4 DEF Path
        <3>2. NodesOn(root, u.key)[k] = bottom
            <4> HIDE DEF q
            <4> QED
                BY <2>2, <3>1, Kinds DEF Opened
        <3>3. bottom.kind = "Binary"
            BY <1>1, <1>3, <2>1
        <3> HIDE DEF k
        <3> QED
            BY <2>1, <2>3, <3>2, <3>3, BinaryOnWay
    <2>5. i \in 0..Len(p) /\ i < Len(p) /\ i + 1 \in 0..Len(p)
        <3> HIDE DEF q, rest, k
        <3> QED
            BY <1>3, <2>1, <2>2, <2>4
    <2>6. q \in Path \ {<<>>} /\ Head(q) = p[i + 1] /\ Tail(q) = rest /\ Len(q) = Len(p) - i
        BY <1>4, <2>5
    <2>7. rest \in Path /\ Len(rest) = Len(p) - (i + 1)
        BY <1>4, <2>5
    <2> HIDE DEF q, rest, k
    <2>0. \A r : Edge(r, bottom).path = r /\ Edge(r, bottom).bottom = bottom
        BY Kinds
    <2>8. NodesOn(root, u.key)[k] = Edge(q, bottom)
        BY <2>0, <2>2, <2>6 DEF Opened
    <2>9. bit \in {0, 1}
        BY <2>1, NodeOnWay
    <2>10. /\ Head(q) \in {0, 1} /\ (k \in Turns(u) <=> Head(q) = 1 - bit)
           /\ (Head(q) = bit => NodesOn(root, u.key)[k + 1] = Cut(Edge(q, bottom)))
        BY <2>1, <2>6, <2>8, EdgeOnWay
    <2>11. Head(q) = bit /\ NodesOn(root, u.key)[k + 1] = Cut(Edge(q, bottom))
        <3> HIDE DEF bit
        <3>1. Head(q) # 1 - bit
            BY <2>3, <2>10
        <3>2. Head(q) = bit
            BY <2>9, <2>10, <3>1
        <3> QED
            BY <2>10, <3>2
    <2>12. Cut(Edge(q, bottom)) = Opened(Edge(rest, bottom))
        <3>1. rest = <<>> <=> Len(q) = 1
            <4>1. rest = <<>> <=> Len(rest) = 0
                BY <2>7 DEF Path
            <4>2. Len(rest) = Len(q) - 1 /\ Len(q) \in Nat
                BY <1>3, <2>1, <2>5, <2>6, <2>7
            <4> QED
                BY <4>1, <4>2
        <3>2. CASE Len(q) = 1
            BY <2>0, <3>1, <3>2 DEF Cut, Opened
        <3>3. CASE Len(q) # 1
            <4>1. Cut(Edge(q, bottom)) = Edge(rest, bottom)
                BY <2>0, <2>6, <3>3, Zenon DEF Cut
            <4>2. Opened(Edge(rest, bottom)) = Edge(rest, bottom)
                BY <2>0, <3>1, <3>3, Zenon DEF Opened
            <4> QED
                BY <4>1, <4>2
        <3> QED
            BY <3>2, <3>3
    <2>13. \A j \in 1..i + 1 : u.key[n + j] = p[j]
        <3>1. \A j \in 1..i + 1 : j \in 1..i \/ j = i + 1
            BY <2>5
        <3>2. u.key[n + (i + 1)] = p[i + 1]
            BY <2>1, <2>6, <2>11
        <3> QED
            BY <2>2, <3>1, <3>2
    <2>14. NodesOn(root, u.key)[n + (i + 1)] = Opened(Edge(Drop(p, i + 1), bottom))
        BY <2>1, <2>11, <2>12 DEF rest
    <2>15. i + 1 <= Len(p)
        BY <2>5
    <2> QED
        BY <2>13, <2>14, <2>15 DEF Good
<1> HIDE DEF Good
<1>7. 0..E - n \subseteq T
    <2>1. \A i \in 0..E - n : i < E - n /\ i \in T => i + 1 \in T
        BY <1>3, <1>6
    <2> HIDE DEF T
    <2> QED
        BY <1>3, <1>5, <2>1, UpTo
<1> QED
    BY <1>7 DEF Good, E

(* The hints know one way: on to the next place of the route. *)
LEMMA HonestWords ==
    ASSUME IsHonest(job), NEW n \in 0..Len(job.key) - 1, OnRoute(job, n)
    PROVE  /\ Case(SubSeq(job.key, 1, n)) = {<<job.key[n + 1]>>}
           /\ Children(SubSeq(job.key, 1, n)) = {<<job.key[n + 1]>>}
           /\ Words(SubSeq(job.key, 1, n)) = {SubSeq(job.key, n + 1, Onto(job, n))}
<1> DEFINE key == job.key
           path == SubSeq(key, 1, n)
           H == Len(key)
           E == EndOf(job, n)
           map == job.descent_map
<1>1. /\ key \in Path /\ H \in Nat /\ n \in 0..H /\ n + 1 \in DOMAIN key /\ n \in Nat /\ job.honest = TRUE
      /\ Found(map, key, Turns(job), H + 1)
    BY KeyIsAPath DEF IsHonest, Turns, Path
<1>2. Len(path) = n
    BY <1>1, PlaceOn
<1>3. /\ Turns(job) \subseteq 0..H - 1 /\ E \in n..H /\ E \in Turns(job) \union {H}
      /\ (\A i \in n..E - 1 : i \notin Turns(job))
      /\ \A m : EndsAt(Turns(job), H, n, m) => m = E
    BY <1>1, EndOfIs
<1>4. Case(path) = {<<key[n + 1]>>}
    <2>1. {Len(path) + 1} \intersect DOMAIN job.key = {n + 1}
        BY <1>1, <1>2
    <2> QED
        BY <2>1 DEF Case
<1>5. Words(path) = IF path \in DOMAIN map THEN {map[path]} ELSE Case(path)
    BY <1>1 DEF Words
<1>6. path \in DOMAIN map <=> n \in Long(Turns(job), H)
    <2>1. Long(Turns(job), H) \subseteq 0..H
        BY <1>1, <1>3, StartsAre
    <2>2. DOMAIN map = {SubSeq(key, 1, k) : k \in {i \in Long(Turns(job), H) : i < H + 1}}
        BY <1>1 DEF Found
    <2>3. \A k \in Long(Turns(job), H) : SubSeq(key, 1, k) = path => k = n
        BY <1>1, <2>1, PlacesDiffer
    <2>4. \A k \in Long(Turns(job), H) : k < H + 1
        BY <1>1, <2>1
    <2> HIDE DEF path, map
    <2>5. n \in Long(Turns(job), H) => path \in DOMAIN map
        BY <2>2, <2>4 DEF path
    <2>6. path \in DOMAIN map => n \in Long(Turns(job), H)
        BY <2>2, <2>3
    <2> QED
        BY <2>5, <2>6
<1>7. n \in Long(Turns(job), H) <=> n \in Starts(Turns(job)) /\ E - n > 1
    BY DEF Long, EndOf
<1>8. SubSeq(key, n + 1, n + 1) = <<key[n + 1]>>
    <2>1. n + 1 \in n..H
        BY <1>1
    <2>2. /\ SubSeq(key, n + 1, n + 1) \in Path /\ Len(SubSeq(key, n + 1, n + 1)) = n + 1 - n
          /\ \A i \in 1..n + 1 - n : SubSeq(key, n + 1, n + 1)[i] = key[n + i]
        BY <1>1, <2>1, BitsOn
    <2>3. n + 1 - n = 1 /\ key[n + 1] \in {0, 1}
        BY <1>1 DEF Path
    <2> DEFINE w == SubSeq(key, n + 1, n + 1)
    <2>4. w \in Seq({0, 1}) /\ Len(w) = 1 /\ w[1] = key[n + 1]
        BY <2>2, <2>3 DEF Path
    <2> HIDE DEF w
    <2>5. w = <<w[1]>>
        BY <2>4
    <2> QED
        BY <2>4, <2>5 DEF w
<1>9. CASE n \in Turns(job)
    <2>1. EndsAt(Turns(job), H, n, n)
        BY <1>1, <1>9 DEF EndsAt
    <2>2. E = n
        BY <1>3, <2>1
    <2>3. Words(path) = {<<key[n + 1]>>}
        BY <1>1, <1>4, <1>5, <1>6, <1>7, <2>2
    <2> QED
        BY <1>1, <1>4, <1>8, <1>9, <2>3 DEF Onto, Children
<1>10. CASE n \notin Turns(job)
    <2>1. Onto(job, n) = E
        BY <1>10 DEF Onto
    <2>2. n \in Starts(Turns(job)) /\ n # H
        BY <1>1, <1>10 DEF OnRoute
    <2>3. n # E
        BY <1>1, <1>3, <1>10, <2>2
    <2>4. CASE E - n > 1
        <3>1. n \in Long(Turns(job), H)
            BY <1>7, <2>2, <2>4
        <3>2. map[path] = SubSeq(key, n + 1, E)
            <4>1. n < H + 1
                BY <1>1
            <4> QED
                BY <1>1, <3>1, <4>1 DEF Found, EndOf
        <3> QED
            BY <1>1, <1>4, <1>5, <1>6, <2>1, <3>1, <3>2 DEF Children
    <2>5. CASE ~ (E - n > 1)
        <3>1. E = n + 1
            BY <1>1, <1>3, <2>3, <2>5
        <3>2. Words(path) = {<<key[n + 1]>>}
            BY <1>4, <1>5, <1>6, <1>7, <2>5
        <3> QED
            BY <1>1, <1>4, <1>8, <2>1, <3>1, <3>2 DEF Children
    <2> QED
        BY <2>4, <2>5
<1> QED
    BY <1>9, <1>10

(* A step of it lists what the route says. *)
LEMMA EmptyEntry ==
    ASSUME NEW u, IsHonest(u), NEW n \in 0..Len(u.key) - 1, n \notin Turns(u)
    PROVE  /\ EmptySiblings(SubSeq(u.key, n + 1, Onto(u, n))) = <<Entry(u, n)>>
           /\ SubSeq(u.key, n + 1, Onto(u, n)) \in Path \ {<<>>}
           /\ Len(SubSeq(u.key, n + 1, Onto(u, n))) = Onto(u, n) - n
<1>1. u.key \in Path /\ Len(u.key) \in Nat /\ n \in 0..Len(u.key)
    BY KeyIsAPath DEF IsHonest
<1>2. Onto(u, n) = EndOf(u, n) /\ Onto(u, n) \in n + 1..Len(u.key)
    BY OntoIs DEF Onto
<1> DEFINE w == SubSeq(u.key, n + 1, Onto(u, n))
<1>3. w \in Path /\ Len(w) = Onto(u, n) - n
    <2>1. Onto(u, n) \in n..Len(u.key)
        BY <1>1, <1>2
    <2> QED
        BY <1>1, <2>1, BitsOn
<1> HIDE DEF w
<1>4. w # <<>>
    BY <1>1, <1>2, <1>3
<1>5. EmptySiblings(w) = <<IF Onto(u, n) - n = 1 THEN Zero ELSE Felt(Onto(u, n) - n)>>
    BY <1>3 DEF EmptySiblings
<1>6. Entry(u, n) = IF Onto(u, n) - n = 1 THEN Zero ELSE Felt(Onto(u, n) - n)
    BY <1>2 DEF Entry
<1> QED
    BY <1>3, <1>4, <1>5, <1>6 DEF w

(* One route. *)
LEMMA RouteStarts ==
    ASSUME NEW u, IsHonest(u)
    PROVE  Route(u, <<>>, 0) /\ OnRoute(u, 0)
<1>1. Len(u.key) \in Nat
    BY KeyIsAPath DEF IsHonest
<1> DEFINE at == [i \in 0..0 |-> 0]
<1>2. RouteAt(u, <<>>, at) /\ at[Len(<<>>)] = 0
    BY <1>1 DEF RouteAt
<1> HIDE DEF at
<1>3. OnRoute(u, 0)
    BY <1>1 DEF OnRoute, Starts
<1> QED
    BY <1>2, <1>3 DEF Route

(* The list of a route goes on with the entry of its place. *)
LEMMA RouteGoesOn ==
    ASSUME NEW u, IsHonest(u), NEW n \in 0..Len(u.key) - 1, NEW list, IsList(list), Route(u, list, n)
    PROVE  Route(u, list \o <<Entry(u, n)>>, Onto(u, n)) /\ IsList(list \o <<Entry(u, n)>>)
<1> DEFINE H == Len(u.key)
           L == Len(list)
           more == list \o <<Entry(u, n)>>
<1>1. H \in Nat /\ Onto(u, n) \in n + 1..H
    BY KeyIsAPath, OntoIs DEF IsHonest
<1>2. /\ IsList(more) /\ L \in Nat /\ Len(more) = L + 1 /\ more[L + 1] = Entry(u, n)
      /\ \A i \in 1..L : more[i] = list[i]
    <2>1. IsList(<<Entry(u, n)>>) /\ Len(<<Entry(u, n)>>) = 1 /\ <<Entry(u, n)>>[1] = Entry(u, n)
        BY ShortLists
    <2> QED
        BY <2>1, Joined
<1>3. PICK at : RouteAt(u, list, at) /\ at[L] = n
    BY DEF Route
<1> DEFINE to == [i \in 0..L + 1 |-> IF i = L + 1 THEN Onto(u, n) ELSE at[i]]
<1>4. /\ at \in [0..L -> 0..H] /\ at[0] = 0
      /\ \A i \in 1..L : at[i - 1] < H /\ at[i] = Onto(u, at[i - 1]) /\ list[i] = Entry(u, at[i - 1])
    BY <1>3 DEF RouteAt
<1> HIDE DEF more, L, H
<1>5. to \in [0..L + 1 -> 0..H] /\ to[0] = 0 /\ to[L + 1] = Onto(u, n)
    <2>1. \A i \in 0..L + 1 : i = L + 1 \/ i \in 0..L
        BY <1>2
    <2>2. Onto(u, n) \in 0..H
        BY <1>1
    <2>3. 0 \in 0..L /\ 0 # L + 1 /\ 0 \in 0..L + 1 /\ L + 1 \in 0..L + 1
        BY <1>2
    <2>4. \A i \in 0..L : at[i] \in 0..H
        BY <1>4
    <2>5. to \in [0..L + 1 -> 0..H]
        BY <2>1, <2>2, <2>4
    <2>6. to[0] = at[0] /\ to[L + 1] = Onto(u, n)
        BY <2>3
    <2> HIDE DEF to
    <2> QED
        BY <1>4, <2>5, <2>6
<1>6. ASSUME NEW i \in 1..L + 1
      PROVE  to[i - 1] < H /\ to[i] = Onto(u, to[i - 1]) /\ more[i] = Entry(u, to[i - 1])
    <2>1. CASE i = L + 1
        <3>1. i - 1 = L /\ i - 1 \in 0..L + 1 /\ i - 1 # L + 1 /\ L + 1 \in 0..L + 1
            BY <1>2, <2>1
        <3>2. to[i - 1] = n /\ to[i] = Onto(u, n)
            BY <1>3, <2>1, <3>1
        <3> HIDE DEF to
        <3>3. n < H
            BY <1>1 DEF H
        <3> QED
            BY <1>2, <2>1, <3>2, <3>3
    <2>2. CASE i # L + 1
        <3>1. i \in 1..L /\ i - 1 # L + 1 /\ i - 1 \in 0..L + 1 /\ i \in 0..L + 1
            BY <1>2, <2>2
        <3>2. to[i - 1] = at[i - 1] /\ to[i] = at[i]
            BY <2>2, <3>1
        <3> HIDE DEF to
        <3> QED
            BY <1>2, <1>4, <3>1, <3>2
    <2> QED
        BY <2>1, <2>2
<1> HIDE DEF to
<1>7. RouteAt(u, more, to) /\ to[Len(more)] = Onto(u, n)
    BY <1>2, <1>5, <1>6 DEF RouteAt, H
<1> QED
    BY <1>2, <1>7 DEF Route, more

(* Two lists along it agree, and the longer one goes on as it says.        *)
LEMMA RoutesAgree ==
    ASSUME NEW u, NEW a, NEW b, IsList(a), IsList(b), NEW n, NEW m, Route(u, a, n), Route(u, b, m)
    PROVE  /\ Len(a) < Len(b) => n < Len(u.key) /\ b[Len(a) + 1] = Entry(u, n)
           /\ Len(a) = Len(b) => n = m
<1>1. Len(a) \in Nat /\ Len(b) \in Nat
    <2>1. \A s : IsList(s) => Len(s) \in Nat
        BY DEF IsList
    <2> QED
        BY <2>1
<1>2. PICK f : RouteAt(u, a, f) /\ f[Len(a)] = n
    BY DEF Route
<1>3. PICK g : RouteAt(u, b, g) /\ g[Len(b)] = m
    BY DEF Route
<1> SUFFICES ASSUME Len(a) <= Len(b)
             PROVE  /\ Len(a) < Len(b) => n < Len(u.key) /\ b[Len(a) + 1] = Entry(u, n)
                    /\ Len(a) = Len(b) => n = m
    BY <1>1
<1> DEFINE A == Len(a)
           T == {i \in 0..A : f[i] = g[i]}
<1>4. 0 \in T
    BY <1>1, <1>2, <1>3 DEF RouteAt
<1>5. ASSUME NEW i \in 0..A, i < A, i \in T PROVE i + 1 \in T
    <2>1. i + 1 \in 1..Len(a) /\ i + 1 \in 1..Len(b) /\ i + 1 - 1 = i /\ i + 1 \in 0..A
        BY <1>1, <1>5
    <2>2. f[i + 1] = Onto(u, f[i])
        BY <1>2, <2>1 DEF RouteAt
    <2>3. g[i + 1] = Onto(u, g[i])
        BY <1>3, <2>1 DEF RouteAt
    <2> QED
        BY <1>5, <2>1, <2>2, <2>3
<1>6. 0..A \subseteq T
    <2> HIDE DEF T
    <2> QED
        BY <1>1, <1>4, <1>5, UpTo
<1>7. g[Len(a)] = n
    BY <1>1, <1>2, <1>6
<1>8. ASSUME Len(a) < Len(b) PROVE n < Len(u.key) /\ b[Len(a) + 1] = Entry(u, n)
    <2>1. Len(a) + 1 \in 1..Len(b) /\ Len(a) + 1 - 1 = Len(a)
        BY <1>1, <1>8
    <2>2. g[Len(a) + 1 - 1] < Len(u.key) /\ b[Len(a) + 1] = Entry(u, g[Len(a) + 1 - 1])
        BY <1>3, <2>1 DEF RouteAt
    <2> QED
        BY <1>7, <2>1, <2>2
<1> QED
    BY <1>3, <1>7, <1>8

-----------------------------------------------------------------------------
(* One call of an honest walk. *)

(* The bottom of the edge the walk would leave is a binary node: no hint opens it. *)
Stuck(tree, n) ==
    /\ tree = "new" /\ n \in 0..Len(job.key) - 2
    /\ Exposes(NodesOn(job.new_root, job.key)[n], job.key[n + 1])

(* It stays, goes on to the next place of the route, or reaches the leaf.  *)
Moves(tree, n, o) ==
    \/ /\ o.updates = 0 /\ o.siblings = <<>>
       /\ \E next : o.calls = <<next>> /\ CallAt(job, RootOf(tree), n, next)
    \/ /\ n < Len(job.key) /\ ~ Stuck(tree, n) /\ o.updates = 0 /\ o.siblings = <<Entry(job, n)>>
       /\ \E next : o.calls = <<next>> /\ CallAt(job, RootOf(tree), Onto(job, n), next)
    \/ n = Len(job.key) /\ o.updates = 1 /\ o.siblings = <<>> /\ o.calls = <<>>

(* What the traverse functions know at a place. *)
LEMMA HonestPlace ==
    ASSUME IsHonest(job), NEW tree \in {"prev", "new"}, tree = pass, NEW n \in 0..Len(job.key)
    PROVE  /\ Way(job, RootOf(tree), ValueOf(tree)) /\ AccessOffset = ValueOf(tree)
           /\ job.honest = TRUE /\ ~ MayTakeBoth
           /\ Height(SubSeq(job.key, 1, n)) = 0 <=> n = Len(job.key)
           /\ Height(SubSeq(job.key, 1, n)) = 1 <=> n = Len(job.key) - 1
           /\ n = Len(job.key) => /\ SubSeq(job.key, 1, n) = job.key
                                  /\ NodesOn(RootOf(tree), job.key)[n] = Felt(ValueOf(tree))
           /\ Shape(NodesOn(RootOf(tree), job.key)[n], Len(job.key) - n)
<1>1. job.key \in Path /\ Len(job.key) \in Nat /\ job.honest = TRUE
    BY KeyIsAPath DEF IsHonest
<1>2. Way(job, RootOf(tree), ValueOf(tree)) /\ AccessOffset = ValueOf(tree)
    BY WaysAre DEF RootOf, ValueOf, AccessOffset
<1>3. /\ SubSeq(job.key, 1, n) \in Path /\ Len(SubSeq(job.key, 1, n)) = n
      /\ \A i \in 1..n : SubSeq(job.key, 1, n)[i] = job.key[i]
    BY <1>1, PlaceOn
<1>4. /\ Height(SubSeq(job.key, 1, n)) = 0 <=> n = Len(job.key)
      /\ Height(SubSeq(job.key, 1, n)) = 1 <=> n = Len(job.key) - 1
    BY <1>1, <1>3 DEF Height
<1>5. ASSUME n = Len(job.key)
      PROVE  SubSeq(job.key, 1, n) = job.key /\ NodesOn(RootOf(tree), job.key)[n] = Felt(ValueOf(tree))
    <2>1. SubSeq(job.key, 1, n) = job.key
        BY <1>1, <1>3, <1>5, SamePath
    <2>2. NodesOn(RootOf(tree), job.key)[n] = Felt(ValueOf(tree))
        BY <1>2, <1>5 DEF Way, Proved, LeafOn
    <2> QED
        BY <2>1, <2>2
<1>6. Shape(NodesOn(RootOf(tree), job.key)[n], Len(job.key) - n)
    BY <1>2 DEF Way, Proved
<1> QED
    BY <1>1, <1>2, <1>4, <1>5, <1>6 DEF MayTakeBoth

(* The only update is the leaf's. *)
LEMMA HonestLeaf ==
    ASSUME IsHonest(job), NEW tree \in {"prev", "new"}, tree = pass, NEW n, n = Len(job.key), update_ptr = 0,
           NEW v, NodesOn(RootOf(tree), job.key)[n] = Felt(v)
    PROVE  /\ LeafUpdate(SubSeq(job.key, 1, n), v) # {}
           /\ \A o \in LeafUpdate(SubSeq(job.key, 1, n), v) : Moves(tree, n, o)
<1>1. n \in 0..Len(job.key)
    BY KeyIsAPath DEF IsHonest
<1>2. /\ SubSeq(job.key, 1, n) = job.key /\ NodesOn(RootOf(tree), job.key)[n] = Felt(ValueOf(tree))
      /\ AccessOffset = ValueOf(tree)
    BY <1>1, HonestPlace
<1>3. v = AccessOffset
    <2>1. Felt(v).n = v /\ Felt(ValueOf(tree)).n = ValueOf(tree)
        BY DEF Felt
    <2> QED
        BY <1>2, <2>1
<1>4. LeafUpdate(SubSeq(job.key, 1, n), v) = {[siblings |-> <<>>, updates |-> 1, calls |-> <<>>]}
    BY <1>2, <1>3 DEF LeafUpdate
<1>5. ASSUME NEW o \in LeafUpdate(SubSeq(job.key, 1, n), v) PROVE Moves(tree, n, o)
    <2>1. o = [siblings |-> <<>>, updates |-> 1, calls |-> <<>>]
        BY <1>4
    <2>2. o.siblings = <<>> /\ o.updates = 1 /\ o.calls = <<>>
        BY <2>1
    <2> QED
        BY <2>2, Zenon DEF Moves
<1> QED
    BY <1>4, <1>5

(* traverse_empty goes on along the route, or ends at the key. *)
LEMMA HonestEmpty ==
    ASSUME IsHonest(job), NEW tree \in {"prev", "new"}, tree = pass, update_ptr = 0,
           NEW n \in 0..Len(job.key), OnRoute(job, n),
           NEW call, CallAt(job, RootOf(tree), n, call), call.fn = "empty"
    PROVE  /\ TraverseEmpty(call.path) # {}
           /\ \A o \in TraverseEmpty(call.path) : Moves(tree, n, o)
<1> DEFINE key == job.key
           path == SubSeq(key, 1, n)
           H == Len(key)
           w == SubSeq(key, n + 1, Onto(job, n))
<1>1. call.path = path /\ NodesOn(RootOf(tree), key)[n] = Zero
    BY DEF CallAt
<1>2. /\ Way(job, RootOf(tree), ValueOf(tree)) /\ ~ MayTakeBoth /\ (Height(path) = 0 <=> n = H)
    BY HonestPlace
<1>3. CASE n = H
    <2>1. TraverseEmpty(path) = LeafUpdate(path, 0)
        BY <1>2, <1>3 DEF TraverseEmpty
    <2>2. NodesOn(RootOf(tree), key)[n] = Felt(0)
        BY <1>1 DEF Zero
    <2>3. LeafUpdate(path, 0) # {} /\ \A o \in LeafUpdate(path, 0) : Moves(tree, n, o)
        BY <1>3, <2>2, HonestLeaf
    <2> QED
        BY <1>1, <2>1, <2>3
<1>4. CASE n # H
    <2>0. H \in Nat /\ key \in Path
        BY KeyIsAPath DEF IsHonest
    <2>1. n \in 0..H - 1 /\ n < H
        BY <1>4, <2>0
    <2>2. n \notin Turns(job)
        BY <1>1, <1>2, <2>1, ZeroOnWay
    <2>3. Onto(job, n) \in n..H
        <3>1. Onto(job, n) \in n + 1..H
            BY <2>1, OntoIs
        <3> QED
            BY <2>0, <3>1
    <2>4. Words(path) = {w}
        BY <2>1, HonestWords
    <2>5. EmptySiblings(w) = <<Entry(job, n)>>
        BY <2>1, <2>2, EmptyEntry
    <2>6. path \o w = SubSeq(key, 1, Onto(job, n))
        BY <2>0, <2>3, BitsOn
    <2>7. NodesOn(RootOf(tree), key)[Onto(job, n)] = Zero
        BY <1>1, <1>2, <2>3, ZeroFurther
    <2> DEFINE next == Call("empty", path \o w, Zero)
               out == Calls(EmptySiblings(w), <<next>>)
    <2> HIDE DEF w
    <2>8. TraverseEmpty(path) = {out}
        BY <1>2, <1>4, <2>4 DEF TraverseEmpty
    <2>9. CallAt(job, RootOf(tree), Onto(job, n), next)
        <3>1. next.fn = "empty" /\ next.path = SubSeq(key, 1, Onto(job, n))
            BY <2>6 DEF Call
        <3> QED
            BY <2>7, <3>1 DEF CallAt
    <2>10. ~ Stuck(tree, n)
        BY <1>1, Kinds DEF Stuck, Exposes, RootOf
    <2> HIDE DEF next, path, key
    <2>11. Moves(tree, n, out)
        <3>1. out.updates = 0 /\ out.siblings = <<Entry(job, n)>> /\ out.calls = <<next>>
            BY <2>5 DEF Calls
        <3> HIDE DEF out
        <3> QED
            BY <2>1, <2>9, <2>10, <3>1 DEF Moves, key
    <2> HIDE DEF out
    <2> QED
        BY <1>1, <2>8, <2>11
<1> QED
    BY <1>3, <1>4

(* traverse_binary_or_leaf: the node opens, and one child is entered. *)
LEMMA HonestBinaryOrLeaf ==
    ASSUME IsHonest(job), NEW tree \in {"prev", "new"}, tree = pass, update_ptr = 0,
           NEW n \in 0..Len(job.key), OnRoute(job, n),
           NEW call, CallAt(job, RootOf(tree), n, call), call.fn = "binary_or_leaf"
    PROVE  /\ TraverseBinaryOrLeaf(call.path, call.node) # {}
           /\ \A o \in TraverseBinaryOrLeaf(call.path, call.node) : Moves(tree, n, o)
<1> DEFINE key == job.key
           path == SubSeq(key, 1, n)
           H == Len(key)
           root == RootOf(tree)
           node == NodesOn(root, key)[n]
           bit == key[n + 1]
<1>1. /\ call.path = path /\ call.node = node /\ node # Zero
      /\ Stored(root, key, n) /\ (n = H \/ node.kind = "Binary")
    BY DEF CallAt
<1>2. /\ Way(job, root, ValueOf(tree)) /\ job.honest = TRUE /\ ~ MayTakeBoth /\ (Height(path) = 0 <=> n = H)
      /\ n = H => node = Felt(ValueOf(tree))
    BY HonestPlace
<1>3. CASE n = H
    <2>1. node = Felt(ValueOf(tree)) /\ node.kind = "Felt" /\ node.n = ValueOf(tree) /\ node.n # 0
        <3>1. node = Felt(ValueOf(tree))
            BY <1>2, <1>3
        <3> QED
            BY <1>1, <3>1, Kinds
    <2> HIDE DEF node, path
    <2>2. TraverseBinaryOrLeaf(path, node) = LeafUpdate(path, node.n)
        BY <1>2, <1>3, <2>1 DEF TraverseBinaryOrLeaf
    <2>3. LeafUpdate(path, node.n) # {} /\ \A o \in LeafUpdate(path, node.n) : Moves(tree, n, o)
        BY <1>3, <2>1, HonestLeaf DEF node, path
    <2> QED
        BY <1>1, <2>2, <2>3
<1>4. CASE n # H
    <2>0. H \in Nat /\ key \in Path
        BY KeyIsAPath DEF IsHonest
    <2>1. n \in 0..H - 1 /\ n < H /\ node.kind = "Binary"
        BY <1>1, <1>4, <2>0
    <2>2. /\ Child(node, 0) = node.left /\ Child(node, 1) = node.right /\ node.left # Zero /\ node.right # Zero
          /\ n \in Turns(job) /\ NodesOn(root, key)[n + 1] # Zero
        BY <1>2, <2>1, BinaryOnWay
    <2>3. /\ bit \in {0, 1} /\ NodesOn(root, key)[n + 1] = Child(node, bit)
          /\ Child(node, 1 - bit) = Sibling(job.prev_root, key, n + 1)
        BY <1>2, <2>1, NodeOnWay
    <2>4. Children(path) = {<<bit>>}
        BY <2>1, HonestWords
    <2>5. Known(node)
        <3>1. node \in job.preimage
            BY <1>1, <1>2, <2>1 DEF Way, Proved
        <3> QED
            BY <3>1 DEF Known
    <2>6. path \o <<bit>> = SubSeq(key, 1, n + 1)
        <3>1. path \in Path /\ SubSeq(key, 1, n + 1) = Append(path, bit)
            BY <2>0, <2>1, PlaceOn, PlaceAfter
        <3> HIDE DEF path, bit
        <3> QED
            BY <2>3, <3>1 DEF Path
    <2>7. Onto(job, n) = n + 1 /\ Entry(job, n) = Child(node, 1 - bit)
        BY <2>2, <2>3 DEF Onto, Entry
    <2> DEFINE into == IF <<bit>> = <<0>> THEN node.left ELSE node.right
               passed == IF <<bit>> = <<0>> THEN node.right ELSE node.left
               next == Call("non_empty", path \o <<bit>>, into)
               out == Calls(<<passed>>, <<next>>)
    <2>8. into = Child(node, bit) /\ passed = Child(node, 1 - bit) /\ passed # Zero
        <3> HIDE DEF node, bit
        <3>1. CASE bit = 0
            BY <2>2, <3>1
        <3>2. CASE bit = 1
            BY <2>2, <3>2
        <3> QED
            BY <2>3, <3>1, <3>2
    <2>9. TraverseBinaryOrLeaf(path, node) = {out}
        <3> HIDE DEF node, bit, path
        <3>1. TraverseBinaryOrLeaf(path, node)
                 = LET Into(b) == Call("non_empty", path \o b, IF b = <<0>> THEN node.left ELSE node.right)
                       Passed(b) == IF b = <<0>> THEN node.right ELSE node.left
                   IN  {Calls(<<Passed(b)>>, <<Into(b)>>) : b \in {c \in {<<bit>>} : Passed(c) # Zero}}
                          \union {o \in {Calls(<<>>, <<Into(<<0>>), Into(<<1>>)>>)} : MayTakeBoth}
            BY <1>2, <1>4, <2>1, <2>4, <2>5, Zenon DEF TraverseBinaryOrLeaf
        <3>2. {c \in {<<bit>>} : (IF c = <<0>> THEN node.right ELSE node.left) # Zero} = {<<bit>>}
            BY <2>8
        <3> QED
            BY <1>2, <3>1, <3>2
    <2>10. CallAt(job, root, Onto(job, n), next)
        <3>1. next.fn = "non_empty" /\ next.path = SubSeq(key, 1, n + 1) /\ next.node = NodesOn(root, key)[n + 1]
            BY <2>3, <2>6, <2>8 DEF Call
        <3>2. Stored(root, key, n + 1)
            <4>1. n + 1 - 1 = n
                BY <2>1
            <4> QED
                BY <2>1, <4>1 DEF Stored
        <3> HIDE DEF next
        <3> QED
            BY <2>2, <2>7, <3>1, <3>2 DEF CallAt
    <2>11. ~ Stuck(tree, n)
        BY <2>1 DEF Stuck, Exposes, RootOf
    <2> HIDE DEF next, path, key, passed, into
    <2>12. Moves(tree, n, out)
        <3>1. out.updates = 0 /\ out.siblings = <<Entry(job, n)>> /\ out.calls = <<next>>
            BY <2>7, <2>8 DEF Calls
        <3> HIDE DEF out
        <3> QED
            BY <2>1, <2>10, <2>11, <3>1 DEF Moves, key
    <2> HIDE DEF out, node
    <2> QED
        BY <1>1, <2>9, <2>12
<1> QED
    BY <1>3, <1>4

(* traverse_non_empty: as an edge, or as a binary node or leaf. *)
LEMMA HonestNonEmpty ==
    ASSUME IsHonest(job), NEW tree \in {"prev", "new"}, tree = pass, update_ptr = 0,
           NEW n \in 0..Len(job.key), OnRoute(job, n),
           NEW call, CallAt(job, RootOf(tree), n, call), call.fn = "non_empty"
    PROVE  /\ TraverseNonEmpty(call.path, call.node) # {}
           /\ \A o \in TraverseNonEmpty(call.path, call.node) : Moves(tree, n, o)
<1> DEFINE key == job.key
           path == SubSeq(key, 1, n)
           H == Len(key)
           root == RootOf(tree)
           node == NodesOn(root, key)[n]
<1>1. call.path = path /\ call.node = node /\ node # Zero /\ Stored(root, key, n)
    BY DEF CallAt
<1>2. /\ Way(job, root, ValueOf(tree)) /\ job.honest = TRUE /\ (Height(path) = 0 <=> n = H)
      /\ Shape(node, H - n)
    BY HonestPlace
<1>3. H \in Nat /\ (n # H => n \in 0..H - 1 /\ H - n > 0)
    BY KeyIsAPath DEF IsHonest
<1>4. ASSUME NEW next, next.path = path, CallAt(job, root, n, next) PROVE Moves(tree, n, Calls(<<>>, <<next>>))
    <2>1. Calls(<<>>, <<next>>).updates = 0 /\ Calls(<<>>, <<next>>).siblings = <<>> /\ Calls(<<>>, <<next>>).calls = <<next>>
        BY DEF Calls
    <2> QED
        BY <1>4, <2>1 DEF Moves
<1> DEFINE open == Call("binary_or_leaf", path, node)
           along == Call("edge", path, node)
<1>5. CASE n = H \/ node.kind = "Binary"
    <2>1. CallAt(job, root, n, open) /\ open.path = path
        <3>1. open.fn = "binary_or_leaf" /\ open.path = path /\ open.node = node
            BY DEF Call
        <3> HIDE DEF open
        <3> QED
            BY <1>1, <1>5, <3>1 DEF CallAt
    <2>2. Known(node) \/ n = H
        <3> SUFFICES ASSUME n # H PROVE node \in job.preimage
            BY DEF Known
        <3> QED
            BY <1>1, <1>2, <1>3, <1>5 DEF Way, Proved
    <2>3. TraverseNonEmpty(path, node) = {Calls(<<>>, <<open>>)}
        <3> HIDE DEF path, node
        <3> QED
            BY <1>2, <1>5, <2>2, Zenon DEF TraverseNonEmpty, open
    <2> HIDE DEF open, path, node
    <2> QED
        BY <1>1, <1>4, <2>1, <2>3
<1>6. CASE n # H /\ node.kind # "Binary"
    <2>1. PICK p, bottom : p \in Path \ {<<>>} /\ node = Edge(p, bottom)
        BY <1>1, <1>2, <1>3, <1>6, Kinds DEF Shape
    <2>2. node.kind = "Edge" /\ node.path \in Path \ {<<>>}
        <3>1. node.kind = "Edge" /\ node.path = p
            BY <2>1, Kinds
        <3> QED
            BY <2>1, <3>1
    <2>3. CallAt(job, root, n, along) /\ along.path = path
        <3>1. along.fn = "edge" /\ along.path = path /\ along.node = node
            BY DEF Call
        <3>2. n < H
            BY <1>3, <1>6
        <3> HIDE DEF along
        <3> QED
            BY <1>1, <2>2, <3>1, <3>2 DEF CallAt
    <2>4. Known(node)
        <3>1. node \in job.preimage
            BY <1>1, <1>2, <1>3, <1>6, <2>2 DEF Way, Proved
        <3> QED
            BY <3>1 DEF Known
    <2>5. OpensAsEdge(node)
        BY <2>2 DEF OpensAsEdge, Path
    <2>6. TraverseNonEmpty(path, node) = {Calls(<<>>, <<along>>)}
        <3> HIDE DEF path, node
        <3>1. TraverseNonEmpty(path, node) = {o \in {Calls(<<>>, <<along>>)} : OpensAsEdge(node)}
            BY <1>2, <1>6, <2>4, Zenon DEF TraverseNonEmpty, along
        <3> QED
            BY <2>5, <3>1
    <2> HIDE DEF along, path, node
    <2> QED
        BY <1>1, <1>4, <2>3, <2>6
<1> QED
    BY <1>5, <1>6

(* At the end of an edge. *)
LEMMA HonestEdgeEnd ==
    ASSUME IsHonest(job), NEW tree \in {"prev", "new"}, tree = pass, update_ptr = 0,
           NEW n \in 0..Len(job.key), OnRoute(job, n),
           NEW call, CallAt(job, RootOf(tree), n, call), call.fn = "edge", call.node.path = <<>>
    PROVE  /\ TraverseEdge(call.path, call.node) # {}
           /\ \A o \in TraverseEdge(call.path, call.node) : Moves(tree, n, o)
<1> DEFINE node == NodesOn(RootOf(tree), job.key)[n]
           next == Call("binary_or_leaf", call.path, call.node.bottom)
           out == Calls(<<>>, <<next>>)
<1>1. /\ call.path = SubSeq(job.key, 1, n) /\ call.node.bottom = node /\ node # Zero
      /\ Stored(RootOf(tree), job.key, n) /\ (n = Len(job.key) \/ node.kind = "Binary")
    BY DEF CallAt
<1>2. TraverseEdge(call.path, call.node) = {out}
    BY Zenon DEF TraverseEdge
<1>3. CallAt(job, RootOf(tree), n, next)
    <2>1. next.fn = "binary_or_leaf" /\ next.path = SubSeq(job.key, 1, n) /\ next.node = node
        BY <1>1 DEF Call
    <2> HIDE DEF next
    <2> QED
        BY <1>1, <2>1 DEF CallAt
<1>4. out.updates = 0 /\ out.siblings = <<>> /\ out.calls = <<next>>
    BY DEF Calls
<1> HIDE DEF out, next
<1>5. Moves(tree, n, out)
    BY <1>3, <1>4 DEF Moves
<1> QED
    BY <1>2, <1>5

(* Along an edge that goes the way of the key. *)
LEMMA HonestAlongEdge ==
    ASSUME IsHonest(job), NEW tree \in {"prev", "new"}, tree = pass, update_ptr = 0,
           NEW n \in 0..Len(job.key) - 1, OnRoute(job, n), n \notin Turns(job),
           NEW p \in Path \ {<<>>}, NEW bottom, bottom # Zero, NodesOn(RootOf(tree), job.key)[n] = Edge(p, bottom),
           Len(p) <= Len(job.key) - n, bottom.kind = IF Len(p) = Len(job.key) - n THEN "Felt" ELSE "Binary"
    PROVE  LET path == SubSeq(job.key, 1, n)
           IN  /\ TraverseEdge(path, Edge(p, bottom)) # {}
               /\ \A o \in TraverseEdge(path, Edge(p, bottom)) : Moves(tree, n, o)
<1> DEFINE key == job.key
           path == SubSeq(key, 1, n)
           H == Len(key)
           root == RootOf(tree)
           edge == Edge(p, bottom)
           m == Onto(job, n)
           w == SubSeq(key, n + 1, m)
           bit == key[n + 1]
<1>1. /\ H \in Nat /\ key \in Path /\ n \in 0..H /\ n < H /\ n \in Nat
    BY KeyIsAPath DEF IsHonest
<1>2. /\ Way(job, root, ValueOf(tree)) /\ ~ MayTakeBoth
    BY <1>1, HonestPlace
<1>3. edge.path = p /\ edge.bottom = bottom /\ edge.kind = "Edge"
    BY Kinds
<1>4. m \in n + 1..H /\ m = EndOf(job, n)
    BY OntoIs DEF Onto
<1>5. w \in Path \ {<<>>} /\ Len(w) = m - n /\ EmptySiblings(w) = <<Entry(job, n)>>
    BY EmptyEntry
<1>6. /\ path \o w = SubSeq(key, 1, m) /\ \A i \in 1..m - n : w[i] = key[n + i]
    <2>1. m \in n..H
        BY <1>1, <1>4
    <2> QED
        BY <1>1, <2>1, BitsOn
<1>7. Words(path) = {w}
    BY HonestWords
<1>8. bit \in {0, 1} /\ Head(p) \in {0, 1} /\ Head(p) = bit /\ Head(p) = p[1] /\ w[1] = bit
    <2>1. bit \in {0, 1}
        BY <1>2, NodeOnWay
    <2>2. Head(p) \in {0, 1} /\ Head(p) = p[1]
        BY EdgeChildren
    <2>3. n \in Turns(job) <=> Head(p) = 1 - bit
        BY <1>2, EdgeOnWay
    <2>4. 1 \in 1..m - n
        BY <1>1, <1>4
    <2>5. w[1] = bit
        BY <1>6, <2>4
    <2> HIDE DEF bit
    <2>6. Head(p) = bit
        BY <2>1, <2>2, <2>3
    <2> QED
        BY <2>1, <2>2, <2>5, <2>6
<1>9. \A i \in 0..m - n :
         /\ i <= Len(p) /\ \A j \in 1..i : key[n + j] = p[j]
         /\ NodesOn(root, key)[n + i] = Opened(Edge(Drop(p, i), bottom))
    BY <1>2, <1>4, EdgeGoesOn
<1> DEFINE rest == Drop(p, m - n)
           next == Call("edge", path \o w, Edge(rest, bottom))
           out == Calls(EmptySiblings(w), <<next>>)
<1>10. m - n \in 0..m - n /\ n + (m - n) = m /\ m - n \in Nat /\ m - n >= 1 /\ m \in Nat /\ m <= H
    <2>1. m \in n + 1..H
        BY <1>4
    <2> HIDE DEF m, H
    <2>2. m \in Nat /\ n + 1 <= m /\ m <= H
        BY <1>1, <2>1
    <2> QED
        BY <1>1, <2>2
<1>11. m - n <= Len(p) /\ (\A j \in 1..m - n : key[n + j] = p[j]) /\ NodesOn(root, key)[m] = Opened(Edge(rest, bottom))
    BY <1>9, <1>10
<1>12. IsPrefix(w, p)
    <2> HIDE DEF w, m, key
    <2>1. Len(p) \in Nat /\ w \in Path
        BY <1>5 DEF Path
    <2>2. m - n \in 0..Len(w) /\ m - n \in 0..Len(p)
        BY <1>5, <1>10, <1>11, <2>1
    <2>3. /\ SubSeq(w, 1, m - n) \in Path /\ Len(SubSeq(w, 1, m - n)) = m - n
          /\ \A i \in 1..m - n : SubSeq(w, 1, m - n)[i] = w[i]
        BY <2>1, <2>2, PlaceOn
    <2>4. /\ SubSeq(p, 1, m - n) \in Path /\ Len(SubSeq(p, 1, m - n)) = m - n
          /\ \A i \in 1..m - n : SubSeq(p, 1, m - n)[i] = p[i]
        BY <2>2, PlaceOn
    <2>5. \A i \in 1..m - n : SubSeq(w, 1, m - n)[i] = SubSeq(p, 1, m - n)[i]
        BY <1>6, <1>11, <2>3, <2>4
    <2>6. SubSeq(w, 1, m - n) = SubSeq(p, 1, m - n)
        BY <2>3, <2>4, <2>5, SamePath
    <2> QED
        BY <1>5, <1>11, <2>6 DEF IsPrefix
<1> HIDE DEF w, m, path
<1>13. AlongEdge(path, edge) = {out}
    <2>1. {v \in Words(path) : IsPrefix(v, edge.path)} = {w}
        BY <1>3, <1>7, <1>12
    <2>2. Drop(edge.path, Len(w)) = rest
        BY <1>3, <1>5
    <2> HIDE DEF edge, rest
    <2> QED
        BY <1>3, <2>1, <2>2 DEF AlongEdge
<1>14. OffEdge(path, edge) = {}
    <2>1. w # <<1 - Head(edge.path)>>
        <3>1. 1 - Head(p) # Head(p)
            BY <1>8
        <3>2. <<1 - Head(p)>>[1] = 1 - Head(p)
            OBVIOUS
        <3> QED
            BY <1>3, <1>8, <3>1, <3>2
    <2>2. {v \in Words(path) : v = <<1 - Head(edge.path)>>} = {}
        BY <1>7, <2>1
    <2> HIDE DEF edge
    <2> QED
        BY <2>2 DEF OffEdge
<1>15. BothSidesOfEdge(path, edge) = {}
    BY <1>2 DEF BothSidesOfEdge
<1>16. TraverseEdge(path, edge) = {out}
    BY <1>3, <1>13, <1>14, <1>15 DEF TraverseEdge
<1>17. ~ Stuck(tree, n)
    <2>1. tree = "new" => RootOf(tree) = job.new_root
        BY DEF RootOf
    <2> QED
        BY <1>3, <1>8, <2>1 DEF Stuck, Exposes
<1>18. CallAt(job, root, m, next)
    <2>1. next.fn = "edge" /\ next.path = SubSeq(key, 1, m) /\ next.node = Edge(rest, bottom)
        BY <1>6 DEF Call
    <2>2. next.node.path = rest /\ next.node.bottom = bottom /\ next.node.kind = "Edge"
        BY <2>1, Kinds
    <2> HIDE DEF next
    <2>3. rest \in Path /\ Len(rest) = Len(p) - (m - n) /\ Len(p) \in Nat
        <3>1. Len(p) \in Nat /\ m - n \in 0..Len(p) /\ Len(p) \in m - n..Len(p)
            BY <1>10, <1>11 DEF Path
        <3> QED
            BY <3>1, BitsOn DEF Drop
    <2> HIDE DEF rest
    <2>4. CASE rest = <<>>
        <3>1. NodesOn(root, key)[m] = bottom
            BY <1>11, <2>4, Kinds DEF Opened
        <3>2. Len(p) = m - n
            BY <1>10, <2>3, <2>4
        <3>3. m = Len(key) \/ bottom.kind = "Binary"
            BY <1>1, <1>10, <3>2
        <3>4. Stored(root, key, m)
            <4> DEFINE i == m - n - 1
                       last == Drop(p, i)
            <4>1. i \in 0..m - n /\ n + i = m - 1 /\ i \in 0..Len(p) /\ Len(p) \in i..Len(p) /\ Len(p) - i = 1
                <5>1. i \in Nat /\ n + i = m - 1 /\ i + 1 = m - n /\ i + 1 = Len(p)
                    BY <1>1, <1>10, <2>3, <3>2
                <5> HIDE DEF i
                <5> QED
                    BY <1>10, <2>3, <5>1
            <4>2. NodesOn(root, key)[n + i] = Opened(Edge(last, bottom))
                BY <1>9, <4>1
            <4>3. last \in Path /\ Len(last) = 1
                BY <4>1, BitsOn DEF Drop
            <4> HIDE DEF last, i
            <4>4. last # <<>> /\ Edge(last, bottom).path = last /\ Edge(last, bottom).kind = "Edge"
                BY <4>3, Kinds
            <4>5. NodesOn(root, key)[m - 1] = Edge(last, bottom)
                BY <4>1, <4>2, <4>4 DEF Opened
            <4> QED
                BY <4>3, <4>4, <4>5 DEF Stored
        <3> QED
            BY <2>1, <2>2, <2>4, <3>1, <3>3, <3>4 DEF CallAt
    <2>5. CASE rest # <<>>
        <3>1. NodesOn(root, key)[m] = Edge(rest, bottom)
            <4>1. Edge(rest, bottom).path = rest
                BY Kinds
            <4> QED
                BY <1>11, <2>5, <4>1 DEF Opened
        <3>2. m < Len(key)
            <4>1. Len(rest) # 0
                BY <2>3, <2>5 DEF Path
            <4>2. Len(rest) \in Nat
                BY <2>3 DEF Path
            <4>3. m - n < Len(p) /\ Len(p) <= H - n
                BY <1>10, <2>3, <4>1, <4>2
            <4> HIDE DEF H
            <4>4. m < H
                BY <1>1, <1>10, <2>3, <4>3
            <4> QED
                BY <4>4 DEF H
        <3>3. Edge(rest, bottom) # Zero
            BY Kinds
        <3> QED
            BY <2>1, <2>2, <2>5, <3>1, <3>2, <3>3 DEF CallAt
    <2> QED
        BY <2>4, <2>5
<1> HIDE DEF next
<1>19. out.updates = 0 /\ out.siblings = <<Entry(job, n)>> /\ out.calls = <<next>>
    BY <1>5 DEF Calls
<1> HIDE DEF out
<1>20. Moves(tree, n, out)
    BY <1>1, <1>17, <1>18, <1>19 DEF Moves, m
<1> QED
    BY <1>16, <1>20 DEF path

(* Off an edge. *)
LEMMA HonestOffEdge ==
    ASSUME IsHonest(job), NEW tree \in {"prev", "new"}, tree = pass, update_ptr = 0,
           NEW n \in 0..Len(job.key) - 1, OnRoute(job, n), n \in Turns(job),
           NEW p \in Path \ {<<>>}, NEW bottom, bottom # Zero, NodesOn(RootOf(tree), job.key)[n] = Edge(p, bottom)
    PROVE  LET path == SubSeq(job.key, 1, n)
           IN  /\ TraverseEdge(path, Edge(p, bottom)) # {} \/ Stuck(tree, n)
               /\ \A o \in TraverseEdge(path, Edge(p, bottom)) : Moves(tree, n, o)
<1> DEFINE key == job.key
           path == SubSeq(key, 1, n)
           H == Len(key)
           root == RootOf(tree)
           edge == Edge(p, bottom)
           bit == key[n + 1]
           opens == Len(p) = 1 /\ Height(path) # 1 /\ pass = "new"
           next == Call("empty", path \o <<bit>>, Zero)
           out == Calls(<<Cut(edge)>>, <<next>>)
<1>1. /\ H \in Nat /\ key \in Path /\ n \in 0..H /\ n < H /\ n \in Nat
    BY KeyIsAPath DEF IsHonest
<1>2. /\ Way(job, root, ValueOf(tree)) /\ ~ MayTakeBoth /\ job.honest = TRUE /\ (Height(path) = 1 <=> n = H - 1)
    BY <1>1, HonestPlace
<1>3. edge.path = p /\ edge.bottom = bottom /\ edge.kind = "Edge"
    BY Kinds
<1>4. Onto(job, n) = n + 1 /\ Entry(job, n) = Sibling(job.prev_root, key, n + 1)
    BY DEF Onto, Entry
<1>5. bit \in {0, 1}
    BY <1>2, NodeOnWay
<1>6. Head(p) \in {0, 1} /\ Head(p) = 1 - bit /\ NodesOn(root, key)[n + 1] = Zero /\ Entry(job, n) = Cut(edge)
    BY <1>2, <1>4, EdgeOnWay
<1>7. path \in Path /\ Len(path) = n /\ path \o <<bit>> = SubSeq(key, 1, n + 1)
    <2>1. path \in Path /\ Len(path) = n /\ SubSeq(key, 1, n + 1) = Append(path, bit)
        BY <1>1, PlaceOn, PlaceAfter
    <2> HIDE DEF path, bit, key
    <2>2. path \o <<bit>> = Append(path, bit)
        BY <1>5, <2>1 DEF Path
    <2> QED
        BY <2>1, <2>2
<1>8. Words(path) = {<<bit>>}
    <2>1. Words(path) = {SubSeq(key, n + 1, n + 1)} /\ Case(path) = {<<bit>>}
        BY <1>4, HonestWords
    <2>2. SubSeq(key, n + 1, n + 1) = <<bit>>
        <3> DEFINE w == SubSeq(key, n + 1, n + 1)
        <3>1. n + 1 \in n..H /\ n + 1 - n = 1
            BY <1>1
        <3>2. w \in Path /\ Len(w) = 1 /\ \A i \in 1..1 : w[i] = key[n + i]
            BY <1>1, <3>1, BitsOn
        <3> HIDE DEF w
        <3>3. w[1] = bit /\ w = <<w[1]>>
            BY <3>2 DEF Path
        <3> QED
            BY <3>3 DEF w
    <2> QED
        BY <2>1, <2>2
<1> HIDE DEF path, bit, key
<1>9. AlongEdge(path, edge) = {}
    <2>1. ~ IsPrefix(<<bit>>, p)
        <3> SUFFICES ASSUME IsPrefix(<<bit>>, p) PROVE FALSE
            OBVIOUS
        <3>1. SubSeq(<<bit>>, 1, 1) = SubSeq(p, 1, 1)
            BY DEF IsPrefix
        <3>2. <<bit>> \in Path /\ Len(<<bit>>) = 1 /\ 1 \in 0..1
            BY <1>5 DEF Path
        <3>3. SubSeq(<<bit>>, 1, 1)[1] = bit
            BY <3>2, PlaceOn
        <3>4. 1 \in 0..Len(p) /\ Head(p) = p[1]
            BY DEF Path
        <3>5. SubSeq(p, 1, 1)[1] = p[1]
            BY <3>4, PlaceOn
        <3> QED
            BY <1>5, <1>6, <3>1, <3>3, <3>4, <3>5
    <2>2. {v \in Words(path) : IsPrefix(v, edge.path)} = {}
        BY <1>3, <1>8, <2>1
    <2> HIDE DEF edge
    <2> QED
        BY <2>2 DEF AlongEdge
<1>10. BothSidesOfEdge(path, edge) = {}
    BY <1>2 DEF BothSidesOfEdge
<1>11. <<1 - Head(edge.path)>> = <<bit>>
    BY <1>3, <1>5, <1>6
<1>12. OffEdge(path, edge) = IF opens THEN {} ELSE {out}
    <2>1. {v \in Words(path) : v = <<1 - Head(edge.path)>>} = {<<bit>>}
        BY <1>8, <1>11
    <2>2. CASE opens
        BY <1>2, <1>3, <2>2, Zenon DEF OffEdge
    <2>3. CASE ~ opens
        <3>1. OffEdge(path, edge)
                 = {Calls(<<Cut(edge)>>, <<Call("empty", path \o <<1 - Head(edge.path)>>, Zero)>>) :
                       b \in {x \in Words(path) : x = <<1 - Head(edge.path)>>}}
            BY <1>3, <2>3, Zenon DEF OffEdge
        <3>2. OffEdge(path, edge) = {Calls(<<Cut(edge)>>, <<Call("empty", path \o <<bit>>, Zero)>>) : b \in {<<bit>>}}
            BY <1>11, <2>1, <3>1
        <3> QED
            BY <2>3, <3>2
    <2> QED
        BY <2>2, <2>3
<1>13. TraverseEdge(path, edge) = IF opens THEN {} ELSE {out}
    BY <1>3, <1>9, <1>10, <1>12 DEF TraverseEdge
<1>14. opens <=> Stuck(tree, n)
    <2>1. Stuck(tree, n) <=> tree = "new" /\ n \in 0..H - 2 /\ Exposes(NodesOn(job.new_root, key)[n], bit)
        BY DEF Stuck, key, bit
    <2>2. tree = "new" => NodesOn(job.new_root, key)[n] = edge
        BY DEF RootOf, key
    <2>3. Exposes(edge, bit) <=> Len(p) = 1
        BY <1>3, <1>5, <1>6 DEF Exposes
    <2>4. n \in 0..H - 2 <=> n # H - 1
        BY <1>1
    <2> HIDE DEF edge, H
    <2> QED
        BY <1>2, <2>1, <2>2, <2>3, <2>4
<1>15. CallAt(job, root, n + 1, next)
    <2>1. next.fn = "empty" /\ next.path = SubSeq(key, 1, n + 1)
        BY <1>7 DEF Call
    <2> HIDE DEF next
    <2> QED
        BY <1>6, <2>1 DEF CallAt, key
<1>16. out.updates = 0 /\ out.siblings = <<Entry(job, n)>> /\ out.calls = <<next>>
    BY <1>6 DEF Calls
<1> HIDE DEF out, next, opens
<1>17. ~ opens => Moves(tree, n, out)
    BY <1>1, <1>4, <1>14, <1>15, <1>16 DEF Moves, key
<1>18. (TraverseEdge(path, edge) # {} \/ Stuck(tree, n)) /\ \A o \in TraverseEdge(path, edge) : Moves(tree, n, o)
    BY <1>13, <1>14, <1>17
<1> QED
    BY <1>18 DEF path, key

(* traverse_edge: at its end, along it or off it, or at an exposed node. *)
LEMMA HonestEdge ==
    ASSUME IsHonest(job), NEW tree \in {"prev", "new"}, tree = pass, update_ptr = 0,
           NEW n \in 0..Len(job.key), OnRoute(job, n),
           NEW call, CallAt(job, RootOf(tree), n, call), call.fn = "edge"
    PROVE  /\ TraverseEdge(call.path, call.node) # {} \/ Stuck(tree, n)
           /\ \A o \in TraverseEdge(call.path, call.node) : Moves(tree, n, o)
<1> DEFINE node == NodesOn(RootOf(tree), job.key)[n]
           H == Len(job.key)
<1>1. CASE call.node.path = <<>>
    BY <1>1, HonestEdgeEnd
<1>2. CASE call.node.path # <<>>
    <2>1. call.path = SubSeq(job.key, 1, n) /\ call.node = node /\ node.kind = "Edge" /\ n < H /\ node # Zero
        BY <1>2 DEF CallAt
    <2>2. H \in Nat /\ n \in 0..H - 1
        BY <2>1, KeyIsAPath DEF IsHonest
    <2>3. Shape(node, H - n)
        BY HonestPlace
    <2> HIDE DEF node
    <2>4. PICK p, bottom :
             /\ p \in Path \ {<<>>}
             /\ node = Edge(p, bottom) /\ Len(p) <= H - n /\ bottom # Zero
             /\ bottom.kind = IF Len(p) = H - n THEN "Felt" ELSE "Binary"
        <3> DEFINE left == H - n
        <3>1. Shape(node, left) /\ node.kind = "Edge"
            BY <2>1, <2>3
        <3> HIDE DEF left, H
        <3>2. \E p, bottom :
                 /\ p \in Path \ {<<>>} /\ node = Edge(p, bottom) /\ Len(p) <= left /\ bottom # Zero
                 /\ bottom.kind = IF Len(p) = left THEN "Felt" ELSE "Binary"
            BY <3>1, Kinds DEF Shape
        <3> QED
            BY <3>2 DEF left
    <2>5. CASE n \in Turns(job)
        <3>1. /\ TraverseEdge(SubSeq(job.key, 1, n), Edge(p, bottom)) # {} \/ Stuck(tree, n)
              /\ \A o \in TraverseEdge(SubSeq(job.key, 1, n), Edge(p, bottom)) : Moves(tree, n, o)
            BY <2>2, <2>4, <2>5, HonestOffEdge DEF node
        <3> QED
            BY <2>1, <2>4, <3>1
    <2>6. CASE n \notin Turns(job)
        <3>1. /\ TraverseEdge(SubSeq(job.key, 1, n), Edge(p, bottom)) # {}
              /\ \A o \in TraverseEdge(SubSeq(job.key, 1, n), Edge(p, bottom)) : Moves(tree, n, o)
            BY <2>2, <2>4, <2>6, HonestAlongEdge DEF node
        <3> QED
            BY <2>1, <2>4, <3>1
    <2> QED
        BY <2>5, <2>6
<1> QED
    BY <1>1, <1>2

-----------------------------------------------------------------------------
(* The walks of honest hints stay on their way. *)

(* What the second walk lists is what the first has listed. *)
LEMMA MovesFit ==
    ASSUME IsHonest(job), HonestWalks, NEW tree \in {"prev", "new"}, tree = pass,
           NEW n \in 0..Len(job.key), Route(job, siblings[tree], n), NEW o, Moves(tree, n, o)
    PROVE  Fits(o.siblings)
<1> SUFFICES ASSUME pass = "new", NEW i \in DOMAIN o.siblings,
                    Len(siblings["new"]) + i \in DOMAIN siblings["prev"]
             PROVE  o.siblings[i] = siblings["prev"][Len(siblings["new"]) + i]
    BY DEF Fits
<1>1. o.siblings = <<Entry(job, n)>> /\ i = 1
    <2>1. o.siblings = <<>> \/ o.siblings = <<Entry(job, n)>>
        BY DEF Moves
    <2>2. DOMAIN <<>> = {} /\ DOMAIN <<Entry(job, n)>> = {1}
        OBVIOUS
    <2> QED
        BY <2>1, <2>2
<1>2. IsList(siblings["prev"]) /\ IsList(siblings["new"]) /\ Route(job, siblings["prev"], Len(job.key)) /\ Route(job, siblings["new"], n)
    BY DEF HonestWalks
<1>3. Len(siblings["new"]) < Len(siblings["prev"])
    <2>1. \A s : IsList(s) => Len(s) \in Nat /\ DOMAIN s = 1..Len(s)
        BY DEF IsList
    <2>2. Len(siblings["new"]) \in Nat /\ Len(siblings["prev"]) \in Nat /\ DOMAIN siblings["prev"] = 1..Len(siblings["prev"])
        BY <1>2, <2>1
    <2>3. Len(siblings["new"]) + 1 \in 1..Len(siblings["prev"])
        BY <1>1, <2>2
    <2> QED
        BY <2>2, <2>3
<1>4. siblings["prev"][Len(siblings["new"]) + 1] = Entry(job, n)
    BY <1>2, <1>3, RoutesAgree
<1> QED
    BY <1>1, <1>4

(* A call of an honest walk: it fails at an exposed binary node only. *)
LEMMA HonestOutcomes ==
    ASSUME IsHonest(job), HonestWalks, NEW tree \in {"prev", "new"}, tree = pass, update_ptr = 0,
           NEW n \in 0..Len(job.key), OnRoute(job, n), Route(job, siblings[tree], n),
           NEW call, CallAt(job, RootOf(tree), n, call)
    PROVE  /\ Outcomes(call) # {} \/ Stuck(tree, n)
           /\ \A o \in Outcomes(call) : Moves(tree, n, o)
<1>1. ASSUME NEW Of, \A o \in Of : Moves(tree, n, o), Of # {} \/ Stuck(tree, n), Outcomes(call) = {o \in Of : Fits(o.siblings)}
      PROVE  (Outcomes(call) # {} \/ Stuck(tree, n)) /\ \A o \in Outcomes(call) : Moves(tree, n, o)
    <2>1. \A o \in Of : Fits(o.siblings)
        BY <1>1, MovesFit
    <2>2. Outcomes(call) = Of
        BY <1>1, <2>1
    <2> QED
        BY <1>1, <2>2
<1>2. CASE call.fn = "empty"
    <2>1. Outcomes(call) = {o \in TraverseEmpty(call.path) : Fits(o.siblings)}
        BY <1>2 DEF Outcomes
    <2> QED
        BY <1>1, <1>2, <2>1, HonestEmpty
<1>3. CASE call.fn = "edge"
    <2>1. Outcomes(call) = {o \in TraverseEdge(call.path, call.node) : Fits(o.siblings)}
        BY <1>3 DEF Outcomes
    <2> QED
        BY <1>1, <1>3, <2>1, HonestEdge
<1>4. CASE call.fn = "binary_or_leaf"
    <2>1. Outcomes(call) = {o \in TraverseBinaryOrLeaf(call.path, call.node) : Fits(o.siblings)}
        BY <1>4 DEF Outcomes
    <2> QED
        BY <1>1, <1>4, <2>1, HonestBinaryOrLeaf
<1>5. CASE call.fn = "non_empty"
    <2>1. Outcomes(call) = {o \in TraverseNonEmpty(call.path, call.node) : Fits(o.siblings)}
        BY <1>5 DEF Outcomes
    <2> QED
        BY <1>1, <1>5, <2>1, HonestNonEmpty
<1> QED
    BY <1>2, <1>3, <1>4, <1>5 DEF CallAt

(* The key turns off where a binary node is exposed. *)
LEMMA ExposedTurns ==
    ASSUME IsHonest(job), NEW m \in 0..Len(job.key) - 2,
           Exposes(NodesOn(job.new_root, job.key)[m], job.key[m + 1])
    PROVE  m \in Turns(job)
<1> DEFINE node == NodesOn(job.new_root, job.key)[m]
           bit == job.key[m + 1]
<1>0. Len(job.key) \in Nat
    BY KeyIsAPath DEF IsHonest
<1>1. m \in 0..Len(job.key) - 1 /\ Way(job, job.new_root, job.new_value)
    BY <1>0, WaysAre
<1>2. bit \in {0, 1} /\ Shape(node, Len(job.key) - m)
    BY <1>1, NodeOnWay
<1> HIDE DEF node, bit
<1>3. Exposes(node, bit)
    BY DEF node, bit
<1>4. PICK p, bottom : p \in Path \ {<<>>} /\ node = Edge(p, bottom) /\ bottom # Zero
    BY <1>2, <1>3, Kinds DEF Shape, Exposes
<1>5. Head(p) # bit
    BY <1>3, <1>4, Kinds DEF Exposes
<1>6. Head(p) \in {0, 1} /\ (m \in Turns(job) <=> Head(p) = 1 - bit)
    BY <1>1, <1>4, EdgeOnWay DEF node, bit
<1> QED
    BY <1>2, <1>5, <1>6

(* A walk that is not stuck goes by no exposed binary node. *)
LEMMA NotPast ==
    ASSUME IsHonest(job), NEW tree, NEW n \in 0..Len(job.key) - 1, NotPastExposed(job, tree, n), ~ Stuck(tree, n)
    PROVE  NotPastExposed(job, tree, Onto(job, n))
<1> SUFFICES ASSUME tree = "new", NEW m \in 0..Len(job.key) - 2,
                    Exposes(NodesOn(job.new_root, job.key)[m], job.key[m + 1])
             PROVE  Onto(job, n) <= m
    BY DEF NotPastExposed
<1>1. n <= m
    BY DEF NotPastExposed
<1>2. n # m
    BY DEF Stuck
<1>3. m \in Turns(job)
    BY ExposedTurns
<1>4. n < m
    BY <1>1, <1>2, KeyIsAPath DEF IsHonest
<1> QED
    BY <1>3, <1>4, OntoIs

(* Each action keeps the walks on their way. *)
LEMMA HonestStep ==
    ASSUME IsHonest(job), HonestWalks, NEW fn \in {"empty", "edge", "binary_or_leaf", "non_empty"}, Step(fn)
    PROVE  HonestWalks'
<1>1. PICK tree \in {"prev", "new"} : tree = pass
    BY DEF Step
<1> DEFINE H == Len(job.key)
           A == siblings[tree]
           B == siblings'[tree]
<1>2. pass' = tree /\ job' = job /\ stack # <<>>
    BY <1>1 DEF Step
<1>3. PICK o \in Outcomes(Head(stack)) :
          /\ stack' = o.calls \o Tail(stack)
          /\ siblings' = [siblings EXCEPT ![tree] = @ \o o.siblings]
          /\ update_ptr' = update_ptr + o.updates
    BY <1>1 DEF Step
<1>4. /\ siblings = [prev |-> siblings["prev"], new |-> siblings["new"]]
      /\ IsList(siblings["prev"]) /\ IsList(siblings["new"])
      /\ tree = "prev" => siblings["new"] = <<>>
      /\ tree = "new" => Route(job, siblings["prev"], H)
      /\ OnItsWay(tree)
    BY <1>1 DEF HonestWalks
<1>5. PICK n \in 0..H :
         /\ OnRoute(job, n) /\ Route(job, A, n) /\ NotPastExposed(job, tree, n)
         /\ update_ptr = 0 /\ \E call : stack = <<call>> /\ CallAt(job, RootOf(tree), n, call)
    BY <1>2, <1>4 DEF OnItsWay
<1>6. PICK call : stack = <<call>> /\ CallAt(job, RootOf(tree), n, call)
    BY <1>5
<1>7. Head(stack) = call /\ Tail(stack) = <<>>
    BY <1>6
<1>8. Moves(tree, n, o)
    BY <1>1, <1>3, <1>5, <1>6, <1>7, HonestOutcomes
<1>9. /\ siblings' = [prev |-> siblings'["prev"], new |-> siblings'["new"]]
      /\ B = A \o o.siblings
      /\ tree = "new" => siblings'["prev"] = siblings["prev"]
      /\ tree = "prev" => siblings'["new"] = siblings["new"]
    <2>1. CASE tree = "prev"
        BY <1>3, <1>4, <2>1
    <2>2. CASE tree = "new"
        BY <1>3, <1>4, <2>2
    <2> QED
        BY <2>1, <2>2
<1>10. IsList(A)
    BY <1>4
<1>11. RootOf(tree)' = RootOf(tree)
    BY <1>2 DEF RootOf
<1>12. ASSUME NEW k \in 0..H, OnRoute(job, k), Route(job, B, k), NotPastExposed(job, tree, k), IsList(B),
              \/ update_ptr' = 0 /\ \E c : stack' = <<c>> /\ CallAt(job, RootOf(tree), k, c)
              \/ update_ptr' = 1 /\ stack' = <<>> /\ k = H
       PROVE  HonestWalks'
    <2>1. OnItsWay(tree)'
        BY <1>2, <1>11, <1>12 DEF OnItsWay
    <2>2. IsList(siblings'["prev"]) /\ IsList(siblings'["new"])
        BY <1>4, <1>9, <1>12
    <2>3. pass' = "prev" => siblings'["new"] = <<>> /\ OnItsWay("prev")'
        BY <1>2, <1>4, <1>9, <2>1
    <2>4. pass' = "new" => Route(job', siblings'["prev"], Len(job'.key)) /\ OnItsWay("new")'
        BY <1>2, <1>4, <1>9, <2>1
    <2>5. pass' \in {"prev", "new", "accepted", "rejected"} /\ pass' # "accepted" /\ pass' # "rejected"
        BY <1>2
    <2> QED
        BY <1>9, <2>2, <2>3, <2>4, <2>5 DEF HonestWalks
<1>13. A \o <<>> = A
    BY <1>10 DEF IsList
<1>14. CASE /\ o.updates = 0 /\ o.siblings = <<>>
            /\ \E next : o.calls = <<next>> /\ CallAt(job, RootOf(tree), n, next)
    <2>1. PICK next : o.calls = <<next>> /\ CallAt(job, RootOf(tree), n, next)
        BY <1>14
    <2>2. stack' = <<next>> /\ update_ptr' = 0
        BY <1>3, <1>5, <1>7, <1>14, <2>1, ShortLists
    <2>3. B = A
        BY <1>9, <1>13, <1>14
    <2> QED
        BY <1>5, <1>10, <1>12, <2>1, <2>2, <2>3
<1>15. CASE /\ n < H /\ ~ Stuck(tree, n) /\ o.updates = 0 /\ o.siblings = <<Entry(job, n)>>
            /\ \E next : o.calls = <<next>> /\ CallAt(job, RootOf(tree), Onto(job, n), next)
    <2>1. PICK next : o.calls = <<next>> /\ CallAt(job, RootOf(tree), Onto(job, n), next)
        BY <1>15
    <2>2. stack' = <<next>> /\ update_ptr' = 0
        BY <1>3, <1>5, <1>7, <1>15, <2>1, ShortLists
    <2>3. H \in Nat /\ n \in 0..H - 1
        BY <1>15, KeyIsAPath DEF IsHonest
    <2>4. Route(job, B, Onto(job, n)) /\ IsList(B)
        BY <1>5, <1>9, <1>10, <1>15, <2>3, RouteGoesOn
    <2>5. Onto(job, n) \in n + 1..H /\ OnRoute(job, Onto(job, n))
        BY <2>3, OntoIs
    <2>6. Onto(job, n) \in 0..H
        BY <2>3, <2>5
    <2>7. NotPastExposed(job, tree, Onto(job, n))
        BY <1>5, <1>15, <2>3, NotPast
    <2> QED
        BY <1>12, <2>1, <2>2, <2>4, <2>5, <2>6, <2>7
<1>16. CASE n = H /\ o.updates = 1 /\ o.siblings = <<>> /\ o.calls = <<>>
    <2>1. stack' = <<>> /\ update_ptr' = 1
        BY <1>3, <1>5, <1>7, <1>16
    <2>2. B = A
        BY <1>9, <1>13, <1>16
    <2> QED
        BY <1>5, <1>10, <1>12, <1>16, <2>1, <2>2
<1> QED
    BY <1>8, <1>14, <1>15, <1>16 DEF Moves

(* A walk starts on the route, at the root. *)
LEMMA HonestStart ==
    ASSUME IsHonest(job), NEW tree \in {"prev", "new"}
    PROVE  /\ OnRoute(job, 0) /\ Route(job, <<>>, 0) /\ NotPastExposed(job, tree, 0) /\ 0 \in 0..Len(job.key)
           /\ CallAt(job, RootOf(tree), 0, TraverseNode(<<>>, RootOf(tree)))
<1>1. OnRoute(job, 0) /\ Route(job, <<>>, 0)
    BY RouteStarts
<1>2. job.key \in Path /\ Len(job.key) \in Nat /\ SubSeq(job.key, 1, 0) = <<>>
    BY KeyIsAPath DEF IsHonest, Path
<1>3. NotPastExposed(job, tree, 0) /\ 0 \in 0..Len(job.key)
    BY <1>2 DEF NotPastExposed
<1>4. NodesOn(RootOf(tree), job.key)[0] = RootOf(tree)
    BY <1>2, NodesOnStep
<1> DEFINE call == TraverseNode(<<>>, RootOf(tree))
<1>5. /\ call.path = <<>> /\ call.node = RootOf(tree)
      /\ call.fn = IF RootOf(tree) = Zero THEN "empty" ELSE "non_empty"
    BY DEF TraverseNode, Call
<1> HIDE DEF call
<1>6. CallAt(job, RootOf(tree), 0, call)
    BY <1>2, <1>4, <1>5 DEF CallAt, Stored
<1> QED
    BY <1>1, <1>3, <1>6 DEF call

LEMMA HonestFail == ASSUME IsHonest(job), HonestWalks, Fail PROVE HonestWalks'
<1>1. PICK tree \in {"prev", "new"} : tree = pass
    BY DEF Fail
<1>2. /\ stack # <<>> /\ Outcomes(Head(stack)) = {} /\ pass' = "rejected" /\ job' = job /\ siblings' = siblings
    BY DEF Fail
<1>3. OnItsWay(tree)
    BY <1>1 DEF HonestWalks
<1>4. PICK n \in 0..Len(job.key) :
         /\ OnRoute(job, n) /\ Route(job, siblings[tree], n)
         /\ update_ptr = 0 /\ \E call : stack = <<call>> /\ CallAt(job, RootOf(tree), n, call)
    BY <1>2, <1>3 DEF OnItsWay
<1>5. PICK call : stack = <<call>> /\ CallAt(job, RootOf(tree), n, call)
    BY <1>4
<1>6. Outcomes(call) # {} \/ Stuck(tree, n)
    BY <1>1, <1>4, <1>5, HonestOutcomes
<1>7. Head(stack) = call
    BY <1>5
<1>8. Stuck(tree, n)
    BY <1>2, <1>6, <1>7
<1>9. Exposed(job)
    BY <1>8 DEF Stuck, Exposed
<1> QED
    BY <1>2, <1>9 DEF HonestWalks

LEMMA HonestEndPrev == ASSUME IsHonest(job), HonestWalks, EndPrev PROVE HonestWalks'
<1>1. /\ pass = "prev" /\ stack = <<>> /\ update_ptr = 1 /\ pass' = "new" /\ stack' = <<TraverseNode(<<>>, job.new_root)>>
      /\ update_ptr' = 0 /\ job' = job /\ siblings' = siblings
    BY DEF EndPrev
<1>2. siblings["new"] = <<>> /\ OnItsWay("prev")
    BY <1>1 DEF HonestWalks
<1>3. Route(job, siblings["prev"], Len(job.key))
    BY <1>1, <1>2 DEF OnItsWay
<1>4. /\ OnRoute(job, 0) /\ Route(job, <<>>, 0) /\ NotPastExposed(job, "new", 0) /\ 0 \in 0..Len(job.key)
      /\ CallAt(job, job.new_root, 0, TraverseNode(<<>>, job.new_root))
    BY HonestStart DEF RootOf
<1>5. RootOf("new")' = job.new_root
    BY <1>1 DEF RootOf
<1>6. OnItsWay("new")'
    BY <1>1, <1>2, <1>4, <1>5 DEF OnItsWay
<1> QED
    BY <1>1, <1>3, <1>6 DEF HonestWalks

LEMMA HonestEndNew == ASSUME IsHonest(job), HonestWalks, EndNew PROVE HonestWalks'
<1>1. /\ pass = "new" /\ stack = <<>> /\ update_ptr = 1 /\ job' = job /\ siblings' = siblings
      /\ pass' = IF Len(siblings["new"]) = Len(siblings["prev"]) THEN "accepted" ELSE "rejected"
    BY DEF EndNew
<1>2. /\ IsList(siblings["prev"]) /\ IsList(siblings["new"]) /\ Route(job, siblings["prev"], Len(job.key)) /\ OnItsWay("new")
    BY <1>1 DEF HonestWalks
<1>3. Route(job, siblings["new"], Len(job.key)) /\ NotPastExposed(job, "new", Len(job.key))
    BY <1>1, <1>2 DEF OnItsWay
<1>4. Len(job.key) \in Nat
    BY KeyIsAPath DEF IsHonest
<1>5. Len(siblings["new"]) = Len(siblings["prev"])
    <2>1. \A s : IsList(s) => Len(s) \in Nat
        BY DEF IsList
    <2>2. Len(siblings["new"]) \in Nat /\ Len(siblings["prev"]) \in Nat
        BY <1>2, <2>1
    <2> DEFINE H == Len(job.key)
    <2>3. ASSUME NEW a, NEW b, IsList(a), IsList(b), Route(job, a, H), Route(job, b, H)
          PROVE  ~ (Len(a) < Len(b))
        <3> HIDE DEF H
        <3>1. Len(a) < Len(b) => H < Len(job.key)
            BY <2>3, RoutesAgree
        <3>2. ~ (H < Len(job.key))
            BY <1>4 DEF H
        <3> QED
            BY <3>1, <3>2
    <2>4. ~ (Len(siblings["new"]) < Len(siblings["prev"])) /\ ~ (Len(siblings["prev"]) < Len(siblings["new"]))
        BY <1>2, <1>3, <2>3
    <2> QED
        BY <2>2, <2>4
<1>6. ~ Exposed(job)
    BY <1>3, <1>4 DEF NotPastExposed, Exposed
<1> QED
    BY <1>1, <1>5, <1>6 DEF HonestWalks

(* The invariant of the walks with honest hints. *)
HInv == JobStays /\ (job.honest => HonestWalks)

LEMMA HonestJob == ASSUME HonestUpdatesAreWrites, JobStays, job.honest PROVE IsHonest(job)
<1>1. PICK write : IsWrite(write) /\ job = HonestUpdate(write)
    BY DEF HonestUpdatesAreWrites, JobStays
<1> QED
    BY <1>1, HonestUpdateIs

LEMMA HonestInit == ASSUME HonestUpdatesAreWrites, Init PROVE HInv
<1>1. JobStays
    BY DEF Init, JobStays, AnyUpdate
<1> SUFFICES ASSUME job.honest PROVE HonestWalks
    BY <1>1 DEF HInv
<1>2. IsHonest(job)
    BY <1>1, HonestJob
<1>3. /\ pass = "prev" /\ stack = <<TraverseNode(<<>>, job.prev_root)>> /\ update_ptr = 0
      /\ siblings = [prev |-> <<>>, new |-> <<>>]
    BY DEF Init
<1>4. /\ OnRoute(job, 0) /\ Route(job, <<>>, 0) /\ NotPastExposed(job, "prev", 0) /\ 0 \in 0..Len(job.key)
      /\ CallAt(job, job.prev_root, 0, TraverseNode(<<>>, job.prev_root))
    BY <1>2, HonestStart DEF RootOf
<1>5. RootOf("prev") = job.prev_root /\ siblings["prev"] = <<>> /\ siblings["new"] = <<>>
    BY <1>3 DEF RootOf
<1>6. OnItsWay("prev")
    BY <1>3, <1>4, <1>5 DEF OnItsWay
<1> QED
    BY <1>3, <1>5, <1>6, ShortLists DEF HonestWalks

LEMMA HonestNext == ASSUME HonestUpdatesAreWrites, HInv, [Next]_vars PROVE HInv'
<1>1. JobStays' /\ job' = job
    BY DEF HInv, JobStays, Next, vars, StepEmpty, StepEdge, StepBinaryOrLeaf, StepNonEmpty, Step, Fail, EndPrev, EndNew
<1> SUFFICES ASSUME job.honest PROVE HonestWalks'
    BY <1>1 DEF HInv
<1>2. IsHonest(job) /\ HonestWalks
    BY HonestJob DEF HInv
<1>3. CASE StepEmpty
    BY <1>2, <1>3, HonestStep DEF StepEmpty
<1>4. CASE StepEdge
    BY <1>2, <1>4, HonestStep DEF StepEdge
<1>5. CASE StepBinaryOrLeaf
    BY <1>2, <1>5, HonestStep DEF StepBinaryOrLeaf
<1>6. CASE StepNonEmpty
    BY <1>2, <1>6, HonestStep DEF StepNonEmpty
<1>7. CASE Fail
    BY <1>2, <1>7, HonestFail
<1>8. CASE EndPrev
    BY <1>2, <1>8, HonestEndPrev
<1>9. CASE EndNew
    BY <1>2, <1>9, HonestEndNew
<1>10. CASE UNCHANGED vars
    BY <1>2, <1>10 DEF vars, HonestWalks, OnItsWay, RootOf
<1> QED
    BY <1>3, <1>4, <1>5, <1>6, <1>7, <1>8, <1>9, <1>10 DEF Next

(* The walks of honest hints, for contents of any size and keys of any     *)
(* length: both go from place to place along one route, in step with what  *)
(* the first has listed, and neither fails short of an exposed binary node. *)
THEOREM HonestWalksKeepTheirWay == ASSUME HonestUpdatesAreWrites PROVE Spec => []HInv
<1>1. Init => HInv
    BY HonestInit
<1>2. HInv /\ [Next]_vars => HInv'
    BY HonestNext
<1> QED
    BY <1>1, <1>2, PTL DEF Spec

(* A write that the state server made and proved, checked with the hints   *)
(* of the Rust code: rejected only when it is one of zero that leaves its  *)
(* key beside a binary node, and such a write is never accepted.           *)
THEOREM HonestWritesAreAcceptedCorrect == ASSUME HonestUpdatesAreWrites PROVE Spec => []HonestWritesAreAccepted
<1>1. HInv => HonestWritesAreAccepted
    <2> SUFFICES ASSUME HInv, job.honest PROVE HonestWritesAreAccepted
        BY DEF HonestWritesAreAccepted
    <2>1. PICK write : IsWrite(write) /\ job = HonestUpdate(write)
        BY DEF HonestUpdatesAreWrites, HInv, JobStays
    <2>2. BesideABinaryNode <=> Exposed(job)
        BY <2>1, ExposedIs
    <2> QED
        BY <2>2 DEF HInv, HonestWalks, HonestWritesAreAccepted
<1> QED
    BY <1>1, HonestWalksKeepTheirWay, PTL
=============================================================================
