---------------------------- MODULE PatriciaTree ----------------------------
(***************************************************************************)
(* The nodes of an injected state's tree, as crates/hints/src/patricia and *)
(* src/utils/patricia_with_keccak.cairo take them.  The hash of a node is  *)
(* the node itself (keccak160 has no collisions): a felt for an empty node *)
(* or a leaf, a pair of children, or an edge of a path and a bottom.  A    *)
(* path is its sequence of bits.                                           *)
(***************************************************************************)
EXTENDS Integers, Sequences

Felt(n) == [kind |-> "Felt", n |-> n]
Binary(left, right) == [kind |-> "Binary", left |-> left, right |-> right]
Edge(path, bottom) == [kind |-> "Edge", path |-> path, bottom |-> bottom]
Zero == Felt(0)

Drop(s, n) == SubSeq(s, n + 1, Len(s))

(* An edge cut by one bit; its bottom when none is left.                   *)
Cut(edge) == IF Len(edge.path) = 1 THEN edge.bottom ELSE Edge(Tail(edge.path), edge.bottom)

(* get_children: the left child first. *)
GetChildren(node) ==
    CASE node.kind = "Binary" -> <<node.left, node.right>>
      [] node.kind = "Edge" -> IF Head(node.path) = 0 THEN <<Cut(node), Zero>> ELSE <<Zero, Cut(node)>>
      [] OTHER -> <<Zero, Zero>>

Child(node, bit) == GetChildren(node)[bit + 1]

(* The nodes one meets on the way down a path, NodesOn(root, path)[n] after *)
(* n bits of it, and the one a node has beside the way.                     *)
NodesOn(root, path) ==
    LET node[n \in 0..Len(path)] == IF n = 0 THEN root ELSE Child(node[n - 1], path[n])
    IN  node
Sibling(root, path, n) == Child(NodesOn(root, path)[n - 1], 1 - path[n])
LeafOn(root, path) == NodesOn(root, path)[Len(path)]

(* The content of a tree: its non-zero leaves, as <<path, value>> pairs.    *)
Paths(height) == [1..height -> {0, 1}]
Content(root, height) ==
    LET Holds(path) == LeafOn(root, path).kind = "Felt" /\ LeafOn(root, path).n # 0
    IN  {<<path, LeafOn(root, path).n>> : path \in {p \in Paths(height) : Holds(p)}}

ValueAt(content, key) == IF \E e \in content : e[1] = key
                         THEN (CHOOSE e \in content : e[1] = key)[2] ELSE 0
Put(content, key, value) ==
    {e \in content : e[1] # key} \union (IF value = 0 THEN {} ELSE {<<key, value>>})

(* What stands for the hash of a node above the leaves is no number: "a hash  *)
(* (which we assume to be > MAX_LENGTH)" (patricia_with_keccak.cairo:64).     *)
HashesAreNoNumbers(root, height) ==
    \A n \in 0..height - 1 : \A place \in Paths(n) :
        LET node == LeafOn(root, place) IN node.kind = "Felt" => node.n = 0
=============================================================================
