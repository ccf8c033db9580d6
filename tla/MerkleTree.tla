----------------------------- MODULE MerkleTree -----------------------------
(***************************************************************************)
(* The Merkle-Patricia tree of the pathfinder-merkle-tree crate, as the    *)
(* state server uses it: a tree is opened lazily on a storage index, one   *)
(* key is set (or deleted, when the value is zero), and commit returns the *)
(* nodes to store, children before parents and the root last.  The crate   *)
(* is a dependency outside this repository; crates/state_server fixes what *)
(* is needed of it through its Storage implementation (mpt/db/trie.rs) and *)
(* Trie::persist_updates (mpt/trie/mod.rs).                                *)
(*                                                                         *)
(* A key is a sequence of bits.  A hash is the content it commits to: the  *)
(* set of <<path, value>> pairs below the node.  Two different sets have   *)
(* different hashes (Keccak has no collisions), the empty set is           *)
(* Felt::ZERO and the hash of a leaf is its value at the empty path.       *)
(*                                                                         *)
(* A database is a record of two tables, each the sequence of its rows in  *)
(* row-id order:                                                           *)
(*   db.nodes[i] = [trie_idx, hash, data]   (table trie_nodes)             *)
(*   db.leafs[i] = [key, value, root_idx]   (table leafs)                  *)
(***************************************************************************)
EXTENDS Integers, SequencesExt

Zero == 0
EmptyHash == {}
LeafHash(v) == {<< <<>>, v >>}
EdgeHash(path, child) == {<<path \o e[1], e[2]>> : e \in child}
BinaryHash(left, right) == EdgeHash(<<0>>, left) \union EdgeHash(<<1>>, right)

(* The element of a singleton.  Bound in a set, a value is computed once,  *)
(* where TLC may compute a LET again at every use.                         *)
The(S) == CHOOSE x \in S : TRUE

Drop(s, n) == SubSeq(s, n + 1, Len(s))

-----------------------------------------------------------------------------
(* The Storage trait over the two tables.  A query returns the first of    *)
(* the rows it selects in row-id order; 0 is the row of no table.          *)

FirstRow(hits) == IF hits = {} THEN 0 ELSE CHOOSE i \in hits : \A j \in hits : i <= j
LastRow(hits) == IF hits = {} THEN 0 ELSE CHOOSE i \in hits : \A j \in hits : i >= j

WithIdx(db, idx) == {i \in DOMAIN db.nodes : db.nodes[i].trie_idx = idx}
OfKey(db, key) == {i \in DOMAIN db.leafs : db.leafs[i].key = key}

(* No row: the None of an Option. *)
NoLeaf == -1
LeafIn(db, i) == IF i = 0 THEN NoLeaf ELSE db.leafs[i].value

(* get: the node stored at a trie index. *)
StoredNode(db, idx) == db.nodes[FirstRow(WithIdx(db, idx))].data

(* hash: the hash stored at a trie index. *)
StoredHash(db, idx) == db.nodes[FirstRow(WithIdx(db, idx))].hash

(* Mutants: the newest row of the key whatever its root (get_leaf_at); the oldest one (leaf). *)
LeafNow(db, key, max_root_idx) == LeafIn(db, LastRow(OfKey(db, key)))
OldestLeaf(db, max_root_idx, key) == LeafIn(db, FirstRow(OfKey(db, key)))

(* get_leaf_at: the newest row of the key whose root index is not above the bound. *)
LeafAt(db, key, max_root_idx) ==
    LeafIn(db, LastRow({i \in OfKey(db, key) : db.leafs[i].root_idx <= max_root_idx}))

(* leaf: bounded by max_root_idx when that is set, else the newest row of the key. *)
StorageLeaf(db, max_root_idx, key) ==
    IF max_root_idx > 0 THEN LeafAt(db, key, max_root_idx) ELSE LeafIn(db, LastRow(OfKey(db, key)))

-----------------------------------------------------------------------------
(* A tree in memory: a function from the places of its nodes to the nodes. *)
(* A place is the path from the root; the children of a Binary are one bit *)
(* further, the child of an Edge its path further, and an Unresolved node  *)
(* is still in storage.  Broken stands for the panic or the error of an    *)
(* operation that meets a node which cannot be at its height.              *)

Leaf == [kind |-> "Leaf"]
Binary == [kind |-> "Binary"]
Edge(path) == [kind |-> "Edge", path |-> path]
Unresolved(idx) == [kind |-> "Unresolved", idx |-> idx]

NoTree == <<>>
Broken == [p \in {<<>>} |-> [kind |-> "Broken"]]
OpenTree(root_idx) == IF root_idx = 0 THEN NoTree ELSE [p \in {<<>>} |-> Unresolved(root_idx)]

(* The node at a place, taken from storage with its children unresolved. *)
Resolved(place, node) ==
    LET left == Append(place, 0)
        right == Append(place, 1)
    IN  CASE node.kind = "Binary" ->
                [p \in {place, left, right} |-> IF p = place THEN Binary
                                                ELSE Unresolved(IF p = left THEN node.left ELSE node.right)]
          [] node.kind = "Edge" ->
                [p \in {place, place \o node.path} |-> IF p = place THEN Edge(node.path)
                                                        ELSE Unresolved(node.child)]
          [] node.kind = "LeafBinary" ->
                [p \in {place, left, right} |-> IF p = place THEN Binary ELSE Leaf]
          [] node.kind = "LeafEdge" ->
                [p \in {place, place \o node.path} |-> IF p = place THEN Edge(node.path) ELSE Leaf]

Over(new, tree) == [p \in DOMAIN new \union DOMAIN tree |-> IF p \in DOMAIN new THEN new[p] ELSE tree[p]]

Resolve(db, tree, place) ==
    IF tree[place].kind = "Unresolved"
    THEN Over(Resolved(place, StoredNode(db, tree[place].idx)), tree) ELSE tree

(* The places on the way to a key, and the last of some of them. *)
Way(tree, key) == {p \in DOMAIN tree : IsPrefix(p, key)}
Deepest(places) == CHOOSE p \in places : \A q \in places : Len(q) <= Len(p)

(* traverse: the tree with the way to a key resolved, one node a round. *)
ResolveNext(db, tree, key) ==
    IF Way(tree, key) = {} THEN tree ELSE Resolve(db, tree, Deepest(Way(tree, key)))

Traverse(db, tree, key) ==
    LET round[n \in Nat] ==
            IF n = 0 THEN tree ELSE The({ResolveNext(db, t, key) : t \in {round[n - 1]}})
    IN  round[Len(key) + 1]

(* The first bit at which two paths differ. *)
Fork(p, q) == CHOOSE n \in 1..Len(p) : p[n] # q[n] /\ SubSeq(p, 1, n - 1) = SubSeq(q, 1, n - 1)

(* The edge at a place is cut where the key leaves it: a Binary at the     *)
(* fork, and edges for the bits before it and after it on both sides.      *)
SplitEdge(tree, place, key) ==
    LET far == place \o tree[place].path
        n == Fork(key, far)
        fork == SubSeq(key, 1, n - 1)
        new == SubSeq(key, 1, n)
        old == SubSeq(far, 1, n)
    IN  [p \in DOMAIN tree \union {fork, new, key, old} |->
            CASE p = fork -> Binary
              [] p = key -> Leaf
              [] p = place /\ place # fork -> Edge(Drop(fork, Len(place)))
              [] p = new /\ new # key -> Edge(Drop(key, n))
              [] p = old /\ old # far -> Edge(Drop(far, n))
              [] OTHER -> tree[p]]

(* set, on a tree whose way to the key is resolved. *)
SetLeaf(tree, key) ==
    IF tree = NoTree THEN [p \in {<<>>, key} |-> IF p = key THEN Leaf ELSE Edge(key)]
    ELSE LET end == Deepest(Way(tree, key))
         IN  CASE tree[end].kind = "Leaf" /\ end = key -> tree
               [] tree[end].kind = "Edge" /\ Len(end) + Len(tree[end].path) <= Len(key) ->
                     SplitEdge(tree, end, key)
               [] OTHER -> Broken

(* The Binary above the leaf gives way to an edge to the other child; it   *)
(* joins the edge above and the edge below (merge_edges).                  *)
CutLeaf(db, tree, key) ==
    LET way == Way(tree, key)
        fork == Deepest({p \in way : tree[p].kind = "Binary"})
        bit == key[Len(fork) + 1]
        kept == Append(fork, 1 - bit)
        above == {p \in way : tree[p].kind = "Edge" /\ p \o tree[p].path = fork}
        top == IF above = {} THEN fork ELSE The(above)
        seen == Resolve(db, tree, kept)
        merge == seen[kept].kind = "Edge"
        far == IF merge THEN kept \o seen[kept].path ELSE kept
        rest == IF merge THEN seen ELSE tree
        gone == {p \in DOMAIN rest : IsPrefix(Append(fork, bit), p)}
                    \union {fork} \union ({kept} \ {far})
    IN  [p \in (DOMAIN rest \ gone) \union {top} |->
            IF p = top THEN Edge(Drop(far, Len(top))) ELSE rest[p]]

(* delete_leaf, on a tree whose way to the key is resolved. *)
DeleteLeaf(db, tree, key) ==
    IF tree = NoTree THEN NoTree
    ELSE LET end == Deepest(Way(tree, key))
         IN  CASE tree[end].kind = "Leaf" /\ end = key ->
                     IF \E p \in Way(tree, key) : tree[p].kind = "Binary"
                     THEN CutLeaf(db, tree, key) ELSE NoTree
               [] tree[end].kind = "Edge" /\ Len(end) + Len(tree[end].path) <= Len(key) -> tree
               [] OTHER -> Broken

SetInTree(db, tree, leaf) ==
    The({IF leaf.value = Zero THEN DeleteLeaf(db, t, leaf.key) ELSE SetLeaf(t, leaf.key) :
            t \in {Traverse(db, tree, leaf.key)}})

(* The tree after some leaves are set, one after the other. *)
SetAll(db, tree, items) ==
    LET set[n \in 0..Len(items)] ==
            IF n = 0 THEN tree ELSE The({SetInTree(db, t, items[n]) : t \in {set[n - 1]}})
    IN  set[Len(items)]

-----------------------------------------------------------------------------
(* commit: the hash of every node in memory and the nodes to add, each one *)
(* referring to its children by storage index or by position in the list.  *)

StorageIndex(idx) == [at |-> "storage", idx |-> idx]
Index(n) == [at |-> "added", idx |-> n]

(* A leaf set since the tree was opened has its last value, another one that of storage. *)
LeafValue(db, max_root_idx, items, key) ==
    LET i == LastRow({n \in DOMAIN items : items[n].key = key})
    IN  IF i = 0 THEN StorageLeaf(db, max_root_idx, key) ELSE items[i].value

(* The hashes of the nodes without children in memory. *)
Ends(tree) == {p \in DOMAIN tree : tree[p].kind \in {"Leaf", "Unresolved"}}
EndHashes(db, max_root_idx, items, tree) ==
    [p \in Ends(tree) |-> IF tree[p].kind = "Leaf"
                          THEN LeafHash(LeafValue(db, max_root_idx, items, p))
                          ELSE StoredHash(db, tree[p].idx)]

(* The hash at a place: what the ends below it commit to. *)
HashAt(ends, p) ==
    UNION {EdgeHash(Drop(q, Len(p)), ends[q]) : q \in {x \in DOMAIN ends : IsPrefix(p, x)}}

(* The nodes are added from the leaves up, the left subtree first. *)
InMemory(tree) == {p \in DOMAIN tree : tree[p].kind \in {"Binary", "Edge"}}
Before(p, q) ==
    \/ IsStrictPrefix(q, p)
    \/ \E n \in (DOMAIN p) \intersect (DOMAIN q) :
          SubSeq(p, 1, n - 1) = SubSeq(q, 1, n - 1) /\ p[n] < q[n]
Position(tree, p) == Cardinality({q \in InMemory(tree) : Before(q, p)})

Ref(tree, p) == IF tree[p].kind = "Unresolved" THEN StorageIndex(tree[p].idx)
                                               ELSE Index(Position(tree, p))

NodeData(tree, p) ==
    IF tree[p].kind = "Binary"
    THEN IF tree[Append(p, 0)].kind = "Leaf" THEN [kind |-> "LeafBinary"]
         ELSE [kind |-> "Binary", left |-> Ref(tree, Append(p, 0)), right |-> Ref(tree, Append(p, 1))]
    ELSE LET child == p \o tree[p].path
         IN  IF tree[child].kind = "Leaf" THEN [kind |-> "LeafEdge", path |-> tree[p].path]
             ELSE [kind |-> "Edge", child |-> Ref(tree, child), path |-> tree[p].path]

(* commit fails on a leaf without a value and on a leaf beside an inner node. *)
CanCommit(db, max_root_idx, items, tree) ==
    /\ tree # Broken
    /\ \A p \in DOMAIN tree :
        /\ tree[p].kind = "Leaf" => LeafValue(db, max_root_idx, items, p) # NoLeaf
        /\ tree[p].kind = "Binary" =>
              (tree[Append(p, 0)].kind = "Leaf" <=> tree[Append(p, 1)].kind = "Leaf")

Commit(db, max_root_idx, items, tree) ==
    IF ~ CanCommit(db, max_root_idx, items, tree)
    THEN [ok |-> FALSE, root_commitment |-> EmptyHash, nodes_added |-> <<>>]
    ELSE LET ends == EndHashes(db, max_root_idx, items, tree)
             Node(p) == [hash |-> HashAt(ends, p), data |-> NodeData(tree, p)]
         IN  [ok |-> TRUE, root_commitment |-> HashAt(ends, <<>>),
              nodes_added |-> [n \in 1..Cardinality(InMemory(tree)) |->
                                  Node(CHOOSE p \in InMemory(tree) : Position(tree, p) = n - 1)]]

(* The TrieUpdate of opening the tree at a storage index (0: the empty     *)
(* tree), setting some leaves one after the other and committing.          *)
TrieUpdate(db, max_root_idx, root_idx, items) ==
    The({Commit(db, max_root_idx, items, tree) : tree \in {SetAll(db, OpenTree(root_idx), items)}})

-----------------------------------------------------------------------------
(* get_proof: the nodes on the way to a key, children given by their hash. *)

ProofBinary(left, right) == [kind |-> "Binary", left |-> left, right |-> right]
ProofEdge(path, child) == [kind |-> "Edge", path |-> path, child |-> child]
NoProof == <<[kind |-> "None"]>>

(* One node further.  There is no proof when the way is longer than the    *)
(* key or a leaf has no value.                                             *)
ProofStep(db, max_root_idx, key, walk) ==
    LET node == StoredNode(db, walk.idx)
        here == SubSeq(key, 1, walk.height)
        ValueAt(path) == StorageLeaf(db, max_root_idx, path)
        Onward(proof, idx, height) ==
            [walk EXCEPT !.nodes = Append(@, proof), !.idx = idx, !.height = height]
        End(proof) == [walk EXCEPT !.nodes = Append(@, proof), !.open = FALSE]
        None == [walk EXCEPT !.nodes = NoProof, !.open = FALSE]
    IN  CASE ~ walk.open -> walk
          [] walk.open /\ node.kind = "Binary" ->
                IF walk.height >= Len(key) THEN None
                ELSE Onward(ProofBinary(StoredHash(db, node.left), StoredHash(db, node.right)),
                            IF key[walk.height + 1] = 0 THEN node.left ELSE node.right,
                            walk.height + 1)
          [] walk.open /\ node.kind = "Edge" ->
                LET end == walk.height + Len(node.path)
                    edge == ProofEdge(node.path, StoredHash(db, node.child))
                IN  IF end > Len(key) THEN None
                    ELSE IF SubSeq(key, walk.height + 1, end) = node.path
                    THEN Onward(edge, node.child, end)
                    ELSE End(edge)
          [] walk.open /\ node.kind = "LeafBinary" ->
                LET l == ValueAt(Append(here, 0))
                    r == ValueAt(Append(here, 1))
                IN  IF NoLeaf \in {l, r} THEN None ELSE End(ProofBinary(LeafHash(l), LeafHash(r)))
          [] walk.open /\ node.kind = "LeafEdge" ->
                LET v == ValueAt(here \o node.path)
                IN  IF v = NoLeaf THEN None ELSE End(ProofEdge(node.path, LeafHash(v)))

GetProof(db, max_root_idx, idx, key) ==
    LET walk[n \in Nat] ==
            IF n = 0 THEN [nodes |-> <<>>, idx |-> idx, height |-> 0, open |-> TRUE]
            ELSE The({ProofStep(db, max_root_idx, key, w) : w \in {walk[n - 1]}})
    IN  walk[Len(key) + 1].nodes

NodeHash(node) == IF node.kind = "Binary" THEN BinaryHash(node.left, node.right)
                                          ELSE EdgeHash(node.path, node.child)
=============================================================================
