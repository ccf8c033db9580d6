--------------------------- MODULE PatriciaHints ---------------------------
(***************************************************************************)
(* What the Rust code of crates/hints/src/patricia answers to the hints of *)
(* a Patricia update: the nodes it knows, from the two proofs the state    *)
(* server made of a write, and how far the walks may descend at once.      *)
(***************************************************************************)
EXTENDS PatriciaTree, SequencesExt

(* A node a bit further up: an edge to it, never over an edge.             *)
EdgeTo(bit, node) == IF node.kind = "Edge" THEN Edge(<<bit>> \o node.path, node.bottom)
                                           ELSE Edge(<<bit>>, node)

Join(left, right) ==
    IF left = Zero /\ right = Zero THEN Zero
    ELSE IF right = Zero THEN EdgeTo(0, left)
    ELSE IF left = Zero THEN EdgeTo(1, right)
    ELSE Binary(left, right)

(* The tree the state server keeps of a content, level by level from its   *)
(* leaves: no empty child, no edge over an edge.                           *)
Levels(content, height) ==
    LET level[h \in 0..height] ==
            [place \in Paths(height - h) |->
                IF h = 0 THEN Felt(ValueAt(content, place))
                ELSE Join(level[h - 1][Append(place, 0)], level[h - 1][Append(place, 1)])]
    IN  level
TreeOf(content, height) == Levels(content, height)[height][<<>>]

(* The nodes of a proof: those on the way to the key.  An edge is one node *)
(* however long, so a node is at the root, below a binary node or at the   *)
(* end of an edge.                                                         *)
Proof(root, path) ==
    LET node == NodesOn(root, path)
        Stored(n) == \/ n = 0
                     \/ node[n - 1].kind = "Binary"
                     \/ node[n - 1].kind = "Edge" /\ Len(node[n - 1].path) = 1
    IN  {node[n] : n \in {m \in 0..Len(path) - 1 : node[m].kind # "Felt" /\ Stored(m)}}

(* generate_preimage: what the nodes of a proof hash.                      *)
GeneratePreimage(proof) == proof

(* Mutant: of the proof after the write only. *)
PreimageOfPost(prev_proof, post_proof) == GeneratePreimage(post_proof)

(* hint_preimage: of both proofs.                                          *)
Preimage(prev_proof, post_proof) == GeneratePreimage(prev_proof) \union GeneratePreimage(post_proof)

-----------------------------------------------------------------------------
(* The descents: how far both trees and the update go one way, with        *)
(* nothing on the other side.                                              *)

(* A descent is worth recording when it spans more than one level.         *)
Descend(descent_map, key, from, to) ==
    LET start == SubSeq(key, 1, from)
    IN  IF to - from <= 1 THEN descent_map
        ELSE [place \in DOMAIN descent_map \union {start} |->
                IF place = start THEN SubSeq(key, from + 1, to) ELSE descent_map[place]]

(* Nothing beside the bit in either tree: the descent goes on.             *)
NothingBeside(key, prev_root, new_root, n) ==
    Sibling(prev_root, key, n) = Zero /\ Sibling(new_root, key, n) = Zero

(* Mutant: the next descent starts at the place where the last one stopped. *)
GetDescentsFromParting(key, prev_root, new_root) ==
    LET walk[n \in 0..Len(key)] ==
            IF n = 0 THEN [start |-> 0, found |-> <<>>]
            ELSE IF NothingBeside(key, prev_root, new_root, n) THEN walk[n - 1]
            ELSE [start |-> n - 1, found |-> Descend(walk[n - 1].found, key, walk[n - 1].start, n - 1)]
    IN  walk

(* get_descents, along the only path of an update tree of one leaf: from   *)
(* the start of a descent to the place where a sibling stops it, and on    *)
(* from the child.  walk[n] is where the descent that goes on after n bits *)
(* started, and the descents found before it.  The walk opens nodes on the *)
(* way to the key only, and the proofs hold them all.                      *)
GetDescents(key, prev_root, new_root) ==
    LET walk[n \in 0..Len(key)] ==
            IF n = 0 THEN [start |-> 0, found |-> <<>>]
            ELSE IF NothingBeside(key, prev_root, new_root, n) THEN walk[n - 1]
            ELSE [start |-> n, found |-> Descend(walk[n - 1].found, key, walk[n - 1].start, n - 1)]
    IN  walk

(* patricia_guess_descents. *)
PatriciaGuessDescents(key, prev_root, new_root) ==
    LET end == GetDescents(key, prev_root, new_root)[Len(key)]
    IN  Descend(end.found, key, end.start, Len(key))

-----------------------------------------------------------------------------
(* build_descent_map, over the write proof of the state server. *)
HonestUpdate(write) ==
    LET key == write.key
        prev == TreeOf(write.content, Len(key))
        new == TreeOf(Put(write.content, key, write.value), Len(key))
    IN  [honest |-> TRUE, key |-> key,
         prev_value |-> ValueAt(write.content, key), new_value |-> write.value,
         prev_root |-> prev, new_root |-> new,
         preimage |-> Preimage(Proof(prev, key), Proof(new, key)),
         descent_map |-> PatriciaGuessDescents(key, prev, new)]

=============================================================================
