--------------------------- MODULE PatriciaUpdate ---------------------------
(***************************************************************************)
(* How the Cairo verifier checks one write to the injected state: the      *)
(* patricia_update of src/utils/patricia_with_keccak.cairo, called with    *)
(* one update by update_state_verification, and the hints of               *)
(* crates/hints/src/patricia that guide it.                                *)
(*                                                                         *)
(* The update is checked by two walks towards the key, in the tree before  *)
(* and in the tree after.  A walk lists the siblings it passes by, a run   *)
(* of empty ones as its length; both walks must reach the key, with its    *)
(* old and its new value, and list the same siblings.  Which way to go and *)
(* how far to descend at once is a hint: nothing but the asserts binds a   *)
(* prover to the answers of the Rust code.  So an update is checked either *)
(* by honest hints (those of the Rust code, over the two proofs of the     *)
(* state server) or by any hints, over any pair of roots.                  *)
(*                                                                         *)
(* A path is its sequence of bits from the root, and the height of a place *)
(* is what is left of the key below it.  The hash of a node is the node    *)
(* itself (keccak160 has no collisions, and a hash is neither zero nor a   *)
(* length): a felt for an empty node or a leaf, a pair of children, or an  *)
(* edge of a path and a bottom.                                            *)
(***************************************************************************)
EXTENDS PatriciaTree, SequencesExt

CONSTANTS
    HonestUpdates,          \* writes the state server made and proved, with the hints for them
    Key, LeafValue, Root    \* what an update may claim to change, and of which roots

(* The hints of the Rust code descend by bits, at least one. *)
ASSUME UpdatesAssumption ==
    /\ \A u \in HonestUpdates :
         /\ u.honest = TRUE /\ u.key \in Seq({0, 1})
         /\ HashesAreNoNumbers(u.prev_root, Len(u.key)) /\ HashesAreNoNumbers(u.new_root, Len(u.key))
         /\ \A place \in DOMAIN u.descent_map : u.descent_map[place] \in Seq({0, 1}) \ {<<>>}
    /\ \A key \in Key : key \in Seq({0, 1}) /\ \A root \in Root : HashesAreNoNumbers(root, Len(key))

VARIABLES
    job,        \* the update: hints, key, values, roots, preimage, descent_map
    pass,       \* "prev" or "new": the tree being walked; then the verdict
    stack,      \* the calls of the traverse functions still to run
    update_ptr, \* the updates this walk has reached
    siblings    \* the siblings listed by each walk

vars == <<job, pass, stack, update_ptr, siblings>>

-----------------------------------------------------------------------------
(* Any two roots and any values of the leaf: the felts of a proofs file     *)
(* nobody vouches for, with any hints.                                      *)
AnyUpdate(key, prev, new) ==
    [honest |-> FALSE, key |-> key,
     prev_value |-> prev[1], new_value |-> new[1], prev_root |-> prev[2], new_root |-> new[2],
     preimage |-> {}, descent_map |-> <<>>]

-----------------------------------------------------------------------------
(* The hints.                                                              *)

Height(path) == Len(job.key) - Len(path)
Bits == {<<0>>, <<1>>}

(* decode_node: the update tree has one leaf, so one child is updated.     *)
Case(path) == {<<job.key[n]>> : n \in {Len(path) + 1} \intersect DOMAIN job.key}

(* The one child to enter: decode_node's, or any. *)
Children(path) == IF job.honest THEN Case(path) ELSE Bits

(* The bits to go down at once: the descent recorded for the place, else   *)
(* one bit; or any, within the height left.                                *)
Words(path) ==
    IF ~ job.honest THEN UNION {[1..n -> {0, 1}] : n \in 1..Height(path)}
    ELSE IF path \in DOMAIN job.descent_map THEN {job.descent_map[path]} ELSE Case(path)

(* Both children are entered when both hold updates. *)
MayTakeBoth == ~ job.honest

(* A hint looks a node up in the preimage; anyone may know one. *)
Known(node) == job.honest => node \in job.preimage

-----------------------------------------------------------------------------
(* The traverse functions.  Each is the set of its outcomes: the siblings  *)
(* listed, the updates reached, the calls made.  It fails when it has none.*)

Call(fn, path, node) == [fn |-> fn, path |-> path, node |-> node]
Calls(siblings_listed, calls) == [siblings |-> siblings_listed, updates |-> 0, calls |-> calls]

(* The value the update gives the leaf in the tree being walked. *)
AccessOffset == IF pass = "prev" THEN job.prev_value ELSE job.new_value

(* A leaf is the next update's.  A walk that has passed the only update    *)
(* cannot come back to update_end.                                         *)
LeafUpdate(path, value) ==
    IF update_ptr = 0 /\ path = job.key /\ value = AccessOffset
    THEN {[siblings |-> <<>>, updates |-> 1, calls |-> <<>>]} ELSE {}

(* n empty siblings: one is listed as 0, more as their number. *)
EmptySiblings(word) == <<IF Len(word) = 1 THEN Zero ELSE Felt(Len(word))>>

TraverseEmpty(path) ==
    LET Into(word) == Call("empty", path \o word, Zero)
    IN  IF Height(path) = 0 THEN LeafUpdate(path, 0)
        ELSE {Calls(EmptySiblings(word), <<Into(word)>>) : word \in Words(path)}
               \union {o \in {Calls(<<>>, <<Into(<<0>>), Into(<<1>>)>>)} : MayTakeBoth}

TraverseBinaryOrLeaf(path, node) ==
    LET Into(bit) == Call("non_empty", path \o bit, IF bit = <<0>> THEN node.left ELSE node.right)
        Passed(bit) == IF bit = <<0>> THEN node.right ELSE node.left
    IN  IF Height(path) = 0
        THEN IF node.kind = "Felt" /\ node.n # 0 THEN LeafUpdate(path, node.n) ELSE {}
        ELSE IF node.kind # "Binary" \/ ~ Known(node) THEN {}
        ELSE {Calls(<<Passed(bit)>>, <<Into(bit)>>) : bit \in {b \in Children(path) : Passed(b) # Zero}}
               \union {o \in {Calls(<<>>, <<Into(<<0>>), Into(<<1>>)>>)} : MayTakeBoth}

(* Down the edge: by the bits of a word that is the edge's, past empty siblings. *)
AlongEdge(path, edge) ==
    {Calls(EmptySiblings(word),
           <<Call("edge", path \o word, Edge(Drop(edge.path, Len(word)), edge.bottom))>>) :
        word \in {w \in Words(path) : IsPrefix(w, edge.path)}}

(* Mutant: the sibling is the bottom, however much of the edge is left. *)
OffEdgeToBottom(path, edge) ==
    LET away == <<1 - Head(edge.path)>>
    IN  {Calls(<<edge.bottom>>, <<Call("empty", path \o away, Zero)>>) : b \in {x \in Words(path) : x = away}}

(* Off the edge, into its empty side: the sibling is the rest of the edge. *)
(* A bottom that becomes a sibling of the new tree must be a leaf or open  *)
(* as a binary node.  The hint that opens it is not among the hints of the *)
(* Rust processors: an honest run fails there.                             *)
OffEdge(path, edge) ==
    LET away == <<1 - Head(edge.path)>>
        opens == Len(edge.path) = 1 /\ Height(path) # 1 /\ pass = "new"
    IN  IF opens /\ (job.honest \/ edge.bottom.kind # "Binary") THEN {}
        ELSE {Calls(<<Cut(edge)>>, <<Call("empty", path \o away, Zero)>>) : b \in {x \in Words(path) : x = away}}

BothSidesOfEdge(path, edge) ==
    LET on == <<Head(edge.path)>>
        Into(bit) == IF bit = on THEN Call("edge", path \o bit, Edge(Tail(edge.path), edge.bottom))
                                 ELSE Call("empty", path \o bit, Zero)
    IN  {o \in {Calls(<<>>, <<Into(<<0>>), Into(<<1>>)>>)} : MayTakeBoth}

TraverseEdge(path, edge) ==
    IF edge.path = <<>> THEN {Calls(<<>>, <<Call("binary_or_leaf", path, edge.bottom)>>)}
    ELSE AlongEdge(path, edge) \union OffEdge(path, edge) \union BothSidesOfEdge(path, edge)

(* open_edge: the path has its length in bits, at least one. *)
OpensAsEdge(node) == node.kind = "Edge" /\ node.path \in Seq({0, 1}) \ {<<>>}

(* A leaf, a binary node, or an edge that opens. *)
TraverseNonEmpty(path, node) ==
    IF Height(path) = 0 THEN {Calls(<<>>, <<Call("binary_or_leaf", path, node)>>)}
    ELSE IF ~ Known(node) THEN {}
    ELSE IF node.kind = "Binary" THEN {Calls(<<>>, <<Call("binary_or_leaf", path, node)>>)}
    ELSE {o \in {Calls(<<>>, <<Call("edge", path, node)>>)} : OpensAsEdge(node)}

TraverseNode(path, node) == Call(IF node = Zero THEN "empty" ELSE "non_empty", path, node)

(* The cells of siblings are written by the first walk and read by the second. *)
Fits(listed) ==
    pass = "new" =>
        \A i \in DOMAIN listed :
            LET cell == Len(siblings["new"]) + i
            IN  cell \in DOMAIN siblings["prev"] => listed[i] = siblings["prev"][cell]

Outcomes(call) ==
    LET Of == CASE call.fn = "empty" -> TraverseEmpty(call.path)
                [] call.fn = "edge" -> TraverseEdge(call.path, call.node)
                [] call.fn = "binary_or_leaf" -> TraverseBinaryOrLeaf(call.path, call.node)
                [] call.fn = "non_empty" -> TraverseNonEmpty(call.path, call.node)
    IN  {o \in Of : Fits(o.siblings)}

-----------------------------------------------------------------------------
(* patricia_update_using_update_constants: the walk of the tree before,    *)
(* then the walk of the tree after, over the same update.                  *)

Init ==
    /\ \/ job \in HonestUpdates
       \/ \E key \in Key : \E prev, new \in LeafValue \X Root : job = AnyUpdate(key, prev, new)
    /\ pass = "prev"
    /\ stack = <<TraverseNode(<<>>, job.prev_root)>>
    /\ update_ptr = 0
    /\ siblings = [prev |-> <<>>, new |-> <<>>]

Step(fn) ==
    /\ pass \in {"prev", "new"} /\ stack # <<>> /\ Head(stack).fn = fn
    /\ \E o \in Outcomes(Head(stack)) :
          /\ stack' = o.calls \o Tail(stack)
          /\ siblings' = [siblings EXCEPT ![pass] = @ \o o.siblings]
          /\ update_ptr' = update_ptr + o.updates
    /\ UNCHANGED <<job, pass>>

StepEmpty == Step("empty")
StepEdge == Step("edge")
StepBinaryOrLeaf == Step("binary_or_leaf")
StepNonEmpty == Step("non_empty")

(* An assert does not hold, or a hint fails. *)
Fail ==
    /\ pass \in {"prev", "new"} /\ stack # <<>> /\ Outcomes(Head(stack)) = {}
    /\ pass' = "rejected"
    /\ UNCHANGED <<job, stack, update_ptr, siblings>>

EndPrev ==
    /\ pass = "prev" /\ stack = <<>> /\ update_ptr = 1
    /\ pass' = "new"
    /\ stack' = <<TraverseNode(<<>>, job.new_root)>>
    /\ update_ptr' = 0
    /\ UNCHANGED <<job, siblings>>

EndNew ==
    /\ pass = "new" /\ stack = <<>> /\ update_ptr = 1
    /\ pass' = IF Len(siblings["new"]) = Len(siblings["prev"]) THEN "accepted" ELSE "rejected"
    /\ UNCHANGED <<job, stack, update_ptr, siblings>>

Next == StepEmpty \/ StepEdge \/ StepBinaryOrLeaf \/ StepNonEmpty \/ Fail \/ EndPrev \/ EndNew

Spec == Init /\ [][Next]_vars

-----------------------------------------------------------------------------
Before == Content(job.prev_root, Len(job.key))
After == Content(job.new_root, Len(job.key))

(* Whatever the hints answer and whatever the two roots hash, an accepted  *)
(* update changed the leaf of the key from its old to its new value and no *)
(* other leaf: "it is guaranteed that all the non traversed leaves have    *)
(* the same value" (patricia_with_keccak.cairo:66).                        *)
OnlyTheKeyChanged ==
    pass = "accepted" =>
        /\ ValueAt(Before, job.key) = job.prev_value
        /\ After = Put(Before, job.key, job.new_value)

(* The place of the key in the tree after a write of zero: the leaves that *)
(* share most of its path all go the other way at the next bit, and part   *)
(* right after it.  Their binary node becomes the sibling of the key at    *)
(* the end of an edge.                                                     *)
BesideABinaryNode ==
    LET paths == {e[1] : e \in After}
        shared == CHOOSE n \in 0..Len(job.key) :
                     /\ \E p \in paths : SubSeq(p, 1, n) = SubSeq(job.key, 1, n)
                     /\ \A p \in paths : SubSeq(p, 1, n + 1) # SubSeq(job.key, 1, n + 1)
        beside == {p \in paths : SubSeq(p, 1, shared) = SubSeq(job.key, 1, shared)}
    IN  /\ job.new_value = 0 /\ paths # {}
        /\ shared + 2 <= Len(job.key)
        /\ \E p, q \in beside : p[shared + 2] # q[shared + 2]

(* With the hints of the Rust code and the proofs of the state server,     *)
(* every write is accepted but the writes of zero that leave the key       *)
(* beside a binary node, and those are never accepted: the hints open each *)
(* node the walks meet, and both walks descend alike.                      *)
HonestWritesAreAccepted ==
    job.honest =>
        /\ pass = "rejected" => BesideABinaryNode
        /\ pass = "accepted" => ~ BesideABinaryNode

(* A descent starts at the root or below a place where a leaf of either    *)
(* tree leaves the path of the key, and ends at the next such place: "the  *)
(* longest common path where all three trees descend in the same           *)
(* direction" (tree.rs:168).                                               *)
DescentsAreLongest ==
    LET key == job.key
        paths == {e[1] : e \in Before \union After}
        parts == {n \in 0..Len(key) - 1 :
                     \E p \in paths : Len(LongestCommonPrefix({p, key})) = n}
        starts == {0} \union {n + 1 : n \in parts}
        End(n) == CHOOSE m \in n..Len(key) :
                     /\ m \in parts \union {Len(key)}
                     /\ \A i \in n..m - 1 : i \notin parts
        long == {n \in starts : End(n) - n > 1}
    IN  (job.honest /\ pass = "prev" /\ siblings["prev"] = <<>>) =>
        /\ DOMAIN job.descent_map = {SubSeq(key, 1, n) : n \in long}
        /\ \A n \in long : job.descent_map[SubSeq(key, 1, n)] = SubSeq(key, n + 1, End(n))
=============================================================================
