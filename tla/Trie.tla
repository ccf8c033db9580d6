-------------------------------- MODULE Trie --------------------------------
(***************************************************************************)
(* The trie layer of the state server (crates/state_server/src/mpt): how   *)
(* an update of the Merkle tree becomes rows of the two tables, how a root *)
(* hash is turned back into a storage index, and the proofs that are given *)
(* out.  Pure operators on a database; StateServer runs them as steps.     *)
(***************************************************************************)
EXTENDS MerkleTree

NoIdx == 0

IdxIn(rows, i) == IF i = 0 THEN NoIdx ELSE rows[i].trie_idx
WithHash(rows, hash) == {i \in DOMAIN rows : rows[i].hash = hash}

(* Mutant: the newest row with the hash. *)
NewestIdxByHash(db, hash) == IdxIn(db.nodes, LastRow(WithHash(db.nodes, hash)))

(* get_node_idx_by_hash: the index in the first row with the hash. *)
GetNodeIdxByHash(db, hash) == IdxIn(db.nodes, FirstRow(WithHash(db.nodes, hash)))

(* get_node_idx: the greatest trie index, 0 when the table is empty. *)
GetNodeIdx(db) ==
    IF db.nodes = <<>> THEN 0
    ELSE CHOOSE n \in {db.nodes[i].trie_idx : i \in DOMAIN db.nodes} :
            \A i \in DOMAIN db.nodes : db.nodes[i].trie_idx <= n

(* load_from_root and create_empty: the storage index a root opens. *)
CanOpen(db, root) == root = EmptyHash \/ GetNodeIdxByHash(db, root) # NoIdx
RootIdx(db, root) == IF root = EmptyHash THEN 0 ELSE GetNodeIdxByHash(db, root)

(* persist_updates, first half: positions in the update become trie        *)
(* indices that follow the one of the opened root.                         *)
NodeRef(ref, next_index) == IF ref.at = "storage" THEN ref.idx ELSE next_index + ref.idx

StoredForm(data, next_index) ==
    CASE data.kind = "Binary" -> [data EXCEPT !.left = NodeRef(@, next_index),
                                              !.right = NodeRef(@, next_index)]
      [] data.kind = "Edge"   -> [data EXCEPT !.child = NodeRef(@, next_index)]
      [] OTHER                -> data

(* Mutants: indices from the opened root itself; parents first. *)
NodesFromRoot(update, starting_index) ==
    [n \in DOMAIN update.nodes_added |->
        [trie_idx |-> starting_index + n - 1,
         hash |-> update.nodes_added[n].hash,
         data |-> StoredForm(update.nodes_added[n].data, starting_index)]]

ParentsFirst(update, starting_index) ==
    Reverse([n \in DOMAIN update.nodes_added |->
        [trie_idx |-> starting_index + n,
         hash |-> update.nodes_added[n].hash,
         data |-> StoredForm(update.nodes_added[n].data, starting_index + 1)]])

NodesToPersist(update, starting_index) ==
    LET next_index == starting_index + 1
    IN  [n \in DOMAIN update.nodes_added |->
            [trie_idx |-> next_index + n - 1,
             hash |-> update.nodes_added[n].hash,
             data |-> StoredForm(update.nodes_added[n].data, next_index)]]

(* The index of the row that carries the root hash: the last one, NoIdx if there is none. *)
RootIndexIn(rows, root) == IdxIn(rows, LastRow(WithHash(rows, root)))

PlaceholderRow(root, idx) == [trie_idx |-> idx, hash |-> root, data |-> [kind |-> "LeafBinary"]]

-----------------------------------------------------------------------------
(* get_leaf_proof: no nodes for the empty root. *)
GetLeafProof(db, max_root_idx, root, key) ==
    IF root = EmptyHash THEN <<>>
    ELSE GetProof(db, max_root_idx, GetNodeIdxByHash(db, root), key)

(* Mutants: left and right exchanged; the path of an edge not compared. *)
StepCrossed(walk, node) ==
    LET len == IF node.kind = "Binary" THEN 1 ELSE Len(node.path)
        Onward(hash) == [walk EXCEPT !.expected = hash, !.path = Drop(@, len)]
        Stop(verdict) == [walk EXCEPT !.verdict = verdict]
    IN  CASE walk.verdict # "open" -> walk
          [] walk.verdict = "open" /\ NodeHash(node) # walk.expected -> Stop("Invalid")
          [] OTHER ->
                IF Len(walk.path) < len THEN Stop("Invalid")
                ELSE IF node.kind = "Binary"
                THEN Onward(IF Head(walk.path) = 1 THEN node.left ELSE node.right)
                ELSE IF SubSeq(walk.path, 1, len) # node.path THEN Stop("NonMember")
                ELSE Onward(node.child)

StepAnyPath(walk, node) ==
    LET len == IF node.kind = "Binary" THEN 1 ELSE Len(node.path)
        Onward(hash) == [walk EXCEPT !.expected = hash, !.path = Drop(@, len)]
        Stop(verdict) == [walk EXCEPT !.verdict = verdict]
    IN  CASE walk.verdict # "open" -> walk
          [] walk.verdict = "open" /\ NodeHash(node) # walk.expected -> Stop("Invalid")
          [] OTHER ->
                IF Len(walk.path) < len THEN Stop("Invalid")
                ELSE IF node.kind = "Binary"
                THEN Onward(IF Head(walk.path) = 0 THEN node.left ELSE node.right)
                ELSE Onward(node.child)

(* verify_proof: the chain of hashes from the root down to the leaf. *)
VerifyStep(walk, node) ==
    LET len == IF node.kind = "Binary" THEN 1 ELSE Len(node.path)
        Onward(hash) == [walk EXCEPT !.expected = hash, !.path = Drop(@, len)]
        Stop(verdict) == [walk EXCEPT !.verdict = verdict]
    IN  CASE walk.verdict # "open" -> walk
          [] walk.verdict = "open" /\ NodeHash(node) # walk.expected -> Stop("Invalid")
          [] OTHER ->
                IF Len(walk.path) < len THEN Stop("Invalid")
                ELSE IF node.kind = "Binary"
                THEN Onward(IF Head(walk.path) = 0 THEN node.left ELSE node.right)
                ELSE IF SubSeq(walk.path, 1, len) # node.path THEN Stop("NonMember")
                ELSE Onward(node.child)

Verdict(end, proof, root, leaf) ==
    CASE end.verdict # "open" -> end.verdict
      [] end.verdict = "open" /\ end.path = <<>> ->
            IF end.expected = LeafHash(leaf.value) THEN "Member" ELSE "Invalid"
      [] OTHER -> IF proof = <<>> /\ root = EmptyHash THEN "NonMember" ELSE "Invalid"

VerifyProof(proof, root, leaf) ==
    LET walk[n \in 0..Len(proof)] ==
            IF n = 0 THEN [expected |-> root, path |-> leaf.key, verdict |-> "open"]
            ELSE The({VerifyStep(w, proof[n]) : w \in {walk[n - 1]}})
    IN  The({Verdict(end, proof, root, leaf) : end \in {walk[Len(proof)]}})

(* get_state_proofs for one read action. *)
LeafOrEmpty(key, value) == [key |-> key, value |-> IF value = NoLeaf THEN Zero ELSE value]

StateProofRead(db, root, key) ==
    LET idx == RootIdx(db, root)
    IN  IF root = EmptyHash
        THEN [trie_root |-> root, leaf |-> [key |-> key, value |-> Zero], state_proof |-> <<>>]
        ELSE [trie_root |-> root, leaf |-> LeafOrEmpty(key, LeafAt(db, key, idx)),
              state_proof |-> GetLeafProof(db, idx, root, key)]

(* get_state_proofs for one write action: the update is computed again, on  *)
(* a tree that is not stored, and its root must be in the table already.    *)
CanProveWrite(db, root, leaf) ==
    /\ CanOpen(db, root)
    /\ LET update == TrieUpdate(db, RootIdx(db, root), RootIdx(db, root), <<leaf>>)
       IN  update.ok /\ GetNodeIdxByHash(db, update.root_commitment) # NoIdx

(* Mutant: the second half of the proof taken at the old root. *)
ProofAtOldRoot(db, root, leaf) ==
    LET idx == RootIdx(db, root)
        update == TrieUpdate(db, idx, idx, <<leaf>>)
    IN  [trie_root_prev |-> root,
         leaf_prev |-> LeafOrEmpty(leaf.key, LeafAt(db, leaf.key, idx)),
         state_proof_prev |-> GetLeafProof(db, idx, root, leaf.key),
         trie_root_post |-> update.root_commitment,
         leaf_post |-> leaf,
         state_proof_post |-> GetLeafProof(db, idx, root, leaf.key)]

StateProofWrite(db, root, leaf) ==
    LET idx == RootIdx(db, root)
        ProofOf(post) ==
            [trie_root_prev |-> root,
             leaf_prev |-> LeafOrEmpty(leaf.key, LeafAt(db, leaf.key, idx)),
             state_proof_prev |-> GetLeafProof(db, idx, root, leaf.key),
             trie_root_post |-> post,
             leaf_post |-> leaf,
             state_proof_post |-> GetLeafProof(db, GetNodeIdxByHash(db, post), post, leaf.key)]
    IN  The({ProofOf(post) : post \in {TrieUpdate(db, idx, idx, <<leaf>>).root_commitment}})
=============================================================================
