----------------------------- MODULE ServerLoad -----------------------------
(***************************************************************************)
(* The state server under any load of updates its API accepts: every       *)
(* client writes at any root some client was given or creates a trie, the  *)
(* calls interleave between SQL statements, and the process may stop.  The *)
(* tables can end up wrong in this use (TrieClient says when); what is     *)
(* stated here holds of them all the same.  The handlers that only read    *)
(* are stated as what they would answer in every state.                    *)
(***************************************************************************)
EXTENDS StateServer

CONSTANTS MaxUpdates,   \* bound on the updates begun
          Batches       \* the key-value lists given to create_trie

ASSUME LoadAssumption == MaxUpdates \in Nat /\ Batches \subseteq Seq(Leaves)

VARIABLE updates   \* how many updates have begun

loadVars == <<vars, updates>>

LoadInit == Init /\ updates = 0

BeginUpdate(c, l) ==
    /\ updates < MaxUpdates
    /\ updates' = updates + 1
    /\ \/ \E root \in known[l], leaf \in Leaves : Write(c, l, root, leaf)
       \/ \E items \in Batches : CreateTrie(c, l, items)

LoadNext ==
    \/ \E c \in Client, l \in Label : BeginUpdate(c, l)
    \/ \E c \in Client : HandlerStep(c) /\ UNCHANGED updates
    \/ (Crash \/ \E c \in Client : StatementFails(c)) /\ UNCHANGED updates

LoadSpec == LoadInit /\ [][LoadNext]_loadVars
FairLoadSpec == LoadSpec /\ \A c \in Client : WF_vars(HandlerStep(c))

-----------------------------------------------------------------------------
(* Children are inserted before the node that refers to them, and a node   *)
(* that is skipped leaves an older row at its index: no row ever refers to *)
(* an index without a row, in the middle of a write and after a fault too. *)
ChildrenStored ==
    \A l \in Label : \A i \in DOMAIN db[l].nodes :
        LET data == db[l].nodes[i].data
            Stored(idx) == \E j \in DOMAIN db[l].nodes : db[l].nodes[j].trie_idx = idx
        IN  /\ data.kind = "Binary" => Stored(data.left) /\ Stored(data.right)
            /\ data.kind = "Edge" => Stored(data.child)

(* A proof that verifies is true, whatever state the tables are in: a       *)
(* member's pair is in the state the root commits to, a non-member's key    *)
(* has no value there.  verify_proof is what the crate offers to whoever    *)
(* takes its proofs, and what its tests check them with; the tables alone   *)
(* promise nothing here.                                                    *)
TrueProof(proof, root, leaf) ==
    \A verdict \in {VerifyProof(proof, root, leaf)} :
        /\ verdict = "Member" /\ leaf.value # Zero => <<leaf.key, leaf.value>> \in root
        /\ verdict = "NonMember" => Lookup(root, leaf.key) = Zero

VerifiedProofsAreTrue ==
    \A l \in Label : \A root \in known[l] : \A v \in Value :
        /\ \A k \in Key : \A reply \in {ReadProofReply(l, root, k)} :
              reply.ok => TrueProof(reply.proof.state_proof, root, [key |-> k, value |-> v])
        /\ \A leaf \in Leaves : \A reply \in {WriteProofReply(l, root, leaf)} :
              reply.ok =>
                  \A p \in {reply.proof} :
                     /\ TrueProof(p.state_proof_prev, root, [key |-> leaf.key, value |-> v])
                     /\ TrueProof(p.state_proof_post, p.trie_root_post, [key |-> leaf.key, value |-> v])

(* The index a root opens at is settled by its first row: a later write    *)
(* that stores the same hash again, or a racing one, does not move it, so  *)
(* the leaf rows recorded under that index stay the ones the root reads.   *)
RootsDoNotMove ==
    [][\A l \in Label : \A root \in known[l] :
          CanOpen(db[l], root) => RootIdx(db'[l], root) = RootIdx(db[l], root)]_vars

(* Every call comes to an end: the loops over nodes and leaves, the        *)
(* placeholder's second round and a fault all lead back to an idle client. *)
CallsEnd == \A c \in Client : (call[c].pc # "idle") ~> (call[c].pc = "idle")
=============================================================================
