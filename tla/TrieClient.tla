----------------------------- MODULE TrieClient -----------------------------
(***************************************************************************)
(* HDP jobs that build a trie write by write against the state server,     *)
(* one after the other (crates/dry_hint_processor, injected_state): a dry   *)
(* run writes at the root it was given last and reads, a fetcher asks      *)
(* proofs, at every root given so far.  The handler of the dry run sends a *)
(* request once: an error in place of the answer ends the run, and what it *)
(* wrote stays.  The next write is one of a run started later, which knows *)
(* the roots given and nothing of the rows the lost write left.            *)
(*                                                                         *)
(* Rules is the set of rules the writes of all these runs follow; the code *)
(* enforces none of them, they are for whoever starts the jobs.  With all  *)
(* of them the server keeps every state it has acknowledged; each rule     *)
(* left out is a use the API allows and the tables do not survive.         *)
(***************************************************************************)
EXTENDS StateServer

CONSTANTS Rules,      \* subset of AllRules
          MaxWrites,  \* bound on the writes acknowledged per label
          Inner, Misplaced  \* in the mapping to TrieStore: a node that is no root, a row out of place

AllRules == {"newest_root",  \* write at the newest root only
             "new_pair",     \* never write a pair (key, value) a second time
             "new_root",     \* never come back to a state of the trie
             "not_empty",    \* never delete the last key
             "lost_first"}   \* after a write that failed, the next one is that write

ASSUME ClientAssumption == Rules \subseteq AllRules /\ MaxWrites \in Nat

VARIABLES chain,   \* chain[label]: the roots acknowledged, in order; the first is the empty one
          meant,   \* meant[label][n]: the content chain[label][n] should have
          want     \* want[label]: the write sent last, until its answer is taken

clientVars == <<chain, meant, want>>
allVars == <<vars, clientVars>>

NoWant == [want |-> FALSE]
Wanted(base, leaf) == [want |-> TRUE, base |-> base, leaf |-> leaf]

ClientInit ==
    /\ Init
    /\ chain = [l \in Label |-> <<EmptyHash>>]
    /\ meant = [l \in Label |-> <<EmptyHash>>]
    /\ want = [l \in Label |-> NoWant]

(* The content of the state a write starts from and the one it leads to. *)
Follows(l, n, leaf) ==
    LET target == Upsert(meant[l][n], leaf)
    IN  /\ "newest_root" \in Rules => n = Len(chain[l])
        /\ "new_root" \in Rules => \A i \in DOMAIN meant[l] : meant[l][i] # target \/ target = EmptyHash
        /\ "not_empty" \in Rules => target # EmptyHash
        /\ "new_pair" \in Rules =>
              \A i \in DOMAIN db[l].leafs :
                 ~ (db[l].leafs[i].key = leaf.key /\ db[l].leafs[i].value = leaf.value)

(* The request goes out once, and with it the call of the handler. *)
Send(c, l, n, leaf) ==
    /\ Len(chain[l]) <= MaxWrites
    /\ Write(c, l, chain[l][n], leaf)
    /\ want' = [want EXCEPT ![l] = Wanted(n, leaf)]
    /\ UNCHANGED <<chain, meant>>

Submit(c, l, n, leaf) == want[l] = NoWant /\ Follows(l, n, leaf) /\ Send(c, l, n, leaf)

(* The run whose write failed has ended; this is the first write of a run   *)
(* started after it.                                                        *)
SubmitInNextRun(c, l, n, leaf) ==
    /\ want[l] # NoWant
    /\ IF "lost_first" \in Rules THEN want[l] = Wanted(n, leaf) ELSE Follows(l, n, leaf)
    /\ Send(c, l, n, leaf)

(* The answer to the write sent last. *)
Awaited(c, l) ==
    /\ call[c].pc = "done" /\ call[c].op = "write" /\ call[c].ok
    /\ call[c].label = l /\ want[l] # NoWant
    /\ call[c].base = chain[l][want[l].base] /\ call[c].items = <<want[l].leaf>>

(* The answer to the write is taken: its root is a state of the trie. *)
Acknowledge(c, l) ==
    /\ Awaited(c, l)
    /\ chain' = [chain EXCEPT ![l] = Append(@, call[c].root)]
    /\ meant' = [meant EXCEPT ![l] = Append(@, Upsert(meant[l][want[l].base], want[l].leaf))]
    /\ want' = [want EXCEPT ![l] = NoWant]
    /\ Return(c)

(* The answer to a query, or the error that ends a run. *)
TakeAnswer(c) ==
    /\ \A l \in Label : ~ Awaited(c, l)
    /\ Return(c)
    /\ UNCHANGED clientVars

Serve(c) ==
    /\ \/ SelectNode(c) \/ InsertNode(c) \/ NodesDone(c)
       \/ SelectRoot(c) \/ MaxIdx(c)
       \/ SelectLeaf(c) \/ InsertLeaf(c) \/ Respond(c)
    /\ UNCHANGED clientVars

(* Queries go on at every root given, after a write that failed as well. *)
Query(c, l) ==
    /\ \E n \in DOMAIN chain[l], k \in Key :
          \/ Read(c, l, chain[l][n], k)
          \/ GetStateProofRead(c, l, chain[l][n], k)
          \/ RootNodeIdx(c, l, chain[l][n])
    /\ UNCHANGED clientVars

(* The proof of a write that was acknowledged: between two neighbours of the chain. *)
QueryWrite(c, l) ==
    /\ \E n \in 1..(Len(chain[l]) - 1), leaf \in Leaves :
          /\ Upsert(meant[l][n], leaf) = meant[l][n + 1]
          /\ GetStateProofWrite(c, l, chain[l][n], leaf)
    /\ UNCHANGED clientVars

Fault == (Crash \/ \E c \in Client : StatementFails(c)) /\ UNCHANGED clientVars

ClientNext ==
    \/ \E l \in Label :
          \/ \E c \in Client, n \in DOMAIN chain[l], leaf \in Leaves :
                Submit(c, l, n, leaf) \/ SubmitInNextRun(c, l, n, leaf)
          \/ \E c \in Client : Acknowledge(c, l) \/ Query(c, l) \/ QueryWrite(c, l)
    \/ \E c \in Client : Serve(c) \/ TakeAnswer(c)
    \/ Fault

ClientSpec == ClientInit /\ [][ClientNext]_allVars

-----------------------------------------------------------------------------
Done(c, op) == call[c].pc = "done" /\ call[c].op = op

(* Every root a write returned commits to the base content with the key set: *)
(* commit takes the untouched siblings from the tables, the stale ones too.  *)
RootsCommitToMeaning == \A l \in Label : chain[l] = meant[l]

(* A root that was acknowledged opens: /read and /write at it do not fail,  *)
(* whatever was written since and wherever the server was stopped.          *)
AckedRootsOpen ==
    \A l \in Label : \A n \in DOMAIN chain[l] : CanOpen(db[l], chain[l][n])

(* A read at any state of the trie gives the value of the key in that state *)
(* (None stands for zero), however many states came after it.               *)
ReadsMatchRoots ==
    \A c \in Client : Done(c, "read") =>
        /\ call[c].ok
        /\ LeafOrEmpty(call[c].key, call[c].value).value = Lookup(call[c].root, call[c].key)

(* What get_state_proofs hands to the sound run for a read verifies against *)
(* the root, as a member exactly when the key has a value there.            *)
ReadProofsVerify ==
    \A c \in Client : Done(c, "read_proof") =>
        LET p == call[c].proof
        IN  /\ call[c].ok
            /\ p.leaf.value = Lookup(p.trie_root, p.leaf.key)
            /\ VerifyProof(p.state_proof, p.trie_root, p.leaf)
                  = IF p.leaf.value = Zero THEN "NonMember" ELSE "Member"

(* The proof of an acknowledged write is recomputed without storing anything *)
(* and joins the two neighbouring roots: both halves verify, the leaf before *)
(* is the old value, the root after is the one that was acknowledged.        *)
WriteProofsVerify ==
    \A c \in Client : Done(c, "write_proof") =>
        LET p == call[c].proof
            Standing(v) == IF v = Zero THEN "NonMember" ELSE "Member"
        IN  /\ call[c].ok
            /\ p.leaf_prev.value = Lookup(p.trie_root_prev, p.leaf_prev.key)
            /\ p.trie_root_post = Upsert(p.trie_root_prev, p.leaf_post)
            /\ VerifyProof(p.state_proof_prev, p.trie_root_prev, p.leaf_prev)
                  = Standing(p.leaf_prev.value)
            /\ VerifyProof(p.state_proof_post, p.trie_root_post, p.leaf_post)
                  = Standing(p.leaf_post.value)

-----------------------------------------------------------------------------
(* The tables of a label as the abstract TrieStore sees them: a node row is *)
(* its hash, which is a state if it covers whole keys and opaque otherwise. *)
State(root) == [k \in Key |-> Lookup(root, k)]
IsRoot(hash) == \E e \in hash : e[1] \in Key

StoreLabel == CHOOSE l \in Label : TRUE

Store == INSTANCE TrieStore WITH
    rows  <- [i \in DOMAIN db[StoreLabel].nodes |->
                IF db[StoreLabel].nodes[i].trie_idx # i THEN Misplaced
                ELSE IF IsRoot(db[StoreLabel].nodes[i].hash)
                THEN State(db[StoreLabel].nodes[i].hash) ELSE Inner],
    leafs <- db[StoreLabel].leafs,
    chain <- [n \in DOMAIN chain[StoreLabel] |-> State(chain[StoreLabel][n])],
    want  <- IF want[StoreLabel] = NoWant THEN {} ELSE {want[StoreLabel].leaf}

(* Whatever runs fail and follow each other, the tables only do what        *)
(* TrieStore allows: every node row at the index its position says, the     *)
(* root last, the leaf row under the root's index, then the answer.  A      *)
(* fault, and the lost write sent by a later run, change none of them.      *)
ImplementsStore == Store!Spec
=============================================================================
