---------------------------- MODULE StateServer ----------------------------
(***************************************************************************)
(* The state server (crates/state_server): HTTP handlers over one SQLite   *)
(* database per trie label.  Handlers run on tokio worker threads, each    *)
(* with its own pooled connection, so the calls of several clients         *)
(* interleave between any two SQL statements: a write is the statement     *)
(* sequence of Trie::persist_updates, and nothing holds it together (no    *)
(* transaction, no UNIQUE constraint on trie_idx).  The process may stop   *)
(* between two statements; the tables stay, the calls in progress are gone.*)
(*                                                                         *)
(* Opening a root, setting keys and committing is one step: rows are only  *)
(* ever added, a query by trie_idx or by hash takes the first row, so what *)
(* these SELECTs return cannot change once the root is found, and the leaf *)
(* values (the newest row) are read in one commit.                         *)
(***************************************************************************)
EXTENDS Trie, FiniteSets

CONSTANTS Label,        \* trie labels, one database each
          Client,       \* clients with at most one call in progress each
          Key,          \* the keys in use: bit sequences of one length
          Value,        \* the values in use; Zero deletes
          MaxFaults     \* bound on the times the process stops or a statement fails

ASSUME ServerAssumption ==
    /\ Zero \in Value /\ Value \subseteq Nat
    /\ \A k, l \in Key : k \in Seq({0, 1}) /\ Len(k) = Len(l) /\ Len(k) > 0
    /\ MaxFaults \in Nat

VARIABLES db,       \* db[label]: the tables of the label's database
          known,    \* known[label]: the roots clients were given, and the empty one
          call,     \* call[client]: the handler serving the client
          faults    \* how often the process has stopped or a statement has failed

vars == <<db, known, call, faults>>

Idle == [pc |-> "idle"]
Leaves == [key : Key, value : Value]
EmptyDB == [nodes |-> <<>>, leafs |-> <<>>]

(* What a root commits to. *)
Lookup(root, key) == IF \E v \in Value : <<key, v>> \in root
                     THEN CHOOSE v \in Value : <<key, v>> \in root ELSE Zero
Upsert(root, leaf) == {e \in root : e[1] # leaf.key}
                        \union (IF leaf.value = Zero THEN {} ELSE {<<leaf.key, leaf.value>>})

TypeOK ==
    /\ \A l \in Label :
        /\ \A i \in DOMAIN db[l].nodes : db[l].nodes[i].trie_idx \in Nat \ {0}
        /\ \A i \in DOMAIN db[l].leafs :
              db[l].leafs[i] \in [key : Key, value : Value, root_idx : Nat \ {0}]
        /\ EmptyHash \in known[l]
    /\ \A c \in Client :
        call[c].pc \in {"idle", "select_node", "insert_node", "select_root", "max_idx",
                        "select_leaf", "insert_leaf", "done"}
    /\ faults \in 0..MaxFaults

Init ==
    /\ db = [l \in Label |-> EmptyDB]
    /\ known = [l \in Label |-> {EmptyHash}]
    /\ call = [c \in Client |-> Idle]
    /\ faults = 0

-----------------------------------------------------------------------------
(* write and create_trie: open the tree, set the leaves, commit. *)

Persist(op, label, base, items, update) ==
    LET rows == NodesToPersist(update, RootIdx(db[label], base))
    IN  [pc |-> "select_node", op |-> op, label |-> label, base |-> base, items |-> items,
         root |-> update.root_commitment,
         nodes |-> rows, root_idx |-> RootIndexIn(rows, update.root_commitment),
         leaves |-> items]

Failure(op, label, base, items) ==
    [pc |-> "done", op |-> op, ok |-> FALSE, label |-> label, base |-> base, items |-> items]

(* An unknown root, a missing leaf or a broken node makes the handler fail. *)
Update(c, op, label, base, items) ==
    /\ call[c].pc = "idle"
    /\ \/ /\ CanOpen(db[label], base)
          /\ \E update \in {TrieUpdate(db[label], 0, RootIdx(db[label], base), items)} :
                call' = [call EXCEPT ![c] = IF update.ok
                                            THEN Persist(op, label, base, items, update)
                                            ELSE Failure(op, label, base, items)]
       \/ /\ ~ CanOpen(db[label], base)
          /\ call' = [call EXCEPT ![c] = Failure(op, label, base, items)]
    /\ UNCHANGED <<db, known, faults>>

Write(c, label, root, leaf) == Update(c, "write", label, root, <<leaf>>)
CreateTrie(c, label, items) == Update(c, "create_trie", label, EmptyHash, items)

-----------------------------------------------------------------------------
(* persist_updates, one SQL statement at a time. *)

Goto(c, pc) == call' = [call EXCEPT ![c].pc = pc]
Insert(label, table, row) == db' = [db EXCEPT ![label][table] = Append(@, row)]

SelectNode(c) ==
    LET l == call[c].label
        row == Head(call[c].nodes)
    IN  /\ call[c].pc = "select_node" /\ call[c].nodes # <<>>
        /\ IF WithIdx(db[l], row.trie_idx) # {}
           THEN call' = [call EXCEPT ![c].nodes = Tail(@)]
           ELSE Goto(c, "insert_node")
        /\ UNCHANGED <<db, known, faults>>

InsertNode(c) ==
    /\ call[c].pc = "insert_node"
    /\ Insert(call[c].label, "nodes", Head(call[c].nodes))
    /\ call' = [call EXCEPT ![c].nodes = Tail(@), ![c].pc = "select_node"]
    /\ UNCHANGED <<known, faults>>

(* Mutant: no look-up of a root that was not added. *)
SkipRoot(c) ==
    /\ call[c].pc = "select_node" /\ call[c].nodes = <<>>
    /\ Goto(c, "select_leaf")
    /\ UNCHANGED <<db, known, faults>>

NodesDone(c) ==
    /\ call[c].pc = "select_node" /\ call[c].nodes = <<>>
    /\ Goto(c, IF call[c].root_idx = NoIdx THEN "select_root" ELSE "select_leaf")
    /\ UNCHANGED <<db, known, faults>>

(* No added node carries the root: look it up, or make a placeholder for it. *)
SelectRoot(c) ==
    LET idx == GetNodeIdxByHash(db[call[c].label], call[c].root)
    IN  /\ call[c].pc = "select_root"
        /\ IF idx # NoIdx
           THEN call' = [call EXCEPT ![c].root_idx = idx, ![c].pc = "select_leaf"]
           ELSE Goto(c, "max_idx")
        /\ UNCHANGED <<db, known, faults>>

MaxIdx(c) ==
    LET idx == GetNodeIdx(db[call[c].label]) + 1
    IN  /\ call[c].pc = "max_idx"
        /\ call' = [call EXCEPT ![c].nodes = <<PlaceholderRow(call[c].root, idx)>>,
                                ![c].root_idx = idx, ![c].pc = "select_node"]
        /\ UNCHANGED <<db, known, faults>>

(* The leaf rows with a pair, under whatever root. *)
PairRows(tables, leaf) == {i \in OfKey(tables, leaf.key) : tables.leafs[i].value = leaf.value}

(* Mutant: the loop goes on without leaving the leaf it skips. *)
SameLeaf(c) ==
    LET l == call[c].label
        leaf == Head(call[c].leaves)
    IN  /\ call[c].pc = "select_leaf" /\ call[c].leaves # <<>>
        /\ PairRows(db[l], leaf) = {}
        /\ Goto(c, "insert_leaf")
        /\ UNCHANGED <<db, known, faults>>

SelectLeaf(c) ==
    LET l == call[c].label
        leaf == Head(call[c].leaves)
    IN  /\ call[c].pc = "select_leaf" /\ call[c].leaves # <<>>
        /\ IF PairRows(db[l], leaf) # {}
           THEN call' = [call EXCEPT ![c].leaves = Tail(@)]
           ELSE Goto(c, "insert_leaf")
        /\ UNCHANGED <<db, known, faults>>

(* Mutant: the leaf under the index of the root that was opened. *)
LeafUnderBase(c) ==
    LET l == call[c].label
        leaf == Head(call[c].leaves)
    IN  /\ call[c].pc = "insert_leaf"
        /\ Insert(l, "leafs", [key |-> leaf.key, value |-> leaf.value,
                               root_idx |-> RootIdx(db[l], call[c].base)])
        /\ call' = [call EXCEPT ![c].leaves = Tail(@), ![c].pc = "select_leaf"]
        /\ UNCHANGED <<known, faults>>

InsertLeaf(c) ==
    LET leaf == Head(call[c].leaves)
    IN  /\ call[c].pc = "insert_leaf"
        /\ Insert(call[c].label, "leafs",
                  [key |-> leaf.key, value |-> leaf.value, root_idx |-> call[c].root_idx])
        /\ call' = [call EXCEPT ![c].leaves = Tail(@), ![c].pc = "select_leaf"]
        /\ UNCHANGED <<known, faults>>

(* The response carries the new root; the client may use it from now on. *)
Respond(c) ==
    LET l == call[c].label
    IN  /\ call[c].pc = "select_leaf" /\ call[c].leaves = <<>>
        /\ call' = [call EXCEPT ![c] = [pc |-> "done", op |-> call[c].op, ok |-> TRUE, label |-> l,
                                        base |-> call[c].base, items |-> call[c].items,
                                        root |-> call[c].root]]
        /\ known' = [known EXCEPT ![l] = @ \union {call[c].root}]
        /\ UNCHANGED <<db, faults>>

-----------------------------------------------------------------------------
(* The handlers that only read. *)

Answer(c, reply) ==
    /\ call[c].pc = "idle"
    /\ call' = [call EXCEPT ![c] = reply]
    /\ UNCHANGED <<db, known, faults>>

ReadReply(label, root, key) ==
    IF CanOpen(db[label], root)
    THEN [pc |-> "done", op |-> "read", ok |-> TRUE, label |-> label, root |-> root, key |-> key,
          value |-> LeafAt(db[label], key, RootIdx(db[label], root))]
    ELSE [pc |-> "done", op |-> "read", ok |-> FALSE, label |-> label, root |-> root, key |-> key]

Read(c, label, root, key) == Answer(c, ReadReply(label, root, key))

(* get_trie_root_node_idx: 404 when the root has no row. *)
RootNodeIdx(c, label, root) ==
    Answer(c, [pc |-> "done", op |-> "root_idx", ok |-> CanOpen(db[label], root), label |-> label,
               root |-> root, idx |-> RootIdx(db[label], root)])

(* get_state_proofs with one action. *)
ProofReply(op, label, root, proofs) ==
    IF proofs = {}
    THEN [pc |-> "done", op |-> op, ok |-> FALSE, label |-> label, root |-> root]
    ELSE [pc |-> "done", op |-> op, ok |-> TRUE, label |-> label, root |-> root, proof |-> The(proofs)]

ReadProofReply(label, root, key) ==
    ProofReply("read_proof", label, root,
               {p \in (IF CanOpen(db[label], root) THEN {StateProofRead(db[label], root, key)} ELSE {}) :
                   p.state_proof # NoProof})

WriteProofReply(label, root, leaf) ==
    ProofReply("write_proof", label, root,
               {p \in (IF CanProveWrite(db[label], root, leaf)
                       THEN {StateProofWrite(db[label], root, leaf)} ELSE {}) :
                   NoProof \notin {p.state_proof_prev, p.state_proof_post}})

GetStateProofRead(c, label, root, key) == Answer(c, ReadProofReply(label, root, key))
GetStateProofWrite(c, label, root, leaf) == Answer(c, WriteProofReply(label, root, leaf))

(* The client takes the response and is free to call again. *)
Return(c) ==
    /\ call[c].pc = "done"
    /\ call' = [call EXCEPT ![c] = Idle]
    /\ UNCHANGED <<db, known, faults>>

-----------------------------------------------------------------------------
(* The process stops and is started again on the same database files. *)
Crash ==
    /\ faults < MaxFaults
    /\ \E c \in Client : call[c].pc \notin {"idle", "done"}
    /\ faults' = faults + 1
    /\ call' = [c \in Client |-> IF call[c].pc = "done" THEN call[c] ELSE Idle]
    /\ UNCHANGED <<db, known>>

(* A statement returns an error (database busy, disk full): the handler     *)
(* answers with it and the rows inserted before stay; a failed look-up of   *)
(* the root is taken for a root that is not there.                          *)
StatementFails(c) ==
    /\ faults < MaxFaults
    /\ faults' = faults + 1
    /\ \/ /\ \/ call[c].pc \in {"insert_node", "max_idx", "insert_leaf"}
             \/ call[c].pc = "select_node" /\ call[c].nodes # <<>>
             \/ call[c].pc = "select_leaf" /\ call[c].leaves # <<>>
          /\ call' = [call EXCEPT ![c] = Failure(@.op, @.label, @.base, @.items)]
       \/ call[c].pc = "select_root" /\ Goto(c, "max_idx")
    /\ UNCHANGED <<db, known>>

(* The steps of the handlers in progress. *)
HandlerStep(c) ==
    \/ SelectNode(c) \/ InsertNode(c) \/ NodesDone(c)
    \/ SelectRoot(c) \/ MaxIdx(c)
    \/ SelectLeaf(c) \/ InsertLeaf(c) \/ Respond(c)
    \/ Return(c)
=============================================================================
