------------------------- MODULE StateServerProofs -------------------------
(***************************************************************************)
(* Proofs about the state server, for any set of labels, keys and values   *)
(* and any number of updates, steps and faults.                            *)
(*                                                                         *)
(* Under any load (ServerLoad), any clients: the tables stay well-formed,  *)
(* no row ever refers to an index without a row, a root stays at its       *)
(* index, and every proof the server would give out that verifies is true. *)
(* ChildrenStored is not inductive: that an inserted row finds its         *)
(* children depends on the rows the call has still to insert.  LoadInv     *)
(* says that each of them refers to what is stored or to a row before it   *)
(* in the same call, which holds when the call begins because a commit     *)
(* lists children before their parents (MerkleTreeProofs).                 *)
(*                                                                         *)
(* For one client that keeps the rules of TrieClient: what it is told is   *)
(* true, what it was acknowledged stays, and the tables do what TrieStore  *)
(* allows.  ClientInv says of each label that its tables are settled - a   *)
(* row for every node of every state acknowledged, a true one - or that a  *)
(* write has begun on settled tables: then they hold a first part of the   *)
(* rows the write adds, and the call that serves it, if a fault has not    *)
(* taken it, knows the rest.                                               *)
(* TrieMeaningProofs says what settled tables answer, and what a write     *)
(* adds to them.                                                           *)
(***************************************************************************)
EXTENDS ServerLoad, TrieClient, TrieMeaningProofs, TLAPS

LeafRows == [key : Key, value : Value, root_idx : Nat \ {0}]
Tables == [nodes : Seq(NodeRow), leafs : Seq(LeafRows)]

(* A write between two of its statements. *)
Working == {"select_node", "insert_node", "select_root", "max_idx", "select_leaf", "insert_leaf"}
Job == [pc : Working, op : {"write", "create_trie"}, label : Label, base : Hash, items : Seq(Leaves),
        root : Hash, nodes : Seq(NodeRow), root_idx : Nat, leaves : Seq(Leaves)]

JobOK(tables, job) ==
    /\ job \in Job
    /\ job.pc \in {"select_node", "insert_node"} => Pending(tables[job.label], job.nodes)
    /\ job.pc = "insert_node" => job.nodes # <<>>
    /\ job.pc = "insert_leaf" => job.leaves # <<>>
    /\ job.pc \in {"select_leaf", "insert_leaf"} => job.root_idx # NoIdx

CallOK(tables, x) == x.pc \in {"idle", "done"} \/ JobOK(tables, x)

LoadInv ==
    /\ db \in [Label -> Tables] /\ \A l \in Label : GoodTables(db[l])
    /\ known \in [Label -> SUBSET Hash] /\ \A l \in Label : EmptyHash \in known[l]
    /\ DOMAIN call = Client /\ \A c \in Client : CallOK(db, call[c])
    /\ faults \in 0..MaxFaults

-----------------------------------------------------------------------------
(* What the parameters say: keys, values and leaves are those of the tree. *)

LEMMA KeysAndValues ==
    /\ Key \subseteq Bits \ {<<>>} /\ Value \subseteq Nat
    /\ Leaves \subseteq Item /\ Seq(Leaves) \subseteq Seq(Item)
    /\ \A leaf \in Leaves : <<leaf>> \in Seq(Leaves)
<1>1. Key \subseteq Bits \ {<<>>} /\ Value \subseteq Nat
    <2>1. \A k \in Key : k \in Bits /\ Len(k) > 0
        BY ServerAssumption DEF ServerAssumption, Bits
    <2>2. Len(<<>>) = 0
        OBVIOUS
    <2> QED
        BY <2>1, <2>2, ServerAssumption DEF ServerAssumption
<1>2. Leaves \subseteq Item
    BY <1>1 DEF Leaves, Item
<1>3. Seq(Leaves) \subseteq Seq(Item)
    BY <1>2
<1> QED
    BY <1>1, <1>2, <1>3

-----------------------------------------------------------------------------
(* The tables when a row is added. *)

LEMMA RowStored ==
    ASSUME NEW d, NEW idx
    PROVE  WithIdx(d, idx) # {} <=> idx \in Stored(d)
BY DEF WithIdx, Stored

LEMMA AddNode ==
    ASSUME NEW d, GoodTables(d), NEW row \in NodeRow, Refs(row.data) \subseteq Stored(d),
           NEW e, e.nodes = Append(d.nodes, row), e.leafs = d.leafs
    PROVE  GoodTables(e) /\ Stored(e) = Stored(d) \union {row.trie_idx}
<1> DEFINE N == Len(d.nodes)
<1>1. d.nodes \in Seq(NodeRow) /\ N \in Nat /\ DOMAIN d.nodes = 1..N
    BY DEF GoodTables
<1>2. /\ e.nodes \in Seq(NodeRow) /\ DOMAIN e.nodes = 1..N + 1
      /\ \A i \in 1..N : e.nodes[i] = d.nodes[i]
      /\ e.nodes[N + 1] = row
    BY <1>1, AppendProperties
<1>3. Stored(e) = Stored(d) \union {row.trie_idx}
    <2>1. 1..N + 1 = 1..N \union {N + 1}
        BY <1>1
    <2> HIDE DEF N
    <2> QED
        BY <1>1, <1>2, <2>1 DEF Stored
<1>4. \A i \in DOMAIN e.nodes : Refs(e.nodes[i].data) \subseteq Stored(e)
    <2> TAKE i \in DOMAIN e.nodes
    <2>1. CASE i = N + 1
        BY <1>2, <1>3, <2>1
    <2>2. CASE i # N + 1
        <3>1. i \in 1..N
            BY <1>1, <1>2, <2>2
        <3>2. Refs(d.nodes[i].data) \subseteq Stored(d)
            BY <1>1, <3>1 DEF GoodTables
        <3> QED
            BY <1>2, <1>3, <3>1, <3>2
    <2> QED
        BY <2>1, <2>2
<1> QED
    BY <1>2, <1>3, <1>4 DEF GoodTables

LEMMA AddLeaf ==
    ASSUME NEW d, GoodTables(d), NEW row \in LeafRow,
           NEW e, e.nodes = d.nodes, e.leafs = Append(d.leafs, row)
    PROVE  GoodTables(e) /\ Stored(e) = Stored(d)
<1>1. Stored(e) = Stored(d)
    BY DEF Stored
<1>2. d.leafs \in Seq(LeafRow)
    BY DEF GoodTables
<1>3. Append(d.leafs, row) \in Seq(LeafRow)
    BY <1>2, AppendProperties
<1> QED
    BY <1>1, <1>3 DEF GoodTables

(* The first row with a hash stays the first. *)
LEMMA FirstRowStays ==
    ASSUME NEW S, NEW rows \in Seq(S), NEW row, NEW hash, WithHash(rows, hash) # {}
    PROVE  /\ FirstRow(WithHash(Append(rows, row), hash)) = FirstRow(WithHash(rows, hash))
           /\ FirstRow(WithHash(rows, hash)) \in 1..Len(rows)
<1> DEFINE N == Len(rows)
           old == WithHash(rows, hash)
           new == WithHash(Append(rows, row), hash)
<1>1. N \in Nat /\ DOMAIN rows = 1..N
    OBVIOUS
<1>2. DOMAIN Append(rows, row) = 1..N + 1 /\ \A i \in 1..N : Append(rows, row)[i] = rows[i]
    <2>1. Append(rows, row) \in Seq(S \union {row}) /\ rows \in Seq(S \union {row})
        OBVIOUS
    <2> QED
        BY <2>1, AppendProperties
<1>3. old \subseteq 1..N /\ old \subseteq Nat /\ \A i \in 1..N : i \in old <=> rows[i].hash = hash
    BY <1>1 DEF WithHash
<1>4. new \subseteq 1..N + 1 /\ \A i \in 1..N + 1 : i \in new <=> Append(rows, row)[i].hash = hash
    BY <1>1, <1>2 DEF WithHash
<1> HIDE DEF old, new
<1>5. \A i \in 1..N : i \in new <=> i \in old
    BY <1>1, <1>2, <1>3, <1>4
<1>6. old # {} /\ old \subseteq new /\ new \subseteq Nat /\ new # {}
    <2>1. old # {}
        BY DEF old
    <2>2. old \subseteq new
        BY <1>3, <1>5
    <2>3. 1..N + 1 \subseteq Nat
        BY <1>1
    <2> QED
        BY <1>4, <2>1, <2>2, <2>3
<1>7. FirstRow(old) \in old /\ \A j \in old : FirstRow(old) <= j
    BY <1>3, <1>6, FirstHit
<1>8. FirstRow(new) \in new /\ \A j \in new : FirstRow(new) <= j
    BY <1>6, FirstHit
<1>9. FirstRow(new) <= FirstRow(old)
    BY <1>6, <1>7, <1>8
<1>10. FirstRow(old) \in 1..N /\ FirstRow(new) \in Nat
    BY <1>3, <1>6, <1>7, <1>8
<1>11. FirstRow(new) \in old
    <2>1. FirstRow(new) \in 1..N
        BY <1>1, <1>4, <1>8, <1>9, <1>10
    <2> QED
        BY <1>5, <1>8, <2>1
<1>12. FirstRow(old) <= FirstRow(new)
    BY <1>7, <1>11
<1>13. FirstRow(new) = FirstRow(old)
    BY <1>9, <1>10, <1>12
<1> QED
    BY <1>10, <1>13 DEF old, new

AtMostOneMore(rows, new) == new = rows \/ \E row : new = Append(rows, row)

LEMMA RootStays ==
    ASSUME NEW d, GoodTables(d), NEW e, AtMostOneMore(d.nodes, e.nodes), NEW root, CanOpen(d, root)
    PROVE  RootIdx(e, root) = RootIdx(d, root)
<1> DEFINE hits == WithHash(d.nodes, root)
<1>1. CASE root = EmptyHash
    BY <1>1 DEF RootIdx
<1>2. CASE root # EmptyHash
    <2>1. GetNodeIdxByHash(d, root) # 0
        BY <1>2 DEF CanOpen, NoIdx
    <2>2. hits # {}
        BY <2>1 DEF GetNodeIdxByHash, IdxIn, FirstRow, NoIdx
    <2>3. d.nodes \in Seq(NodeRow)
        BY DEF GoodTables
    <2>4. CASE e.nodes = d.nodes
        BY <2>4 DEF RootIdx, GetNodeIdxByHash
    <2>5. ASSUME NEW row, e.nodes = Append(d.nodes, row) PROVE RootIdx(e, root) = RootIdx(d, root)
        <3> DEFINE i == FirstRow(WithHash(d.nodes, root))
        <3>1. FirstRow(WithHash(e.nodes, root)) = i /\ i \in 1..Len(d.nodes)
            BY <2>2, <2>3, <2>5, FirstRowStays
        <3>2. e.nodes[i] = d.nodes[i] /\ i # 0
            <4> HIDE DEF i
            <4>1. \A n \in 1..Len(d.nodes) : Append(d.nodes, row)[n] = d.nodes[n]
                BY <2>3
            <4> QED
                BY <2>5, <3>1, <4>1
        <3>3. GetNodeIdxByHash(e, root) = GetNodeIdxByHash(d, root)
            BY <3>1, <3>2 DEF GetNodeIdxByHash, IdxIn
        <3> QED
            BY <1>2, <3>3 DEF RootIdx
    <2> QED
        BY <2>4, <2>5 DEF AtMostOneMore
<1> QED
    BY <1>1, <1>2

-----------------------------------------------------------------------------
(* A call is none the worse for rows that others add. *)

TablesGrown(tables, new) ==
    /\ new \in [Label -> Tables]
    /\ \A l \in Label : GoodTables(new[l]) /\ Stored(tables[l]) \subseteq Stored(new[l])

LEMMA CallsKept ==
    ASSUME NEW tables, NEW new, TablesGrown(tables, new), NEW x, CallOK(tables, x)
    PROVE  CallOK(new, x)
<1>1. CASE x.pc \in {"idle", "done"}
    BY <1>1 DEF CallOK
<1>2. CASE JobOK(tables, x)
    <2>1. x.label \in Label
        BY <1>2 DEF JobOK, Job
    <2>2. Pending(tables[x.label], x.nodes) => Pending(new[x.label], x.nodes)
        BY <2>1, PendingOn DEF TablesGrown
    <2> QED
        BY <1>2, <2>2 DEF JobOK, CallOK
<1> QED
    BY <1>1, <1>2 DEF CallOK

(* A step of one client that leaves its own call and the tables in order. *)
LEMMA OneCall ==
    ASSUME LoadInv, NEW c \in Client, NEW x, call' = [call EXCEPT ![c] = x],
           TablesGrown(db, db'), CallOK(db', x),
           known' \in [Label -> SUBSET Hash], \A l \in Label : EmptyHash \in known'[l],
           faults' \in 0..MaxFaults
    PROVE  LoadInv'
<1>1. DOMAIN call' = Client /\ \A y \in Client : call'[y] = IF y = c THEN x ELSE call[y]
    BY DEF LoadInv
<1>2. \A y \in Client : CallOK(db', call'[y])
    <2> TAKE y \in Client
    <2>1. CASE y = c
        BY <1>1, <2>1
    <2>2. CASE y # c
        <3>1. CallOK(db, call[y])
            BY DEF LoadInv
        <3>2. CallOK(db', call[y])
            BY <3>1, CallsKept
        <3> QED
            BY <1>1, <2>2, <3>2
    <2> QED
        BY <2>1, <2>2
<1> QED
    BY <1>1, <1>2 DEF LoadInv, TablesGrown

LEMMA SameTables ==
    ASSUME LoadInv, UNCHANGED db
    PROVE  TablesGrown(db, db')
BY DEF LoadInv, TablesGrown

LEMMA QuietStep ==
    ASSUME LoadInv, NEW c \in Client, NEW x, call' = [call EXCEPT ![c] = x], CallOK(db, x),
           UNCHANGED <<db, known, faults>>
    PROVE  LoadInv'
<1>1. TablesGrown(db, db')
    BY SameTables
<1>2. /\ known' \in [Label -> SUBSET Hash] /\ \A l \in Label : EmptyHash \in known'[l]
      /\ faults' \in 0..MaxFaults
    BY DEF LoadInv
<1>3. CallOK(db', x)
    OBVIOUS
<1> QED
    BY <1>1, <1>2, <1>3, OneCall

(* A call between two statements is a job in order. *)
LEMMA JobOf ==
    ASSUME LoadInv, NEW c \in Client, call[c].pc \in Working
    PROVE  /\ JobOK(db, call[c]) /\ call[c] \in Job
           /\ db[call[c].label] \in Tables /\ GoodTables(db[call[c].label])
<1>1. JobOK(db, call[c])
    BY DEF LoadInv, CallOK, Working
<1>2. call[c].label \in Label
    BY <1>1 DEF JobOK, Job
<1> QED
    BY <1>1, <1>2 DEF JobOK, LoadInv

-----------------------------------------------------------------------------
(* The steps of a write. *)

LEMMA UpdateKeeps ==
    ASSUME LoadInv, NEW c \in Client, NEW op \in {"write", "create_trie"}, NEW l \in Label,
           NEW base \in Hash, NEW items \in Seq(Leaves), Update(c, op, l, base, items)
    PROVE  LoadInv'
<1>1. GoodTables(db[l])
    BY DEF LoadInv
<1>2. UNCHANGED <<db, known, faults>>
    BY DEF Update
<1>3. CallOK(db, Failure(op, l, base, items))
    BY DEF CallOK, Failure
<1>4. CASE call' = [call EXCEPT ![c] = Failure(op, l, base, items)]
    BY <1>2, <1>3, <1>4, QuietStep
<1>5. CASE /\ CanOpen(db[l], base)
           /\ \E update \in {TrieUpdate(db[l], 0, RootIdx(db[l], base), items)} :
                 call' = [call EXCEPT ![c] = IF update.ok THEN Persist(op, l, base, items, update)
                                             ELSE Failure(op, l, base, items)]
    <2> DEFINE idx == RootIdx(db[l], base)
               update == TrieUpdate(db[l], 0, idx, items)
               rows == NodesToPersist(update, idx)
               job == Persist(op, l, base, items, update)
    <2>1. call' = [call EXCEPT ![c] = IF update.ok THEN job ELSE Failure(op, l, base, items)]
        BY <1>5
    <2>2. idx \in Stored(db[l]) \union {0} /\ idx \in Nat
        BY <1>1, RootIdxIs
    <2>3. items \in Seq(Item)
        BY KeysAndValues
    <2>4. update.ok \in BOOLEAN /\ update.root_commitment \in Hash /\ Added(db[l], update.nodes_added)
        <3> HIDE DEF idx
        <3> QED
            BY <1>1, <2>2, <2>3, TrieUpdateGood
    <2>5. job = [pc |-> "select_node", op |-> op, label |-> l, base |-> base, items |-> items,
                 root |-> update.root_commitment, nodes |-> rows,
                 root_idx |-> RootIndexIn(rows, update.root_commitment), leaves |-> items]
        BY DEF Persist
    <2> HIDE DEF idx, update, job
    <2>6. Pending(db[l], rows)
        BY <1>1, <2>2, <2>4, RowsArePending
    <2> HIDE DEF rows
    <2>7. rows \in Seq(NodeRow)
        BY <2>6 DEF Pending
    <2>8. RootIndexIn(rows, update.root_commitment) \in Nat
        BY <2>7, RootIndexIs
    <2>9. job \in Job
        BY <2>4, <2>5, <2>7, <2>8 DEF Job, Working
    <2>10. CallOK(db, job)
        BY <2>5, <2>6, <2>9 DEF CallOK, JobOK
    <2>11. CASE update.ok
        BY <1>2, <2>1, <2>10, <2>11, QuietStep
    <2>12. CASE ~ update.ok
        BY <1>4, <2>1, <2>12
    <2> QED
        BY <2>11, <2>12
<1> QED
    BY <1>4, <1>5 DEF Update

LEMMA BeginKeeps ==
    ASSUME LoadInv, NEW c \in Client, NEW l \in Label, BeginUpdate(c, l)
    PROVE  LoadInv'
<1>1. CASE \E root \in known[l], leaf \in Leaves : Write(c, l, root, leaf)
    <2>1. PICK root \in known[l], leaf \in Leaves : Write(c, l, root, leaf)
        BY <1>1
    <2>2. root \in Hash
        BY DEF LoadInv
    <2>3. <<leaf>> \in Seq(Leaves)
        BY KeysAndValues
    <2> QED
        BY <2>1, <2>2, <2>3, UpdateKeeps DEF Write
<1>2. CASE \E items \in Batches : CreateTrie(c, l, items)
    <2>1. PICK items \in Batches : CreateTrie(c, l, items)
        BY <1>2
    <2>2. items \in Seq(Leaves)
        BY LoadAssumption DEF LoadAssumption
    <2>3. EmptyHash \in Hash
        BY DEF EmptyHash, Hash
    <2> QED
        BY <2>1, <2>2, <2>3, UpdateKeeps DEF CreateTrie
<1> QED
    BY <1>1, <1>2 DEF BeginUpdate

LEMMA SelectNodeKeeps ==
    ASSUME LoadInv, NEW c \in Client, SelectNode(c)
    PROVE  LoadInv'
<1> DEFINE job == call[c]
           d == db[job.label]
           row == Head(job.nodes)
<1>1. /\ job.pc = "select_node" /\ job.nodes # <<>> /\ UNCHANGED <<db, known, faults>>
      /\ IF WithIdx(d, row.trie_idx) # {}
         THEN call' = [call EXCEPT ![c] = [job EXCEPT !.nodes = Tail(job.nodes)]]
         ELSE call' = [call EXCEPT ![c] = [job EXCEPT !.pc = "insert_node"]]
    BY DEF SelectNode, Goto
<1>2. JobOK(db, job) /\ job \in Job
    BY <1>1, JobOf DEF Working
<1>3. Pending(d, job.nodes)
    BY <1>1, <1>2 DEF JobOK
<1> HIDE DEF job
<1>4. CASE WithIdx(d, row.trie_idx) # {}
    <2> DEFINE new == [job EXCEPT !.nodes = Tail(job.nodes)]
    <2>1. Stored(d) \union {row.trie_idx} \subseteq Stored(d)
        BY <1>4, RowStored
    <2>2. Pending(d, Tail(job.nodes))
        BY <1>1, <1>3, <2>1, PendingHead
    <2>3. Tail(job.nodes) \in Seq(NodeRow)
        BY <2>2 DEF Pending
    <2>4. new \in Job /\ new.pc = "select_node" /\ new.nodes = Tail(job.nodes) /\ new.label = job.label
        BY <1>1, <1>2, <2>3 DEF Job
    <2>5. CallOK(db, new)
        BY <2>2, <2>4 DEF CallOK, JobOK
    <2> QED
        BY <1>1, <1>4, <2>5, QuietStep
<1>5. CASE ~ (WithIdx(d, row.trie_idx) # {})
    <2> DEFINE new == [job EXCEPT !.pc = "insert_node"]
    <2>1. new \in Job /\ new.pc = "insert_node" /\ new.nodes = job.nodes /\ new.label = job.label
        BY <1>2 DEF Job, Working
    <2>2. CallOK(db, new)
        BY <1>1, <1>3, <2>1 DEF CallOK, JobOK
    <2> QED
        BY <1>1, <1>5, <2>2, QuietStep
<1> QED
    BY <1>4, <1>5

LEMMA InsertNodeKeeps ==
    ASSUME LoadInv, NEW c \in Client, InsertNode(c)
    PROVE  LoadInv'
<1> DEFINE job == call[c]
           l == job.label
           d == db[l]
           row == Head(job.nodes)
           new == [job EXCEPT !.nodes = Tail(job.nodes), !.pc = "select_node"]
<1>1. /\ job.pc = "insert_node" /\ UNCHANGED <<known, faults>>
      /\ db' = [db EXCEPT ![l].nodes = Append(d.nodes, row)]
      /\ call' = [call EXCEPT ![c] = new]
    BY DEF InsertNode, Insert
<1>2. JobOK(db, job) /\ job \in Job /\ d \in Tables /\ GoodTables(d)
    BY <1>1, JobOf DEF Working
<1>3. Pending(d, job.nodes) /\ job.nodes # <<>> /\ l \in Label
    BY <1>1, <1>2 DEF JobOK, Job
<1>4. row \in NodeRow /\ Refs(row.data) \subseteq Stored(d)
    <2> HIDE DEF job
    <2> QED
        BY <1>3, PendingHead
<1>5. db \in [Label -> Tables] /\ \A k \in Label : GoodTables(db[k])
    BY DEF LoadInv
<1>6. /\ db' = [k \in Label |-> IF k = l THEN db'[l] ELSE db[k]]
      /\ db'[l].nodes = Append(d.nodes, row) /\ db'[l].leafs = d.leafs /\ db'[l] \in Tables
    <2>1. Append(d.nodes, row) \in Seq(NodeRow)
        BY <1>2, <1>4, AppendProperties DEF Tables
    <2>2. db'[l] = [d EXCEPT !.nodes = Append(d.nodes, row)]
        BY <1>1, <1>3, <1>5
    <2> HIDE DEF job, row
    <2> QED
        BY <1>1, <1>2, <1>3, <1>5, <2>1, <2>2 DEF Tables
<1> HIDE DEF job, row
<1>7. GoodTables(db'[l]) /\ Stored(db'[l]) = Stored(d) \union {row.trie_idx}
    <2>1. db'[l].nodes = Append(d.nodes, row) /\ db'[l].leafs = d.leafs /\ GoodTables(d)
        BY <1>2, <1>6
    <2> HIDE DEF d, l, new
    <2> QED
        BY <1>4, <2>1, AddNode
<1>8. TablesGrown(db, db')
    BY <1>3, <1>5, <1>6, <1>7 DEF TablesGrown
<1>9. Pending(db'[l], Tail(job.nodes))
    BY <1>3, <1>7, PendingHead DEF row
<1>10. Tail(job.nodes) \in Seq(NodeRow)
    BY <1>9 DEF Pending
<1>11. new \in Job /\ new.pc = "select_node" /\ new.nodes = Tail(job.nodes) /\ new.label = l
    BY <1>2, <1>10 DEF Job, Working
<1>12. CallOK(db', new)
    BY <1>9, <1>11 DEF CallOK, JobOK
<1>13. /\ known' \in [Label -> SUBSET Hash] /\ \A k \in Label : EmptyHash \in known'[k]
       /\ faults' \in 0..MaxFaults
    BY <1>1 DEF LoadInv
<1> HIDE DEF new
<1> QED
    BY <1>1, <1>8, <1>12, <1>13, OneCall

LEMMA NodesDoneKeeps ==
    ASSUME LoadInv, NEW c \in Client, NodesDone(c)
    PROVE  LoadInv'
<1> DEFINE job == call[c]
           pc == IF job.root_idx = NoIdx THEN "select_root" ELSE "select_leaf"
           new == [job EXCEPT !.pc = pc]
<1>1. /\ job.pc = "select_node" /\ UNCHANGED <<db, known, faults>>
      /\ call' = [call EXCEPT ![c] = new]
    BY DEF NodesDone, Goto
<1>2. JobOK(db, job) /\ job \in Job
    BY <1>1, JobOf DEF Working
<1> HIDE DEF job
<1>3. /\ new \in Job /\ new.pc = pc /\ new.root_idx = job.root_idx
    BY <1>2 DEF Job, Working
<1>4. CallOK(db, new)
    BY <1>3 DEF CallOK, JobOK
<1> QED
    BY <1>1, <1>4, QuietStep

LEMMA SelectRootKeeps ==
    ASSUME LoadInv, NEW c \in Client, SelectRoot(c)
    PROVE  LoadInv'
<1> DEFINE job == call[c]
           idx == GetNodeIdxByHash(db[job.label], job.root)
           found == [job EXCEPT !.root_idx = idx, !.pc = "select_leaf"]
           none == [job EXCEPT !.pc = "max_idx"]
<1>1. /\ job.pc = "select_root" /\ UNCHANGED <<db, known, faults>>
      /\ IF idx # NoIdx THEN call' = [call EXCEPT ![c] = found] ELSE call' = [call EXCEPT ![c] = none]
    BY DEF SelectRoot, Goto
<1>2. JobOK(db, job) /\ job \in Job /\ GoodTables(db[job.label])
    BY <1>1, JobOf DEF Working
<1>3. idx \in Nat
    BY <1>2, IdxByHashIs
<1> HIDE DEF job, idx
<1>4. /\ found \in Job /\ found.pc = "select_leaf" /\ found.root_idx = idx
      /\ none \in Job /\ none.pc = "max_idx"
    BY <1>2, <1>3 DEF Job, Working
<1>5. CASE idx # NoIdx
    <2>1. CallOK(db, found)
        BY <1>4, <1>5 DEF CallOK, JobOK
    <2> QED
        BY <1>1, <1>5, <2>1, QuietStep
<1>6. CASE idx = NoIdx
    <2>1. CallOK(db, none)
        BY <1>4 DEF CallOK, JobOK
    <2> QED
        BY <1>1, <1>6, <2>1, QuietStep
<1> QED
    BY <1>5, <1>6

LEMMA MaxIdxKeeps ==
    ASSUME LoadInv, NEW c \in Client, MaxIdx(c)
    PROVE  LoadInv'
<1> DEFINE job == call[c]
           d == db[job.label]
           idx == GetNodeIdx(d) + 1
           row == PlaceholderRow(job.root, idx)
           new == [job EXCEPT !.nodes = <<row>>, !.root_idx = idx, !.pc = "select_node"]
<1>1. /\ job.pc = "max_idx" /\ UNCHANGED <<db, known, faults>>
      /\ call' = [call EXCEPT ![c] = new]
    BY DEF MaxIdx
<1>2. job \in Job /\ GoodTables(d)
    BY <1>1, JobOf DEF Working
<1>3. idx \in Nat \ {0}
    BY <1>2, NodeIdxIs
<1>4. job.root \in Hash
    BY <1>2 DEF Job
<1>5. row \in NodeRow /\ Refs(row.data) = {}
    <2> HIDE DEF job, idx
    <2> QED
        BY <1>3, <1>4 DEF PlaceholderRow, NodeRow, NodeDatum, Refs
<1> HIDE DEF job, idx, row
<1>6. Pending(d, <<row>>)
    <2>1. /\ <<row>> \in Seq(NodeRow) /\ Len(<<row>>) = 1 /\ <<row>>[1] = row
          /\ \A n \in 1..1 : n = 1
        BY <1>5
    <2> QED
        BY <1>5, <2>1 DEF Pending
<1>7. <<row>> \in Seq(NodeRow)
    BY <1>6 DEF Pending
<1>8. new \in Job /\ new.pc = "select_node" /\ new.nodes = <<row>> /\ new.label = job.label
    BY <1>2, <1>3, <1>7 DEF Job, Working
<1>9. CallOK(db, new)
    BY <1>6, <1>8 DEF CallOK, JobOK
<1> QED
    BY <1>1, <1>9, QuietStep

LEMMA SelectLeafKeeps ==
    ASSUME LoadInv, NEW c \in Client, SelectLeaf(c)
    PROVE  LoadInv'
<1> DEFINE job == call[c]
           held == PairRows(db[job.label], Head(job.leaves)) # {}
           next == [job EXCEPT !.leaves = Tail(job.leaves)]
           new == [job EXCEPT !.pc = "insert_leaf"]
<1>1. /\ job.pc = "select_leaf" /\ job.leaves # <<>> /\ UNCHANGED <<db, known, faults>>
      /\ IF held THEN call' = [call EXCEPT ![c] = next] ELSE call' = [call EXCEPT ![c] = new]
    BY DEF SelectLeaf, Goto
<1>2. JobOK(db, job) /\ job \in Job
    BY <1>1, JobOf DEF Working
<1>3. job.root_idx # NoIdx
    BY <1>1, <1>2 DEF JobOK
<1>4. job.leaves \in Seq(Leaves)
    BY <1>2 DEF Job
<1> HIDE DEF job, held
<1>5. Tail(job.leaves) \in Seq(Leaves)
    BY <1>1, <1>4
<1>6. /\ next \in Job /\ next.pc = "select_leaf" /\ next.root_idx = job.root_idx
      /\ new \in Job /\ new.pc = "insert_leaf" /\ new.root_idx = job.root_idx /\ new.leaves = job.leaves
    BY <1>1, <1>2, <1>5 DEF Job, Working
<1>7. CallOK(db, next) /\ CallOK(db, new)
    BY <1>1, <1>3, <1>6 DEF CallOK, JobOK
<1> HIDE DEF next, new
<1>8. CASE held
    BY <1>1, <1>7, <1>8, QuietStep
<1>9. CASE ~ held
    BY <1>1, <1>7, <1>9, QuietStep
<1> QED
    BY <1>8, <1>9

LEMMA InsertLeafKeeps ==
    ASSUME LoadInv, NEW c \in Client, InsertLeaf(c)
    PROVE  LoadInv'
<1> DEFINE job == call[c]
           l == job.label
           d == db[l]
           leaf == Head(job.leaves)
           row == [key |-> leaf.key, value |-> leaf.value, root_idx |-> job.root_idx]
           new == [job EXCEPT !.leaves = Tail(job.leaves), !.pc = "select_leaf"]
<1>1. /\ job.pc = "insert_leaf" /\ UNCHANGED <<known, faults>>
      /\ db' = [db EXCEPT ![l].leafs = Append(d.leafs, row)]
      /\ call' = [call EXCEPT ![c] = new]
    BY DEF InsertLeaf, Insert
<1>2. JobOK(db, job) /\ job \in Job /\ d \in Tables /\ GoodTables(d)
    BY <1>1, JobOf DEF Working
<1>3. /\ l \in Label /\ job.leaves # <<>> /\ job.leaves \in Seq(Leaves)
      /\ job.root_idx \in Nat \ {0}
    BY <1>1, <1>2 DEF JobOK, Job, NoIdx
<1> HIDE DEF job
<1>4. leaf \in Leaves /\ Tail(job.leaves) \in Seq(Leaves)
    BY <1>3
<1> HIDE DEF leaf
<1>5. row \in LeafRows /\ row \in LeafRow
    BY <1>3, <1>4, KeysAndValues DEF Leaves, LeafRows, LeafRow
<1> HIDE DEF row
<1>6. db \in [Label -> Tables] /\ \A k \in Label : GoodTables(db[k])
    BY DEF LoadInv
<1>7. /\ db' = [k \in Label |-> IF k = l THEN db'[l] ELSE db[k]]
      /\ db'[l].nodes = d.nodes /\ db'[l].leafs = Append(d.leafs, row) /\ db'[l] \in Tables
    <2>1. Append(d.leafs, row) \in Seq(LeafRows)
        BY <1>2, <1>5, AppendProperties DEF Tables
    <2>2. db'[l] = [d EXCEPT !.leafs = Append(d.leafs, row)]
        BY <1>1, <1>3, <1>6
    <2> QED
        BY <1>1, <1>2, <1>3, <1>6, <2>1, <2>2 DEF Tables
<1>8. GoodTables(db'[l]) /\ Stored(db'[l]) = Stored(d)
    <2>1. db'[l].nodes = d.nodes /\ db'[l].leafs = Append(d.leafs, row) /\ GoodTables(d) /\ row \in LeafRow
        BY <1>2, <1>5, <1>7
    <2> HIDE DEF d, l, new
    <2> QED
        BY <2>1, AddLeaf
<1>9. TablesGrown(db, db')
    BY <1>3, <1>6, <1>7, <1>8 DEF TablesGrown
<1>10. new \in Job /\ new.pc = "select_leaf" /\ new.root_idx = job.root_idx
    BY <1>2, <1>4 DEF Job, Working
<1>11. CallOK(db', new)
    BY <1>3, <1>10 DEF CallOK, JobOK, NoIdx
<1>12. /\ known' \in [Label -> SUBSET Hash] /\ \A k \in Label : EmptyHash \in known'[k]
       /\ faults' \in 0..MaxFaults
    BY <1>1 DEF LoadInv
<1> HIDE DEF new
<1> QED
    BY <1>1, <1>9, <1>11, <1>12, OneCall

LEMMA RespondKeeps ==
    ASSUME LoadInv, NEW c \in Client, Respond(c)
    PROVE  LoadInv'
<1> DEFINE job == call[c]
           l == job.label
           new == [pc |-> "done", op |-> job.op, ok |-> TRUE, label |-> l, base |-> job.base,
                   items |-> job.items, root |-> job.root]
<1>1. /\ job.pc = "select_leaf" /\ UNCHANGED <<db, faults>>
      /\ call' = [call EXCEPT ![c] = new]
      /\ known' = [known EXCEPT ![l] = @ \union {job.root}]
    BY DEF Respond
<1>2. job \in Job
    BY <1>1, JobOf DEF Working
<1>3. l \in Label /\ job.root \in Hash
    BY <1>2 DEF Job
<1>4. CallOK(db', new)
    BY DEF CallOK
<1> HIDE DEF job, new
<1>5. TablesGrown(db, db')
    BY <1>1, SameTables
<1>6. /\ known' \in [Label -> SUBSET Hash] /\ \A k \in Label : EmptyHash \in known'[k]
      /\ faults' \in 0..MaxFaults
    BY <1>1, <1>3 DEF LoadInv
<1> QED
    BY <1>1, <1>4, <1>5, <1>6, OneCall

LEMMA ReturnKeeps ==
    ASSUME LoadInv, NEW c \in Client, Return(c)
    PROVE  LoadInv'
<1>1. CallOK(db, Idle)
    BY DEF CallOK, Idle
<1> QED
    BY <1>1, QuietStep DEF Return

-----------------------------------------------------------------------------
(* The faults. *)

LEMMA CrashKeeps ==
    ASSUME LoadInv, Crash
    PROVE  LoadInv'
<1>1. /\ call' = [c \in Client |-> IF call[c].pc = "done" THEN call[c] ELSE Idle]
      /\ UNCHANGED <<db, known>>
    BY DEF Crash
<1>2. \A c \in Client : CallOK(db', call'[c])
    BY <1>1 DEF CallOK, Idle
<1>3. faults' \in 0..MaxFaults
    BY ServerAssumption DEF ServerAssumption, Crash, LoadInv
<1> QED
    BY <1>1, <1>2, <1>3 DEF LoadInv

LEMMA StatementFailsKeeps ==
    ASSUME LoadInv, NEW c \in Client, StatementFails(c)
    PROVE  LoadInv'
<1> DEFINE job == call[c]
           failure == Failure(job.op, job.label, job.base, job.items)
           new == [job EXCEPT !.pc = "max_idx"]
<1>1. /\ UNCHANGED <<db, known>>
      /\ \/ call' = [call EXCEPT ![c] = failure]
         \/ job.pc = "select_root" /\ call' = [call EXCEPT ![c] = new]
    BY DEF StatementFails, Goto
<1>2. faults' \in 0..MaxFaults
    BY ServerAssumption DEF ServerAssumption, StatementFails, LoadInv
<1>3. known' \in [Label -> SUBSET Hash] /\ \A k \in Label : EmptyHash \in known'[k]
    BY <1>1 DEF LoadInv
<1>4. TablesGrown(db, db')
    BY <1>1, SameTables
<1>5. CASE call' = [call EXCEPT ![c] = failure]
    <2>1. CallOK(db', failure)
        BY DEF CallOK, Failure
    <2> HIDE DEF failure
    <2> QED
        BY <1>2, <1>3, <1>4, <1>5, <2>1, OneCall
<1>6. CASE job.pc = "select_root" /\ call' = [call EXCEPT ![c] = new]
    <2>1. job \in Job
        BY <1>6, JobOf DEF Working
    <2> HIDE DEF job
    <2>2. new \in Job /\ new.pc = "max_idx"
        BY <2>1 DEF Job, Working
    <2>3. CallOK(db', new)
        BY <2>2 DEF CallOK, JobOK
    <2> HIDE DEF new
    <2> QED
        BY <1>2, <1>3, <1>4, <1>6, <2>3, OneCall
<1> QED
    BY <1>1, <1>5, <1>6

-----------------------------------------------------------------------------
(* The inductive invariant. *)

LEMMA InitLoadInv == Init => LoadInv
<1> SUFFICES ASSUME Init PROVE LoadInv
    OBVIOUS
<1>1. EmptyDB \in Tables /\ GoodTables(EmptyDB)
    <2>1. <<>> \in Seq(NodeRow) /\ <<>> \in Seq(LeafRows) /\ <<>> \in Seq(LeafRow) /\ DOMAIN <<>> = {}
        OBVIOUS
    <2> QED
        BY <2>1 DEF EmptyDB, Tables, GoodTables
<1>2. EmptyHash \in Hash
    BY DEF EmptyHash, Hash
<1>3. \A c \in Client : CallOK(db, call[c])
    BY DEF Init, CallOK, Idle
<1>4. faults \in 0..MaxFaults
    BY ServerAssumption DEF ServerAssumption, Init
<1> QED
    BY <1>1, <1>2, <1>3, <1>4 DEF Init, LoadInv

LEMMA NextLoadInv == LoadInv /\ [LoadNext]_loadVars => LoadInv'
<1> SUFFICES ASSUME LoadInv, [LoadNext]_loadVars PROVE LoadInv'
    OBVIOUS
<1>1. ASSUME NEW c \in Client, NEW l \in Label, BeginUpdate(c, l) PROVE LoadInv'
    BY <1>1, BeginKeeps
<1>2. ASSUME NEW c \in Client, HandlerStep(c) PROVE LoadInv'
    BY <1>2, SelectNodeKeeps, InsertNodeKeeps, NodesDoneKeeps, SelectRootKeeps, MaxIdxKeeps,
       SelectLeafKeeps, InsertLeafKeeps, RespondKeeps, ReturnKeeps DEF HandlerStep
<1>3. ASSUME Crash PROVE LoadInv'
    BY <1>3, CrashKeeps
<1>4. ASSUME NEW c \in Client, StatementFails(c) PROVE LoadInv'
    BY <1>4, StatementFailsKeeps
<1>5. ASSUME UNCHANGED loadVars PROVE LoadInv'
    BY <1>5 DEF loadVars, vars, LoadInv
<1> QED
    BY <1>1, <1>2, <1>3, <1>4, <1>5 DEF LoadNext

(* In every state that any load can reach, the rows in the tables are       *)
(* well-formed and closed, and every call has rows still to insert whose    *)
(* children are stored or come first.                                       *)
THEOREM LoadSafe == LoadSpec => []LoadInv
<1> QED
    BY InitLoadInv, NextLoadInv, PTL DEF LoadSpec, LoadInit

LEMMA TypeOfLoad ==
    ASSUME LoadInv
    PROVE  TypeOK
<1>1. ASSUME NEW l \in Label
      PROVE  /\ \A i \in DOMAIN db[l].nodes : db[l].nodes[i].trie_idx \in Nat \ {0}
             /\ \A i \in DOMAIN db[l].leafs :
                    db[l].leafs[i] \in [key : Key, value : Value, root_idx : Nat \ {0}]
             /\ EmptyHash \in known[l]
    <2>1. db[l] \in Tables /\ EmptyHash \in known[l]
        BY DEF LoadInv
    <2>2. db[l].nodes \in Seq(NodeRow) /\ db[l].leafs \in Seq(LeafRows)
        BY <2>1 DEF Tables
    <2>3. \A i \in DOMAIN db[l].nodes : db[l].nodes[i] \in NodeRow
        BY <2>2
    <2>4. \A i \in DOMAIN db[l].leafs : db[l].leafs[i] \in LeafRows
        BY <2>2
    <2>5. \A row \in NodeRow : row.trie_idx \in Nat \ {0}
        BY DEF NodeRow
    <2> QED
        BY <2>1, <2>3, <2>4, <2>5 DEF LeafRows
<1>2. ASSUME NEW c \in Client
      PROVE  call[c].pc \in {"idle", "select_node", "insert_node", "select_root", "max_idx",
                             "select_leaf", "insert_leaf", "done"}
    <2>1. CallOK(db, call[c])
        BY DEF LoadInv
    <2> QED
        BY <2>1 DEF CallOK, JobOK, Job, Working
<1>3. faults \in 0..MaxFaults
    BY DEF LoadInv
<1> QED
    BY <1>1, <1>2, <1>3 DEF TypeOK

(* The tables, the given-out roots and the handlers have their types.      *)
THEOREM LoadTyped == LoadSpec => []TypeOK
<1>1. LoadInv => TypeOK
    BY TypeOfLoad
<1> QED
    BY <1>1, LoadSafe, PTL

(* No row refers to an index without a row, while writes interleave and    *)
(* fail half-way: persist_updates inserts children before their parent.    *)
THEOREM ChildrenAreStored == LoadSpec => []ChildrenStored
<1>1. LoadInv => ChildrenStored
    <2> SUFFICES ASSUME LoadInv PROVE ChildrenStored
        OBVIOUS
    <2>1. ASSUME NEW l \in Label, NEW i \in DOMAIN db[l].nodes
          PROVE  /\ db[l].nodes[i].data.kind = "Binary" =>
                        /\ db[l].nodes[i].data.left \in Stored(db[l])
                        /\ db[l].nodes[i].data.right \in Stored(db[l])
                 /\ db[l].nodes[i].data.kind = "Edge" => db[l].nodes[i].data.child \in Stored(db[l])
        <3> DEFINE data == db[l].nodes[i].data
        <3>1. Refs(data) \subseteq Stored(db[l])
            BY DEF LoadInv, GoodTables
        <3> QED
            BY <3>1 DEF Refs
    <2>2. \A d, idx : idx \in Stored(d) <=> \E j \in DOMAIN d.nodes : d.nodes[j].trie_idx = idx
        BY DEF Stored
    <2> QED
        BY <2>1, <2>2 DEF ChildrenStored
<1> QED
    BY <1>1, LoadSafe, PTL

-----------------------------------------------------------------------------
(* Roots stay where they are. *)

LEMMA OneRowAStep ==
    ASSUME LoadInv, [LoadNext]_loadVars, NEW l \in Label
    PROVE  AtMostOneMore(db[l].nodes, db'[l].nodes)
<1>1. CASE UNCHANGED db
    BY <1>1 DEF AtMostOneMore
<1>2. CASE \E c \in Client : InsertNode(c)
    <2>1. PICK c \in Client : InsertNode(c)
        BY <1>2
    <2> DEFINE k == call[c].label
               row == Head(call[c].nodes)
    <2>2. db' = [db EXCEPT ![k].nodes = Append(db[k].nodes, row)]
        BY <2>1 DEF InsertNode, Insert
    <2>3. db \in [Label -> Tables]
        BY DEF LoadInv
    <2> HIDE DEF k, row
    <2>4. db'[l].nodes = db[l].nodes \/ db'[l].nodes = Append(db[l].nodes, row)
        BY <2>2, <2>3 DEF Tables
    <2> QED
        BY <2>4 DEF AtMostOneMore
<1>3. CASE \E c \in Client : InsertLeaf(c)
    <2>1. PICK c \in Client : InsertLeaf(c)
        BY <1>3
    <2> DEFINE k == call[c].label
               rows == Append(db[k].leafs, [key |-> Head(call[c].leaves).key,
                                            value |-> Head(call[c].leaves).value,
                                            root_idx |-> call[c].root_idx])
    <2>2. db' = [db EXCEPT ![k].leafs = rows]
        BY <2>1 DEF InsertLeaf, Insert
    <2>3. db \in [Label -> Tables]
        BY DEF LoadInv
    <2> HIDE DEF k, rows
    <2>4. db'[l].nodes = db[l].nodes
        BY <2>2, <2>3 DEF Tables
    <2> QED
        BY <2>4 DEF AtMostOneMore
<1>4. UNCHANGED db \/ \E c \in Client : InsertNode(c) \/ InsertLeaf(c)
    <2>1. ASSUME NEW c \in Client, NEW k \in Label, BeginUpdate(c, k) PROVE UNCHANGED db
        BY <2>1 DEF BeginUpdate, Write, CreateTrie, Update
    <2>2. ASSUME NEW c \in Client, HandlerStep(c)
          PROVE  UNCHANGED db \/ InsertNode(c) \/ InsertLeaf(c)
        BY <2>2 DEF HandlerStep, SelectNode, NodesDone, SelectRoot, MaxIdx, SelectLeaf, Respond, Return
    <2>3. ASSUME Crash \/ \E c \in Client : StatementFails(c) PROVE UNCHANGED db
        BY <2>3 DEF Crash, StatementFails
    <2>4. ASSUME UNCHANGED loadVars PROVE UNCHANGED db
        BY <2>4 DEF loadVars, vars
    <2> QED
        BY <2>1, <2>2, <2>3, <2>4 DEF LoadNext
<1> QED
    BY <1>1, <1>2, <1>3, <1>4

(* The index a root opens at never changes once it has a row: whatever is  *)
(* inserted later, get_node_idx_by_hash still takes the first row.         *)
THEOREM RootsStay == LoadSpec => RootsDoNotMove
<1>1. LoadInv /\ [LoadNext]_loadVars =>
        [\A l \in Label : \A root \in known[l] :
            CanOpen(db[l], root) => RootIdx(db'[l], root) = RootIdx(db[l], root)]_vars
    <2> SUFFICES ASSUME LoadInv, [LoadNext]_loadVars, NEW l \in Label, NEW root \in known[l],
                        CanOpen(db[l], root)
                 PROVE  RootIdx(db'[l], root) = RootIdx(db[l], root)
        OBVIOUS
    <2>1. GoodTables(db[l])
        BY DEF LoadInv
    <2>2. AtMostOneMore(db[l].nodes, db'[l].nodes)
        BY OneRowAStep
    <2> QED
        BY <2>1, <2>2, RootStays
<1> QED
    BY <1>1, LoadSafe, PTL DEF LoadSpec, RootsDoNotMove

-----------------------------------------------------------------------------
(* The proofs that are given out. *)

LEMMA NodesAreTrue ==
    ASSUME NEW proof \in Seq(ProofNode), NEW root \in Hash, NEW k \in Key, NEW v \in Value
    PROVE  TrueProof(proof, root, [key |-> k, value |-> v])
<1> DEFINE leaf == [key |-> k, value |-> v]
<1>1. leaf.key \in Bits /\ leaf.value \in Nat
    BY KeysAndValues
<1> HIDE DEF leaf
<1>2. /\ VerifyProof(proof, root, leaf) = "Member" => <<leaf.key, leaf.value>> \in root
      /\ VerifyProof(proof, root, leaf) = "NonMember" => \A w \in Nat : <<leaf.key, w>> \notin root
    BY <1>1, ProofsAreTrue
<1>3. VerifyProof(proof, root, leaf) = "NonMember" => Lookup(root, leaf.key) = Zero
    BY <1>2, KeysAndValues DEF Lookup
<1>4. TrueProof(proof, root, leaf)
    BY <1>2, <1>3 DEF TrueProof
<1> QED
    BY <1>4 DEF leaf

LEMMA ReplyIs ==
    ASSUME NEW op, NEW l, NEW root, NEW proofs, ProofReply(op, l, root, proofs).ok
    PROVE  proofs # {} /\ ProofReply(op, l, root, proofs).proof = The(proofs)
BY DEF ProofReply

LEMMA LeafProofShape ==
    ASSUME NEW d, GoodTables(d), NEW root, CanOpen(d, root), NEW k \in Key, NEW max,
           GetLeafProof(d, max, root, k) # NoProof
    PROVE  GetLeafProof(d, max, root, k) \in Seq(ProofNode)
<1>1. k \in Bits
    BY KeysAndValues
<1> QED
    BY <1>1, LeafProofIs

LEMMA ReadProofsAreTrue ==
    ASSUME LoadInv, NEW l \in Label, NEW root \in known[l], NEW k \in Key, NEW v \in Value,
           ReadProofReply(l, root, k).ok
    PROVE  TrueProof(ReadProofReply(l, root, k).proof.state_proof, root, [key |-> k, value |-> v])
<1> DEFINE d == db[l]
           read == StateProofRead(d, root, k)
           proofs == {p \in (IF CanOpen(d, root) THEN {read} ELSE {}) : p.state_proof # NoProof}
           reply == ReadProofReply(l, root, k)
<1>1. GoodTables(d) /\ root \in Hash
    BY DEF LoadInv
<1>2. reply = ProofReply("read_proof", l, root, proofs)
    BY DEF ReadProofReply
<1> HIDE DEF reply
<1>3. proofs # {} /\ reply.proof = The(proofs)
    <2>1. reply.ok
        BY DEF reply
    <2> HIDE DEF proofs
    <2> QED
        BY <1>2, <2>1, ReplyIs
<1>4. CanOpen(d, root) /\ read.state_proof # NoProof /\ proofs = {read}
    <2> HIDE DEF d, read
    <2> QED
        BY <1>3
<1>5. reply.proof = read
    BY <1>3, <1>4, TheOne
<1>6. read.state_proof \in Seq(ProofNode)
    <2>1. CASE root = EmptyHash
        BY <2>1 DEF StateProofRead
    <2>2. CASE root # EmptyHash
        <3>1. read.state_proof = GetLeafProof(d, RootIdx(d, root), root, k)
            BY <2>2 DEF StateProofRead
        <3> HIDE DEF d, read
        <3> QED
            BY <1>1, <1>4, <3>1, LeafProofShape
    <2> QED
        BY <2>1, <2>2
<1> HIDE DEF read
<1>7. TrueProof(read.state_proof, root, [key |-> k, value |-> v])
    BY <1>1, <1>6, NodesAreTrue
<1> QED
    BY <1>5, <1>7 DEF reply

LEMMA WriteProofsAreTrue ==
    ASSUME LoadInv, NEW l \in Label, NEW root \in known[l], NEW leaf \in Leaves, NEW v \in Value,
           WriteProofReply(l, root, leaf).ok, NEW p, p = WriteProofReply(l, root, leaf).proof
    PROVE  /\ TrueProof(p.state_proof_prev, root, [key |-> leaf.key, value |-> v])
           /\ TrueProof(p.state_proof_post, p.trie_root_post, [key |-> leaf.key, value |-> v])
<1> DEFINE d == db[l]
           idx == RootIdx(d, root)
           update == TrieUpdate(d, idx, idx, <<leaf>>)
           post == update.root_commitment
           write == StateProofWrite(d, root, leaf)
           proofs == {q \in (IF CanProveWrite(d, root, leaf) THEN {write} ELSE {}) :
                        NoProof \notin {q.state_proof_prev, q.state_proof_post}}
           reply == WriteProofReply(l, root, leaf)
           Of(r) == [trie_root_prev |-> root,
                     leaf_prev |-> LeafOrEmpty(leaf.key, LeafAt(d, leaf.key, idx)),
                     state_proof_prev |-> GetLeafProof(d, idx, root, leaf.key),
                     trie_root_post |-> r,
                     leaf_post |-> leaf,
                     state_proof_post |-> GetLeafProof(d, GetNodeIdxByHash(d, r), r, leaf.key)]
<1>1. GoodTables(d) /\ root \in Hash /\ leaf.key \in Key
    BY DEF LoadInv, Leaves
<1>2. reply = ProofReply("write_proof", l, root, proofs)
    BY DEF WriteProofReply
<1> HIDE DEF reply
<1>3. proofs # {} /\ reply.proof = The(proofs)
    <2>1. reply.ok
        BY DEF reply
    <2> HIDE DEF proofs
    <2> QED
        BY <1>2, <2>1, ReplyIs
<1>4. /\ CanProveWrite(d, root, leaf) /\ proofs = {write}
      /\ write.state_proof_prev # NoProof /\ write.state_proof_post # NoProof
    <2> HIDE DEF d, write
    <2> QED
        BY <1>3
<1>5. p = write
    BY <1>3, <1>4, TheOne DEF reply
<1>6. CanOpen(d, root) /\ CanOpen(d, post)
    BY <1>4 DEF CanProveWrite, CanOpen
<1>7. write = Of(post)
    <2>1. write = The({Of(r) : r \in {post}})
        BY DEF StateProofWrite
    <2> HIDE DEF post, write, Of
    <2>2. {Of(r) : r \in {post}} = {Of(post)}
        OBVIOUS
    <2> QED
        BY <2>1, <2>2, TheOne
<1>8. post \in Hash
    <2>1. idx \in Stored(d) \union {0}
        BY <1>1, RootIdxIs
    <2>2. <<leaf>> \in Seq(Item)
        BY KeysAndValues
    <2> HIDE DEF d, idx
    <2> QED
        BY <1>1, <2>1, <2>2, TrieUpdateGood
<1>9. /\ p.state_proof_prev = GetLeafProof(d, idx, root, leaf.key)
      /\ p.state_proof_post = GetLeafProof(d, GetNodeIdxByHash(d, post), post, leaf.key)
      /\ p.trie_root_post = post
    BY <1>5, <1>7
<1> HIDE DEF d, idx, post
<1>10. p.state_proof_prev \in Seq(ProofNode) /\ p.state_proof_post \in Seq(ProofNode)
    BY <1>1, <1>4, <1>5, <1>6, <1>9, LeafProofShape
<1> QED
    BY <1>1, <1>8, <1>9, <1>10, NodesAreTrue

(* Whatever any load and any faults make of the tables, a proof that the   *)
(* server would answer with and that verify_proof accepts is true: a       *)
(* member's pair is what the root commits to, a non-member's key has no    *)
(* value under it.                                                         *)
THEOREM GivenProofsAreTrue == LoadSpec => []VerifiedProofsAreTrue
<1>1. LoadInv => VerifiedProofsAreTrue
    <2> SUFFICES ASSUME LoadInv PROVE VerifiedProofsAreTrue
        OBVIOUS
    <2>1. ASSUME NEW l \in Label, NEW root \in known[l], NEW v \in Value, NEW k \in Key,
                 NEW reply \in {ReadProofReply(l, root, k)}, reply.ok
          PROVE  TrueProof(reply.proof.state_proof, root, [key |-> k, value |-> v])
        BY <2>1, ReadProofsAreTrue
    <2>2. ASSUME NEW l \in Label, NEW root \in known[l], NEW v \in Value, NEW leaf \in Leaves,
                 NEW reply \in {WriteProofReply(l, root, leaf)}, reply.ok, NEW p \in {reply.proof}
          PROVE  /\ TrueProof(p.state_proof_prev, root, [key |-> leaf.key, value |-> v])
                 /\ TrueProof(p.state_proof_post, p.trie_root_post, [key |-> leaf.key, value |-> v])
        BY <2>2, WriteProofsAreTrue
    <2> QED
        BY <2>1, <2>2 DEF VerifiedProofsAreTrue
<1> QED
    BY <1>1, LoadSafe, PTL

-----------------------------------------------------------------------------
(* One client that keeps the rules of TrieClient.  A label rests, its tables *)
(* settled at the states acknowledged, or a write was sent: the tables are   *)
(* those of before with a part of what the write adds, and the call that     *)
(* serves the write, if there is one, knows the rest.                        *)

KeyLength == IF Key = {} THEN 1 ELSE Len(CHOOSE k \in Key : TRUE)
OverKeys(root) == \A e \in root : e[1] \in Key /\ e[2] \in Value

(* x serves a write of label l, or has the answer to one. *)
Writes(x, l) == x.pc # "idle" /\ x.op = "write" /\ x.label = l /\ (x.pc = "done" => x.ok)

NewPair(d, leaf) == \A i \in DOMAIN d.leafs : ~ (d.leafs[i].key = leaf.key /\ d.leafs[i].value = leaf.value)

(* The tables e of a write of leaf at the last of the states ch, begun on the tables d. *)
Begun(d, ch, at, leaf, m, e) ==
    /\ Settled(d, ch, at, KeyLength) /\ Ready(ch, leaf, KeyLength) /\ NewPair(d, leaf)
    /\ Partial(d, leaf, m, e)

LeafStored(d, leaf, e) == e.leafs = Append(d.leafs, NewLeaf(d, leaf))
RowsFrom(plan, n) == SubSeq(plan, n, Len(plan))

ServingNodes(x, d, leaf, m) ==
    /\ x.leaves = <<leaf>>
    /\ \/ x.pc = "select_node" /\ \E p \in 0..m : x.nodes = RowsFrom(PlanOf(d, leaf), p + 1)
       \/ /\ x.pc = "insert_node" /\ m # Len(PlanOf(d, leaf))
          /\ x.nodes = RowsFrom(PlanOf(d, leaf), m + 1)
ServingLeaf(x, d, leaf, m, e) ==
    /\ m = Len(PlanOf(d, leaf))
    /\ \/ x.pc = "select_leaf" /\ x.leaves = <<leaf>>
       \/ x.pc = "select_leaf" /\ x.leaves = <<>> /\ LeafStored(d, leaf, e)
       \/ x.pc = "insert_leaf" /\ x.leaves = <<leaf>> /\ e.leafs = d.leafs
Answered(x, d, leaf, m, e) == x.pc = "done" /\ m = Len(PlanOf(d, leaf)) /\ LeafStored(d, leaf, e)

Serving(x, d, ch, leaf, m, e) ==
    /\ x.base = ch[Len(ch)] /\ x.items = <<leaf>> /\ x.root = After(ch[Len(ch)], leaf)
    /\ \/ x.root_idx = Len(d.nodes) + Len(PlanOf(d, leaf)) /\ ServingNodes(x, d, leaf, m)
       \/ x.root_idx = Len(d.nodes) + Len(PlanOf(d, leaf)) /\ ServingLeaf(x, d, leaf, m, e)
       \/ Answered(x, d, leaf, m, e)

LabelState(e, ch, w, x, l) ==
    \/ /\ w = NoWant /\ ~ Writes(x, l)
       /\ \E at : Settled(e, ch, at, KeyLength)
    \/ \E leaf \in Leaves : /\ w = Wanted(Len(ch), leaf)
                            /\ \E d, at, m : /\ Begun(d, ch, at, leaf, m, e)
                                             /\ Writes(x, l) => Serving(x, d, ch, leaf, m, e)

(* What a query answered is true. *)
Standing(v) == IF v = Zero THEN "NonMember" ELSE "Member"
TrueAnswer(x) ==
    /\ x.pc = "done" /\ x.op = "read" =>
          x.ok /\ LeafOrEmpty(x.key, x.value).value = Lookup(x.root, x.key)
    /\ x.pc = "done" /\ x.op = "read_proof" =>
          /\ x.ok /\ x.proof.leaf.value = Lookup(x.proof.trie_root, x.proof.leaf.key)
          /\ VerifyProof(x.proof.state_proof, x.proof.trie_root, x.proof.leaf) = Standing(x.proof.leaf.value)
    /\ x.pc = "done" /\ x.op = "write_proof" =>
          /\ x.ok /\ x.proof.leaf_prev.value = Lookup(x.proof.trie_root_prev, x.proof.leaf_prev.key)
          /\ x.proof.trie_root_post = Upsert(x.proof.trie_root_prev, x.proof.leaf_post)
          /\ VerifyProof(x.proof.state_proof_prev, x.proof.trie_root_prev, x.proof.leaf_prev)
                = Standing(x.proof.leaf_prev.value)
          /\ VerifyProof(x.proof.state_proof_post, x.proof.trie_root_post, x.proof.leaf_post)
                = Standing(x.proof.leaf_post.value)

ClientInv ==
    /\ LoadInv
    /\ chain \in [Label -> Seq(Hash)] /\ meant = chain /\ DOMAIN want = Label
    /\ \A l \in Label : \A n \in 1..Len(chain[l]) : OverKeys(chain[l][n])
    /\ \A c \in Client :
          /\ call[c].pc \in Working => call[c].op = "write"
          /\ TrueAnswer(call[c])
          /\ \A l \in Label : LabelState(db[l], chain[l], want[l], call[c], l)

LEMMA KeyLengthIs ==
    /\ KeyLength \in Nat \ {0} /\ \A k \in Key : Len(k) = KeyLength /\ k \in Bits
    /\ \A leaf \in Leaves : /\ leaf \in Item /\ Len(leaf.key) = KeyLength
                            /\ leaf.key \in Key /\ leaf.value \in Value
<1>1. Key \subseteq Bits \ {<<>>} /\ Leaves \subseteq Item
    BY KeysAndValues
<1>2. \A k, q \in Key : Len(k) = Len(q) /\ Len(k) > 0
    BY ServerAssumption DEF ServerAssumption
<1>3. \A k \in Key : Len(k) = KeyLength
    <2> TAKE k \in Key
    <2>1. (CHOOSE q \in Key : TRUE) \in Key
        OBVIOUS
    <2> QED
        BY <1>2, <2>1 DEF KeyLength
<1>4. KeyLength \in Nat \ {0}
    <2>1. CASE Key = {}
        BY <2>1 DEF KeyLength
    <2>2. CASE Key # {}
        <3>1. PICK k \in Key : TRUE
            BY <2>2
        <3>2. Len(k) \in Nat /\ Len(k) > 0 /\ Len(k) = KeyLength
            BY <1>1, <1>2, <1>3, <3>1 DEF Bits
        <3> QED
            BY <3>2
    <2> QED
        BY <2>1, <2>2
<1> QED
    BY <1>1, <1>3, <1>4 DEF Leaves

LEMMA UpsertIs ==
    ASSUME NEW root, NEW leaf
    PROVE  Upsert(root, leaf) = After(root, leaf)
BY DEF Upsert, After

(* The call changes, for every label. *)
LEMMA ClientStep ==
    ASSUME ClientInv, NEW c, Client = {c}, NEW x, call' = [call EXCEPT ![c] = x], LoadInv',
           chain' \in [Label -> Seq(Hash)], meant' = chain', DOMAIN want' = Label,
           \A l \in Label : \A n \in 1..Len(chain'[l]) : OverKeys(chain'[l][n]),
           x.pc \in Working => x.op = "write", TrueAnswer(x),
           \A l \in Label : LabelState(db'[l], chain'[l], want'[l], x, l)
    PROVE  ClientInv'
<1>1. call'[c] = x
    BY DEF ClientInv, LoadInv
<1> QED
    BY <1>1 DEF ClientInv

LEMMA NoLongerWrites ==
    ASSUME NEW e, NEW ch, NEW w, NEW y, NEW l, LabelState(e, ch, w, y, l), NEW x, ~ Writes(x, l)
    PROVE  LabelState(e, ch, w, x, l)
BY DEF LabelState

LEMMA QuietClient ==
    ASSUME ClientInv, NEW c, Client = {c}, NEW x, call' = [call EXCEPT ![c] = x], LoadInv',
           UNCHANGED <<db, clientVars>>, x.pc \notin Working, TrueAnswer(x),
           \A l \in Label : ~ Writes(x, l)
    PROVE  ClientInv'
<1>1. chain' = chain /\ meant' = meant /\ want' = want /\ db' = db
    BY DEF clientVars
<1>2. \A l \in Label : LabelState(db'[l], chain'[l], want'[l], x, l)
    BY <1>1, NoLongerWrites DEF ClientInv
<1>3. /\ chain' \in [Label -> Seq(Hash)] /\ meant' = chain' /\ DOMAIN want' = Label
      /\ \A l \in Label : \A n \in 1..Len(chain'[l]) : OverKeys(chain'[l][n])
    BY <1>1 DEF ClientInv
<1> QED
    BY <1>2, <1>3, ClientStep

LEMMA TellsNothing ==
    ASSUME NEW x, x.pc # "done" \/ x.op = "write"
    PROVE  TrueAnswer(x)
BY DEF TrueAnswer

(* The write a call in progress serves. *)
LEMMA ServedWrite ==
    ASSUME ClientInv, NEW c, Client = {c}, call[c].pc \in Working
    PROVE  /\ call[c].label \in Label /\ call[c].op = "write" /\ Writes(call[c], call[c].label) /\ call[c] \in Job
           /\ \E leaf \in Leaves :
                 /\ want[call[c].label] = Wanted(Len(chain[call[c].label]), leaf)
                 /\ \E d, at, m :
                       /\ Begun(d, chain[call[c].label], at, leaf, m, db[call[c].label])
                       /\ Serving(call[c], d, chain[call[c].label], leaf, m, db[call[c].label])
<1> DEFINE x == call[c]
           l == x.label
<1>1. x \in Job /\ x.op = "write" /\ LabelState(db[l], chain[l], want[l], x, l)
    <2>1. x \in Job
        BY JobOf DEF ClientInv
    <2>2. l \in Label
        BY <2>1 DEF Job
    <2> QED
        BY <2>1, <2>2 DEF ClientInv
<1>2. l \in Label /\ x.pc # "idle" /\ x.pc # "done"
    BY <1>1 DEF Job, Working
<1>3. Writes(x, l)
    BY <1>1, <1>2 DEF Writes
<1> HIDE DEF x, l
<1>4. \E leaf \in Leaves : /\ want[l] = Wanted(Len(chain[l]), leaf)
                           /\ \E d, at, m : Begun(d, chain[l], at, leaf, m, db[l]) /\ Serving(x, d, chain[l], leaf, m, db[l])
    BY <1>1, <1>3 DEF LabelState
<1> QED
    BY <1>1, <1>2, <1>3, <1>4 DEF x, l

(* A write is sent, or the call that serves it goes on. *)
LEMMA WriteStep ==
    ASSUME ClientInv, NEW c, Client = {c}, NEW x, call' = [call EXCEPT ![c] = x], LoadInv',
           UNCHANGED <<chain, meant>>, NEW l \in Label, \A k \in Label : k # l => db'[k] = db[k],
           DOMAIN want' = Label, \A k \in Label : k # l => want'[k] = want[k],
           x.op = "write", x.label = l,
           NEW leaf \in Leaves, NEW d, NEW at, NEW m, want'[l] = Wanted(Len(chain[l]), leaf),
           Begun(d, chain[l], at, leaf, m, db'[l]), Serving(x, d, chain[l], leaf, m, db'[l])
    PROVE  ClientInv'
<1>1. chain' = chain /\ meant' = meant
    OBVIOUS
<1>2. LabelState(db'[l], chain'[l], want'[l], x, l)
    BY <1>1 DEF LabelState
<1>3. ASSUME NEW k \in Label, k # l PROVE LabelState(db'[k], chain'[k], want'[k], x, k)
    <2>1. LabelState(db[k], chain[k], want[k], call[c], k)
        BY DEF ClientInv
    <2>2. ~ Writes(x, k)
        BY <1>3 DEF Writes
    <2>3. LabelState(db[k], chain[k], want[k], x, k)
        BY <2>1, <2>2, NoLongerWrites
    <2> QED
        BY <1>1, <1>3, <2>3
<1>4. \A k \in Label : LabelState(db'[k], chain'[k], want'[k], x, k)
    BY <1>2, <1>3
<1>5. /\ chain' \in [Label -> Seq(Hash)] /\ meant' = chain' /\ DOMAIN want' = Label
      /\ \A k \in Label : \A n \in 1..Len(chain'[k]) : OverKeys(chain'[k][n])
    BY <1>1 DEF ClientInv
<1>6. TrueAnswer(x) /\ (x.pc \in Working => x.op = "write")
    BY TellsNothing
<1> QED
    BY <1>4, <1>5, <1>6, ClientStep

LEMMA ServingStep ==
    ASSUME ClientInv, NEW c, Client = {c}, NEW x, call' = [call EXCEPT ![c] = x], LoadInv',
           UNCHANGED clientVars, NEW l \in Label, \A k \in Label : k # l => db'[k] = db[k],
           x.op = "write", x.label = l,
           NEW leaf \in Leaves, NEW d, NEW at, NEW m, want[l] = Wanted(Len(chain[l]), leaf),
           Begun(d, chain[l], at, leaf, m, db'[l]), Serving(x, d, chain[l], leaf, m, db'[l])
    PROVE  ClientInv'
<1>1. UNCHANGED <<chain, meant>> /\ want' = want /\ DOMAIN want = Label
    BY DEF clientVars, ClientInv
<1>2. /\ DOMAIN want' = Label /\ \A k \in Label : k # l => want'[k] = want[k]
      /\ want'[l] = Wanted(Len(chain[l]), leaf)
    BY <1>1
<1> QED
    BY <1>1, <1>2, WriteStep

LEMMA RowsFromIs ==
    ASSUME NEW S, NEW plan \in Seq(S), NEW p \in 0..Len(plan)
    PROVE  /\ RowsFrom(plan, p + 1) = <<>> <=> p = Len(plan)
           /\ p # Len(plan) => /\ p + 1 \in 0..Len(plan) /\ p + 1 \in 1..Len(plan)
                               /\ Head(RowsFrom(plan, p + 1)) = plan[p + 1]
                               /\ Tail(RowsFrom(plan, p + 1)) = RowsFrom(plan, p + 1 + 1)
           /\ RowsFrom(plan, 1) = plan
<1> DEFINE N == Len(plan)
<1>1. N \in Nat /\ p \in Nat /\ p <= N /\ p + 1 \in Int /\ \A i \in 1..N : plan[i] \in S
    OBVIOUS
<1>2. RowsFrom(plan, 1) = plan
    BY SubSeqFull DEF RowsFrom
<1>3. CASE p = N
    <2>1. N < p + 1
        BY <1>1, <1>3
    <2>2. SubSeq(plan, p + 1, N) = <<>>
        BY <1>1, <2>1, SubSeqEmpty
    <2> DEFINE s == SubSeq(plan, p + 1, N)
    <2>3. RowsFrom(plan, p + 1) = s /\ s = <<>>
        BY <2>2 DEF RowsFrom
    <2> HIDE DEF s
    <2> QED
        BY <1>2, <1>3, <2>3
<1>4. CASE p # N
    <2>1. p + 1 \in 1..N /\ N \in p + 1..N /\ p + 1 \in 0..N
        BY <1>1, <1>4
    <2>2. Head(SubSeq(plan, p + 1, N)) = plan[p + 1] /\ Tail(SubSeq(plan, p + 1, N)) = SubSeq(plan, p + 1 + 1, N)
        BY <2>1, HeadTailOfSubSeq
    <2>3. Len(SubSeq(plan, p + 1, N)) = N - (p + 1) + 1
        <3>1. \A i \in p + 1..N : plan[i] \in S
            BY <1>1
        <3>2. Len(SubSeq(plan, p + 1, N)) = IF p + 1 <= N THEN N - (p + 1) + 1 ELSE 0
            BY <1>1, <3>1, SubSeqProperties
        <3> QED
            BY <2>1, <3>2
    <2>4. Len(SubSeq(plan, p + 1, N)) # 0
        <3>1. \A n, q \in Nat : q + 1 \in 1..n => n - (q + 1) + 1 # 0
            OBVIOUS
        <3> HIDE DEF N
        <3> QED
            BY <1>1, <2>1, <2>3, <3>1
    <2>5. SubSeq(plan, p + 1, N) # <<>>
        <3> DEFINE s == SubSeq(plan, p + 1, N)
        <3>1. Len(<<>>) = 0 /\ Len(s) # 0
            BY <2>4
        <3> HIDE DEF s
        <3>2. s # <<>>
            BY <3>1
        <3> QED
            BY <3>2 DEF s
    <2> DEFINE s == SubSeq(plan, p + 1, N)
               t == SubSeq(plan, p + 1 + 1, N)
    <2>6. /\ RowsFrom(plan, p + 1) = s /\ s # <<>> /\ Head(s) = plan[p + 1]
          /\ RowsFrom(plan, p + 1 + 1) = t /\ Tail(s) = t
        BY <2>2, <2>5 DEF RowsFrom
    <2> HIDE DEF s, t
    <2>7. p + 1 \in 0..Len(plan) /\ p + 1 \in 1..Len(plan) /\ p # Len(plan)
        BY <1>4, <2>1
    <2> QED
        BY <1>2, <2>6, <2>7
<1> QED
    BY <1>3, <1>4

LEMMA BegunIs ==
    ASSUME NEW d, NEW ch, NEW at, NEW leaf, NEW m, NEW e, Begun(d, ch, at, leaf, m, e)
    PROVE  /\ PlanOf(d, leaf) \in Seq(NodeRow) /\ Len(PlanOf(d, leaf)) \in Nat \ {0}
           /\ m \in 0..Len(PlanOf(d, leaf)) /\ Len(d.nodes) \in Nat
           /\ \A n \in 1..Len(PlanOf(d, leaf)) : PlanOf(d, leaf)[n].trie_idx = Len(d.nodes) + n
           /\ \A idx : WithIdx(e, idx) # {} <=> idx \in 1..Len(d.nodes) + m
           /\ GoodTables(e)
<1>1. Settled(d, ch, at, KeyLength) /\ Ready(ch, leaf, KeyLength) /\ Partial(d, leaf, m, e)
    BY DEF Begun
<1>2. Leads(d, PlanOf(d, leaf), After(ch[Len(ch)], leaf), KeyLength)
    BY <1>1, PlanLeads
<1>3. TrueTables(e) /\ InPlace(e) /\ Len(e.nodes) = Len(d.nodes) + m
    BY <1>1, PartialIs
<1>4. GoodTables(e)
    BY <1>3 DEF TrueTables
<1>5. Stored(e) = 1..Len(d.nodes) + m
    BY <1>3, <1>4, InPlaceIs
<1>6. \A idx : WithIdx(e, idx) # {} <=> idx \in Stored(e)
    BY RowStored
<1>7. Len(d.nodes) \in Nat
    BY <1>1, SettledIs
<1>8. m \in 0..Len(PlanOf(d, leaf))
    BY <1>1 DEF Partial
<1>9. /\ PlanOf(d, leaf) \in Seq(NodeRow) /\ Len(PlanOf(d, leaf)) \in Nat \ {0}
      /\ \A n \in 1..Len(PlanOf(d, leaf)) : PlanOf(d, leaf)[n].trie_idx = Len(d.nodes) + n
    BY <1>2 DEF Leads
<1> QED
    BY <1>4, <1>5, <1>6, <1>7, <1>8, <1>9

(* The statements of a write. *)
LEMMA SelectNodeClient ==
    ASSUME ClientInv, NEW c, Client = {c}, SelectNode(c), UNCHANGED clientVars
    PROVE  ClientInv'
<1> DEFINE x == call[c]
           l == x.label
           row == Head(x.nodes)
<1>1. /\ x.pc = "select_node" /\ x.nodes # <<>> /\ UNCHANGED <<db, known, faults>>
      /\ \/ WithIdx(db[l], row.trie_idx) # {} /\ call' = [call EXCEPT ![c] = [x EXCEPT !.nodes = Tail(x.nodes)]]
         \/ WithIdx(db[l], row.trie_idx) = {} /\ call' = [call EXCEPT ![c] = [x EXCEPT !.pc = "insert_node"]]
    BY DEF SelectNode, Goto
<1>2. LoadInv'
    BY SelectNodeKeeps DEF ClientInv
<1>3. /\ l \in Label /\ x.op = "write" /\ x \in Job
      /\ \E leaf \in Leaves : /\ want[l] = Wanted(Len(chain[l]), leaf)
                              /\ \E d, at, m : Begun(d, chain[l], at, leaf, m, db[l]) /\ Serving(x, d, chain[l], leaf, m, db[l])
    BY <1>1, ServedWrite DEF Working
<1> HIDE DEF x, l, row
<1>4. PICK leaf \in Leaves : /\ want[l] = Wanted(Len(chain[l]), leaf)
                             /\ \E d, at, m : Begun(d, chain[l], at, leaf, m, db[l]) /\ Serving(x, d, chain[l], leaf, m, db[l])
    BY <1>3
<1>5. PICK d, at, m : Begun(d, chain[l], at, leaf, m, db[l]) /\ Serving(x, d, chain[l], leaf, m, db[l])
    BY <1>4
<1> DEFINE plan == PlanOf(d, leaf)
           K == Len(d.nodes)
<1>6. /\ plan \in Seq(NodeRow) /\ m \in 0..Len(plan) /\ K \in Nat /\ Len(plan) \in Nat
      /\ \A n \in 1..Len(plan) : plan[n].trie_idx = K + n
      /\ \A idx : WithIdx(db[l], idx) # {} <=> idx \in 1..K + m
    BY <1>5, BegunIs
<1>7. /\ x.base = chain[l][Len(chain[l])] /\ x.items = <<leaf>> /\ x.root = After(chain[l][Len(chain[l])], leaf)
      /\ x.root_idx = K + Len(plan) /\ x.leaves = <<leaf>>
      /\ \E p \in 0..m : x.nodes = RowsFrom(plan, p + 1)
    BY <1>1, <1>5 DEF Serving, ServingNodes, ServingLeaf, Answered
<1> HIDE DEF plan, K
<1>8. PICK p \in 0..m : x.nodes = RowsFrom(plan, p + 1)
    BY <1>7
<1>9. p \in 0..Len(plan) /\ m \in Nat
    BY <1>6
<1>10. p # Len(plan)
    BY <1>1, <1>6, <1>8, <1>9, RowsFromIs
<1>11. /\ p + 1 \in 1..Len(plan) /\ row = plan[p + 1] /\ Tail(x.nodes) = RowsFrom(plan, p + 1 + 1)
    BY <1>6, <1>8, <1>9, <1>10, RowsFromIs DEF row
<1>12. row.trie_idx = K + (p + 1)
    BY <1>6, <1>11
<1>13. WithIdx(db[l], row.trie_idx) # {} <=> p + 1 \in 0..m
    <2>1. K + (p + 1) \in 1..K + m <=> p + 1 \in 0..m
        BY <1>6, <1>9, <1>11
    <2> QED
        BY <1>6, <1>12, <2>1
<1>14. \A y : y \in {[x EXCEPT !.nodes = Tail(x.nodes)], [x EXCEPT !.pc = "insert_node"]} =>
          /\ y.op = "write" /\ y.label = l /\ y.base = x.base /\ y.items = x.items /\ y.root = x.root
          /\ y.root_idx = x.root_idx /\ y.leaves = x.leaves
    BY <1>3 DEF Job, l
<1>15. \A k \in Label : k # l => db'[k] = db[k]
    BY <1>1
<1>16. CASE p + 1 \in 0..m
    <2> DEFINE y == [x EXCEPT !.nodes = Tail(x.nodes)]
    <2>1. call' = [call EXCEPT ![c] = y]
        BY <1>1, <1>13, <1>16
    <2>2. y.pc = "select_node" /\ y.nodes = RowsFrom(plan, p + 1 + 1)
        BY <1>1, <1>3, <1>11 DEF Job
    <2>3. /\ y.op = "write" /\ y.label = l /\ y.base = x.base /\ y.items = x.items /\ y.root = x.root
          /\ y.root_idx = x.root_idx /\ y.leaves = x.leaves
        BY <1>14
    <2> HIDE DEF y
    <2>4. ServingNodes(y, d, leaf, m)
        BY <1>7, <1>16, <2>2, <2>3 DEF ServingNodes, plan
    <2>5. Serving(y, d, chain[l], leaf, m, db'[l])
        BY <1>1, <1>7, <2>3, <2>4 DEF Serving, plan, K
    <2>6. Begun(d, chain[l], at, leaf, m, db'[l])
        BY <1>1, <1>5
    <2> QED
        BY <1>2, <1>3, <1>4, <1>15, <2>1, <2>3, <2>5, <2>6, ServingStep
<1>17. CASE p + 1 \notin 0..m
    <2> DEFINE y == [x EXCEPT !.pc = "insert_node"]
    <2>1. call' = [call EXCEPT ![c] = y]
        BY <1>1, <1>13, <1>17
    <2>2. y.pc = "insert_node" /\ y.nodes = x.nodes
        BY <1>1, <1>3 DEF Job
    <2>3. /\ y.op = "write" /\ y.label = l /\ y.base = x.base /\ y.items = x.items /\ y.root = x.root
          /\ y.root_idx = x.root_idx /\ y.leaves = x.leaves
        BY <1>14
    <2> HIDE DEF y
    <2>4. p = m
        BY <1>9, <1>17
    <2>5. ServingNodes(y, d, leaf, m)
        BY <1>7, <1>8, <1>10, <2>2, <2>3, <2>4 DEF ServingNodes, plan
    <2>6. Serving(y, d, chain[l], leaf, m, db'[l])
        BY <1>1, <1>7, <2>3, <2>5 DEF Serving, plan, K
    <2>7. Begun(d, chain[l], at, leaf, m, db'[l])
        BY <1>1, <1>5
    <2> QED
        BY <1>2, <1>3, <1>4, <1>15, <2>1, <2>3, <2>6, <2>7, ServingStep
<1> QED
    BY <1>16, <1>17

LEMMA PartGrows ==
    ASSUME NEW S, NEW s \in Seq(S), NEW m \in 0..Len(s), m + 1 \in 1..Len(s)
    PROVE  /\ SubSeq(s, 1, m + 1) = Append(SubSeq(s, 1, m), s[m + 1])
           /\ SubSeq(s, 1, m) \in Seq(S) /\ s[m + 1] \in S
<1>1. s[m + 1] \in S /\ m \in Nat
    OBVIOUS
<1>2. SubSeq(s, 1, m) \in Seq(S)
    <2>1. \A i \in 1..m : s[i] \in S
        OBVIOUS
    <2> QED
        BY <1>1, <2>1, SubSeqProperties
<1>3. SubSeq(s, 1, m + 1) = Append(SubSeq(s, 1, (m + 1) - 1), s[m + 1])
    BY SubSeqRecursiveSecond
<1>4. (m + 1) - 1 = m
    BY <1>1
<1> QED
    BY <1>1, <1>2, <1>3, <1>4

LEMMA AppendAfter ==
    ASSUME NEW s \in Seq(NodeRow), NEW t \in Seq(NodeRow), NEW x \in NodeRow
    PROVE  Append(s \o t, x) = s \o Append(t, x)
<1>1. s \o t \in Seq(NodeRow) /\ <<x>> \in Seq(NodeRow)
    BY ConcatProperties
<1>2. Append(s \o t, x) = (s \o t) \o <<x>>
    BY <1>1, AppendIsConcat
<1>3. Append(t, x) = t \o <<x>>
    BY AppendIsConcat
<1>4. (s \o t) \o <<x>> = s \o (t \o <<x>>)
    BY <1>1, ConcatAssociative
<1> QED
    BY <1>2, <1>3, <1>4

LEMMA ServedBy ==
    ASSUME ClientInv, NEW c, Client = {c}, call[c].pc \in Working
    PROVE  \E leaf \in Leaves : \E d, at, m :
              /\ want[call[c].label] = Wanted(Len(chain[call[c].label]), leaf)
              /\ Begun(d, chain[call[c].label], at, leaf, m, db[call[c].label])
              /\ Serving(call[c], d, chain[call[c].label], leaf, m, db[call[c].label])
              /\ call[c].base = chain[call[c].label][Len(chain[call[c].label])]
              /\ call[c].items = <<leaf>>
              /\ call[c].root = After(chain[call[c].label][Len(chain[call[c].label])], leaf)
              /\ call[c].root_idx = Len(d.nodes) + Len(PlanOf(d, leaf)) /\ call[c].root_idx # NoIdx
              /\ ServingNodes(call[c], d, leaf, m) \/ ServingLeaf(call[c], d, leaf, m, db[call[c].label])
<1> DEFINE x == call[c]
           l == x.label
<1>1. /\ l \in Label /\ x.op = "write" /\ x \in Job
      /\ \E leaf \in Leaves : /\ want[l] = Wanted(Len(chain[l]), leaf)
                              /\ \E d, at, m : Begun(d, chain[l], at, leaf, m, db[l]) /\ Serving(x, d, chain[l], leaf, m, db[l])
    BY ServedWrite
<1>2. x.pc # "done"
    BY DEF Working
<1> HIDE DEF x, l
<1>3. PICK leaf \in Leaves : /\ want[l] = Wanted(Len(chain[l]), leaf)
                             /\ \E d, at, m : Begun(d, chain[l], at, leaf, m, db[l]) /\ Serving(x, d, chain[l], leaf, m, db[l])
    BY <1>1
<1>4. PICK d, at, m : Begun(d, chain[l], at, leaf, m, db[l]) /\ Serving(x, d, chain[l], leaf, m, db[l])
    BY <1>3
<1>5. Len(PlanOf(d, leaf)) \in Nat \ {0} /\ Len(d.nodes) \in Nat
    BY <1>4, BegunIs
<1>6. Len(d.nodes) + Len(PlanOf(d, leaf)) # NoIdx
    <2>1. \A u \in Nat, v \in Nat \ {0} : u + v # 0
        OBVIOUS
    <2> QED
        BY <1>5, <2>1 DEF NoIdx
<1>7. /\ x.base = chain[l][Len(chain[l])] /\ x.items = <<leaf>> /\ x.root = After(chain[l][Len(chain[l])], leaf)
      /\ x.root_idx = Len(d.nodes) + Len(PlanOf(d, leaf))
      /\ ServingNodes(x, d, leaf, m) \/ ServingLeaf(x, d, leaf, m, db[l])
    BY <1>2, <1>4 DEF Serving, Answered
<1> QED
    BY <1>3, <1>4, <1>6, <1>7 DEF x, l

(* A row of the plan is stored. *)
NodeStep(c, l) ==
    /\ l \in Label /\ \A k \in Label : k # l => db'[k] = db[k]
    /\ db'[l].nodes = Append(db[l].nodes, Head(call[c].nodes)) /\ db'[l].leafs = db[l].leafs
    /\ \E leaf \in Leaves : \E d, at, m, n, y :
          /\ want[l] = Wanted(Len(chain[l]), leaf) /\ m # Len(PlanOf(d, leaf)) /\ n = m + 1
          /\ Begun(d, chain[l], at, leaf, m, db[l]) /\ Begun(d, chain[l], at, leaf, n, db'[l])
          /\ Head(call[c].nodes) = PlanOf(d, leaf)[n]
          /\ call' = [call EXCEPT ![c] = y] /\ y.op = "write" /\ y.label = l
          /\ Serving(y, d, chain[l], leaf, n, db'[l])

LEMMA InsertNodeMoves ==
    ASSUME ClientInv, NEW c, Client = {c}, InsertNode(c)
    PROVE  NodeStep(c, call[c].label)
<1> DEFINE x == call[c]
           l == x.label
           row == Head(x.nodes)
           y == [x EXCEPT !.nodes = Tail(x.nodes), !.pc = "select_node"]
<1>1. /\ x.pc = "insert_node" /\ UNCHANGED <<known, faults>>
      /\ db' = [db EXCEPT ![l].nodes = Append(db[l].nodes, row)]
      /\ call' = [call EXCEPT ![c] = y]
    BY DEF InsertNode, Insert
<1>3. l \in Label /\ x.op = "write" /\ x \in Job /\ x.pc \in Working
    BY <1>1, ServedWrite DEF Working
<1>4a. PICK leaf \in Leaves : \E d, at, m :
              /\ want[l] = Wanted(Len(chain[l]), leaf)
              /\ Begun(d, chain[l], at, leaf, m, db[l])
              /\ x.base = chain[l][Len(chain[l])] /\ x.items = <<leaf>>
              /\ x.root = After(chain[l][Len(chain[l])], leaf)
              /\ x.root_idx = Len(d.nodes) + Len(PlanOf(d, leaf))
              /\ ServingNodes(x, d, leaf, m) \/ ServingLeaf(x, d, leaf, m, db[l])
    BY <1>3, ServedBy
<1>4. PICK d, at, m :
              /\ want[l] = Wanted(Len(chain[l]), leaf)
              /\ Begun(d, chain[l], at, leaf, m, db[l])
              /\ x.base = chain[l][Len(chain[l])] /\ x.items = <<leaf>>
              /\ x.root = After(chain[l][Len(chain[l])], leaf)
              /\ x.root_idx = Len(d.nodes) + Len(PlanOf(d, leaf))
              /\ ServingNodes(x, d, leaf, m) \/ ServingLeaf(x, d, leaf, m, db[l])
    BY <1>4a
<1> DEFINE plan == PlanOf(d, leaf)
<1>5. /\ db \in [Label -> Tables] /\ db'[l].nodes = Append(db[l].nodes, row) /\ db'[l].leafs = db[l].leafs
      /\ \A k \in Label : k # l => db'[k] = db[k]
    <2>1. db \in [Label -> Tables]
        BY DEF ClientInv, LoadInv
    <2>2. db'[l] = [db[l] EXCEPT !.nodes = Append(db[l].nodes, row)] /\ \A k \in Label : k # l => db'[k] = db[k]
        BY <1>1, <1>3, <2>1
    <2>3. db[l] \in Tables
        BY <1>3, <2>1
    <2> HIDE DEF l, row
    <2> QED
        BY <2>1, <2>2, <2>3 DEF Tables
<1>6. /\ y.pc = "select_node" /\ y.nodes = Tail(x.nodes) /\ y.op = "write" /\ y.label = l /\ y.base = x.base
      /\ y.items = x.items /\ y.root = x.root /\ y.root_idx = x.root_idx /\ y.leaves = x.leaves
    <2> HIDE DEF x
    <2>1. /\ y.pc = "select_node" /\ y.nodes = Tail(x.nodes) /\ y.op = x.op /\ y.label = x.label /\ y.base = x.base
          /\ y.items = x.items /\ y.root = x.root /\ y.root_idx = x.root_idx /\ y.leaves = x.leaves
        BY <1>3 DEF Job
    <2> QED
        BY <1>3, <2>1
<1> HIDE DEF x, l, row, y
<1>7. /\ plan \in Seq(NodeRow) /\ m \in 0..Len(plan) /\ Len(plan) \in Nat
    BY <1>4, BegunIs
<1>8. x.leaves = <<leaf>> /\ m # Len(plan) /\ x.nodes = RowsFrom(plan, m + 1)
    BY <1>1, <1>4 DEF ServingNodes, ServingLeaf
<1>9. Partial(d, leaf, m, db[l]) /\ d.nodes \in Seq(NodeRow)
    <2>1. Partial(d, leaf, m, db[l]) /\ Settled(d, chain[l], at, KeyLength)
        BY <1>4 DEF Begun
    <2>2. GoodTables(d)
        BY <2>1, SettledIs
    <2> QED
        BY <2>1, <2>2 DEF GoodTables
<1> HIDE DEF plan
<1>10. /\ m + 1 \in 0..Len(plan) /\ m + 1 \in 1..Len(plan)
       /\ row = plan[m + 1] /\ Tail(x.nodes) = RowsFrom(plan, m + 1 + 1)
    BY <1>7, <1>8, RowsFromIs DEF row
<1>11. Partial(d, leaf, m + 1, db'[l])
    <2>1. db[l].nodes = d.nodes \o SubSeq(plan, 1, m) /\ db[l].leafs = d.leafs
        BY <1>8, <1>9 DEF Partial, plan
    <2>2. SubSeq(plan, 1, m + 1) = Append(SubSeq(plan, 1, m), plan[m + 1])
        BY <1>7, <1>10, PartGrows
    <2>3. SubSeq(plan, 1, m) \in Seq(NodeRow) /\ plan[m + 1] \in NodeRow
        BY <1>7, <1>10, PartGrows
    <2>4. Append(d.nodes \o SubSeq(plan, 1, m), plan[m + 1]) = d.nodes \o Append(SubSeq(plan, 1, m), plan[m + 1])
        <3> DEFINE s == SubSeq(plan, 1, m)
                   z == plan[m + 1]
                   r == d.nodes
        <3>1. r \in Seq(NodeRow) /\ s \in Seq(NodeRow) /\ z \in NodeRow
            BY <1>9, <2>3
        <3> HIDE DEF s, z, r
        <3>2. Append(r \o s, z) = r \o Append(s, z)
            BY <3>1, AppendAfter
        <3> QED
            BY <3>2 DEF s, z, r
    <2>5. db'[l].nodes = d.nodes \o SubSeq(plan, 1, m + 1)
        BY <1>5, <1>10, <2>1, <2>2, <2>4
    <2> QED
        BY <1>5, <1>10, <2>1, <2>5 DEF Partial, plan
<1>12. Begun(d, chain[l], at, leaf, m + 1, db'[l])
    BY <1>4, <1>11 DEF Begun
<1>13. ServingNodes(y, d, leaf, m + 1)
    <2>1. m + 1 \in 0..(m + 1)
        BY <1>7
    <2> QED
        BY <1>6, <1>8, <1>10, <2>1 DEF ServingNodes, plan
<1>14. Serving(y, d, chain[l], leaf, m + 1, db'[l])
    BY <1>4, <1>6, <1>13 DEF Serving
<1>15. /\ y.op = "write" /\ y.label = l /\ call' = [call EXCEPT ![c] = y] /\ l \in Label
       /\ want[l] = Wanted(Len(chain[l]), leaf) /\ \A k \in Label : k # l => db'[k] = db[k]
    BY <1>1, <1>3, <1>4, <1>5, <1>6
<1> DEFINE n == m + 1
<1>16. Begun(d, chain[l], at, leaf, n, db'[l]) /\ Serving(y, d, chain[l], leaf, n, db'[l]) /\ n = m + 1
    BY <1>12, <1>14
<1>17. row = PlanOf(d, leaf)[n] /\ m # Len(PlanOf(d, leaf))
    BY <1>8, <1>10 DEF plan
<1> HIDE DEF n
<1>18. \E u \in Leaves : \E b, a, i, j, z :
                 /\ want[l] = Wanted(Len(chain[l]), u) /\ i # Len(PlanOf(b, u)) /\ j = i + 1
                 /\ Begun(b, chain[l], a, u, i, db[l]) /\ Begun(b, chain[l], a, u, j, db'[l])
                 /\ row = PlanOf(b, u)[j]
                 /\ call' = [call EXCEPT ![c] = z] /\ z.op = "write" /\ z.label = l
                 /\ Serving(z, b, chain[l], u, j, db'[l])
    BY <1>4, <1>15, <1>16, <1>17
<1>19. NodeStep(c, l)
    BY <1>5, <1>15, <1>18 DEF row, x, NodeStep
<1> QED
    BY <1>19 DEF l, x

LEMMA InsertNodeClient ==
    ASSUME ClientInv, NEW c, Client = {c}, InsertNode(c), UNCHANGED clientVars
    PROVE  ClientInv'
<1> DEFINE l == call[c].label
<1>1. LoadInv'
    BY InsertNodeKeeps DEF ClientInv
<1>2. NodeStep(c, l)
    BY InsertNodeMoves
<1> HIDE DEF l
<1>3a. PICK leaf \in Leaves : \E d, at, m, n, y :
            /\ want[l] = Wanted(Len(chain[l]), leaf) /\ m # Len(PlanOf(d, leaf)) /\ n = m + 1
            /\ Begun(d, chain[l], at, leaf, m, db[l]) /\ Begun(d, chain[l], at, leaf, n, db'[l])
            /\ Head(call[c].nodes) = PlanOf(d, leaf)[n]
            /\ call' = [call EXCEPT ![c] = y] /\ y.op = "write" /\ y.label = l
            /\ Serving(y, d, chain[l], leaf, n, db'[l])
    BY <1>2 DEF NodeStep
<1>3. PICK d, at, m, n, y :
            /\ want[l] = Wanted(Len(chain[l]), leaf) /\ m # Len(PlanOf(d, leaf)) /\ n = m + 1
            /\ Begun(d, chain[l], at, leaf, m, db[l]) /\ Begun(d, chain[l], at, leaf, n, db'[l])
            /\ Head(call[c].nodes) = PlanOf(d, leaf)[n]
            /\ call' = [call EXCEPT ![c] = y] /\ y.op = "write" /\ y.label = l
            /\ Serving(y, d, chain[l], leaf, n, db'[l])
    BY <1>3a
<1>4. l \in Label /\ \A k \in Label : k # l => db'[k] = db[k]
    BY <1>2 DEF NodeStep
<1> QED
    BY <1>1, <1>3, <1>4, ServingStep

LEMMA NodesDoneClient ==
    ASSUME ClientInv, NEW c, Client = {c}, NodesDone(c), UNCHANGED clientVars
    PROVE  ClientInv'
<1> DEFINE x == call[c]
           l == x.label
           y == [x EXCEPT !.pc = "select_leaf"]
<1>1. /\ x.pc = "select_node" /\ x.nodes = <<>> /\ UNCHANGED <<db, known, faults>>
      /\ x.root_idx # NoIdx => call' = [call EXCEPT ![c] = y]
    BY DEF NodesDone, Goto
<1>2. LoadInv'
    BY NodesDoneKeeps DEF ClientInv
<1>3. l \in Label /\ x.op = "write" /\ x \in Job /\ x.pc \in Working
    BY <1>1, ServedWrite DEF Working
<1>4a. PICK leaf \in Leaves : \E d, at, m :
              /\ want[l] = Wanted(Len(chain[l]), leaf)
              /\ Begun(d, chain[l], at, leaf, m, db[l])
              /\ x.base = chain[l][Len(chain[l])] /\ x.items = <<leaf>>
              /\ x.root = After(chain[l][Len(chain[l])], leaf)
              /\ x.root_idx = Len(d.nodes) + Len(PlanOf(d, leaf)) /\ x.root_idx # NoIdx
              /\ ServingNodes(x, d, leaf, m) \/ ServingLeaf(x, d, leaf, m, db[l])
    BY <1>3, ServedBy
<1>4. PICK d, at, m :
              /\ want[l] = Wanted(Len(chain[l]), leaf)
              /\ Begun(d, chain[l], at, leaf, m, db[l])
              /\ x.base = chain[l][Len(chain[l])] /\ x.items = <<leaf>>
              /\ x.root = After(chain[l][Len(chain[l])], leaf)
              /\ x.root_idx = Len(d.nodes) + Len(PlanOf(d, leaf)) /\ x.root_idx # NoIdx
              /\ ServingNodes(x, d, leaf, m) \/ ServingLeaf(x, d, leaf, m, db[l])
    BY <1>4a
<1>5. /\ y.pc = "select_leaf" /\ y.op = "write" /\ y.label = l /\ y.base = x.base
      /\ y.items = x.items /\ y.root = x.root /\ y.root_idx = x.root_idx /\ y.leaves = x.leaves
    <2> HIDE DEF x
    <2> QED
        BY <1>3 DEF Job, l
<1> HIDE DEF x, l, y
<1>6. PlanOf(d, leaf) \in Seq(NodeRow) /\ m \in 0..Len(PlanOf(d, leaf))
    BY <1>4, BegunIs
<1>7. x.leaves = <<leaf>> /\ \E p \in 0..m : x.nodes = RowsFrom(PlanOf(d, leaf), p + 1)
    BY <1>1, <1>4 DEF ServingNodes, ServingLeaf
<1>8. m = Len(PlanOf(d, leaf))
    <2>1. PICK p \in 0..m : x.nodes = RowsFrom(PlanOf(d, leaf), p + 1)
        BY <1>7
    <2>2. p \in 0..Len(PlanOf(d, leaf))
        BY <1>6
    <2>3. p = Len(PlanOf(d, leaf))
        BY <1>1, <1>6, <2>1, <2>2, RowsFromIs
    <2> QED
        BY <1>6, <2>2, <2>3
<1>9. ServingLeaf(y, d, leaf, m, db[l])
    BY <1>5, <1>7, <1>8 DEF ServingLeaf
<1>10. Serving(y, d, chain[l], leaf, m, db'[l]) /\ Begun(d, chain[l], at, leaf, m, db'[l])
    BY <1>1, <1>4, <1>5, <1>9 DEF Serving
<1>11. call' = [call EXCEPT ![c] = y] /\ \A k \in Label : k # l => db'[k] = db[k]
    BY <1>1, <1>4
<1> QED
    BY <1>2, <1>3, <1>4, <1>5, <1>10, <1>11, ServingStep

(* The row of the root is among those of the plan: it is never looked up. *)
LEMMA RootIsAdded ==
    ASSUME ClientInv, NEW c, Client = {c}
    PROVE  call[c].pc \notin {"select_root", "max_idx"}
<1> SUFFICES ASSUME call[c].pc \in {"select_root", "max_idx"} PROVE FALSE
    OBVIOUS
<1>1. call[c].pc \in Working
    BY DEF Working
<1>2a. PICK leaf \in Leaves : \E d, at, m :
          ServingNodes(call[c], d, leaf, m) \/ ServingLeaf(call[c], d, leaf, m, db[call[c].label])
    BY <1>1, ServedBy
<1>2. PICK d, at, m :
          ServingNodes(call[c], d, leaf, m) \/ ServingLeaf(call[c], d, leaf, m, db[call[c].label])
    BY <1>2a
<1> QED
    BY <1>2 DEF ServingNodes, ServingLeaf

LEMMA SelectLeafClient ==
    ASSUME ClientInv, NEW c, Client = {c}, SelectLeaf(c), UNCHANGED clientVars
    PROVE  ClientInv'
<1> DEFINE x == call[c]
           l == x.label
           y == [x EXCEPT !.leaves = Tail(x.leaves)]
           z == [x EXCEPT !.pc = "insert_leaf"]
<1>1. /\ x.pc = "select_leaf" /\ x.leaves # <<>> /\ UNCHANGED <<db, known, faults>>
      /\ PairRows(db[l], Head(x.leaves)) # {} => call' = [call EXCEPT ![c] = y]
      /\ PairRows(db[l], Head(x.leaves)) = {} => call' = [call EXCEPT ![c] = z]
    BY DEF SelectLeaf, Goto
<1>2. LoadInv'
    BY SelectLeafKeeps DEF ClientInv
<1>3. l \in Label /\ x.op = "write" /\ x \in Job /\ x.pc \in Working
    BY <1>1, ServedWrite DEF Working
<1>4a. PICK leaf \in Leaves : \E d, at, m :
              /\ want[l] = Wanted(Len(chain[l]), leaf)
              /\ Begun(d, chain[l], at, leaf, m, db[l])
              /\ x.base = chain[l][Len(chain[l])] /\ x.items = <<leaf>>
              /\ x.root = After(chain[l][Len(chain[l])], leaf)
              /\ x.root_idx = Len(d.nodes) + Len(PlanOf(d, leaf)) /\ x.root_idx # NoIdx
              /\ ServingNodes(x, d, leaf, m) \/ ServingLeaf(x, d, leaf, m, db[l])
    BY <1>3, ServedBy
<1>4. PICK d, at, m :
              /\ want[l] = Wanted(Len(chain[l]), leaf)
              /\ Begun(d, chain[l], at, leaf, m, db[l])
              /\ x.base = chain[l][Len(chain[l])] /\ x.items = <<leaf>>
              /\ x.root = After(chain[l][Len(chain[l])], leaf)
              /\ x.root_idx = Len(d.nodes) + Len(PlanOf(d, leaf)) /\ x.root_idx # NoIdx
              /\ ServingNodes(x, d, leaf, m) \/ ServingLeaf(x, d, leaf, m, db[l])
    BY <1>4a
<1>5. /\ y.pc = "select_leaf" /\ y.op = "write" /\ y.label = l /\ y.base = x.base
      /\ y.items = x.items /\ y.root = x.root /\ y.root_idx = x.root_idx /\ y.leaves = Tail(x.leaves)
      /\ z.pc = "insert_leaf" /\ z.op = "write" /\ z.label = l /\ z.base = x.base
      /\ z.items = x.items /\ z.root = x.root /\ z.root_idx = x.root_idx /\ z.leaves = x.leaves
    <2> HIDE DEF x
    <2>1. /\ y.pc = "select_leaf" /\ y.op = "write" /\ y.label = l /\ y.base = x.base
          /\ y.items = x.items /\ y.root = x.root /\ y.root_idx = x.root_idx /\ y.leaves = Tail(x.leaves)
        BY <1>1, <1>3 DEF Job, l
    <2>2. /\ z.pc = "insert_leaf" /\ z.op = "write" /\ z.label = l /\ z.base = x.base
          /\ z.items = x.items /\ z.root = x.root /\ z.root_idx = x.root_idx /\ z.leaves = x.leaves
        BY <1>3 DEF Job, l
    <2> QED
        BY <2>1, <2>2
<1> HIDE DEF x, l, y, z
<1>6. m = Len(PlanOf(d, leaf)) /\ x.leaves = <<leaf>>
    BY <1>1, <1>4 DEF ServingNodes, ServingLeaf
<1>7. Head(x.leaves) = leaf /\ Tail(x.leaves) = <<>>
    BY <1>6
<1>8. Settled(d, chain[l], at, KeyLength) /\ Ready(chain[l], leaf, KeyLength) /\ NewPair(d, leaf)
      /\ Partial(d, leaf, m, db[l])
    BY <1>4 DEF Begun
<1>9. \A k \in Label : k # l => db'[k] = db[k]
    BY <1>1
<1>10. CASE db[l].leafs = d.leafs
    <2>1. PairRows(db[l], leaf) = {}
        BY <1>8, <1>10 DEF PairRows, OfKey, NewPair
    <2>2. call' = [call EXCEPT ![c] = z]
        BY <1>1, <1>7, <2>1
    <2>3. ServingLeaf(z, d, leaf, m, db[l])
        BY <1>5, <1>6, <1>10 DEF ServingLeaf
    <2>4. Serving(z, d, chain[l], leaf, m, db'[l]) /\ Begun(d, chain[l], at, leaf, m, db'[l])
        BY <1>1, <1>4, <1>5, <2>3 DEF Serving
    <2> QED
        BY <1>2, <1>3, <1>4, <1>5, <1>9, <2>2, <2>4, ServingStep
<1>11. CASE db[l].leafs = Append(d.leafs, NewLeaf(d, leaf))
    <2>1. PairRows(db[l], leaf) # {}
        <3> DEFINE rows == Append(d.leafs, NewLeaf(d, leaf))
                   i == Len(d.leafs) + 1
        <3>1. /\ rows[i] = NewLeaf(d, leaf) /\ i \in 1..Len(rows) /\ rows \in Seq(LeafRow)
              /\ NewLeaf(d, leaf).key = leaf.key /\ NewLeaf(d, leaf).value = leaf.value
            BY <1>8, NewLeafIs
        <3> HIDE DEF rows, i
        <3>2. i \in DOMAIN rows
            BY <3>1
        <3>3. db[l].leafs = rows
            BY <1>11 DEF rows
        <3> QED
            BY <3>1, <3>2, <3>3 DEF PairRows, OfKey
    <2>2. call' = [call EXCEPT ![c] = y]
        BY <1>1, <1>7, <2>1
    <2>3. ServingLeaf(y, d, leaf, m, db[l])
        BY <1>5, <1>6, <1>7, <1>11 DEF ServingLeaf, LeafStored
    <2>4. Serving(y, d, chain[l], leaf, m, db'[l]) /\ Begun(d, chain[l], at, leaf, m, db'[l])
        BY <1>1, <1>4, <1>5, <2>3 DEF Serving
    <2> QED
        BY <1>2, <1>3, <1>4, <1>5, <1>9, <2>2, <2>4, ServingStep
<1> QED
    BY <1>8, <1>10, <1>11 DEF Partial

(* The leaf is stored, under the index of the new root. *)
LeafStep(c, l) ==
    /\ l \in Label /\ (\A k \in Label : k # l => db'[k] = db[k]) /\ db'[l].nodes = db[l].nodes
    /\ \E leaf \in Leaves : \E d, at, m, y :
          /\ want[l] = Wanted(Len(chain[l]), leaf) /\ m = Len(PlanOf(d, leaf))
          /\ Begun(d, chain[l], at, leaf, m, db[l]) /\ Begun(d, chain[l], at, leaf, m, db'[l])
          /\ db[l].leafs = d.leafs /\ db'[l].leafs = Append(d.leafs, NewLeaf(d, leaf))
          /\ call' = [call EXCEPT ![c] = y] /\ y.op = "write" /\ y.label = l
          /\ Serving(y, d, chain[l], leaf, m, db'[l])

LEMMA InsertLeafMoves ==
    ASSUME ClientInv, NEW c, Client = {c}, InsertLeaf(c)
    PROVE  LeafStep(c, call[c].label)
<1> DEFINE x == call[c]
           l == x.label
           row == [key |-> Head(x.leaves).key, value |-> Head(x.leaves).value, root_idx |-> x.root_idx]
           y == [x EXCEPT !.leaves = Tail(x.leaves), !.pc = "select_leaf"]
<1>1. /\ x.pc = "insert_leaf" /\ UNCHANGED <<known, faults>>
      /\ db' = [db EXCEPT ![l].leafs = Append(db[l].leafs, row)]
      /\ call' = [call EXCEPT ![c] = y]
    BY DEF InsertLeaf, Insert
<1>3. l \in Label /\ x.op = "write" /\ x \in Job /\ x.pc \in Working
    BY <1>1, ServedWrite DEF Working
<1>4a. PICK leaf \in Leaves : \E d, at, m :
              /\ want[l] = Wanted(Len(chain[l]), leaf)
              /\ Begun(d, chain[l], at, leaf, m, db[l])
              /\ x.base = chain[l][Len(chain[l])] /\ x.items = <<leaf>>
              /\ x.root = After(chain[l][Len(chain[l])], leaf)
              /\ x.root_idx = Len(d.nodes) + Len(PlanOf(d, leaf)) /\ x.root_idx # NoIdx
              /\ ServingNodes(x, d, leaf, m) \/ ServingLeaf(x, d, leaf, m, db[l])
    BY <1>3, ServedBy
<1>4. PICK d, at, m :
              /\ want[l] = Wanted(Len(chain[l]), leaf)
              /\ Begun(d, chain[l], at, leaf, m, db[l])
              /\ x.base = chain[l][Len(chain[l])] /\ x.items = <<leaf>>
              /\ x.root = After(chain[l][Len(chain[l])], leaf)
              /\ x.root_idx = Len(d.nodes) + Len(PlanOf(d, leaf)) /\ x.root_idx # NoIdx
              /\ ServingNodes(x, d, leaf, m) \/ ServingLeaf(x, d, leaf, m, db[l])
    BY <1>4a
<1>5. /\ db'[l].leafs = Append(db[l].leafs, row) /\ db'[l].nodes = db[l].nodes
      /\ \A k \in Label : k # l => db'[k] = db[k]
    <2>1. db \in [Label -> Tables]
        BY DEF ClientInv, LoadInv
    <2>2. db'[l] = [db[l] EXCEPT !.leafs = Append(db[l].leafs, row)] /\ \A k \in Label : k # l => db'[k] = db[k]
        BY <1>1, <1>3, <2>1
    <2>3. db[l] \in Tables
        BY <1>3, <2>1
    <2> HIDE DEF l, row
    <2> QED
        BY <2>1, <2>2, <2>3 DEF Tables
<1>6. /\ y.pc = "select_leaf" /\ y.op = "write" /\ y.label = l /\ y.base = x.base
      /\ y.items = x.items /\ y.root = x.root /\ y.root_idx = x.root_idx /\ y.leaves = Tail(x.leaves)
    <2> HIDE DEF x
    <2>1. /\ y.pc = "select_leaf" /\ y.leaves = Tail(x.leaves) /\ y.op = x.op /\ y.label = x.label /\ y.base = x.base
          /\ y.items = x.items /\ y.root = x.root /\ y.root_idx = x.root_idx
        BY <1>3 DEF Job
    <2> QED
        BY <1>3, <2>1
<1> HIDE DEF x, l, y
<1>7. m = Len(PlanOf(d, leaf)) /\ x.leaves = <<leaf>> /\ db[l].leafs = d.leafs
    BY <1>1, <1>4 DEF ServingNodes, ServingLeaf
<1>8. Head(x.leaves) = leaf /\ Tail(x.leaves) = <<>>
    BY <1>7
<1>9. row = NewLeaf(d, leaf)
    BY <1>4, <1>8 DEF NewLeaf
<1> HIDE DEF l, row
<1>10. LeafStored(d, leaf, db'[l])
    BY <1>5, <1>7, <1>9 DEF LeafStored
<1>11. Begun(d, chain[l], at, leaf, m, db'[l])
    BY <1>4, <1>5, <1>7, <1>10 DEF Begun, Partial, LeafStored
<1>12. ServingLeaf(y, d, leaf, m, db'[l])
    BY <1>6, <1>7, <1>8, <1>10 DEF ServingLeaf
<1>13. Serving(y, d, chain[l], leaf, m, db'[l])
    BY <1>4, <1>6, <1>12 DEF Serving
<1>14. call' = [call EXCEPT ![c] = y] /\ db'[l].leafs = Append(d.leafs, NewLeaf(d, leaf))
    BY <1>1, <1>10 DEF LeafStored
<1>15. \E u \in Leaves : \E b, a, i, z :
          /\ want[l] = Wanted(Len(chain[l]), u) /\ i = Len(PlanOf(b, u))
          /\ Begun(b, chain[l], a, u, i, db[l]) /\ Begun(b, chain[l], a, u, i, db'[l])
          /\ db[l].leafs = b.leafs /\ db'[l].leafs = Append(b.leafs, NewLeaf(b, u))
          /\ call' = [call EXCEPT ![c] = z] /\ z.op = "write" /\ z.label = l
          /\ Serving(z, b, chain[l], u, i, db'[l])
    BY <1>4, <1>6, <1>7, <1>11, <1>13, <1>14
<1>16. LeafStep(c, l)
    BY <1>3, <1>5, <1>15 DEF LeafStep
<1> QED
    BY <1>16 DEF l, x

LEMMA InsertLeafClient ==
    ASSUME ClientInv, NEW c, Client = {c}, InsertLeaf(c), UNCHANGED clientVars
    PROVE  ClientInv'
<1> DEFINE l == call[c].label
<1>1. LoadInv'
    BY InsertLeafKeeps DEF ClientInv
<1>2. LeafStep(c, l)
    BY InsertLeafMoves
<1> HIDE DEF l
<1>3a. PICK leaf \in Leaves : \E d, at, m, y :
            /\ want[l] = Wanted(Len(chain[l]), leaf) /\ m = Len(PlanOf(d, leaf))
            /\ Begun(d, chain[l], at, leaf, m, db[l]) /\ Begun(d, chain[l], at, leaf, m, db'[l])
            /\ db[l].leafs = d.leafs /\ db'[l].leafs = Append(d.leafs, NewLeaf(d, leaf))
            /\ call' = [call EXCEPT ![c] = y] /\ y.op = "write" /\ y.label = l
            /\ Serving(y, d, chain[l], leaf, m, db'[l])
    BY <1>2 DEF LeafStep
<1>3. PICK d, at, m, y :
            /\ want[l] = Wanted(Len(chain[l]), leaf) /\ m = Len(PlanOf(d, leaf))
            /\ Begun(d, chain[l], at, leaf, m, db[l]) /\ Begun(d, chain[l], at, leaf, m, db'[l])
            /\ db[l].leafs = d.leafs /\ db'[l].leafs = Append(d.leafs, NewLeaf(d, leaf))
            /\ call' = [call EXCEPT ![c] = y] /\ y.op = "write" /\ y.label = l
            /\ Serving(y, d, chain[l], leaf, m, db'[l])
    BY <1>3a
<1>4. l \in Label /\ \A k \in Label : k # l => db'[k] = db[k]
    BY <1>2 DEF LeafStep
<1> QED
    BY <1>1, <1>3, <1>4, ServingStep

LEMMA RespondClient ==
    ASSUME ClientInv, NEW c, Client = {c}, Respond(c), UNCHANGED clientVars
    PROVE  ClientInv'
<1> DEFINE x == call[c]
           l == x.label
           y == [pc |-> "done", op |-> x.op, ok |-> TRUE, label |-> l, base |-> x.base, items |-> x.items,
                 root |-> x.root]
<1>1. /\ x.pc = "select_leaf" /\ x.leaves = <<>> /\ UNCHANGED db /\ call' = [call EXCEPT ![c] = y]
    BY DEF Respond
<1>2. LoadInv'
    BY RespondKeeps DEF ClientInv
<1>3. l \in Label /\ x.op = "write" /\ x \in Job /\ x.pc \in Working
    BY <1>1, ServedWrite DEF Working
<1>4a. PICK leaf \in Leaves : \E d, at, m :
              /\ want[l] = Wanted(Len(chain[l]), leaf)
              /\ Begun(d, chain[l], at, leaf, m, db[l])
              /\ x.base = chain[l][Len(chain[l])] /\ x.items = <<leaf>>
              /\ x.root = After(chain[l][Len(chain[l])], leaf)
              /\ x.root_idx = Len(d.nodes) + Len(PlanOf(d, leaf)) /\ x.root_idx # NoIdx
              /\ ServingNodes(x, d, leaf, m) \/ ServingLeaf(x, d, leaf, m, db[l])
    BY <1>3, ServedBy
<1>4. PICK d, at, m :
              /\ want[l] = Wanted(Len(chain[l]), leaf)
              /\ Begun(d, chain[l], at, leaf, m, db[l])
              /\ x.base = chain[l][Len(chain[l])] /\ x.items = <<leaf>>
              /\ x.root = After(chain[l][Len(chain[l])], leaf)
              /\ x.root_idx = Len(d.nodes) + Len(PlanOf(d, leaf)) /\ x.root_idx # NoIdx
              /\ ServingNodes(x, d, leaf, m) \/ ServingLeaf(x, d, leaf, m, db[l])
    BY <1>4a
<1>5. /\ y.pc = "done" /\ y.op = "write" /\ y.label = l /\ y.base = x.base /\ y.items = x.items /\ y.root = x.root
    BY <1>3
<1> HIDE DEF x, l, y
<1>6. <<>> # <<leaf>>
    OBVIOUS
<1>7. m = Len(PlanOf(d, leaf)) /\ LeafStored(d, leaf, db[l])
    BY <1>1, <1>4, <1>6 DEF ServingNodes, ServingLeaf
<1>8. Answered(y, d, leaf, m, db[l])
    BY <1>5, <1>7 DEF Answered
<1>9. Serving(y, d, chain[l], leaf, m, db'[l]) /\ Begun(d, chain[l], at, leaf, m, db'[l])
    BY <1>1, <1>4, <1>5, <1>8 DEF Serving
<1>10. call' = [call EXCEPT ![c] = y] /\ \A k \in Label : k # l => db'[k] = db[k]
    BY <1>1
<1> QED
    BY <1>2, <1>3, <1>4, <1>5, <1>9, <1>10, ServingStep

LEMMA CrashClient ==
    ASSUME ClientInv, NEW c, Client = {c}, Crash, UNCHANGED clientVars
    PROVE  ClientInv'
<1>1. /\ call[c].pc \notin {"idle", "done"} /\ UNCHANGED db
      /\ call' = [k \in Client |-> IF call[k].pc = "done" THEN call[k] ELSE Idle]
    BY DEF Crash
<1>2. LoadInv'
    BY CrashKeeps DEF ClientInv
<1>3. call' = [call EXCEPT ![c] = Idle]
    BY <1>1 DEF ClientInv, LoadInv
<1>4. Idle.pc \notin Working /\ Idle.pc # "done" /\ \A l \in Label : ~ Writes(Idle, l)
    BY DEF Idle, Working, Writes
<1> QED
    BY <1>1, <1>2, <1>3, <1>4, TellsNothing, QuietClient

LEMMA StatementFailsClient ==
    ASSUME ClientInv, NEW c, Client = {c}, StatementFails(c), UNCHANGED clientVars
    PROVE  ClientInv'
<1> DEFINE x == call[c]
           y == Failure(x.op, x.label, x.base, x.items)
<1>1. x.pc \in {"insert_node", "insert_leaf", "select_node", "select_leaf"} /\ UNCHANGED db
      /\ call' = [call EXCEPT ![c] = y]
    <2>1. x.pc \notin {"select_root", "max_idx"}
        BY RootIsAdded
    <2> QED
        BY <2>1 DEF StatementFails
<1>2. LoadInv'
    BY StatementFailsKeeps DEF ClientInv
<1>3. x.op = "write"
    <2>1. x.pc \in Working
        BY <1>1 DEF Working
    <2> QED
        BY <2>1, ServedWrite
<1>4. y.pc = "done" /\ y.op = "write" /\ y.ok = FALSE
    BY <1>3 DEF Failure
<1> HIDE DEF y
<1>5. y.pc \notin Working /\ \A l \in Label : ~ Writes(y, l)
    BY <1>4 DEF Working, Writes
<1>6. TrueAnswer(y)
    BY <1>4, TellsNothing
<1> QED
    BY <1>1, <1>2, <1>5, <1>6, QuietClient

-----------------------------------------------------------------------------
(* The steps of the client. *)

LEMMA TakeAnswerClient ==
    ASSUME ClientInv, NEW c, Client = {c}, TakeAnswer(c)
    PROVE  ClientInv'
<1>1. call' = [call EXCEPT ![c] = Idle] /\ UNCHANGED <<db, clientVars>>
    BY DEF TakeAnswer, Return
<1>2. LoadInv'
    BY ReturnKeeps DEF ClientInv, TakeAnswer
<1>3. Idle.pc \notin Working /\ Idle.pc # "done" /\ \A l \in Label : ~ Writes(Idle, l)
    BY DEF Idle, Working, Writes
<1> QED
    BY <1>1, <1>2, <1>3, TellsNothing, QuietClient

LEMMA StillClient ==
    ASSUME ClientInv, UNCHANGED allVars
    PROVE  ClientInv'
<1>1. UNCHANGED <<db, known, call, faults, chain, meant, want>>
    BY DEF allVars, vars, clientVars
<1>2. LoadInv'
    BY <1>1 DEF ClientInv, LoadInv
<1> QED
    BY <1>1, <1>2 DEF ClientInv

LEMMA AskedFor ==
    ASSUME NEW w, NEW e, NEW ch, NEW x, NEW l, LabelState(e, ch, w, x, l)
    PROVE  /\ w = NoWant => ~ Writes(x, l) /\ \E at : Settled(e, ch, at, KeyLength)
           /\ w # NoWant => \E leaf \in Leaves : \E d, at, m :
                               /\ w = Wanted(Len(ch), leaf) /\ Begun(d, ch, at, leaf, m, e)
                               /\ Writes(x, l) => Serving(x, d, ch, leaf, m, e)
<1>1. \A n, leaf : Wanted(n, leaf) # NoWant
    BY DEF Wanted, NoWant
<1> QED
    BY <1>1 DEF LabelState

(* The write goes out, whatever part of its rows the tables have. *)
LEMMA SendClient ==
    ASSUME ClientInv, NEW c, Client = {c}, NEW l \in Label, NEW leaf \in Leaves,
           NEW d, NEW at, NEW m, Begun(d, chain[l], at, leaf, m, db[l]), Send(c, l, Len(chain[l]), leaf)
    PROVE  ClientInv'
<1> DEFINE ch == chain[l]
           e == db[l]
<1>3. Begun(d, ch, at, leaf, m, e)
    OBVIOUS
<1> DEFINE base == ch[Len(ch)]
           update == TrieUpdate(e, 0, RootIdx(e, base), <<leaf>>)
           y == Persist("write", l, base, <<leaf>>, update)
<1>5. Update(c, "write", l, base, <<leaf>>)
    BY DEF Send, Write
<1> HIDE DEF e, ch
<1>6. Settled(d, ch, at, KeyLength) /\ Ready(ch, leaf, KeyLength) /\ Partial(d, leaf, m, e)
    BY <1>3 DEF Begun
<1>7. CanOpen(e, base) /\ RootIdx(e, base) = Len(d.nodes) /\ Len(ch) \in 1..Len(ch) /\ base \in Hash
    <2>1. Len(ch) \in 1..Len(ch)
        BY <1>6, SettledIs
    <2>2. /\ \A n \in 1..Len(ch) : CanOpen(e, ch[n]) /\ RootIdx(e, ch[n]) = at[n]
          /\ RootIdx(e, ch[Len(ch)]) = Len(d.nodes)
          /\ TrieUpdate(e, 0, Len(d.nodes), <<leaf>>) = UpdateOf(d, leaf)
        BY <1>6, PlanIsKept
    <2>3. ch \in Seq(Hash)
        BY <1>6 DEF Settled, History
    <2> QED
        BY <2>1, <2>2, <2>3
<1>8. update = UpdateOf(d, leaf)
    <2>1. /\ \A n \in 1..Len(ch) : CanOpen(e, ch[n]) /\ RootIdx(e, ch[n]) = at[n]
          /\ RootIdx(e, ch[Len(ch)]) = Len(d.nodes)
          /\ TrieUpdate(e, 0, Len(d.nodes), <<leaf>>) = UpdateOf(d, leaf)
        BY <1>6, PlanIsKept
    <2> QED
        BY <1>7, <2>1
<1>9. update.ok /\ update.root_commitment = After(base, leaf)
    <2>1. UpdateOf(d, leaf).ok /\ UpdateOf(d, leaf).root_commitment = After(ch[Len(ch)], leaf)
        BY <1>6, PlanLeads
    <2> QED
        BY <1>8, <2>1
<1>10. call' = [call EXCEPT ![c] = y] /\ UNCHANGED <<db, known, faults>>
    BY <1>5, <1>7, <1>9 DEF Update, e
<1>11. LoadInv'
    <2>1. <<leaf>> \in Seq(Leaves)
        BY KeysAndValues
    <2>2. LoadInv
        BY DEF ClientInv
    <2> HIDE DEF base
    <2> QED
        BY <1>5, <1>7, <2>1, <2>2, UpdateKeeps
<1>12. /\ y.pc = "select_node" /\ y.op = "write" /\ y.label = l /\ y.base = base /\ y.items = <<leaf>>
       /\ y.root = update.root_commitment /\ y.nodes = NodesToPersist(update, RootIdx(e, base))
       /\ y.root_idx = RootIndexIn(NodesToPersist(update, RootIdx(e, base)), update.root_commitment)
       /\ y.leaves = <<leaf>>
    <2> HIDE DEF update, base, e
    <2> QED
        BY <1>10 DEF Persist, e
<1>13. y.nodes = PlanOf(d, leaf) /\ y.root = After(base, leaf)
    BY <1>7, <1>8, <1>9, <1>12 DEF PlanOf
<1>14. y.root_idx = Len(d.nodes) + Len(PlanOf(d, leaf))
    <2>1. RootIndexIn(PlanOf(d, leaf), After(ch[Len(ch)], leaf)) = Len(d.nodes) + Len(PlanOf(d, leaf))
        BY <1>6, PlanRoot
    <2>2. y.root_idx = RootIndexIn(y.nodes, y.root)
        BY <1>12
    <2> HIDE DEF y
    <2> QED
        BY <1>13, <2>1, <2>2
<1> HIDE DEF y, update
<1>15. ServingNodes(y, d, leaf, m)
    <2>1. PlanOf(d, leaf) \in Seq(NodeRow) /\ m \in 0..Len(PlanOf(d, leaf)) /\ Len(PlanOf(d, leaf)) \in Nat
        BY <1>3, BegunIs
    <2>2. 0 \in 0..m /\ 0 \in 0..Len(PlanOf(d, leaf)) /\ 0 + 1 = 1
        BY <2>1
    <2>3. RowsFrom(PlanOf(d, leaf), 1) = PlanOf(d, leaf)
        BY <2>1, <2>2, RowsFromIs
    <2> QED
        BY <1>12, <1>13, <2>2, <2>3 DEF ServingNodes
<1>16. Serving(y, d, ch, leaf, m, e)
    BY <1>12, <1>13, <1>14, <1>15 DEF Serving
<1>17. /\ y.op = "write" /\ y.label = l
       /\ Begun(d, chain[l], at, leaf, m, db'[l]) /\ Serving(y, d, chain[l], leaf, m, db'[l])
       /\ \A k \in Label : k # l => db'[k] = db[k]
    BY <1>3, <1>10, <1>12, <1>16 DEF ch, e
<1>18. /\ want' = [want EXCEPT ![l] = Wanted(Len(chain[l]), leaf)] /\ UNCHANGED <<chain, meant>>
       /\ DOMAIN want = Label
    BY DEF Send, ClientInv
<1>19. /\ DOMAIN want' = Label /\ want'[l] = Wanted(Len(chain[l]), leaf)
       /\ \A k \in Label : k # l => want'[k] = want[k]
    BY <1>18
<1> QED
    BY <1>10, <1>11, <1>17, <1>18, <1>19, WriteStep

LEMMA SubmitClient ==
    ASSUME ClientInv, Rules = AllRules, NEW c, Client = {c}, NEW l \in Label, NEW n, NEW leaf \in Leaves,
           Submit(c, l, n, leaf)
    PROVE  ClientInv'
<1> DEFINE ch == chain[l]
           d == db[l]
           target == After(ch[Len(ch)], leaf)
<1>1. want[l] = NoWant /\ Follows(l, n, leaf) /\ Send(c, l, n, leaf)
    BY DEF Submit
<1>2. LabelState(d, ch, want[l], call[c], l)
    BY DEF ClientInv
<1>3. PICK at : Settled(d, ch, at, KeyLength)
    BY <1>1, <1>2, AskedFor
<1>5. /\ n = Len(ch) /\ target # {} /\ NewPair(d, leaf) /\ \A i \in DOMAIN ch : ch[i] # target
    BY <1>1, UpsertIs DEF Follows, AllRules, NewPair, ClientInv, EmptyHash
<1>6. Ready(ch, leaf, KeyLength)
    <2>1. leaf \in Item /\ Len(leaf.key) = KeyLength
        BY KeyLengthIs
    <2>2. DOMAIN ch = 1..Len(ch)
        BY DEF ClientInv
    <2> QED
        BY <1>5, <2>1, <2>2 DEF Ready
<1> HIDE DEF ch, d, target
<1>7. Partial(d, leaf, 0, d)
    <2>1. Leads(d, PlanOf(d, leaf), After(ch[Len(ch)], leaf), KeyLength)
        BY <1>3, <1>6, PlanLeads
    <2>2. Len(PlanOf(d, leaf)) \in Nat
        BY <2>1 DEF Leads
    <2>3. SubSeq(PlanOf(d, leaf), 1, 0) = <<>>
        BY SubSeqEmpty
    <2>4. d.nodes \in Seq(NodeRow)
        <3>1. GoodTables(d)
            BY <1>3, SettledIs
        <3> QED
            BY <3>1 DEF GoodTables
    <2>5. d.nodes \o <<>> = d.nodes
        BY <2>4, ConcatEmptySeq
    <2>6. 0 \in 0..Len(PlanOf(d, leaf))
        BY <2>2
    <2> QED
        BY <2>3, <2>5, <2>6 DEF Partial
<1>8. Begun(d, ch, at, leaf, 0, d)
    BY <1>3, <1>5, <1>6, <1>7 DEF Begun
<1>9. Begun(d, chain[l], at, leaf, 0, db[l]) /\ Send(c, l, Len(chain[l]), leaf)
    BY <1>1, <1>5, <1>8 DEF ch, d
<1> QED
    BY <1>9, SendClient

(* The tables have a part of the rows of the write that was lost, or all. *)
LEMMA NextRunClient ==
    ASSUME ClientInv, Rules = AllRules, NEW c, Client = {c}, NEW l \in Label, NEW n, NEW leaf \in Leaves,
           SubmitInNextRun(c, l, n, leaf)
    PROVE  ClientInv'
<1> DEFINE ch == chain[l]
           e == db[l]
<1>1. want[l] # NoWant /\ want[l] = Wanted(n, leaf) /\ Send(c, l, n, leaf)
    BY DEF SubmitInNextRun, AllRules
<1>2. LabelState(e, ch, want[l], call[c], l)
    BY DEF ClientInv
<1> HIDE DEF e, ch
<1>3a. PICK u \in Leaves : \E d, at, m : want[l] = Wanted(Len(ch), u) /\ Begun(d, ch, at, u, m, e)
    BY <1>1, <1>2, AskedFor
<1>3. PICK d, at, m : want[l] = Wanted(Len(ch), u) /\ Begun(d, ch, at, u, m, e)
    BY <1>3a
<1>4. n = Len(ch) /\ leaf = u
    <2>1. Wanted(n, leaf).base = n /\ Wanted(n, leaf).leaf = leaf
        BY DEF Wanted
    <2>2. Wanted(Len(ch), u).base = Len(ch) /\ Wanted(Len(ch), u).leaf = u
        BY DEF Wanted
    <2> QED
        BY <1>1, <1>3, <2>1, <2>2
<1>5. Begun(d, chain[l], at, leaf, m, db[l]) /\ Send(c, l, Len(chain[l]), leaf)
    BY <1>1, <1>3, <1>4 DEF ch, e
<1> QED
    BY <1>5, SendClient

LEMMA AcknowledgeClient ==
    ASSUME ClientInv, NEW c, Client = {c}, NEW l \in Label, Acknowledge(c, l)
    PROVE  ClientInv'
<1> DEFINE ch == chain[l]
           e == db[l]
           x == call[c]
<1>1. /\ x.pc = "done" /\ x.op = "write" /\ x.ok /\ x.label = l /\ want[l] # NoWant
      /\ chain' = [chain EXCEPT ![l] = Append(ch, x.root)]
      /\ meant' = [meant EXCEPT ![l] = Append(meant[l], Upsert(meant[l][want[l].base], want[l].leaf))]
      /\ want' = [want EXCEPT ![l] = NoWant]
      /\ call' = [call EXCEPT ![c] = Idle] /\ UNCHANGED <<db, known, faults>>
    BY DEF Acknowledge, Awaited, Return
<1>2. LabelState(e, ch, want[l], x, l)
    BY DEF ClientInv
<1>3. LoadInv'
    BY ReturnKeeps DEF ClientInv, Acknowledge
<1> HIDE DEF e, ch, x
<1>4. Writes(x, l)
    BY <1>1 DEF Writes
<1>5a. PICK leaf \in Leaves : \E d, at, m :
          want[l] = Wanted(Len(ch), leaf) /\ Begun(d, ch, at, leaf, m, e) /\ Serving(x, d, ch, leaf, m, e)
    BY <1>1, <1>2, <1>4, AskedFor
<1>5. PICK d, at, m :
          want[l] = Wanted(Len(ch), leaf) /\ Begun(d, ch, at, leaf, m, e) /\ Serving(x, d, ch, leaf, m, e)
    BY <1>5a
<1> DEFINE target == After(ch[Len(ch)], leaf)
           longer == Append(ch, target)
<1>6. want[l].base = Len(ch) /\ want[l].leaf = leaf
    BY <1>5 DEF Wanted
<1>7. x.root = target /\ Answered(x, d, leaf, m, e)
    BY <1>1, <1>5 DEF Serving, ServingNodes, ServingLeaf
<1>8. /\ Settled(d, ch, at, KeyLength) /\ Ready(ch, leaf, KeyLength)
      /\ Partial(d, leaf, Len(PlanOf(d, leaf)), e) /\ e.leafs = Append(d.leafs, NewLeaf(d, leaf))
    BY <1>5, <1>7 DEF Begun, Answered, LeafStored
<1>9. Settled(e, longer, Append(at, Len(d.nodes) + Len(PlanOf(d, leaf))), KeyLength)
    BY <1>8, WriteSettles
<1>10. longer \in Seq(Hash) /\ Len(longer) = Len(ch) + 1 /\ longer[Len(ch) + 1] = target
       /\ \A n \in 1..Len(ch) : longer[n] = ch[n]
    <2>1. longer \in Seq(Hash) /\ ch \in Seq(Hash)
        BY <1>8, <1>9 DEF Settled, History
    <2>2. Len(ch) \in 1..Len(ch)
        BY <1>8, SettledIs
    <2>3. target \in Hash
        <3>1. History(longer, KeyLength)
            BY <1>9 DEF Settled
        <3>2. Len(longer) = Len(ch) + 1 /\ longer[Len(ch) + 1] = target /\ Len(ch) \in Nat
            BY <2>1, AppendProperties
        <3>3. Len(ch) + 1 \in 1..Len(longer)
            BY <3>2
        <3> HIDE DEF longer
        <3> QED
            BY <2>1, <3>2, <3>3
    <2> HIDE DEF target
    <2> QED
        BY <2>1, <2>3, AppendIs
<1>11. /\ chain'[l] = longer /\ meant' = chain' /\ want'[l] = NoWant
       /\ \A k \in Label : k # l => chain'[k] = chain[k] /\ want'[k] = want[k]
       /\ chain' \in [Label -> Seq(Hash)] /\ DOMAIN want' = Label
    <2>1. chain \in [Label -> Seq(Hash)] /\ meant = chain /\ DOMAIN want = Label
        BY DEF ClientInv
    <2>2. Upsert(meant[l][want[l].base], want[l].leaf) = target
        BY <1>6, <2>1, UpsertIs DEF ch
    <2>3. chain' = [chain EXCEPT ![l] = longer] /\ meant' = [chain EXCEPT ![l] = longer]
        BY <1>1, <1>7, <2>1, <2>2 DEF ch
    <2>4. longer \in Seq(Hash)
        BY <1>10
    <2> HIDE DEF longer, target
    <2>5. chain'[l] = longer /\ \A k \in Label : k # l => chain'[k] = chain[k]
        BY <2>1, <2>3
    <2>6. chain' \in [Label -> Seq(Hash)]
        BY <2>1, <2>3, <2>4
    <2>7. want'[l] = NoWant /\ DOMAIN want' = Label /\ \A k \in Label : k # l => want'[k] = want[k]
        BY <1>1, <2>1
    <2> QED
        BY <2>3, <2>5, <2>6, <2>7
<1>12. \A n \in 1..Len(longer) : OverKeys(longer[n])
    <2>1. \A n \in 1..Len(ch) : OverKeys(ch[n])
        BY DEF ClientInv, ch
    <2>2. Len(ch) \in 1..Len(ch) /\ Len(ch) \in Nat
        BY <1>8, SettledIs
    <2>3. OverKeys(target)
        <3>1. OverKeys(ch[Len(ch)]) /\ leaf.key \in Key /\ leaf.value \in Value
            BY <2>1, <2>2, KeyLengthIs
        <3> QED
            BY <3>1 DEF OverKeys, After
    <2>4. \A n \in 1..Len(longer) : n \in 1..Len(ch) \/ n = Len(ch) + 1
        BY <1>10, <2>2
    <2> HIDE DEF longer, target
    <2> QED
        BY <1>10, <2>1, <2>3, <2>4
<1> HIDE DEF longer, target
<1>13. Idle.pc \notin Working /\ Idle.pc # "done" /\ \A k \in Label : ~ Writes(Idle, k)
    BY DEF Idle, Working, Writes
<1>14. ASSUME NEW k \in Label PROVE LabelState(db'[k], chain'[k], want'[k], Idle, k)
    <2>1. CASE k = l
        BY <1>1, <1>9, <1>11, <1>13, <2>1 DEF LabelState, e
    <2>2. CASE k # l
        <3>1. LabelState(db[k], chain[k], want[k], call[c], k)
            BY DEF ClientInv
        <3>2. LabelState(db[k], chain[k], want[k], Idle, k)
            BY <1>13, <3>1, NoLongerWrites
        <3> QED
            BY <1>1, <1>11, <2>2, <3>2
    <2> QED
        BY <2>1, <2>2
<1>15. \A k \in Label : \A n \in 1..Len(chain'[k]) : OverKeys(chain'[k][n])
    <2> TAKE k \in Label
    <2>1. CASE k = l
        BY <1>11, <1>12, <2>1
    <2>2. CASE k # l
        BY <1>11, <2>2 DEF ClientInv
    <2> QED
        BY <2>1, <2>2
<1>16. TrueAnswer(Idle)
    BY <1>13, TellsNothing
<1> QED
    BY <1>1, <1>3, <1>11, <1>13, <1>14, <1>15, <1>16, ClientStep

-----------------------------------------------------------------------------
(* The answers to queries. *)

(* A value that is as HasValue says is the one the state gives the key. *)
LEMMA GivenIs ==
    ASSUME NEW root \in Hash, OverKeys(root), \A e \in root : e[2] # Zero, NEW k \in Key,
           NEW v, HasValue(root, k, v)
    PROVE  Given(v) = Lookup(root, k) /\ Given(v) \in Value /\ Given(v) \in Nat
<1>1. \A e \in root : e = <<e[1], e[2]>> /\ e[1] \in Key /\ e[2] \in Value
    BY DEF Hash, OverKeys
<1>2. Zero \in Value /\ Value \subseteq Nat
    BY ServerAssumption DEF ServerAssumption
<1>3. CASE \A e \in root : e[1] # k
    <2>1. v \in {NoLeaf, Zero} /\ Given(v) = Zero
        BY <1>3 DEF HasValue, Given
    <2>2. ~ \E u \in Value : <<k, u>> \in root
        BY <1>3
    <2>3. Lookup(root, k) = Zero
        BY <2>2 DEF Lookup
    <2> QED
        BY <1>2, <2>1, <2>3
<1>4. CASE \E e \in root : e[1] = k
    <2>1. PICK e \in root : e[1] = k
        BY <1>4
    <2>2. e = <<k, v>> /\ v \in Value
        BY <1>1, <2>1 DEF HasValue
    <2>3. \A u : <<k, u>> \in root => u = v
        BY DEF HasValue
    <2>4. (CHOOSE u \in Value : <<k, u>> \in root) = v
        BY <2>2, <2>3
    <2>5. Lookup(root, k) = v
        BY <2>2, <2>4 DEF Lookup
    <2>6. Given(v) = v
        <3>1. v \in Nat /\ NoLeaf \notin Nat
            BY <1>2, <2>2 DEF NoLeaf
        <3> QED
            BY <3>1 DEF Given
    <2> QED
        BY <1>2, <2>2, <2>5, <2>6
<1> QED
    BY <1>3, <1>4

LEMMA LeafGiven ==
    ASSUME NEW k, NEW v
    PROVE  LeafOrEmpty(k, v) = [key |-> k, value |-> Given(v)]
BY DEF LeafOrEmpty, Given

(* The states of a label, whether a write of it was lost or not: they open  *)
(* in its tables, and read as they should.                                  *)
Kept(l, at) ==
    /\ Told(db[l], chain[l], at, KeyLength)
    /\ \A n \in 1..Len(chain[l]) :
          /\ CanOpen(db[l], chain[l][n]) /\ RootIdx(db[l], chain[l][n]) = at[n]
          /\ chain[l][n] \in Hash
          /\ \A k \in Key :
                /\ HasValue(chain[l][n], k, LeafAt(db[l], k, at[n]))
                /\ Given(LeafAt(db[l], k, at[n])) = Lookup(chain[l][n], k)
                /\ Given(LeafAt(db[l], k, at[n])) \in Nat

LEMMA StatesKept ==
    ASSUME ClientInv, NEW c, Client = {c}, NEW l \in Label
    PROVE  \E at : Kept(l, at)
<1> DEFINE e == db[l]
           ch == chain[l]
<1>1. LabelState(e, ch, want[l], call[c], l) /\ \A n \in 1..Len(ch) : OverKeys(ch[n])
    BY DEF ClientInv
<1> HIDE DEF e, ch
<1>2. \E at : Told(e, ch, at, KeyLength)
    <2>1. CASE want[l] = NoWant
        <3>1. PICK at : Settled(e, ch, at, KeyLength)
            BY <1>1, <2>1, AskedFor
        <3> QED
            BY <3>1, SettledTells
    <2>2. CASE want[l] # NoWant
        <3>1a. PICK leaf \in Leaves : \E d, at, m : Begun(d, ch, at, leaf, m, e)
            BY <1>1, <2>2, AskedFor
        <3>1. PICK d, at, m : Begun(d, ch, at, leaf, m, e)
            BY <3>1a
        <3>2. Settled(d, ch, at, KeyLength) /\ Ready(ch, leaf, KeyLength) /\ Partial(d, leaf, m, e)
            BY <3>1 DEF Begun
        <3>3. Told(e, ch, at, KeyLength)
            BY <3>2, PartialTells
        <3> QED
            BY <3>3
    <2> QED
        BY <2>1, <2>2
<1>3. PICK at : Told(e, ch, at, KeyLength)
    BY <1>2
<1>4. \A n \in 1..Len(ch) : CanOpen(e, ch[n]) /\ RootIdx(e, ch[n]) = at[n]
    BY <1>3 DEF Told
<1>5. \A n \in 1..Len(ch) : ch[n] \in Hash /\ \A x \in ch[n] : x[2] # Zero
    BY <1>3 DEF Told, History
<1>6. ASSUME NEW n \in 1..Len(ch), NEW k \in Key
      PROVE  /\ HasValue(ch[n], k, LeafAt(e, k, at[n])) /\ Given(LeafAt(e, k, at[n])) = Lookup(ch[n], k)
             /\ Given(LeafAt(e, k, at[n])) \in Nat
    <2>1. k \in Bits
        BY KeyLengthIs
    <2>2. HasValue(ch[n], k, LeafAt(e, k, at[n]))
        BY <1>3, <2>1 DEF Told
    <2>3. OverKeys(ch[n]) /\ ch[n] \in Hash /\ \A x \in ch[n] : x[2] # Zero
        BY <1>1, <1>5
    <2> QED
        BY <2>2, <2>3, GivenIs
<1>7. \A n \in 1..Len(ch) :
         /\ CanOpen(e, ch[n]) /\ RootIdx(e, ch[n]) = at[n] /\ ch[n] \in Hash
         /\ \A k \in Key : /\ HasValue(ch[n], k, LeafAt(e, k, at[n]))
                           /\ Given(LeafAt(e, k, at[n])) = Lookup(ch[n], k)
                           /\ Given(LeafAt(e, k, at[n])) \in Nat
    BY <1>4, <1>5, <1>6
<1>8. Kept(l, at)
    BY <1>3, <1>7 DEF e, ch, Kept
<1> QED
    BY <1>8

LEMMA AnswerClient ==
    ASSUME ClientInv, NEW c, Client = {c}, NEW x, Answer(c, x), UNCHANGED clientVars,
           x.pc = "done", x.op # "write", TrueAnswer(x)
    PROVE  ClientInv'
<1>1. call' = [call EXCEPT ![c] = x] /\ UNCHANGED <<db, known, faults>>
    BY DEF Answer
<1>2. CallOK(db, x) /\ x.pc \notin Working /\ \A l \in Label : ~ Writes(x, l)
    BY DEF CallOK, Working, Writes
<1>3. LoadInv'
    BY <1>1, <1>2, QuietStep DEF ClientInv
<1> QED
    BY <1>1, <1>2, <1>3, QuietClient

LEMMA ReadIsTrue ==
    ASSUME ClientInv, NEW c, Client = {c}, NEW l \in Label,
           NEW n \in 1..Len(chain[l]), NEW k \in Key
    PROVE  LET x == ReadReply(l, chain[l][n], k) IN x.pc = "done" /\ x.op # "write" /\ TrueAnswer(x)
<1> DEFINE d == db[l]
           root == chain[l][n]
           x == ReadReply(l, root, k)
<1>0. PICK at : Kept(l, at)
    BY StatesKept
<1>1. /\ CanOpen(d, root) /\ RootIdx(d, root) = at[n]
      /\ Given(LeafAt(d, k, at[n])) = Lookup(root, k)
    BY <1>0 DEF Kept
<1>2. x = [pc |-> "done", op |-> "read", ok |-> TRUE, label |-> l, root |-> root, key |-> k,
           value |-> LeafAt(d, k, at[n])]
    BY <1>1 DEF ReadReply
<1> HIDE DEF d, root, x
<1>3. x.pc = "done" /\ x.op = "read" /\ x.ok /\ x.root = root /\ x.key = k /\ x.value = LeafAt(d, k, at[n])
    BY <1>2
<1>4. TrueAnswer(x)
    BY <1>1, <1>3, LeafGiven DEF TrueAnswer
<1> QED
    BY <1>3, <1>4 DEF x, root

LEMMA ProofShape ==
    ASSUME NEW proof \in Seq(ProofNode)
    PROVE  proof # NoProof
<1>1. NoProof[1].kind = "None" /\ Len(NoProof) = 1
    BY DEF NoProof
<1>2. NoProof \notin Seq(ProofNode)
    <2> SUFFICES ASSUME NoProof \in Seq(ProofNode) PROVE FALSE
        OBVIOUS
    <2>1. NoProof[1] \in ProofNode
        BY <1>1, SMTT(30)
    <2> QED
        BY <1>1, <2>1 DEF ProofNode
<1> QED
    BY <1>2

LEMMA ReadProofIsTrue ==
    ASSUME ClientInv, NEW c, Client = {c}, NEW l \in Label,
           NEW n \in 1..Len(chain[l]), NEW k \in Key
    PROVE  LET x == ReadProofReply(l, chain[l][n], k) IN x.pc = "done" /\ x.op # "write" /\ TrueAnswer(x)
<1> DEFINE d == db[l]
           root == chain[l][n]
           p == StateProofRead(d, root, k)
           x == ReadProofReply(l, root, k)
<1>0. PICK at : Kept(l, at)
    BY StatesKept
<1>1. /\ Told(d, chain[l], at, KeyLength)
      /\ CanOpen(d, root) /\ RootIdx(d, root) = at[n] /\ root \in Hash
      /\ HasValue(root, k, LeafAt(d, k, at[n]))
      /\ Given(LeafAt(d, k, at[n])) = Lookup(root, k) /\ Given(LeafAt(d, k, at[n])) \in Nat
    BY <1>0 DEF Kept
<1> HIDE DEF d
<1>2. k \in Bits /\ k # <<>> /\ Len(k) = KeyLength
    BY KeyLengthIs, KeysAndValues
<1>3. /\ p.trie_root = root /\ p.leaf.key = k /\ p.leaf.value = Lookup(root, k)
      /\ GoodProof(p.state_proof, root, p.leaf)
    <2>1. CASE root = EmptyHash
        <3>1. p = [trie_root |-> root, leaf |-> [key |-> k, value |-> Zero], state_proof |-> <<>>]
            BY <2>1 DEF StateProofRead
        <3>2. Lookup(root, k) = Zero
            BY <2>1 DEF Lookup, EmptyHash
        <3> DEFINE leaf == [key |-> k, value |-> Zero]
        <3>3. p.trie_root = root /\ p.leaf = leaf /\ p.state_proof = <<>> /\ leaf.key = k /\ leaf.value = Zero
            BY <3>1
        <3> HIDE DEF p, leaf
        <3>4. <<>> \in Seq(ProofNode) /\ VerifyProof(<<>>, {}, leaf) = "NonMember"
            BY <1>2, <3>3, EmptyProof
        <3> QED
            BY <2>1, <3>2, <3>3, <3>4 DEF GoodProof, EmptyHash
    <2>2. CASE root # EmptyHash
        <3> DEFINE leaf == LeafOrEmpty(k, LeafAt(d, k, at[n]))
        <3>1. p = [trie_root |-> root, leaf |-> leaf, state_proof |-> GetLeafProof(d, at[n], root, k)]
            BY <1>1, <2>2 DEF StateProofRead
        <3>2. leaf.key = k /\ leaf.value = Given(LeafAt(d, k, at[n])) /\ leaf.value \in Nat
            BY <1>1, LeafGiven
        <3>3. p.trie_root = root /\ p.leaf = leaf /\ p.state_proof = GetLeafProof(d, at[n], root, k)
            BY <3>1
        <3> HIDE DEF p, leaf
        <3>4. leaf.key \in Bits /\ Len(leaf.key) = KeyLength /\ HasValue(chain[l][n], leaf.key, LeafAt(d, k, at[n]))
            BY <1>1, <1>2, <3>2
        <3>5. GoodProof(GetLeafProof(d, at[n], chain[l][n], leaf.key), chain[l][n], leaf)
            BY <1>1, <3>2, <3>4, ToldProof
        <3> QED
            BY <1>1, <3>2, <3>3, <3>5
    <2> QED
        BY <2>1, <2>2
<1> HIDE DEF root, p
<1>4. p.state_proof # NoProof
    BY <1>3, ProofShape DEF GoodProof
<1>5. x = ProofReply("read_proof", l, root, {p})
    <2>1. {q \in (IF CanOpen(d, root) THEN {p} ELSE {}) : q.state_proof # NoProof} = {p}
        BY <1>1, <1>4
    <2> QED
        BY <2>1 DEF ReadProofReply, p, d
<1> HIDE DEF x
<1>6. x.pc = "done" /\ x.op = "read_proof" /\ x.ok /\ x.proof = p
    BY <1>5, TheOne DEF ProofReply
<1>7. TrueAnswer(x)
    BY <1>3, <1>6 DEF TrueAnswer, GoodProof, Standing
<1> QED
    BY <1>6, <1>7 DEF x, root

LEMMA WriteProofIsTrue ==
    ASSUME ClientInv, NEW c, Client = {c}, NEW l \in Label,
           NEW n \in 1..Len(chain[l]), n + 1 \in 1..Len(chain[l]), NEW leaf \in Leaves,
           chain[l][n + 1] = After(chain[l][n], leaf)
    PROVE  LET x == WriteProofReply(l, chain[l][n], leaf) IN x.pc = "done" /\ x.op # "write" /\ TrueAnswer(x)
<1> DEFINE d == db[l]
           ch == chain[l]
           root == ch[n]
           p == StateProofWrite(d, root, leaf)
           x == WriteProofReply(l, root, leaf)
<1>1. leaf \in Item /\ Len(leaf.key) = KeyLength /\ leaf.key \in Key
    BY KeyLengthIs
<1>0. PICK at : Kept(l, at)
    BY StatesKept
<1>2. /\ Told(d, ch, at, KeyLength)
      /\ Given(LeafAt(d, leaf.key, at[n])) = Lookup(root, leaf.key)
    BY <1>0, <1>1 DEF Kept
<1> HIDE DEF d, ch
<1>3. CanProveWrite(d, root, leaf)
      /\ LET q == StateProofWrite(d, ch[n], leaf)
         IN  /\ q.trie_root_prev = ch[n] /\ q.trie_root_post = ch[n + 1]
             /\ q.leaf_prev = LeafOrEmpty(leaf.key, LeafAt(d, leaf.key, at[n])) /\ q.leaf_post = leaf
             /\ GoodProof(q.state_proof_prev, ch[n], q.leaf_prev)
             /\ GoodProof(q.state_proof_post, ch[n + 1], leaf)
    BY <1>1, <1>2, ToldWriteProof DEF ch
<1>4. /\ p.trie_root_prev = root /\ p.trie_root_post = ch[n + 1]
      /\ p.leaf_prev = LeafOrEmpty(leaf.key, LeafAt(d, leaf.key, at[n])) /\ p.leaf_post = leaf
      /\ GoodProof(p.state_proof_prev, root, p.leaf_prev) /\ GoodProof(p.state_proof_post, ch[n + 1], leaf)
    BY <1>3
<1>5. ch[n + 1] = Upsert(root, leaf)
    BY UpsertIs DEF ch
<1> HIDE DEF root, p
<1>6. p.leaf_prev.value = Lookup(p.trie_root_prev, p.leaf_prev.key)
    BY <1>2, <1>4, LeafGiven
<1>7. p.state_proof_prev # NoProof /\ p.state_proof_post # NoProof
    BY <1>4, ProofShape DEF GoodProof
<1>8. x = ProofReply("write_proof", l, root, {p})
    <2>1. {q \in (IF CanProveWrite(d, root, leaf) THEN {p} ELSE {}) :
              NoProof \notin {q.state_proof_prev, q.state_proof_post}} = {p}
        BY <1>3, <1>7
    <2> QED
        BY <2>1 DEF WriteProofReply, p, d
<1> HIDE DEF x
<1>9. x.pc = "done" /\ x.op = "write_proof" /\ x.ok /\ x.proof = p
    BY <1>8, TheOne DEF ProofReply
<1>10. TrueAnswer(x)
    BY <1>4, <1>5, <1>6, <1>9 DEF TrueAnswer, GoodProof, Standing
<1> QED
    BY <1>9, <1>10 DEF x, root, ch

LEMMA QueryClient ==
    ASSUME ClientInv, NEW c, Client = {c}, NEW l \in Label, Query(c, l)
    PROVE  ClientInv'
<1>1. UNCHANGED clientVars
    BY DEF Query
<1>2. PICK n \in DOMAIN chain[l], k \in Key :
          \/ Read(c, l, chain[l][n], k)
          \/ GetStateProofRead(c, l, chain[l][n], k)
          \/ RootNodeIdx(c, l, chain[l][n])
    BY DEF Query
<1>3. n \in 1..Len(chain[l])
    BY DEF ClientInv
<1>4. CASE Read(c, l, chain[l][n], k)
    <2> DEFINE x == ReadReply(l, chain[l][n], k)
    <2>1. LET y == ReadReply(l, chain[l][n], k) IN y.pc = "done" /\ y.op # "write" /\ TrueAnswer(y)
        BY <1>3, ReadIsTrue
    <2>2. Answer(c, x) /\ x.pc = "done" /\ x.op # "write" /\ TrueAnswer(x)
        BY <1>4, <2>1 DEF Read
    <2> HIDE DEF x
    <2> QED
        BY <1>1, <2>2, AnswerClient
<1>5. CASE GetStateProofRead(c, l, chain[l][n], k)
    <2> DEFINE x == ReadProofReply(l, chain[l][n], k)
    <2>1. LET y == ReadProofReply(l, chain[l][n], k) IN y.pc = "done" /\ y.op # "write" /\ TrueAnswer(y)
        BY <1>3, ReadProofIsTrue
    <2>2. Answer(c, x) /\ x.pc = "done" /\ x.op # "write" /\ TrueAnswer(x)
        BY <1>5, <2>1 DEF GetStateProofRead
    <2> HIDE DEF x
    <2> QED
        BY <1>1, <2>2, AnswerClient
<1>6. CASE RootNodeIdx(c, l, chain[l][n])
    <2> DEFINE x == [pc |-> "done", op |-> "root_idx", ok |-> CanOpen(db[l], chain[l][n]), label |-> l,
                     root |-> chain[l][n], idx |-> RootIdx(db[l], chain[l][n])]
    <2>1. Answer(c, x) /\ x.pc = "done" /\ x.op = "root_idx"
        BY <1>6 DEF RootNodeIdx
    <2> HIDE DEF x
    <2>2. TrueAnswer(x)
        BY <2>1 DEF TrueAnswer
    <2>3. x.op # "write"
        BY <2>1
    <2> QED
        BY <1>1, <2>1, <2>2, <2>3, AnswerClient
<1> QED
    BY <1>2, <1>4, <1>5, <1>6

LEMMA QueryWriteClient ==
    ASSUME ClientInv, NEW c, Client = {c}, NEW l \in Label, QueryWrite(c, l)
    PROVE  ClientInv'
<1>1. UNCHANGED clientVars
    BY DEF QueryWrite
<1>2. PICK n \in 1..(Len(chain[l]) - 1), leaf \in Leaves :
          Upsert(meant[l][n], leaf) = meant[l][n + 1] /\ GetStateProofWrite(c, l, chain[l][n], leaf)
    BY DEF QueryWrite
<1>3. n \in 1..Len(chain[l]) /\ n + 1 \in 1..Len(chain[l])
    <2>1. Len(chain[l]) \in Nat
        BY DEF ClientInv
    <2>2. \A N \in Nat : \A i \in 1..(N - 1) : i \in 1..N /\ i + 1 \in 1..N
        OBVIOUS
    <2> QED
        BY <1>2, <2>1, <2>2
<1>4. chain[l][n + 1] = After(chain[l][n], leaf)
    BY <1>2, UpsertIs DEF ClientInv
<1> DEFINE x == WriteProofReply(l, chain[l][n], leaf)
<1>5. LET y == WriteProofReply(l, chain[l][n], leaf) IN y.pc = "done" /\ y.op # "write" /\ TrueAnswer(y)
    BY <1>3, <1>4, WriteProofIsTrue
<1>6. Answer(c, x) /\ x.pc = "done" /\ x.op # "write" /\ TrueAnswer(x)
    BY <1>2, <1>5 DEF GetStateProofWrite
<1> HIDE DEF x
<1> QED
    BY <1>1, <1>6, AnswerClient

-----------------------------------------------------------------------------
(* The inductive invariant. *)

LEMMA EmptySettled == Settled(EmptyDB, <<{}>>, <<0>>, KeyLength)
<1>1. KeyLength \in Nat \ {0}
    BY KeyLengthIs
<1>2. EmptyDB.nodes = <<>> /\ EmptyDB.leafs = <<>> /\ DOMAIN <<>> = {} /\ Len(<<>>) = 0 /\ 1..0 = {}
    BY DEF EmptyDB
<1>3. TrueTables(EmptyDB) /\ InPlace(EmptyDB)
    <2>1. <<>> \in Seq(NodeRow) /\ <<>> \in Seq(LeafRow)
        OBVIOUS
    <2>2. GoodTables(EmptyDB)
        BY <1>2, <2>1 DEF GoodTables
    <2>3. Stored(EmptyDB) = {}
        BY <1>2 DEF Stored
    <2> QED
        BY <1>2, <2>2, <2>3 DEF TrueTables, InPlace
<1>4. Len(<<{}>>) = 1 /\ <<{}>>[1] = {} /\ Len(<<0>>) = 1 /\ <<0>>[1] = 0 /\ 1..1 = {1} /\ 2..1 = {}
      /\ <<{}>> \in Seq(Hash) /\ <<0>> \in Seq(Nat)
    BY DEF Hash
<1>5. WholeKeys({}, KeyLength)
    BY DEF WholeKeys, Hash
<1>6. History(<<{}>>, KeyLength)
    BY <1>4, <1>5 DEF History
<1>7. RootsAt(<<>>, <<{}>>, <<0>>, KeyLength)
    BY <1>2, <1>4 DEF RootsAt
<1>8. LeafsAt(EmptyDB, <<{}>>, <<0>>)
    <2>1. \A key : LeafAt(EmptyDB, key, 0) = NoLeaf
        BY <1>2 DEF LeafAt, OfKey, LastRow, LeafIn
    <2>2. \A key : HasValue({}, key, NoLeaf)
        BY DEF HasValue
    <2> QED
        BY <1>2, <1>4, <2>1, <2>2 DEF LeafsAt
<1> QED
    BY <1>1, <1>2, <1>3, <1>6, <1>7, <1>8 DEF Settled

LEMMA InitClientInv ==
    ASSUME NEW c, Client = {c}, ClientInit
    PROVE  ClientInv
<1>1. /\ LoadInv /\ db = [l \in Label |-> EmptyDB] /\ call = [k \in Client |-> Idle]
      /\ chain = [l \in Label |-> <<{}>>] /\ meant = chain /\ want = [l \in Label |-> NoWant]
    BY InitLoadInv DEF ClientInit, Init, EmptyHash
<1>2. Len(<<{}>>) = 1 /\ <<{}>>[1] = {} /\ 1..1 = {1} /\ <<{}>> \in Seq(Hash)
    BY DEF Hash
<1>3. \A l \in Label : ~ Writes(Idle, l)
    BY DEF Writes, Idle
<1>4. Idle.pc \notin Working /\ TrueAnswer(Idle)
    BY TellsNothing DEF Idle, Working
<1>5. \A l \in Label : LabelState(EmptyDB, <<{}>>, NoWant, Idle, l)
    BY <1>3, EmptySettled DEF LabelState
<1>6. \A l \in Label : \A n \in 1..Len(chain[l]) : OverKeys(chain[l][n])
    BY <1>1, <1>2 DEF OverKeys
<1>7. chain \in [Label -> Seq(Hash)] /\ DOMAIN want = Label
    BY <1>1, <1>2
<1> QED
    BY <1>1, <1>4, <1>5, <1>6, <1>7 DEF ClientInv

LEMMA NextClientInv ==
    ASSUME ClientInv, Rules = AllRules, NEW c, Client = {c}, [ClientNext]_allVars
    PROVE  ClientInv'
<1>1. ASSUME NEW l \in Label, NEW n, NEW leaf \in Leaves, Submit(c, l, n, leaf) PROVE ClientInv'
    BY <1>1, SubmitClient
<1>2. ASSUME NEW l \in Label, NEW n, NEW leaf \in Leaves, SubmitInNextRun(c, l, n, leaf) PROVE ClientInv'
    BY <1>2, NextRunClient
<1>3. ASSUME NEW l \in Label, Acknowledge(c, l) PROVE ClientInv'
    BY <1>3, AcknowledgeClient
<1>4. ASSUME NEW l \in Label, Query(c, l) PROVE ClientInv'
    BY <1>4, QueryClient
<1>5. ASSUME NEW l \in Label, QueryWrite(c, l) PROVE ClientInv'
    BY <1>5, QueryWriteClient
<1>6. ASSUME Serve(c) PROVE ClientInv'
    <2>1. ~ SelectRoot(c) /\ ~ MaxIdx(c)
        BY RootIsAdded DEF SelectRoot, MaxIdx
    <2> QED
        BY <1>6, <2>1, SelectNodeClient, InsertNodeClient, NodesDoneClient, SelectLeafClient,
           InsertLeafClient, RespondClient DEF Serve
<1>7. ASSUME TakeAnswer(c) PROVE ClientInv'
    BY <1>7, TakeAnswerClient
<1>8. ASSUME Fault PROVE ClientInv'
    BY <1>8, CrashClient, StatementFailsClient DEF Fault
<1>9. ASSUME UNCHANGED allVars PROVE ClientInv'
    BY <1>9, StillClient
<1> QED
    BY <1>1, <1>2, <1>3, <1>4, <1>5, <1>6, <1>7, <1>8, <1>9 DEF ClientNext

(* One client that keeps the rules: every state it was acknowledged lies at *)
(* its place in the tables, and a write under way has stored a part of what *)
(* it is going to add.                                                      *)
THEOREM ClientSafe ==
    ASSUME Rules = AllRules, NEW c, Client = {c}
    PROVE  ClientSpec => []ClientInv
<1>1. ClientInit => ClientInv
    BY InitClientInv
<1>2. ClientInv /\ [ClientNext]_allVars => ClientInv'
    BY NextClientInv
<1> QED
    BY <1>1, <1>2, PTL DEF ClientSpec

(* While a client that keeps the rules builds its tries, the tables, the    *)
(* roots given out and the handlers have their types.                       *)
THEOREM ClientTyped ==
    ASSUME Rules = AllRules, NEW c, Client = {c}
    PROVE  ClientSpec => []TypeOK
<1>1. ClientInv => TypeOK
    BY TypeOfLoad DEF ClientInv
<1>2. ClientSpec => []ClientInv
    BY ClientSafe
<1> QED
    BY <1>1, <1>2, PTL

(* Every root a write returned commits to the content before it with the    *)
(* key set: commit takes the siblings it did not touch from rows that stand *)
(* for what they say.                                                       *)
THEOREM RootsCommit ==
    ASSUME Rules = AllRules, NEW c, Client = {c}
    PROVE  ClientSpec => []RootsCommitToMeaning
<1>1. ClientInv => RootsCommitToMeaning
    BY DEF ClientInv, RootsCommitToMeaning
<1>2. ClientSpec => []ClientInv
    BY ClientSafe
<1> QED
    BY <1>1, <1>2, PTL

LEMMA AckedOpen ==
    ASSUME ClientInv, NEW c, Client = {c}
    PROVE  AckedRootsOpen
<1> SUFFICES ASSUME NEW l \in Label, NEW n \in DOMAIN chain[l] PROVE CanOpen(db[l], chain[l][n])
    BY DEF AckedRootsOpen
<1>1. n \in 1..Len(chain[l])
    BY DEF ClientInv
<1>2. PICK at : Kept(l, at)
    BY StatesKept
<1> QED
    BY <1>1, <1>2 DEF Kept

(* A root that was acknowledged opens for ever, in the middle of later      *)
(* writes and after any fault: /read and /write at it do not fail.          *)
THEOREM AckedRootsStayOpen ==
    ASSUME Rules = AllRules, NEW c, Client = {c}
    PROVE  ClientSpec => []AckedRootsOpen
<1>1. ClientInv => AckedRootsOpen
    BY AckedOpen
<1>2. ClientSpec => []ClientInv
    BY ClientSafe
<1> QED
    BY <1>1, <1>2, PTL

(* Every answer of /read at a state of the trie is the value the key has in *)
(* that state, however many writes and faults came after it.                *)
THEOREM ReadsMatch ==
    ASSUME Rules = AllRules, NEW c, Client = {c}
    PROVE  ClientSpec => []ReadsMatchRoots
<1>1. ClientInv => ReadsMatchRoots
    BY DEF ClientInv, TrueAnswer, ReadsMatchRoots, Done
<1>2. ClientSpec => []ClientInv
    BY ClientSafe
<1> QED
    BY <1>1, <1>2, PTL

(* Every proof get_state_proofs gives of a read verifies against its root,  *)
(* as a member exactly when the key has a value there.                      *)
THEOREM ReadProofsHold ==
    ASSUME Rules = AllRules, NEW c, Client = {c}
    PROVE  ClientSpec => []ReadProofsVerify
<1>1. ClientInv => ReadProofsVerify
    BY DEF ClientInv, TrueAnswer, Standing, ReadProofsVerify, Done
<1>2. ClientSpec => []ClientInv
    BY ClientSafe
<1> QED
    BY <1>1, <1>2, PTL

(* Every proof get_state_proofs gives of an acknowledged write joins its    *)
(* two roots: both halves verify, the leaf before is the old value and the  *)
(* root after is the one that was acknowledged.                             *)
THEOREM WriteProofsHold ==
    ASSUME Rules = AllRules, NEW c, Client = {c}
    PROVE  ClientSpec => []WriteProofsVerify
<1>1. ClientInv => WriteProofsVerify
    BY DEF ClientInv, TrueAnswer, Standing, WriteProofsVerify, Done
<1>2. ClientSpec => []ClientInv
    BY ClientSafe
<1> QED
    BY <1>1, <1>2, PTL

-----------------------------------------------------------------------------
(* The tables as TrieStore sees them. *)

(* A content the client may have: one nonzero value for each of some keys. *)
Contents(root) == WholeKeys(root, KeyLength) /\ OverKeys(root) /\ \A e \in root : e[2] # Zero

LEMMA ContentsAre ==
    ASSUME NEW root, Contents(root)
    PROVE  /\ root \in Hash
           /\ \A e \in root : e = <<e[1], e[2]>> /\ e[1] \in Key /\ e[2] \in Value /\ e[2] # Zero
           /\ \A e, f \in root : e[1] = f[1] => e = f
<1>1. root \in Hash /\ OverKeys(root) /\ (\A e \in root : e[2] # Zero) /\ \A e, f \in root : e[1] = f[1] => e = f
    BY DEF Contents, WholeKeys
<1>2. \A e \in root : e = <<e[1], e[2]>>
    BY <1>1 DEF Hash
<1> QED
    BY <1>1, <1>2 DEF OverKeys

LEMMA HasLookup ==
    ASSUME NEW root, Contents(root), NEW k \in Key
    PROVE  HasValue(root, k, Lookup(root, k)) /\ Lookup(root, k) \in Value
<1>1. \A e \in root : e = <<e[1], e[2]>> /\ e[1] \in Key /\ e[2] \in Value
    BY ContentsAre
<1>2. \A e, f \in root : e[1] = f[1] => e = f
    BY ContentsAre
<1>3. Zero \in Value
    BY ServerAssumption DEF ServerAssumption
<1>4. CASE \E v \in Value : <<k, v>> \in root
    <2>1. PICK v \in Value : <<k, v>> \in root /\ v = Lookup(root, k)
        BY <1>4 DEF Lookup
    <2>2. \A e \in root : e[1] = k => e[2] = v
        BY <1>2, <2>1
    <2> QED
        BY <2>1, <2>2 DEF HasValue
<1>5. CASE ~ \E v \in Value : <<k, v>> \in root
    <2>1. Lookup(root, k) = Zero
        BY <1>5 DEF Lookup
    <2>2. \A e \in root : e[1] # k
        BY <1>1, <1>5
    <2> QED
        BY <1>3, <2>1, <2>2 DEF HasValue
<1> QED
    BY <1>4, <1>5

LEMMA StateIs ==
    ASSUME NEW root, Contents(root)
    PROVE  State(root) \in [Key -> Value] /\ \A k \in Key : State(root)[k] = Lookup(root, k)
BY HasLookup DEF State

(* Two contents with the same value for every key are the same. *)
LEMMA StateInjective ==
    ASSUME NEW r, NEW s, Contents(r), Contents(s), State(r) = State(s)
    PROVE  r = s
<1>1. ASSUME NEW p, NEW q, Contents(p), Contents(q), \A k \in Key : Lookup(p, k) = Lookup(q, k)
      PROVE  p \subseteq q
    <2> SUFFICES ASSUME NEW e \in p PROVE e \in q
        OBVIOUS
    <2>1. e = <<e[1], e[2]>> /\ e[1] \in Key /\ e[2] # Zero /\ e[2] \in Value
        BY <1>1, ContentsAre
    <2>2. Lookup(p, e[1]) = e[2]
        BY <1>1, <2>1, HasLookup DEF HasValue
    <2>3. Lookup(q, e[1]) = e[2]
        BY <1>1, <2>1, <2>2
    <2>4. PICK v \in Value : <<e[1], v>> \in q /\ v = Lookup(q, e[1])
        BY <2>1, <2>3 DEF Lookup
    <2> QED
        BY <2>1, <2>3, <2>4
<1>2. \A k \in Key : Lookup(r, k) = Lookup(s, k)
    BY StateIs
<1>3. r \subseteq s
    BY <1>1, <1>2
<1>4. s \subseteq r
    BY <1>1, <1>2
<1> QED
    BY <1>3, <1>4

LEMMA ContentsAfter ==
    ASSUME NEW root, Contents(root), NEW leaf \in Leaves
    PROVE  Contents(After(root, leaf))
<1>1. leaf \in Item /\ Len(leaf.key) = KeyLength /\ leaf.key \in Key /\ leaf.value \in Value
    BY KeyLengthIs
<1>2. WholeKeys(root, KeyLength) /\ OverKeys(root) /\ \A e \in root : e[2] # Zero
    BY DEF Contents
<1>3. \A e \in After(root, leaf) : e[2] # Zero
    BY <1>1, <1>2, NoZeros
<1>4. WholeKeys(After(root, leaf), KeyLength)
    BY <1>1, <1>2, AfterIs
<1>5. OverKeys(After(root, leaf))
    BY <1>1, <1>2 DEF OverKeys, After
<1> QED
    BY <1>3, <1>4, <1>5 DEF Contents

(* To set a key in a content is to set it in the function from keys to values. *)
LEMMA StateAfter ==
    ASSUME NEW root, Contents(root), NEW leaf \in Leaves
    PROVE  State(After(root, leaf)) = [State(root) EXCEPT ![leaf.key] = leaf.value]
<1> DEFINE new == After(root, leaf)
<1>1. leaf \in Item /\ Len(leaf.key) = KeyLength /\ leaf.key \in Key /\ leaf.value \in Value
    BY KeyLengthIs
<1>2. Contents(new) /\ new \in Hash /\ OverKeys(new) /\ \A e \in new : e[2] # Zero
    BY ContentsAfter, ContentsAre DEF Contents
<1>3. WholeKeys(root, KeyLength)
    BY DEF Contents
<1>4. Value \subseteq Nat /\ \A v \in Nat : Given(v) = v
    BY ServerAssumption DEF ServerAssumption, Given, NoLeaf
<1>5. Lookup(new, leaf.key) = leaf.value
    <2>1. HasValue(new, leaf.key, leaf.value)
        BY <1>1, <1>3, HasNew
    <2> HIDE DEF new
    <2>2. Given(leaf.value) = Lookup(new, leaf.key)
        BY <1>1, <1>2, <2>1, GivenIs
    <2> QED
        BY <1>1, <1>4, <2>2
<1>6. ASSUME NEW k \in Key, k # leaf.key PROVE Lookup(new, k) = Lookup(root, k)
    <2> DEFINE v == Lookup(root, k)
    <2>1. HasValue(root, k, v) /\ v \in Value
        BY HasLookup
    <2> HIDE DEF v
    <2>2. HasValue(After(root, leaf), k, v)
        BY <1>1, <1>3, <1>6, <2>1, HasOld
    <2>3. HasValue(new, k, v)
        BY <2>2
    <2> HIDE DEF new
    <2>4. Given(v) = Lookup(new, k)
        BY <1>2, <2>3, GivenIs
    <2> QED
        BY <1>4, <2>1, <2>4 DEF v
<1> HIDE DEF new
<1>7. State(new) = [k \in Key |-> Lookup(new, k)] /\ State(root) = [k \in Key |-> Lookup(root, k)]
    BY DEF State
<1>8. State(new) = [State(root) EXCEPT ![leaf.key] = leaf.value]
    BY <1>1, <1>5, <1>6, <1>7
<1> QED
    BY <1>8 DEF new

LEMMA RootSeen ==
    /\ \A root : Contents(root) /\ root # {} => IsRoot(root)
    /\ \A hash : (\A e \in hash : Len(e[1]) # KeyLength) => ~ IsRoot(hash)
<1>1. \A root : Contents(root) /\ root # {} => IsRoot(root)
    BY DEF Contents, OverKeys, IsRoot
<1>2. \A hash : (\A e \in hash : Len(e[1]) # KeyLength) => ~ IsRoot(hash)
    BY KeyLengthIs DEF IsRoot
<1> QED
    BY <1>1, <1>2

RowSeen(e, i) ==
    IF e.nodes[i].trie_idx # i THEN Misplaced
    ELSE IF IsRoot(e.nodes[i].hash) THEN State(e.nodes[i].hash) ELSE Inner
RowsSeen(e) == [i \in DOMAIN e.nodes |-> RowSeen(e, i)]
StatesSeen(ch) == [n \in DOMAIN ch |-> State(ch[n])]
WantSeen(w) == IF w = NoWant THEN {} ELSE {w.leaf}

LEMMA SeenSettled ==
    ASSUME NEW d, NEW ch, NEW at, Settled(d, ch, at, KeyLength), \A n \in 1..Len(ch) : OverKeys(ch[n])
    PROVE  /\ \A n \in 1..Len(ch) : Contents(ch[n])
           /\ \A i \in 1..Len(d.nodes) :
                 RowSeen(d, i) = Inner \/ \E n \in 1..Len(ch) : RowSeen(d, i) = State(ch[n])
<1>1. History(ch, KeyLength) /\ RootsAt(d.nodes, ch, at, KeyLength) /\ InPlace(d) /\ d.nodes \in Seq(NodeRow)
    BY SettledIs DEF Settled, GoodTables
<1>2. \A n \in 1..Len(ch) : Contents(ch[n])
    BY <1>1 DEF History, Contents
<1>3. ASSUME NEW i \in 1..Len(d.nodes)
      PROVE  RowSeen(d, i) = Inner \/ \E n \in 1..Len(ch) : RowSeen(d, i) = State(ch[n])
    <2>1. d.nodes[i].trie_idx = i
        <3>1. DOMAIN d.nodes = 1..Len(d.nodes)
            BY <1>1
        <3> QED
            BY <1>1, <3>1 DEF InPlace
    <2>2. CASE \E e \in d.nodes[i].hash : Len(e[1]) = KeyLength
        <3>1. PICK n \in 2..Len(ch) : i = at[n]
            BY <1>1, <2>2 DEF RootsAt
        <3>2. d.nodes[i].hash = ch[n] /\ n \in 1..Len(ch)
            BY <3>1, SettledIs
        <3>3. ch[n] # {}
            BY <1>1, <3>1 DEF History
        <3>4. IsRoot(ch[n])
            BY <1>2, <3>2, <3>3, RootSeen
        <3> QED
            BY <2>1, <3>2, <3>4 DEF RowSeen
    <2>3. CASE \A e \in d.nodes[i].hash : Len(e[1]) # KeyLength
        <3>1. ~ IsRoot(d.nodes[i].hash)
            BY <2>3, RootSeen
        <3> QED
            BY <2>1, <3>1 DEF RowSeen
    <2> QED
        BY <2>2, <2>3
<1> QED
    BY <1>2, <1>3

(* What TrieStore sees of a write that has begun. *)
SeenWrite(d, ch, leaf, m, e, T) ==
    /\ T = [State(ch[Len(ch)]) EXCEPT ![leaf.key] = leaf.value]
    /\ T \in [Key -> Value] /\ T # Inner
    /\ \A n \in 1..Len(ch) : State(ch[n]) # T
    /\ Len(e.nodes) = Len(d.nodes) + m /\ e.nodes \in Seq(NodeRow)
    /\ \A i \in 1..Len(d.nodes) : RowSeen(e, i) # T
    /\ \A n \in 1..m : RowSeen(e, Len(d.nodes) + n) = IF n = Len(PlanOf(d, leaf)) THEN T ELSE Inner

LEMMA BegunSeen ==
    ASSUME NEW d, NEW ch, NEW at, NEW leaf \in Leaves, NEW m, NEW e, Begun(d, ch, at, leaf, m, e),
           \A n \in 1..Len(ch) : OverKeys(ch[n]), Inner \notin [Key -> Value]
    PROVE  SeenWrite(d, ch, leaf, m, e, State(After(ch[Len(ch)], leaf)))
<1> DEFINE target == After(ch[Len(ch)], leaf)
           T == State(target)
           plan == PlanOf(d, leaf)
           K == Len(d.nodes)
<1>1. Settled(d, ch, at, KeyLength) /\ Ready(ch, leaf, KeyLength) /\ Partial(d, leaf, m, e)
    BY DEF Begun
<1>2. \A n \in 1..Len(ch) : Contents(ch[n])
    BY <1>1, SeenSettled
<1>3. Len(ch) \in 1..Len(ch) /\ K \in Nat
    BY <1>1, SettledIs
<1>4. Contents(target) /\ T = [State(ch[Len(ch)]) EXCEPT ![leaf.key] = leaf.value] /\ T \in [Key -> Value]
    <2>1. Contents(ch[Len(ch)])
        BY <1>2, <1>3
    <2>2. Contents(target)
        BY <2>1, ContentsAfter
    <2>3. T = [State(ch[Len(ch)]) EXCEPT ![leaf.key] = leaf.value]
        BY <2>1, StateAfter
    <2> QED
        BY <2>2, <2>3, StateIs
<1>5. target # {} /\ \A n \in 1..Len(ch) : ch[n] # target
    BY <1>1 DEF Ready
<1>6. /\ TrueTables(e) /\ InPlace(e) /\ Len(e.nodes) = K + m /\ m \in Nat
      /\ \A i \in 1..K : e.nodes[i] = d.nodes[i]
      /\ \A n \in 1..m : e.nodes[K + n] = plan[n]
    BY <1>1, PartialIs
<1>7. Leads(d, plan, target, KeyLength)
    BY <1>1, PlanLeads
<1>8. m \in 0..Len(plan) /\ Len(plan) \in Nat \ {0}
    BY BegunIs
<1>9. e.nodes \in Seq(NodeRow)
    BY <1>6 DEF TrueTables, GoodTables
<1>10. \A n \in 1..Len(ch) : State(ch[n]) # T
    <2> TAKE n \in 1..Len(ch)
    <2>1. Contents(ch[n]) /\ ch[n] # target
        BY <1>2, <1>5
    <2> HIDE DEF target
    <2> QED
        BY <1>4, <2>1, StateInjective
<1>11. T # Inner
    BY <1>4
<1>12. ASSUME NEW i \in 1..K PROVE RowSeen(e, i) # T
    <2>1. RowSeen(e, i) = RowSeen(d, i)
        BY <1>6 DEF RowSeen
    <2>2. RowSeen(d, i) = Inner \/ \E n \in 1..Len(ch) : RowSeen(d, i) = State(ch[n])
        BY <1>1, SeenSettled
    <2> HIDE DEF T
    <2> QED
        BY <1>10, <1>11, <2>1, <2>2
<1>13. ASSUME NEW n \in 1..m PROVE RowSeen(e, K + n) = IF n = Len(plan) THEN T ELSE Inner
    <2>1. e.nodes[K + n] = plan[n] /\ n \in 1..Len(plan)
        BY <1>6, <1>8
    <2>2. plan[n].trie_idx = K + n
        BY <1>7, <2>1 DEF Leads
    <2>3. n # Len(plan) => \A u \in plan[n].hash : Len(u[1]) < KeyLength
        BY <1>7, <2>1 DEF Leads
    <2>4. n = Len(plan) => plan[n].hash = target
        BY <1>7, <2>1 DEF Leads
    <2>5. IsRoot(target)
        BY <1>4, <1>5, RootSeen
    <2>6. CASE n = Len(plan)
        BY <2>1, <2>2, <2>4, <2>5, <2>6 DEF RowSeen
    <2>7. CASE n # Len(plan)
        <3>1. \A u \in plan[n].hash : Len(u[1]) < KeyLength
            BY <2>3, <2>7
        <3>2. \A u \in plan[n].hash : Len(u[1]) # KeyLength
            <4>1. KeyLength \in Nat
                BY KeyLengthIs
            <4> HIDE DEF plan
            <4>2. \A x : x < KeyLength => x # KeyLength
                BY <4>1
            <4> QED
                BY <3>1, <4>2
        <3>3. ~ IsRoot(plan[n].hash)
            BY <3>2, RootSeen
        <3> QED
            BY <2>1, <2>2, <2>7, <3>3 DEF RowSeen
    <2> QED
        BY <2>6, <2>7
<1> HIDE DEF T, plan, K
<1>14. SeenWrite(d, ch, leaf, m, e, T)
    BY <1>4, <1>6, <1>9, <1>10, <1>11, <1>12, <1>13 DEF SeenWrite, K, plan
<1> QED
    BY <1>14 DEF T, target

LEMMA RowsSeenGrow ==
    ASSUME NEW e, e.nodes \in Seq(NodeRow), NEW row \in NodeRow, NEW f, f.nodes = Append(e.nodes, row)
    PROVE  RowsSeen(f) = Append(RowsSeen(e), RowSeen(f, Len(e.nodes) + 1))
<1> DEFINE N == Len(e.nodes)
           s == RowsSeen(e)
           x == RowSeen(f, N + 1)
           S == {RowSeen(f, i) : i \in 1..N + 1}
<1>1. N \in Nat /\ DOMAIN e.nodes = 1..N /\ DOMAIN f.nodes = 1..N + 1 /\ \A i \in 1..N : f.nodes[i] = e.nodes[i]
    <2>1. Len(f.nodes) = N + 1 /\ f.nodes \in Seq(NodeRow) /\ \A i \in 1..N : f.nodes[i] = e.nodes[i]
        BY AppendIs
    <2> QED
        BY <2>1
<1>2. \A i \in 1..N : RowSeen(f, i) = RowSeen(e, i)
    BY <1>1 DEF RowSeen
<1>3. s = [i \in 1..N |-> RowSeen(f, i)]
    BY <1>1, <1>2 DEF RowsSeen
<1>4. x \in S /\ \A i \in 1..N : RowSeen(f, i) \in S /\ i \in 1..N + 1
    <2>1. N + 1 \in 1..N + 1 /\ \A i \in 1..N : i \in 1..N + 1
        BY <1>1
    <2> QED
        BY <2>1
<1> HIDE DEF S, x, s, N
<1>5. s \in Seq(S) /\ Len(s) = N
    BY <1>1, <1>3, <1>4
<1>6. Append(s, x) \in Seq(S) /\ Len(Append(s, x)) = N + 1 /\ Append(s, x)[N + 1] = x
      /\ \A i \in 1..N : Append(s, x)[i] = s[i]
    BY <1>4, <1>5, AppendIs
<1>7. \A i \in 1..N + 1 : Append(s, x)[i] = RowSeen(f, i)
    <2> TAKE i \in 1..N + 1
    <2>1. i \in 1..N \/ i = N + 1
        BY <1>1
    <2> QED
        BY <1>3, <1>6, <2>1 DEF x
<1>8. Append(s, x) = [i \in 1..N + 1 |-> RowSeen(f, i)]
    <2> DEFINE t == Append(s, x)
    <2>1. t \in Seq(S) /\ Len(t) = N + 1 /\ \A i \in 1..N + 1 : t[i] = RowSeen(f, i)
        BY <1>6, <1>7
    <2> HIDE DEF t
    <2>2. t = [i \in 1..N + 1 |-> t[i]]
        BY <2>1
    <2>3. t = [i \in 1..N + 1 |-> RowSeen(f, i)]
        BY <2>1, <2>2
    <2> QED
        BY <2>3 DEF t
<1> QED
    BY <1>1, <1>8 DEF RowsSeen, s, x, N

LEMMA StatesSeenGrow ==
    ASSUME NEW S, NEW ch \in Seq(S), NEW root \in S
    PROVE  StatesSeen(Append(ch, root)) = Append(StatesSeen(ch), State(root))
<1> DEFINE N == Len(ch)
           s == StatesSeen(ch)
           x == State(root)
           R == {State(q) : q \in S}
           new == Append(ch, root)
<1>1. N \in Nat /\ DOMAIN ch = 1..N /\ DOMAIN new = 1..N + 1 /\ (\A i \in 1..N : new[i] = ch[i]) /\ new[N + 1] = root
    OBVIOUS
<1>2. s = [i \in 1..N |-> State(ch[i])]
    BY DEF StatesSeen
<1>3. x \in R /\ \A i \in 1..N : State(ch[i]) \in R
    OBVIOUS
<1> HIDE DEF R, x, s, N, new
<1>4. s \in Seq(R) /\ Len(s) = N
    BY <1>1, <1>2, <1>3
<1>5. Append(s, x) \in Seq(R) /\ Len(Append(s, x)) = N + 1 /\ Append(s, x)[N + 1] = x
      /\ \A i \in 1..N : Append(s, x)[i] = s[i]
    BY <1>3, <1>4, AppendIs
<1>6. \A i \in 1..N + 1 : Append(s, x)[i] = State(new[i])
    <2> TAKE i \in 1..N + 1
    <2>1. i \in 1..N \/ i = N + 1
        BY <1>1
    <2> QED
        BY <1>1, <1>2, <1>5, <2>1 DEF x
<1>7. Append(s, x) = [i \in 1..N + 1 |-> State(new[i])]
    <2> DEFINE t == Append(s, x)
    <2>1. t \in Seq(R) /\ Len(t) = N + 1 /\ \A i \in 1..N + 1 : t[i] = State(new[i])
        BY <1>5, <1>6
    <2> HIDE DEF t
    <2>2. t = [i \in 1..N + 1 |-> t[i]]
        BY <2>1
    <2>3. t = [i \in 1..N + 1 |-> State(new[i])]
        BY <2>1, <2>2
    <2> QED
        BY <2>3 DEF t
<1> QED
    BY <1>1, <1>7 DEF StatesSeen, s, x, new

-----------------------------------------------------------------------------
(* The steps of the client as TrieStore sees them. *)

SeenTarget(ch, w) == [StatesSeen(ch)[Len(StatesSeen(ch))] EXCEPT ![w.key] = w.value]
SeenStored(e, T) == \E i \in DOMAIN RowsSeen(e) : RowsSeen(e)[i] = T
SeenPair(e, w) == \E j \in DOMAIN e.leafs : e.leafs[j].key = w.key /\ e.leafs[j].value = w.value

LEMMA StoreUnmoved ==
    ASSUME db'[StoreLabel] = db[StoreLabel], chain'[StoreLabel] = chain[StoreLabel],
           want'[StoreLabel] = want[StoreLabel]
    PROVE  UNCHANGED Store!vars
BY DEF Store!vars

LEMMA StoreDecides ==
    ASSUME NEW w \in Leaves, WantSeen(want[StoreLabel]) = {}, WantSeen(want'[StoreLabel]) = {w},
           \A n \in DOMAIN StatesSeen(chain[StoreLabel]) :
               StatesSeen(chain[StoreLabel])[n] # SeenTarget(chain[StoreLabel], w),
           ~ SeenPair(db[StoreLabel], w),
           db'[StoreLabel] = db[StoreLabel], chain'[StoreLabel] = chain[StoreLabel]
    PROVE  Store!Next
<1>1. Store!Decide(w)
    BY DEF Store!Decide, Store!Target, Store!Newest, Store!PairStored,
           WantSeen, StatesSeen, SeenTarget, SeenPair
<1> QED
    BY <1>1 DEF Store!Next, Store!Leaf, Leaves

LEMMA StoreAddsNode ==
    ASSUME NEW w, WantSeen(want[StoreLabel]) = {w}, NEW hash,
           hash \in {Inner, SeenTarget(chain[StoreLabel], w)},
           ~ SeenStored(db[StoreLabel], SeenTarget(chain[StoreLabel], w)),
           RowsSeen(db'[StoreLabel]) = Append(RowsSeen(db[StoreLabel]), hash),
           db'[StoreLabel].leafs = db[StoreLabel].leafs,
           want'[StoreLabel] = want[StoreLabel], chain'[StoreLabel] = chain[StoreLabel]
    PROVE  Store!Next
<1> DEFINE T == SeenTarget(chain[StoreLabel], w)
<1>1. Store!Target(w) = T
    BY DEF Store!Target, Store!Newest, StatesSeen, SeenTarget
<1>2. ~ Store!Stored(T)
    BY ZenonT(30) DEF Store!Stored, SeenStored, RowsSeen, RowSeen
<1>3. hash \in {Inner, T}
    OBVIOUS
<1> HIDE DEF T
<1>4. CASE hash = Inner
    <2>1. RowsSeen(db'[StoreLabel]) = Append(RowsSeen(db[StoreLabel]), Inner)
        BY <1>4
    <2>2. ~ Store!Stored(Store!Target(w)) /\ Inner \in {Inner, Store!Target(w)}
        BY <1>1, <1>2
    <2>3. Store!AddNode(w, Inner)
        BY <2>1, <2>2, Zenon DEF Store!AddNode, RowsSeen, RowSeen, WantSeen, StatesSeen
    <2> QED
        BY <2>3, Zenon DEF Store!Next, WantSeen
<1>5. CASE hash = T
    <2> DEFINE U == Store!Target(w)
    <2>1. RowsSeen(db'[StoreLabel]) = Append(RowsSeen(db[StoreLabel]), U)
        BY <1>1, <1>5
    <2>2. ~ Store!Stored(U) /\ U \in {Inner, U}
        BY <1>1, <1>2
    <2>3. Store!AddNode(w, U)
        BY <2>1, <2>2, Zenon DEF Store!AddNode, RowsSeen, RowSeen, WantSeen, StatesSeen
    <2> QED
        BY <2>3, Zenon DEF Store!Next, WantSeen
<1> QED
    BY <1>3, <1>4, <1>5

LEMMA StoreAddsLeaf ==
    ASSUME NEW w, WantSeen(want[StoreLabel]) = {w}, NEW T, T = SeenTarget(chain[StoreLabel], w),
           SeenStored(db[StoreLabel], T), ~ SeenPair(db[StoreLabel], w),
           NEW idx, {i \in DOMAIN RowsSeen(db[StoreLabel]) : RowsSeen(db[StoreLabel])[i] = T} = {idx}, idx \in Nat,
           RowsSeen(db'[StoreLabel]) = RowsSeen(db[StoreLabel]),
           db'[StoreLabel].leafs = Append(db[StoreLabel].leafs, [key |-> w.key, value |-> w.value, root_idx |-> idx]),
           want'[StoreLabel] = want[StoreLabel], chain'[StoreLabel] = chain[StoreLabel]
    PROVE  Store!Next
<1>1. Store!Target(w) = T
    BY DEF Store!Target, Store!Newest, StatesSeen, SeenTarget
<1>2. Store!Min({idx}) = idx
    BY DEF Store!Min
<1>3. Store!RootIdx(T) = idx
    BY <1>2 DEF Store!RootIdx, Store!FirstRow, RowsSeen, RowSeen
<1>4. Store!Stored(T) /\ ~ Store!PairStored(w)
    BY DEF Store!Stored, Store!PairStored, SeenStored, SeenPair, RowsSeen, RowSeen
<1>5. Store!AddLeaf(w)
    BY <1>1, <1>3, <1>4 DEF Store!AddLeaf, RowsSeen, RowSeen, WantSeen, StatesSeen
<1> QED
    BY <1>5 DEF Store!Next, WantSeen

LEMMA StoreAcknowledges ==
    ASSUME NEW w, WantSeen(want[StoreLabel]) = {w}, WantSeen(want'[StoreLabel]) = {},
           SeenPair(db[StoreLabel], w),
           StatesSeen(chain'[StoreLabel]) = Append(StatesSeen(chain[StoreLabel]), SeenTarget(chain[StoreLabel], w)),
           db'[StoreLabel] = db[StoreLabel]
    PROVE  Store!Next
<1>1. Store!Acknowledge(w)
    BY DEF Store!Acknowledge, Store!Target, Store!Newest, Store!PairStored,
           WantSeen, StatesSeen, SeenTarget, SeenPair
<1> QED
    BY <1>1 DEF Store!Next, WantSeen

LEMMA StatesSeenAre ==
    ASSUME NEW S, NEW ch \in Seq(S)
    PROVE  /\ DOMAIN StatesSeen(ch) = 1..Len(ch) /\ Len(StatesSeen(ch)) = Len(ch)
           /\ \A n \in 1..Len(ch) : StatesSeen(ch)[n] = State(ch[n])
           /\ \A w : Len(ch) \in 1..Len(ch) => SeenTarget(ch, w) = [State(ch[Len(ch)]) EXCEPT ![w.key] = w.value]
<1>1. StatesSeen(ch) = [n \in 1..Len(ch) |-> State(ch[n])] /\ Len(ch) \in Nat
    BY DEF StatesSeen
<1>2. Len(StatesSeen(ch)) = Len(ch)
    BY <1>1
<1> QED
    BY <1>1, <1>2 DEF SeenTarget

LEMMA SeenOfWrite ==
    ASSUME NEW d, NEW ch, NEW at, NEW leaf, NEW m, NEW e, NEW T,
           Begun(d, ch, at, leaf, m, e), SeenWrite(d, ch, leaf, m, e, T)
    PROVE  /\ T = SeenTarget(ch, leaf)
           /\ m # Len(PlanOf(d, leaf)) => ~ SeenStored(e, T)
           /\ m = Len(PlanOf(d, leaf)) =>
                 /\ SeenStored(e, T) /\ Len(d.nodes) + m \in Nat
                 /\ {i \in DOMAIN RowsSeen(e) : RowsSeen(e)[i] = T} = {Len(d.nodes) + m}
<1> DEFINE plan == PlanOf(d, leaf)
           K == Len(d.nodes)
           rows == RowsSeen(e)
<1>1. T = SeenTarget(ch, leaf)
    <2>1. ch \in Seq(Hash) /\ Len(ch) \in 1..Len(ch)
        <3>1. Settled(d, ch, at, KeyLength)
            BY DEF Begun
        <3>2. ch \in Seq(Hash)
            BY <3>1 DEF Settled, History
        <3> QED
            BY <3>1, <3>2, SettledIs
    <2>2. SeenTarget(ch, leaf) = [State(ch[Len(ch)]) EXCEPT ![leaf.key] = leaf.value]
        BY <2>1, StatesSeenAre
    <2> QED
        BY <2>2 DEF SeenWrite
<1>2. K \in Nat /\ m \in 0..Len(plan) /\ Len(plan) \in Nat \ {0}
    BY BegunIs
<1>3. /\ DOMAIN rows = 1..K + m /\ \A i \in 1..K + m : rows[i] = RowSeen(e, i)
    <2>1. DOMAIN e.nodes = 1..K + m
        BY DEF SeenWrite
    <2> QED
        BY <2>1 DEF RowsSeen
<1>4. T # Inner /\ \A i \in 1..K : RowSeen(e, i) # T
    BY DEF SeenWrite
<1>5. \A n \in 1..m : RowSeen(e, K + n) = IF n = Len(plan) THEN T ELSE Inner
    BY DEF SeenWrite
<1> HIDE DEF plan, K, rows
<1>6. \A i \in 1..K + m : i \in 1..K \/ \E n \in 1..m : i = K + n
    <2> TAKE i \in 1..K + m
    <2>1. m \in Nat
        BY <1>2
    <2>2. CASE i <= K
        BY <1>2, <2>1, <2>2
    <2>3. CASE i > K
        <3>1. i - K \in 1..m /\ i = K + (i - K)
            BY <1>2, <2>1, <2>3
        <3> QED
            BY <3>1
    <2> QED
        BY <1>2, <2>1, <2>2, <2>3
<1>7. \A i \in 1..K + m : rows[i] = T => i = K + Len(plan) /\ m = Len(plan)
    <2> SUFFICES ASSUME NEW i \in 1..K + m, rows[i] = T PROVE i = K + Len(plan) /\ m = Len(plan)
        OBVIOUS
    <2>1. i \notin 1..K
        BY <1>3, <1>4
    <2>2. PICK n \in 1..m : i = K + n
        BY <1>6, <2>1
    <2>3. n = Len(plan)
        BY <1>3, <1>4, <1>5, <2>2
    <2>4. m = Len(plan)
        BY <1>2, <2>2, <2>3
    <2> QED
        BY <2>2, <2>3, <2>4
<1>8. CASE m # Len(plan)
    <2>1. ~ SeenStored(e, T)
        BY <1>3, <1>7, <1>8 DEF SeenStored, rows
    <2> QED
        BY <1>1, <1>8, <2>1 DEF plan
<1>9. CASE m = Len(plan)
    <2>1. m \in 1..m /\ K + m \in 1..K + m /\ K + m \in Nat
        BY <1>2, <1>9
    <2>2. rows[K + m] = T
        BY <1>3, <1>5, <1>9, <2>1
    <2>3. \A i \in 1..K + m : rows[i] = T => i = K + m
        BY <1>7, <1>9
    <2>4. SeenStored(e, T)
        BY <1>3, <2>1, <2>2 DEF SeenStored, rows
    <2>5. {i \in DOMAIN rows : rows[i] = T} = {K + m}
        BY <1>3, <2>1, <2>2, <2>3
    <2> QED
        BY <1>1, <1>9, <2>1, <2>4, <2>5 DEF plan, K, rows
<1> QED
    BY <1>8, <1>9

LEMMA SeenOfNew ==
    ASSUME ClientInv, NEW c, Client = {c}, NEW l \in Label, Inner \notin [Key -> Value],
           NEW leaf \in Leaves, NEW d, NEW at, NEW m, NEW e, Begun(d, chain[l], at, leaf, m, e)
    PROVE  SeenWrite(d, chain[l], leaf, m, e, State(After(chain[l][Len(chain[l])], leaf)))
<1>1. \A n \in 1..Len(chain[l]) : OverKeys(chain[l][n])
    BY DEF ClientInv
<1> QED
    BY <1>1, BegunSeen

LEMMA SubmitSeen ==
    ASSUME ClientInv, Rules = AllRules, NEW c, Client = {c}, NEW l \in Label, l = StoreLabel,
           NEW n, NEW leaf \in Leaves, Submit(c, l, n, leaf)
    PROVE  Store!Next
<1> DEFINE ch == chain[l]
           d == db[l]
           target == After(ch[Len(ch)], leaf)
<1>1. want[l] = NoWant /\ Follows(l, n, leaf) /\ want' = [want EXCEPT ![l] = Wanted(n, leaf)]
      /\ UNCHANGED <<db, chain, meant>>
    BY DEF Submit, Send, Write, Update
<1>2. LabelState(d, ch, want[l], call[c], l) /\ \A i \in 1..Len(ch) : OverKeys(ch[i])
    BY DEF ClientInv
<1>3. PICK at : Settled(d, ch, at, KeyLength)
    BY <1>1, <1>2, AskedFor
<1>4. ~ SeenPair(d, leaf) /\ \A i \in DOMAIN ch : ch[i] # target
    BY <1>1, UpsertIs DEF Follows, AllRules, ClientInv, EmptyHash, SeenPair
<1>5. WantSeen(want[l]) = {} /\ WantSeen(want'[l]) = {leaf} /\ db'[l] = db[l] /\ chain'[l] = chain[l]
    <2>1. Wanted(n, leaf) # NoWant /\ Wanted(n, leaf).leaf = leaf
        BY DEF Wanted, NoWant
    <2>2. want'[l] = Wanted(n, leaf)
        BY <1>1 DEF ClientInv
    <2> QED
        BY <1>1, <2>1, <2>2 DEF WantSeen, vars
<1> HIDE DEF ch, d, target
<1>6. (\A i \in 1..Len(ch) : Contents(ch[i])) /\ Len(ch) \in 1..Len(ch) /\ ch \in Seq(Hash)
    BY <1>2, <1>3, SeenSettled, SettledIs DEF Settled, History
<1>7. Contents(target) /\ State(target) = [State(ch[Len(ch)]) EXCEPT ![leaf.key] = leaf.value]
    BY <1>6, ContentsAfter, StateAfter DEF target
<1>8. SeenTarget(ch, leaf) = State(target) /\ DOMAIN StatesSeen(ch) = 1..Len(ch)
      /\ \A i \in 1..Len(ch) : StatesSeen(ch)[i] = State(ch[i])
    BY <1>6, <1>7, StatesSeenAre
<1>9. ASSUME NEW i \in DOMAIN StatesSeen(ch) PROVE StatesSeen(ch)[i] # SeenTarget(ch, leaf)
    <2>1. i \in 1..Len(ch) /\ StatesSeen(ch)[i] = State(ch[i]) /\ Contents(ch[i])
        BY <1>6, <1>8
    <2>2. ch[i] # target
        BY <1>4, <1>6, <2>1
    <2>3. State(ch[i]) # State(target)
        BY <1>7, <2>1, <2>2, StateInjective
    <2> QED
        BY <1>8, <2>1, <2>3
<1> QED
    BY <1>4, <1>5, <1>9, StoreDecides DEF ch, d

LEMMA InsertNodeSeen ==
    ASSUME ClientInv, NEW c, Client = {c}, InsertNode(c), UNCHANGED clientVars, Inner \notin [Key -> Value],
           call[c].label = StoreLabel
    PROVE  Store!Next
<1> DEFINE l == StoreLabel
           row == Head(call[c].nodes)
           e == db[l]
           f == db'[l]
           ch == chain[l]
<1>1. NodeStep(c, l)
    BY InsertNodeMoves
<1>2. l \in Label /\ f.nodes = Append(e.nodes, row) /\ f.leafs = e.leafs
    BY <1>1 DEF NodeStep
<1>3a. PICK leaf \in Leaves : \E d, at, m, n, y :
            /\ want[l] = Wanted(Len(chain[l]), leaf) /\ m # Len(PlanOf(d, leaf)) /\ n = m + 1
            /\ Begun(d, chain[l], at, leaf, m, db[l]) /\ Begun(d, chain[l], at, leaf, n, db'[l])
            /\ Head(call[c].nodes) = PlanOf(d, leaf)[n]
            /\ call' = [call EXCEPT ![c] = y] /\ y.op = "write" /\ y.label = l
            /\ Serving(y, d, chain[l], leaf, n, db'[l])
    BY <1>1 DEF NodeStep
<1>3. PICK d, at, m, n, y :
            /\ want[l] = Wanted(Len(chain[l]), leaf) /\ m # Len(PlanOf(d, leaf)) /\ n = m + 1
            /\ Begun(d, chain[l], at, leaf, m, db[l]) /\ Begun(d, chain[l], at, leaf, n, db'[l])
            /\ Head(call[c].nodes) = PlanOf(d, leaf)[n]
            /\ call' = [call EXCEPT ![c] = y] /\ y.op = "write" /\ y.label = l
            /\ Serving(y, d, chain[l], leaf, n, db'[l])
    BY <1>3a
<1>4. want' = want /\ chain' = chain
    BY DEF clientVars
<1>5. WantSeen(want[l]) = {leaf}
    BY <1>3 DEF WantSeen, Wanted, NoWant
<1> DEFINE T == State(After(ch[Len(ch)], leaf))
<1>6. SeenWrite(d, ch, leaf, m, e, T)
    BY <1>2, <1>3, SeenOfNew
<1>7. SeenWrite(d, ch, leaf, n, f, T)
    BY <1>2, <1>3, SeenOfNew
<1>8. Begun(d, ch, at, leaf, m, e) /\ Begun(d, ch, at, leaf, n, f) /\ row = PlanOf(d, leaf)[n]
    BY <1>3
<1> HIDE DEF T, e, f, ch, row
<1>9. T = SeenTarget(ch, leaf) /\ ~ SeenStored(e, T)
    BY <1>3, <1>6, <1>8, SeenOfWrite
<1>10. /\ m \in Nat /\ n = m + 1 /\ n \in 1..n /\ n \in 1..Len(PlanOf(d, leaf)) /\ Len(d.nodes) \in Nat
       /\ PlanOf(d, leaf) \in Seq(NodeRow)
    <2>1. m \in Nat /\ n \in 0..Len(PlanOf(d, leaf)) /\ Len(PlanOf(d, leaf)) \in Nat /\ Len(d.nodes) \in Nat
          /\ PlanOf(d, leaf) \in Seq(NodeRow)
        BY <1>8, BegunIs
    <2> QED
        BY <1>3, <2>1
<1>11. row \in NodeRow
    BY <1>8, <1>10
<1>12. e.nodes \in Seq(NodeRow) /\ Len(e.nodes) = Len(d.nodes) + m
    BY <1>6 DEF SeenWrite
<1>13. Len(e.nodes) + 1 = Len(d.nodes) + n
    <2>1. \A i, j \in Nat : (i + j) + 1 = i + (j + 1)
        OBVIOUS
    <2> QED
        BY <1>10, <1>12, <2>1
<1> DEFINE hash == RowSeen(f, Len(e.nodes) + 1)
<1>14. RowsSeen(f) = Append(RowsSeen(e), hash)
    BY <1>2, <1>11, <1>12, RowsSeenGrow
<1>15. hash \in {Inner, T}
    BY <1>7, <1>10, <1>13 DEF SeenWrite
<1> HIDE DEF hash
<1> QED
    BY <1>2, <1>4, <1>5, <1>9, <1>14, <1>15, StoreAddsNode DEF e, f, ch

LEMMA InsertLeafSeen ==
    ASSUME ClientInv, NEW c, Client = {c}, InsertLeaf(c), UNCHANGED clientVars, Inner \notin [Key -> Value],
           call[c].label = StoreLabel
    PROVE  Store!Next
<1> DEFINE l == StoreLabel
           e == db[l]
           f == db'[l]
           ch == chain[l]
<1>1. LeafStep(c, l)
    BY InsertLeafMoves
<1>2. l \in Label /\ f.nodes = e.nodes
    BY <1>1 DEF LeafStep
<1>3a. PICK leaf \in Leaves : \E d, at, m, y :
            /\ want[l] = Wanted(Len(chain[l]), leaf) /\ m = Len(PlanOf(d, leaf))
            /\ Begun(d, chain[l], at, leaf, m, db[l]) /\ Begun(d, chain[l], at, leaf, m, db'[l])
            /\ db[l].leafs = d.leafs /\ db'[l].leafs = Append(d.leafs, NewLeaf(d, leaf))
            /\ call' = [call EXCEPT ![c] = y] /\ y.op = "write" /\ y.label = l
            /\ Serving(y, d, chain[l], leaf, m, db'[l])
    BY <1>1 DEF LeafStep
<1>3. PICK d, at, m, y :
            /\ want[l] = Wanted(Len(chain[l]), leaf) /\ m = Len(PlanOf(d, leaf))
            /\ Begun(d, chain[l], at, leaf, m, db[l]) /\ Begun(d, chain[l], at, leaf, m, db'[l])
            /\ db[l].leafs = d.leafs /\ db'[l].leafs = Append(d.leafs, NewLeaf(d, leaf))
            /\ call' = [call EXCEPT ![c] = y] /\ y.op = "write" /\ y.label = l
            /\ Serving(y, d, chain[l], leaf, m, db'[l])
    BY <1>3a
<1>4. want' = want /\ chain' = chain
    BY DEF clientVars
<1>5. WantSeen(want[l]) = {leaf}
    BY <1>3 DEF WantSeen, Wanted, NoWant
<1> DEFINE T == State(After(ch[Len(ch)], leaf))
           idx == Len(d.nodes) + m
<1>6. SeenWrite(d, ch, leaf, m, e, T)
    BY <1>2, <1>3, SeenOfNew
<1>7. Begun(d, ch, at, leaf, m, e) /\ m = Len(PlanOf(d, leaf))
    BY <1>3
<1>8. e.leafs = d.leafs /\ f.leafs = Append(e.leafs, [key |-> leaf.key, value |-> leaf.value, root_idx |-> idx])
    BY <1>3 DEF NewLeaf
<1>9. ~ SeenPair(e, leaf)
    BY <1>7, <1>8 DEF Begun, NewPair, SeenPair
<1> HIDE DEF T, e, f, ch
<1>10. T = SeenTarget(ch, leaf)
    BY <1>6, <1>7, SeenOfWrite
<1>11. SeenStored(e, T) /\ Len(d.nodes) + m \in Nat
       /\ {i \in DOMAIN RowsSeen(e) : RowsSeen(e)[i] = T} = {Len(d.nodes) + m}
    BY <1>6, <1>7, SeenOfWrite
<1>12. RowsSeen(f) = RowsSeen(e)
    BY <1>2 DEF RowsSeen, RowSeen
<1> HIDE DEF idx
<1>13. idx \in Nat /\ {i \in DOMAIN RowsSeen(e) : RowsSeen(e)[i] = T} = {idx}
    BY <1>11 DEF idx
<1> QED
    BY <1>4, <1>5, <1>8, <1>9, <1>10, <1>11, <1>12, <1>13, StoreAddsLeaf DEF e, f, ch

LEMMA AcknowledgeSeen ==
    ASSUME ClientInv, NEW c, Client = {c}, NEW l \in Label, l = StoreLabel, Acknowledge(c, l),
           Inner \notin [Key -> Value]
    PROVE  Store!Next
<1> DEFINE ch == chain[l]
           e == db[l]
           x == call[c]
<1>1. /\ x.pc = "done" /\ x.op = "write" /\ x.ok /\ x.label = l /\ want[l] # NoWant
      /\ chain' = [chain EXCEPT ![l] = Append(ch, x.root)]
      /\ want' = [want EXCEPT ![l] = NoWant] /\ UNCHANGED db
    BY DEF Acknowledge, Awaited, Return
<1>2. LabelState(e, ch, want[l], x, l)
    BY DEF ClientInv
<1>3. ch \in Seq(Hash) /\ chain'[l] = Append(ch, x.root) /\ want'[l] = NoWant
    BY <1>1 DEF ClientInv
<1> HIDE DEF e, ch, x
<1>4. Writes(x, l)
    BY <1>1 DEF Writes
<1>5a. PICK leaf \in Leaves : \E d, at, m :
          want[l] = Wanted(Len(ch), leaf) /\ Begun(d, ch, at, leaf, m, e) /\ Serving(x, d, ch, leaf, m, e)
    BY <1>1, <1>2, <1>4, AskedFor
<1>5. PICK d, at, m :
          want[l] = Wanted(Len(ch), leaf) /\ Begun(d, ch, at, leaf, m, e) /\ Serving(x, d, ch, leaf, m, e)
    BY <1>5a
<1>6. x.root = After(ch[Len(ch)], leaf) /\ Answered(x, d, leaf, m, e)
    BY <1>1, <1>5 DEF Serving, ServingNodes, ServingLeaf
<1>7. WantSeen(want[l]) = {leaf} /\ WantSeen(want'[l]) = {}
    BY <1>3, <1>5 DEF WantSeen, Wanted, NoWant
<1>8. SeenPair(e, leaf)
    <2> DEFINE rows == Append(d.leafs, NewLeaf(d, leaf))
               i == Len(d.leafs) + 1
    <2>1. Settled(d, ch, at, KeyLength) /\ Ready(ch, leaf, KeyLength)
        BY <1>5 DEF Begun
    <2>2. /\ rows[i] = NewLeaf(d, leaf) /\ i \in 1..Len(rows) /\ rows \in Seq(LeafRow)
          /\ NewLeaf(d, leaf).key = leaf.key /\ NewLeaf(d, leaf).value = leaf.value
        BY <2>1, NewLeafIs
    <2>3. e.leafs = rows
        BY <1>6 DEF Answered, LeafStored
    <2> HIDE DEF rows, i
    <2>4. i \in DOMAIN rows
        BY <2>2
    <2> QED
        BY <2>2, <2>3, <2>4 DEF SeenPair
<1>9. State(x.root) = SeenTarget(ch, leaf)
    <2>1. SeenWrite(d, ch, leaf, m, e, State(After(ch[Len(ch)], leaf)))
        BY <1>5, SeenOfNew DEF ch
    <2> DEFINE T == State(After(ch[Len(ch)], leaf))
    <2>2. SeenWrite(d, ch, leaf, m, e, T)
        BY <2>1
    <2> HIDE DEF T
    <2>3. T = SeenTarget(ch, leaf)
        BY <1>5, <2>2, SeenOfWrite
    <2> QED
        BY <1>6, <2>3 DEF T
<1>10. StatesSeen(chain'[l]) = Append(StatesSeen(ch), SeenTarget(ch, leaf))
    <2>1. x.root \in Hash
        <3>1. Settled(d, ch, at, KeyLength) /\ \A i \in 1..Len(ch) : OverKeys(ch[i])
            BY <1>5 DEF Begun, ClientInv, ch
        <3>2. Contents(ch[Len(ch)])
            BY <3>1, SeenSettled, SettledIs
        <3> QED
            BY <1>6, <3>2, ContentsAfter, ContentsAre
    <2>2. StatesSeen(Append(ch, x.root)) = Append(StatesSeen(ch), State(x.root))
        BY <1>3, <2>1, StatesSeenGrow
    <2> QED
        BY <1>3, <1>9, <2>2
<1> QED
    BY <1>1, <1>7, <1>8, <1>10, StoreAcknowledges DEF ch, e

LEMMA NextSeen ==
    ASSUME ClientInv, Rules = AllRules, NEW c, Client = {c}, StoreLabel \in Label, Inner \notin [Key -> Value],
           [ClientNext]_allVars
    PROVE  [Store!Next]_(Store!vars)
<1> DEFINE L == StoreLabel
           Still == db'[L] = db[L] /\ chain'[L] = chain[L] /\ want'[L] = want[L]
<1>1. Still => UNCHANGED Store!vars
    BY StoreUnmoved
<1>2. ASSUME NEW l \in Label, NEW n, NEW leaf \in Leaves, Submit(c, l, n, leaf) PROVE Store!Next \/ Still
    <2>1. CASE l = L
        BY <1>2, <2>1, SubmitSeen
    <2>2. CASE l # L
        BY <1>2, <2>2 DEF Submit, Send, Write, Update, ClientInv
    <2> QED
        BY <2>1, <2>2
<1>3. ASSUME NEW l \in Label, NEW n, NEW leaf \in Leaves, SubmitInNextRun(c, l, n, leaf) PROVE Still
    <2>1. /\ want[l] = Wanted(n, leaf) /\ want' = [want EXCEPT ![l] = Wanted(n, leaf)]
          /\ UNCHANGED <<db, chain>>
        BY <1>3 DEF SubmitInNextRun, Send, Write, Update, AllRules
    <2>2. want'[L] = want[L]
        BY <2>1 DEF ClientInv
    <2> QED
        BY <2>1, <2>2
<1>4. ASSUME NEW l \in Label, Acknowledge(c, l) PROVE Store!Next \/ Still
    <2>1. CASE l = L
        BY <1>4, <2>1, AcknowledgeSeen
    <2>2. CASE l # L
        BY <1>4, <2>2 DEF Acknowledge, Return, ClientInv
    <2> QED
        BY <2>1, <2>2
<1>5. ASSUME NEW l \in Label, Query(c, l) \/ QueryWrite(c, l) PROVE Still
    BY <1>5 DEF Query, QueryWrite, Read, GetStateProofRead, RootNodeIdx, GetStateProofWrite, Answer, clientVars
<1>6. ASSUME Serve(c) PROVE Store!Next \/ Still
    <2>1. UNCHANGED clientVars
        BY <1>6 DEF Serve
    <2>2. CASE InsertNode(c)
        <3>1. CASE call[c].label = L
            BY <2>1, <2>2, <3>1, InsertNodeSeen
        <3>2. CASE call[c].label # L
            <4>1. NodeStep(c, call[c].label)
                BY <2>2, InsertNodeMoves
            <4> QED
                BY <2>1, <3>2, <4>1 DEF NodeStep, clientVars
        <3> QED
            BY <3>1, <3>2
    <2>3. CASE InsertLeaf(c)
        <3>1. CASE call[c].label = L
            BY <2>1, <2>3, <3>1, InsertLeafSeen
        <3>2. CASE call[c].label # L
            <4>1. LeafStep(c, call[c].label)
                BY <2>3, InsertLeafMoves
            <4> QED
                BY <2>1, <3>2, <4>1 DEF LeafStep, clientVars
        <3> QED
            BY <3>1, <3>2
    <2>4. CASE ~ InsertNode(c) /\ ~ InsertLeaf(c)
        <3>1. UNCHANGED db
            BY <1>6, <2>4 DEF Serve, SelectNode, NodesDone, SelectRoot, MaxIdx, SelectLeaf, Respond
        <3> QED
            BY <2>1, <3>1 DEF clientVars
    <2> QED
        BY <2>2, <2>3, <2>4
<1>7. ASSUME TakeAnswer(c) PROVE Still
    BY <1>7 DEF TakeAnswer, Return, clientVars
<1>8. ASSUME Fault PROVE Still
    BY <1>8 DEF Fault, Crash, StatementFails, clientVars
<1>9. ASSUME UNCHANGED allVars PROVE Still
    BY <1>9 DEF allVars, vars, clientVars
<1> HIDE DEF Still
<1>10. Store!Next \/ Still
    BY <1>2, <1>3, <1>4, <1>5, <1>6, <1>7, <1>8, <1>9 DEF ClientNext
<1> QED
    BY <1>1, <1>10

LEMMA InitSeen ==
    ASSUME ClientInit, StoreLabel \in Label
    PROVE  Store!Init
<1>1. /\ db[StoreLabel] = EmptyDB /\ chain[StoreLabel] = <<EmptyHash>> /\ want[StoreLabel] = NoWant
    BY DEF ClientInit, Init
<1>2. EmptyDB.nodes = <<>> /\ EmptyDB.leafs = <<>> /\ DOMAIN <<>> = {}
    BY DEF EmptyDB
<1>3. State(EmptyHash) = [k \in Key |-> Zero]
    BY DEF State, Lookup, EmptyHash
<1>4. RowsSeen(EmptyDB) = <<>>
    BY <1>2 DEF RowsSeen
<1>5. StatesSeen(<<EmptyHash>>) = <<[k \in Key |-> Zero]>>
    <2> DEFINE ch == <<EmptyHash>>
               E == [k \in Key |-> Zero]
    <2>1. DOMAIN ch = {1} /\ ch[1] = EmptyHash /\ <<E>> = [n \in {1} |-> E]
        OBVIOUS
    <2> HIDE DEF ch, E
    <2>2. StatesSeen(ch) = [n \in {1} |-> State(ch[n])]
        BY <2>1 DEF StatesSeen
    <2>3. State(ch[1]) = E
        BY <1>3, <2>1 DEF E
    <2> QED
        BY <2>1, <2>2, <2>3 DEF ch, E
<1> QED
    BY <1>1, <1>2, <1>4, <1>5 DEF Store!Init, Store!Empty, RowsSeen, RowSeen, StatesSeen, WantSeen

(* The tables of a trie do only what TrieStore allows, whatever the shape   *)
(* of the tree, the faults and the runs these end: inner rows, then the     *)
(* root, then the leaf row under the root's index, then the answer.  What   *)
(* is proved of TrieStore holds of the server's tables.                     *)
THEOREM ServerImplementsStore ==
    ASSUME Rules = AllRules, NEW c, Client = {c}, Label # {}, Inner \notin [Key -> Value]
    PROVE  ClientSpec => ImplementsStore
<1>1. StoreLabel \in Label
    BY DEF StoreLabel
<1>2. ClientInit => Store!Init
    BY <1>1, InitSeen
<1>3. ClientInv /\ [ClientNext]_allVars => [Store!Next]_(Store!vars)
    BY <1>1, NextSeen
<1>4. ClientSpec => []ClientInv
    BY ClientSafe
<1> QED
    BY <1>2, <1>3, <1>4, PTL DEF ClientSpec, ImplementsStore, Store!Spec
=============================================================================
