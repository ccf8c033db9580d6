------------------------ MODULE InjectedStateProofs ------------------------
(***************************************************************************)
(* Proofs about InjectedState, for any labels, keys, values and number of  *)
(* calls.  TypeCorrect needs no rule; the rest is about a module that      *)
(* keeps all of them.                                                      *)
(***************************************************************************)
EXTENDS InjectedState, TLAPS

USE InjectedAssumption

-----------------------------------------------------------------------------
(* A dictionary keeps its type, and so does the empty one. *)
LEMMA AddType ==
    ASSUME NEW dict, NEW Keys, NEW Data, IsDict(dict, Keys, Data),
           NEW x \in Keys, NEW data \in Data
    PROVE  IsDict(Add(dict, x, data), Keys, Data)
  BY DEF Add, IsDict

(* An update of a root is a root. *)
LEMMA UpdateType ==
    ASSUME NEW root \in Root, NEW k \in Key, NEW v \in Value
    PROVE  Update(root, k, v) \in Root
  BY DEF Update, Root

(* What the server says of a key at a root is a reply. *)
LEMMA ReplyType ==
    ASSUME NEW root \in Root, NEW k \in Key, NEW reply \in ServerReply(root, k)
    PROVE  reply \in [exist : BOOLEAN, value : Value]
  <1>1. root[k] \in Value /\ (root[k] # Zero) \in BOOLEAN
    BY DEF Root
  <1>2. \A e \in BOOLEAN : Found(e, root[k]) \in [exist : BOOLEAN, value : Value]
    BY <1>1 DEF Found
  <1>3. \E e \in BOOLEAN : reply = Found(e, root[k])
    BY <1>1, Zenon DEF ServerReply
  <1> QED  BY <1>2, <1>3

(* The empty dictionary has any type. *)
LEMMA EmptyType ==
    ASSUME NEW Keys, NEW Data
    PROVE  IsDict(Empty, Keys, Data) /\ DOMAIN Empty = {}
  BY DEF Empty, IsDict

(* The action recorded for an access and its proof are of their type. *)
LEMMA ProofOfType ==
    ASSUME NEW a \in Actions
    PROVE  ProofOf(a) \in Proofs
  <1>1. CASE a \in [op : {"read"}, label : Label, root : Root, key : Key]
    <2>1. a.root[a.key] \in Value
      BY <1>1 DEF Root
    <2> QED  BY <1>1, <2>1 DEF ProofOf, Proofs
  <1>2. CASE a \in [op : {"write"}, label : Label, root : Root, key : Key, value : Value]
    <2>1. Update(a.root, a.key, a.value) \in Root
      BY <1>2, UpdateType
    <2> QED  BY <1>2, <2>1 DEF ProofOf, Proofs
  <1> QED  BY <1>1, <1>2 DEF Actions

-----------------------------------------------------------------------------
(* TypeOK is inductive. *)
LEMMA TypeInit == Init => TypeOK
  <1> SUFFICES ASSUME Init PROVE TypeOK
    OBVIOUS
  <1>1. injected \in [Label -> Root \union {NoRoot}]
    BY DEF Init
  <1> QED  BY <1>1, EmptyType DEF Init, TypeOK

(* A step of the dry run keeps the types. *)
LEMMA TypeDry == TypeOK /\ DryStep => TypeOK'
  <1> SUFFICES ASSUME TypeOK, DryStep PROVE TypeOK'
    OBVIOUS
  <1> USE DEF TypeOK
  <1>1. ASSUME NEW l \in Label, DryLabel(l) PROVE TypeOK'
    <2>1. [call |-> LabelCall(l), roots |-> runtime, answer |-> runtime[l]] \in Entries
      BY DEF LabelCall, Calls, Replies, Entries
    <2> QED  BY <1>1, <2>1 DEF DryLabel, Record, memorizer, proofs, sound
  <1>2. ASSUME NEW l \in Label, DryFails(l) PROVE TypeOK'
    BY <1>2 DEF DryFails, memorizer, dry, proofs, sound
  <1>3. ASSUME NEW l \in Label, NEW k \in Key, DryReadCached(l, k) PROVE TypeOK'
    <2>1. runtime[l] \in Root
      BY <1>3 DEF DryReadCached
    <2>2. ReadAction(l, k) \in Actions
      BY <2>1 DEF ReadAction, Actions
    <2>3. key_set' \in [Label -> Seq(Actions)]
      BY <1>3, <2>2 DEF DryReadCached, Push, ReadAction
    <2>4. [call |-> ReadCall(l, k), roots |-> runtime, answer |-> read_cache[<<l, k>>]]
             \in Entries
      BY <1>3 DEF DryReadCached, ReadCall, Calls, Replies, Entries, IsDict
    <2> QED  BY <1>3, <2>3, <2>4 DEF DryReadCached, Record, memorizer, proofs, sound
  <1>4. ASSUME NEW l \in Label, NEW k \in Key, DryRead(l, k) PROVE TypeOK'
    <2>1. runtime[l] \in Root
      BY <1>4 DEF DryRead
    <2>2. ReadAction(l, k) \in Actions
      BY <2>1 DEF ReadAction, Actions
    <2>3. key_set' \in [Label -> Seq(Actions)]
      BY <1>4, <2>2 DEF DryRead, Push, ReadAction
    <2>4. PICK reply \in ServerReply(runtime[l], k) :
             /\ Record(ReadCall(l, k), reply)
             /\ read_cache' = Add(read_cache, <<l, k>>, reply)
      BY <1>4 DEF DryRead
    <2>5. reply \in [exist : BOOLEAN, value : Value]
      BY <2>1, <2>4, ReplyType
    <2>6. [call |-> ReadCall(l, k), roots |-> runtime, answer |-> reply]
             \in Entries
      BY <2>5 DEF ReadCall, Calls, Replies, Entries
    <2>7. IsDict(read_cache', Label \X Key, [exist : BOOLEAN, value : Value])
      BY <2>4, <2>5, AddType
    <2>8. trace' \in Seq(Entries)
             /\ Len(trace') = Len(trace) + 1
      BY <2>4, <2>6 DEF Record
    <2> QED  BY <1>4, <2>3, <2>7, <2>8 DEF DryRead, memorizer, proofs, sound
  <1>5. ASSUME NEW l \in Label, NEW k \in Key, NEW v \in Value, DryWrite(l, k, v) PROVE TypeOK'
    <2>1. runtime[l] \in Root /\ Update(runtime[l], k, v) \in Root
      BY <1>5, UpdateType DEF DryWrite
    <2>2. WriteAction(l, k, v) \in Actions
      BY <2>1 DEF WriteAction, Actions
    <2>3. key_set' \in [Label -> Seq(Actions)]
      BY <1>5, <2>2 DEF DryWrite, Push, WriteAction
    <2>4. [call |-> WriteCall(l, k, v), roots |-> runtime, answer |-> Update(runtime[l], k, v)]
             \in Entries
      BY <2>1 DEF WriteCall, Calls, Replies, Entries
    <2>5. Found(TRUE, v) \in [exist : BOOLEAN, value : Value]
      BY DEF Found
    <2>6. IsDict(read_cache', Label \X Key, [exist : BOOLEAN, value : Value])
      BY <1>5, <2>5, AddType DEF DryWrite
    <2>7. runtime' \in [Label -> Root \union {NoRoot}]
      BY <1>5, <2>1 DEF DryWrite
    <2>8. trace' \in Seq(Entries)
             /\ Len(trace') = Len(trace) + 1
      BY <1>5, <2>4 DEF DryWrite, Record
    <2>9. answers' = answers /\ replayed' \in 0..Len(trace') /\ Len(answers') <= Len(trace')
      BY <1>5, <2>8 DEF DryWrite, sound
    <2> QED  BY <1>5, <2>3, <2>6, <2>7, <2>8, <2>9 DEF DryWrite, proofs
  <1>6. ASSUME DryEnds PROVE TypeOK'
    BY <1>6 DEF DryEnds, memorizer, dry, sound
  <1> QED  BY <1>1, <1>2, <1>3, <1>4, <1>5, <1>6 DEF DryStep

(* Concatenation: its length, and where its elements come from. *)
LEMMA ConcatFacts ==
    ASSUME NEW S, NEW s \in Seq(S), NEW t \in Seq(S)
    PROVE  /\ s \o t \in Seq(S)
           /\ Len(s \o t) = Len(s) + Len(t)
           /\ \A i \in DOMAIN s : i \in DOMAIN (s \o t) /\ (s \o t)[i] = s[i]
           /\ \A j \in DOMAIN t : Len(s) + j \in DOMAIN (s \o t) /\ (s \o t)[Len(s) + j] = t[j]
           /\ \A i \in DOMAIN (s \o t) :
                 \/ i \in DOMAIN s /\ (s \o t)[i] = s[i]
                 \/ \E j \in DOMAIN t : (s \o t)[i] = t[j]
  <1>1. s \o t \in Seq(S) /\ Len(s \o t) = Len(s) + Len(t)
    OBVIOUS
  <1>2. \A i \in DOMAIN s : i \in DOMAIN (s \o t) /\ (s \o t)[i] = s[i]
    OBVIOUS
  <1>3. \A j \in DOMAIN t : Len(s) + j \in DOMAIN (s \o t) /\ (s \o t)[Len(s) + j] = t[j]
    OBVIOUS
  <1>4. ASSUME NEW i \in DOMAIN (s \o t), i \notin DOMAIN s
        PROVE  \E j \in DOMAIN t : (s \o t)[i] = t[j]
    <2>1. i - Len(s) \in DOMAIN t /\ (s \o t)[i] = t[i - Len(s)]
      BY <1>4
    <2> QED  BY <2>1
  <1> QED  BY <1>1, <1>2, <1>3, <1>4

(* The proofs of the actions of a label. *)
LEMMA ProofsOfType ==
    ASSUME NEW s \in Seq(Actions)
    PROVE  /\ [i \in DOMAIN s |-> ProofOf(s[i])] \in Seq(Proofs)
           /\ DOMAIN [i \in DOMAIN s |-> ProofOf(s[i])] = DOMAIN s
  <1>1. \A i \in 1..Len(s) : ProofOf(s[i]) \in Proofs
    BY ProofOfType
  <1> QED  BY <1>1

(* Fetching and loading keep the types. *)
LEMMA TypeFetch == TypeOK /\ FetchStep => TypeOK'
  <1> SUFFICES ASSUME TypeOK, FetchStep PROVE TypeOK'
    OBVIOUS
  <1> USE DEF TypeOK
  <1>1. ASSUME NEW l \in Label, Fetch(l) PROVE TypeOK'
    <2>1. /\ state_proofs' \in Seq(Proofs)
          /\ Len(state_proofs') = Len(state_proofs) + Len([i \in DOMAIN key_set[l] |-> ProofOf(key_set[l][i])])
      BY <1>1, ProofsOfType, ConcatFacts DEF Fetch
    <2>2. Len([i \in DOMAIN key_set[l] |-> ProofOf(key_set[l][i])]) \in Nat
      BY ProofsOfType
    <2>3. idx' \in 0..Len(state_proofs')
      BY <1>1, <2>1, <2>2 DEF Fetch
    <2> QED  BY <1>1, <2>1, <2>3 DEF Fetch, memorizer, dry, sound
  <1>2. ASSUME FetchFails PROVE TypeOK'
    BY <1>2 DEF FetchFails, memorizer, dry, proofs, sound
  <1>3. ASSUME Load PROVE TypeOK'
    BY <1>3, EmptyType DEF Load, dry, sound
  <1> QED  BY <1>1, <1>2, <1>3 DEF FetchStep

(* Verifying keeps the types. *)
LEMMA TypeVerify == TypeOK /\ VerifyStep => TypeOK'
  <1> SUFFICES ASSUME TypeOK, VerifyStep PROVE TypeOK'
    OBVIOUS
  <1> USE DEF TypeOK
  <1>1. ASSUME VerifyRead PROVE TypeOK'
    <2>1. /\ state_proofs[idx] \in [op : {"read"}, label : Label, root : Root, key : Key, value : Value]
          /\ idx' \in 0..Len(state_proofs)
      BY <1>1 DEF VerifyRead, Proofs
    <2>2. At(state_proofs[idx]) \in Place
      BY <2>1 DEF At, Place
    <2>3. IsDict(inclusion', Place, Value) /\ IsDict(non_inclusion', Place, Value)
      BY <1>1, <2>1, <2>2, AddType DEF VerifyRead
    <2> QED  BY <1>1, <2>1, <2>3 DEF VerifyRead, dry, sound
  <1>2. ASSUME VerifyWrite PROVE TypeOK'
    <2>1. /\ state_proofs[idx] \in [op : {"write"}, label : Label, root : Root, key : Key, new_root : Root]
          /\ idx' \in 0..Len(state_proofs)
      BY <1>2 DEF VerifyWrite, Proofs
    <2>2. At(state_proofs[idx]) \in Place
      BY <2>1 DEF At, Place
    <2>3. IsDict(write', Place, Root)
      BY <1>2, <2>1, <2>2, AddType DEF VerifyWrite
    <2> QED  BY <1>2, <2>1, <2>3 DEF VerifyWrite, dry, sound
  <1>3. ASSUME VerifyEnds PROVE TypeOK'
    BY <1>3 DEF VerifyEnds, memorizer, dry, proofs, sound
  <1> QED  BY <1>1, <1>2, <1>3 DEF VerifyStep

(* The call the sound run is at, and its answer. *)
LEMMA NextCallType ==
    ASSUME trace \in Seq(Entries), answers \in Seq(Replies), Len(answers) < Len(trace)
    PROVE  NextCall \in Calls
  <1>1. trace[Len(answers) + 1] \in Entries
    OBVIOUS
  <1> QED  BY <1>1 DEF NextCall, Entries

LEMMA RespondFacts ==
    ASSUME answers \in Seq(Replies), NEW answer \in Replies, Respond(answer)
    PROVE  /\ answers' \in Seq(Replies) /\ Len(answers') = Len(answers) + 1
           /\ \A n \in DOMAIN answers : answers'[n] = answers[n]
           /\ answers'[Len(answers) + 1] = answer
           /\ UNCHANGED <<stage, replayed>>
  BY DEF Respond

(* The sound run keeps the types. *)
LEMMA TypeSound == TypeOK /\ SoundStep => TypeOK'
  <1> SUFFICES ASSUME TypeOK, SoundStep PROVE TypeOK'
    OBVIOUS
  <1> USE DEF TypeOK
  <1>0. Len(answers) \in Nat /\ Len(trace) \in Nat
    OBVIOUS
  <1>a. ASSUME Len(answers) < Len(trace)
        PROVE  NextCall \in Calls
    BY <1>a, NextCallType
  <1>1. ASSUME SoundLabel PROVE TypeOK'
    <2>1. runtime[NextCall.label] \in Replies
      BY <1>1, <1>a DEF SoundLabel, SoundCall, Calls, Replies
    <2>2. answers' \in Seq(Replies) /\ Len(answers') = Len(answers) + 1
      BY <1>1, <2>1 DEF SoundLabel, Respond
    <2> QED  BY <1>0, <1>1, <2>2 DEF SoundLabel, SoundCall, Respond, memorizer, dry, proofs
  <1>2. ASSUME SoundRead PROVE TypeOK'
    <2> DEFINE x == <<NextCall.label, runtime[NextCall.label], NextCall.key>>
    <2>0. Len(answers) < Len(trace) /\ UNCHANGED <<injected, memorizer, dry, proofs>>
      BY <1>2 DEF SoundRead, SoundCall
    <2>1. CASE x \in DOMAIN inclusion /\ Respond(Found(TRUE, inclusion[x]))
      <3>1. Found(TRUE, inclusion[x]) \in Replies
        BY <2>1 DEF Found, Replies, IsDict
      <3>2. /\ answers' \in Seq(Replies) /\ Len(answers') = Len(answers) + 1
            /\ stage' = stage /\ replayed' = replayed
        BY <2>1, <3>1, RespondFacts
      <3> QED  BY <1>0, <2>0, <2>1, <3>2 DEF memorizer, dry, proofs
    <2>2. CASE x \in DOMAIN non_inclusion /\ Respond(Found(FALSE, non_inclusion[x]))
      <3>1. Found(FALSE, non_inclusion[x]) \in Replies
        BY <2>2 DEF Found, Replies, IsDict
      <3>2. /\ answers' \in Seq(Replies) /\ Len(answers') = Len(answers) + 1
            /\ stage' = stage /\ replayed' = replayed
        BY <2>2, <3>1, RespondFacts
      <3> QED  BY <1>0, <2>0, <2>2, <3>2 DEF memorizer, dry, proofs
    <2>3. CASE Reject
      BY <1>2, <2>3 DEF SoundRead, Reject, memorizer, dry, proofs
    <2> QED  BY <1>2, <2>1, <2>2, <2>3 DEF SoundRead
  <1>3. ASSUME SoundWrite PROVE TypeOK'
    <2> DEFINE l == NextCall.label
               x == <<l, runtime[l], NextCall.key>>
    <2>0. l \in Label
      BY <1>3, <1>a DEF SoundWrite, SoundCall, Calls
    <2>1. CASE /\ x \in DOMAIN write
               /\ runtime' = [runtime EXCEPT ![l] = write[x]]
               /\ Respond(write[x])
      <3>1. write[x] \in Root
        BY <2>1 DEF IsDict
      <3>2. answers' \in Seq(Replies) /\ Len(answers') = Len(answers) + 1
        BY <2>1, <3>1 DEF Respond, Replies
      <3>3. runtime' \in [Label -> Root \union {NoRoot}]
        BY <2>1, <3>1
      <3> QED  BY <1>0, <1>3, <2>1, <3>2, <3>3 DEF SoundWrite, SoundCall, Respond, dry, proofs
    <2>2. CASE Reject /\ UNCHANGED runtime
      BY <1>3, <2>2 DEF SoundWrite, Reject, dry, proofs
    <2> QED  BY <1>3, <2>1, <2>2 DEF SoundWrite
  <1>4. ASSUME SoundEnds PROVE TypeOK'
    BY <1>4 DEF SoundEnds, memorizer, dry, proofs, sound
  <1> QED  BY <1>1, <1>2, <1>3, <1>4 DEF SoundStep

(* The replay keeps the types. *)
LEMMA TypeReplay == TypeOK /\ ReplayStep => TypeOK'
  <1> SUFFICES ASSUME TypeOK, ReplayStep PROVE TypeOK'
    OBVIOUS
  <1> USE DEF TypeOK
  <1>1. ASSUME ReplayLabel PROVE TypeOK'
    BY <1>1 DEF ReplayLabel, ReplayCall, Asserted, memorizer, dry, proofs
  <1>2. ASSUME ReplayRead PROVE TypeOK'
    BY <1>2 DEF ReplayRead, ReplayCall, Asserted, memorizer, dry, proofs
  <1>3. ASSUME ReplayWrite PROVE TypeOK'
    <2> DEFINE l == Replayed.label
               x == <<l, execute[l], Replayed.key>>
    <2>1. execute' = [execute EXCEPT ![l] = IF x \in DOMAIN write THEN write[x] ELSE NoRoot]
      BY <1>3 DEF ReplayWrite
    <2>2. x \in DOMAIN write => write[x] \in Root
      BY DEF IsDict
    <2>3. execute' \in [Label -> Root \union {NoRoot}]
      BY <2>1, <2>2
    <2>4. stage' \in {stage, "rejected"} /\ replayed' \in 0..Len(trace)
      BY <1>3 DEF ReplayWrite, ReplayCall, Asserted
    <2> QED  BY <1>3, <2>3, <2>4 DEF ReplayWrite, dry, proofs
  <1>4. ASSUME ReplayEnds PROVE TypeOK'
    BY <1>4 DEF ReplayEnds, memorizer, dry, proofs, sound
  <1> QED  BY <1>1, <1>2, <1>3, <1>4 DEF ReplayStep

(* Every step keeps the types. *)
LEMMA TypeStep == TypeOK /\ [Next]_vars => TypeOK'
  <1>1. TypeOK /\ UNCHANGED vars => TypeOK'
    BY DEF TypeOK, vars, memorizer, dry, proofs, sound
  <1> QED  BY <1>1, TypeDry, TypeFetch, TypeVerify, TypeSound, TypeReplay DEF Next

(* Type correctness, whatever rules the module keeps. *)
THEOREM TypeCorrect == Spec => []TypeOK
  <1> QED  BY TypeInit, TypeStep, PTL DEF Spec

-----------------------------------------------------------------------------
(* What the parts of the invariant keep when what they read is unchanged. *)
LEMMA FrameTrace ==
    ASSUME UNCHANGED <<injected, trace>>, TraceTrue, OneValue
    PROVE  TraceTrue' /\ OneValue' /\ \A n : RootsAt(n)' = RootsAt(n)
  <1>1. \A n : RootsAt(n)' = RootsAt(n)
    BY DEF RootsAt, After
  <1>2. TraceTrue'
    BY <1>1 DEF TraceTrue, Truth, Met
  <1>3. OneValue'
    BY DEF OneValue, Met, IsWrite
  <1> QED  BY <1>1, <1>2, <1>3

LEMMA FrameDry ==
    ASSUME UNCHANGED <<injected, dry>>, TraceTrue, OneValue, AllRecorded, OnlyRecorded
    PROVE  /\ TraceTrue' /\ OneValue' /\ AllRecorded' /\ OnlyRecorded'
           /\ \A n : RootsAt(n)' = RootsAt(n)
  <1>1. UNCHANGED <<injected, trace, key_set>>
    BY DEF dry
  <1>2. AllRecorded' /\ OnlyRecorded'
    BY <1>1 DEF AllRecorded, OnlyRecorded, IsAccess, ActionOf, Met
  <1> QED  BY <1>1, <1>2, FrameTrace

(* The facts of the memorizer are about the trace. *)
LEMMA FrameFacts ==
    ASSUME UNCHANGED <<trace, inclusion, non_inclusion, write>>, FactsTrue
    PROVE  FactsTrue'
  BY DEF FactsTrue, IsWrite, Met, Truth

(* A call is added to the trace with the roots of the moment, its label     *)
(* injected, its answer true, and, if it is a write, one that agrees with   *)
(* the writes before it.                                                    *)
LEMMA TraceGrows ==
    ASSUME TypeOK, TraceTrue, OneValue, runtime = RootsAt(Len(trace) + 1),
           NEW e, trace' = Append(trace, e), injected' = injected,
           e.roots = runtime, Met(e) # NoRoot, e.answer = Truth(e), runtime' = After(e),
           \A n \in DOMAIN trace :
              /\ IsWrite(trace[n]) /\ IsWrite(e)
              /\ trace[n].call.label = e.call.label /\ trace[n].call.key = e.call.key
              /\ Met(trace[n]) = Met(e)
              => trace[n].call.value = e.call.value
    PROVE  TraceTrue' /\ OneValue' /\ runtime' = RootsAt(Len(trace) + 1)'
  <1>1. /\ trace \in Seq(Entries) /\ Len(trace) \in Nat
        /\ DOMAIN trace' = DOMAIN trace \union {Len(trace) + 1}
        /\ \A n \in DOMAIN trace : trace'[n] = trace[n]
        /\ trace'[Len(trace) + 1] = e
        /\ Len(trace') = Len(trace) + 1
    BY DEF TypeOK
  <1>2. \A n \in DOMAIN trace' : RootsAt(n)' = RootsAt(n)
    BY <1>1 DEF RootsAt
  <1>3. TraceTrue'
    BY <1>1, <1>2 DEF TraceTrue
  <1>4. OneValue'
    BY <1>1 DEF OneValue
  <1>5. runtime' = RootsAt(Len(trace) + 1)'
    BY <1>1 DEF RootsAt
  <1> QED  BY <1>3, <1>4, <1>5
(* The actions recorded for the fetcher grow with the trace. *)
LEMMA KeySetGrows ==
    ASSUME TypeOK, AllRecorded, OnlyRecorded,
           NEW e \in Entries, trace' = Append(trace, e),
           key_set' = IF IsAccess(e)
                      THEN [key_set EXCEPT ![e.call.label] = Append(key_set[e.call.label], ActionOf(e))]
                      ELSE key_set
    PROVE  AllRecorded' /\ OnlyRecorded'
  <1>1. /\ trace \in Seq(Entries) /\ Len(trace) \in Nat
        /\ DOMAIN trace' = DOMAIN trace \union {Len(trace) + 1}
        /\ \A n \in DOMAIN trace : trace'[n] = trace[n]
        /\ trace'[Len(trace) + 1] = e
    BY DEF TypeOK
  <1>2. e.call.label \in Label
    BY DEF Entries, Calls
  <1>3. key_set \in [Label -> Seq(Actions)]
    BY DEF TypeOK
  <1>4. \A l \in Label : \A i \in DOMAIN key_set[l] :
           i \in DOMAIN key_set'[l] /\ key_set'[l][i] = key_set[l][i]
    BY <1>2, <1>3
  <1>5. \A l \in Label : \A i \in DOMAIN key_set'[l] :
           \/ i \in DOMAIN key_set[l] /\ key_set'[l][i] = key_set[l][i]
           \/ IsAccess(e) /\ l = e.call.label /\ key_set'[l][i] = ActionOf(e)
    BY <1>2, <1>3
  <1>6. IsAccess(e) => \E i \in DOMAIN key_set'[e.call.label] :
                          key_set'[e.call.label][i] = ActionOf(e)
    <2>1. SUFFICES ASSUME IsAccess(e)
                   PROVE  /\ Len(key_set[e.call.label]) + 1 \in DOMAIN key_set'[e.call.label]
                          /\ key_set'[e.call.label][Len(key_set[e.call.label]) + 1] = ActionOf(e)
      OBVIOUS
    <2> QED  BY <1>2, <1>3, <2>1
  <1>7. ASSUME NEW n \in DOMAIN trace PROVE trace[n].call.label \in Label
    <2>1. trace[n] \in Entries
      BY <1>1
    <2> QED  BY <2>1 DEF Entries, Calls
  <1>8. AllRecorded'
    BY <1>1, <1>4, <1>6, <1>7 DEF AllRecorded
  <1>9. OnlyRecorded'
    <2> SUFFICES ASSUME NEW l \in Label, NEW i \in DOMAIN key_set'[l]
                 PROVE  \E n \in DOMAIN trace' :
                           IsAccess(trace'[n]) /\ key_set'[l][i] = ActionOf(trace'[n])
      BY DEF OnlyRecorded
    <2>1. CASE i \in DOMAIN key_set[l] /\ key_set'[l][i] = key_set[l][i]
      <3>1. PICK n \in DOMAIN trace : IsAccess(trace[n]) /\ key_set[l][i] = ActionOf(trace[n])
        BY <2>1 DEF OnlyRecorded
      <3> QED  BY <1>1, <2>1, <3>1
    <2>2. CASE IsAccess(e) /\ key_set'[l][i] = ActionOf(e)
      BY <1>1, <2>2
    <2> QED  BY <1>5, <2>1, <2>2
  <1> QED  BY <1>8, <1>9

(* A call of the dry run keeps the invariant: what each of them has to say  *)
(* is how the cache stays fresh.                                            *)
LEMMA DryCall ==
    ASSUME IInv, TypeOK', stage = "dry",
           UNCHANGED <<stage, injected, execute, inclusion, non_inclusion, write, proofs, sound>>,
           NEW e \in Entries, trace' = Append(trace, e),
           e.roots = runtime, Met(e) # NoRoot, e.answer = Truth(e), runtime' = After(e),
           \A n \in DOMAIN trace :
              /\ IsWrite(trace[n]) /\ IsWrite(e)
              /\ trace[n].call.label = e.call.label /\ trace[n].call.key = e.call.key
              /\ Met(trace[n]) = Met(e)
              => trace[n].call.value = e.call.value,
           key_set' = IF IsAccess(e)
                      THEN [key_set EXCEPT ![e.call.label] = Append(key_set[e.call.label], ActionOf(e))]
                      ELSE key_set,
           \A x \in DOMAIN read_cache' :
              /\ runtime'[x[1]] # NoRoot
              /\ read_cache'[x] = Found(runtime'[x[1]][x[2]] # Zero, runtime'[x[1]][x[2]])
    PROVE  IInv'
  <1>1. TraceTrue' /\ OneValue' /\ runtime' = RootsAt(Len(trace) + 1)'
    <2>1. TypeOK /\ TraceTrue /\ OneValue /\ runtime = RootsAt(Len(trace) + 1)
      BY DEF IInv, CacheFresh
    <2> QED  BY <2>1, TraceGrows
  <1>2. AllRecorded' /\ OnlyRecorded'
    BY KeySetGrows DEF IInv
  <1>3. CacheFresh'
    BY <1>1 DEF CacheFresh
  <1>4. /\ answers' = <<>> /\ replayed' = 0 /\ state_proofs' = <<>> /\ stage' = "dry"
        /\ DOMAIN inclusion' = {} /\ DOMAIN non_inclusion' = {} /\ DOMAIN write' = {}
    BY DEF IInv, Progress, proofs, sound
  <1>5. Progress'
    BY <1>4 DEF Progress, Proving
  <1>6. AllFetched' /\ OnlyFetched'
    BY <1>4 DEF AllFetched, OnlyFetched
  <1>7. FactsTrue' /\ ProofsPassed'
    BY <1>4 DEF FactsTrue, ProofsPassed, Proving
  <1>8. SoundAgrees' /\ Completes'
    BY <1>4 DEF SoundAgrees, Completes
  <1> QED  BY <1>1, <1>2, <1>3, <1>5, <1>6, <1>7, <1>8 DEF IInv
LEMMA FrameFetched ==
    ASSUME UNCHANGED <<trace, state_proofs>>, OnlyFetched
    PROVE  OnlyFetched'
  BY DEF OnlyFetched, IsAccess, ProofOf, ActionOf, Met

(* An error ends the job and changes nothing else. *)
LEMMA Failing ==
    ASSUME IInv, TypeOK', stage' = "failed", UNCHANGED <<injected, memorizer, dry, proofs, sound>>
    PROVE  IInv'
  <1>1. UNCHANGED <<injected, trace, inclusion, non_inclusion, write, state_proofs, answers>>
    BY DEF memorizer, dry, proofs, sound
  <1>2. TraceTrue' /\ OneValue' /\ AllRecorded' /\ OnlyRecorded'
    BY FrameDry DEF IInv
  <1>3. FactsTrue' /\ OnlyFetched'
    BY <1>1, FrameFacts, FrameFetched DEF IInv
  <1>4. SoundAgrees' /\ Completes'
    BY <1>1 DEF IInv, SoundAgrees, Completes
  <1>5. CacheFresh' /\ AllFetched' /\ ProofsPassed' /\ Progress'
    BY DEF CacheFresh, AllFetched, ProofsPassed, Progress, Proving
  <1> QED  BY <1>2, <1>3, <1>4, <1>5 DEF IInv

(* A module that keeps all the rules. *)
LEMMA DryInv ==
    ASSUME Rules = AllRules
    PROVE  IInv /\ DryStep => IInv'
  <1> SUFFICES ASSUME IInv, DryStep PROVE IInv'
    OBVIOUS
  <1>0. TypeOK /\ TypeOK'
    BY TypeDry DEF IInv
  <1>r. /\ "known_label" \in Rules /\ "no_delete" \in Rules /\ "one_value" \in Rules
    BY DEF AllRules
  <1>c. stage = "dry" => \A x \in DOMAIN read_cache :
           /\ x \in Label \X Key
           /\ runtime[x[1]] # NoRoot
           /\ read_cache[x] = Found(runtime[x[1]][x[2]] # Zero, runtime[x[1]][x[2]])
    BY <1>0 DEF IInv, CacheFresh, TypeOK, IsDict
  <1>1. ASSUME NEW l \in Label, DryLabel(l) PROVE IInv'
    <2> DEFINE e == [call |-> LabelCall(l), roots |-> runtime, answer |-> runtime[l]]
    <2>1. e \in Entries
      BY <1>0 DEF TypeOK, LabelCall, Calls, Replies, Entries
    <2>2. /\ e.roots = runtime /\ e.call.op = "label" /\ e.call.label = l
          /\ e.answer = runtime[l]
      BY DEF LabelCall
    <2>3. /\ stage = "dry" /\ runtime[l] # NoRoot
          /\ trace' = Append(trace, e) /\ key_set' = key_set
          /\ UNCHANGED <<stage, injected, runtime, execute, inclusion, non_inclusion, write,
                         read_cache, proofs, sound>>
      BY <1>1, <1>r DEF DryLabel, Calling, Record, memorizer
    <2>4. /\ Met(e) # NoRoot /\ e.answer = Truth(e) /\ runtime' = After(e)
          /\ ~ IsWrite(e) /\ ~ IsAccess(e)
      BY <2>2, <2>3 DEF Met, Truth, After, IsWrite, IsAccess
    <2> HIDE DEF e
    <2> QED  BY <1>0, <1>c, <2>1, <2>2, <2>3, <2>4, DryCall
  <1>2. ASSUME NEW l \in Label, DryFails(l) PROVE IInv'
    BY <1>0, <1>2, Failing DEF DryFails
  <1>3. ASSUME NEW l \in Label, NEW k \in Key, DryReadCached(l, k) PROVE IInv'
    <2> DEFINE e == [call |-> ReadCall(l, k), roots |-> runtime, answer |-> read_cache[<<l, k>>]]
    <2>1. /\ stage = "dry" /\ runtime[l] # NoRoot /\ <<l, k>> \in DOMAIN read_cache
          /\ trace' = Append(trace, e) /\ Push(ReadAction(l, k))
          /\ UNCHANGED <<stage, injected, runtime, execute, inclusion, non_inclusion, write,
                         read_cache, proofs, sound>>
      BY <1>3 DEF DryReadCached, Calling, Record, memorizer
    <2>2. e \in Entries
      BY <1>0, <2>1 DEF TypeOK, ReadCall, Calls, Replies, Entries, IsDict
    <2>3. /\ e.roots = runtime /\ e.call.op = "read" /\ e.call.label = l /\ e.call.key = k
          /\ e.answer = read_cache[<<l, k>>]
      BY DEF ReadCall
    <2> HIDE DEF e
    <2>4. /\ Met(e) # NoRoot /\ e.answer = Truth(e) /\ runtime' = After(e)
          /\ ~ IsWrite(e) /\ IsAccess(e) /\ ReadAction(l, k) = ActionOf(e)
      BY <1>c, <2>1, <2>3 DEF Met, Truth, After, IsWrite, IsAccess, ReadAction, ActionOf
    <2>5. key_set' = [key_set EXCEPT ![e.call.label] = Append(key_set[e.call.label], ActionOf(e))]
      BY <2>1, <2>3, <2>4 DEF Push, ReadAction
    <2> QED  BY <1>0, <1>c, <2>1, <2>2, <2>3, <2>4, <2>5, DryCall
  <1>4. ASSUME NEW l \in Label, NEW k \in Key, DryRead(l, k) PROVE IInv'
    <2> DEFINE reply == Found(runtime[l][k] # Zero, runtime[l][k])
               e == [call |-> ReadCall(l, k), roots |-> runtime, answer |-> reply]
    <2>1. /\ stage = "dry" /\ runtime[l] # NoRoot
          /\ trace' = Append(trace, e) /\ Push(ReadAction(l, k))
          /\ read_cache' = Add(read_cache, <<l, k>>, reply)
          /\ UNCHANGED <<stage, injected, runtime, execute, inclusion, non_inclusion, write,
                         proofs, sound>>
      BY <1>4, <1>r DEF DryRead, ServerReply, Calling, Record, memorizer
    <2>2. runtime[l] \in Root
      BY <1>0, <2>1 DEF TypeOK
    <2>3. reply \in [exist : BOOLEAN, value : Value]
      <3>1. reply \in ServerReply(runtime[l], k)
        BY DEF ServerReply
      <3> QED  BY <2>2, <3>1, ReplyType
    <2>4. e \in Entries
      BY <1>0, <2>3 DEF TypeOK, ReadCall, Calls, Replies, Entries
    <2>5. /\ e.roots = runtime /\ e.call.op = "read" /\ e.call.label = l /\ e.call.key = k
          /\ e.answer = reply
      BY DEF ReadCall
    <2>a. /\ DOMAIN read_cache' = DOMAIN read_cache \union {<<l, k>>}
          /\ read_cache'[<<l, k>>] = reply
          /\ \A y \in DOMAIN read_cache : y # <<l, k>> => read_cache'[y] = read_cache[y]
      <3> HIDE DEF e
      <3>1. read_cache' = Add(read_cache, <<l, k>>, reply)
        BY <2>1
      <3> QED  BY <3>1 DEF Add
    <2>6. ASSUME NEW x \in DOMAIN read_cache'
          PROVE  /\ runtime'[x[1]] # NoRoot
                 /\ read_cache'[x] = Found(runtime'[x[1]][x[2]] # Zero, runtime'[x[1]][x[2]])
      <3>1. CASE x = <<l, k>>
        BY <2>1, <2>a, <3>1
      <3>2. CASE x # <<l, k>>
        BY <1>c, <2>1, <2>a, <3>2
      <3> QED  BY <3>1, <3>2
    <2> HIDE DEF e
    <2>7. /\ Met(e) # NoRoot /\ e.answer = Truth(e) /\ runtime' = After(e)
          /\ ~ IsWrite(e) /\ IsAccess(e) /\ ReadAction(l, k) = ActionOf(e)
      BY <2>1, <2>5 DEF Met, Truth, After, IsWrite, IsAccess, ReadAction, ActionOf
    <2>8. key_set' = [key_set EXCEPT ![e.call.label] = Append(key_set[e.call.label], ActionOf(e))]
      BY <2>1, <2>5, <2>7 DEF Push, ReadAction
    <2> QED  BY <1>0, <2>1, <2>4, <2>5, <2>6, <2>7, <2>8, DryCall
  <1>5. ASSUME NEW l \in Label, NEW k \in Key, NEW v \in Value, DryWrite(l, k, v) PROVE IInv'
    <2> DEFINE new == Update(runtime[l], k, v)
               e == [call |-> WriteCall(l, k, v), roots |-> runtime, answer |-> new]
    <2>1. /\ stage = "dry" /\ runtime[l] # NoRoot /\ MayWrite(l, k, v)
          /\ runtime' = [runtime EXCEPT ![l] = new]
          /\ trace' = Append(trace, e) /\ Push(WriteAction(l, k, v))
          /\ read_cache' = Add(read_cache, <<l, k>>, Found(TRUE, v))
          /\ UNCHANGED <<stage, injected, execute, inclusion, non_inclusion, write, proofs, sound>>
      BY <1>5 DEF DryWrite, Calling, Record
    <2>2. runtime[l] \in Root /\ new \in Root /\ new # NoRoot
      BY <1>0, <2>1, UpdateType DEF TypeOK
    <2>3. /\ v # Zero
          /\ \A n \in DOMAIN trace :
                /\ trace[n].call.op = "write"
                /\ trace[n].call.label = l /\ trace[n].call.key = k
                /\ trace[n].roots[l] = runtime[l]
                => trace[n].call.value = v
      BY <1>r, <2>1 DEF MayWrite
    <2>4. e \in Entries
      BY <1>0, <2>2 DEF TypeOK, WriteCall, Calls, Replies, Entries
    <2>5. /\ e.roots = runtime /\ e.call.op = "write" /\ e.call.label = l /\ e.call.key = k
          /\ e.call.value = v /\ e.answer = new
      BY DEF WriteCall
    <2>6. runtime'[l] = new /\ \A other \in Label : other # l => runtime'[other] = runtime[other]
      BY <1>0, <2>1 DEF TypeOK
    <2>7. new[k] = v /\ \A other \in Key : other # k => new[other] = runtime[l][other]
      BY <2>2 DEF Update, Root
    <2>a. /\ DOMAIN read_cache' = DOMAIN read_cache \union {<<l, k>>}
          /\ read_cache'[<<l, k>>] = Found(TRUE, v)
          /\ \A y \in DOMAIN read_cache : y # <<l, k>> => read_cache'[y] = read_cache[y]
      <3> HIDE DEF e
      <3>1. read_cache' = Add(read_cache, <<l, k>>, Found(TRUE, v))
        BY <2>1
      <3> QED  BY <3>1 DEF Add
    <2>8. ASSUME NEW x \in DOMAIN read_cache'
          PROVE  /\ runtime'[x[1]] # NoRoot
                 /\ read_cache'[x] = Found(runtime'[x[1]][x[2]] # Zero, runtime'[x[1]][x[2]])
      <3>1. CASE x = <<l, k>>
        <4>1. (v # Zero) = TRUE
          BY <2>3
        <4>2. runtime'[x[1]] = new /\ new[x[2]] = v
          BY <2>6, <2>7, <3>1
        <4> QED  BY <2>2, <2>a, <3>1, <4>1, <4>2
      <3>2. CASE x # <<l, k>>
        <4>1. x \in DOMAIN read_cache /\ read_cache'[x] = read_cache[x]
          BY <2>a, <3>2
        <4>2. x[1] \in Label /\ x[2] \in Key /\ x = <<x[1], x[2]>>
          BY <1>c, <2>1, <4>1
        <4>3. CASE x[1] = l
          <5>1. x[2] # k
            BY <3>2, <4>2, <4>3
          <5>2. runtime'[x[1]] # NoRoot /\ runtime'[x[1]][x[2]] = runtime[x[1]][x[2]]
            BY <2>2, <2>6, <2>7, <4>2, <4>3, <5>1
          <5>3. read_cache[x] = Found(runtime[x[1]][x[2]] # Zero, runtime[x[1]][x[2]])
            BY <1>c, <2>1, <4>1
          <5> QED  BY <4>1, <5>2, <5>3
        <4>4. CASE x[1] # l
          BY <1>c, <2>1, <2>6, <4>1, <4>2, <4>4
        <4> QED  BY <4>3, <4>4
      <3> QED  BY <3>1, <3>2
    <2> HIDE DEF e
    <2>9. /\ Met(e) = runtime[l] /\ e.answer = Truth(e) /\ runtime' = After(e)
          /\ IsAccess(e) /\ WriteAction(l, k, v) = ActionOf(e)
      BY <2>1, <2>5 DEF Met, Truth, After, IsAccess, WriteAction, ActionOf
    <2>10. key_set' = [key_set EXCEPT ![e.call.label] = Append(key_set[e.call.label], ActionOf(e))]
      BY <2>1, <2>5, <2>9 DEF Push, WriteAction
    <2>11. \A n \in DOMAIN trace :
              /\ IsWrite(trace[n]) /\ IsWrite(e)
              /\ trace[n].call.label = e.call.label /\ trace[n].call.key = e.call.key
              /\ Met(trace[n]) = Met(e)
              => trace[n].call.value = e.call.value
      BY <2>3, <2>5, <2>9 DEF IsWrite, Met
    <2> QED  BY <1>0, <2>1, <2>4, <2>5, <2>8, <2>9, <2>10, <2>11, DryCall
  <1>6. ASSUME DryEnds PROVE IInv'
    <2>1. /\ stage = "dry" /\ stage' = "fetch" /\ waiting' = {l \in Label : key_set[l] # <<>>}
          /\ UNCHANGED <<injected, memorizer, dry, state_proofs, idx, sound>>
          /\ UNCHANGED <<trace, key_set, inclusion, non_inclusion, write, answers, replayed>>
      BY <1>6 DEF DryEnds, memorizer, dry, sound
    <2>2. TraceTrue' /\ OneValue' /\ AllRecorded' /\ OnlyRecorded'
      BY <2>1, FrameDry DEF IInv
    <2>3. FactsTrue' /\ OnlyFetched'
      BY <2>1, FrameFacts, FrameFetched DEF IInv
    <2>4. AllFetched'
      <3> SUFFICES ASSUME NEW n \in DOMAIN trace, IsAccess(trace[n])
                   PROVE  trace[n].call.label \in waiting'
        BY <2>1 DEF AllFetched, IsAccess
      <3>1. trace[n].call.label \in Label
        <4>1. trace[n] \in Entries
          BY <1>0 DEF TypeOK
        <4> QED  BY <4>1 DEF Entries, Calls
      <3>2. \E i \in DOMAIN key_set[trace[n].call.label] : TRUE
        BY DEF IInv, AllRecorded
      <3> QED  BY <2>1, <3>1, <3>2
    <2>5. CacheFresh' /\ ProofsPassed' /\ Progress' /\ SoundAgrees' /\ Completes'
      BY <2>1 DEF IInv, Progress, CacheFresh, ProofsPassed, SoundAgrees, Completes, Proving
    <2> QED  BY <1>0, <2>2, <2>3, <2>4, <2>5 DEF IInv
  <1> QED  BY <1>1, <1>2, <1>3, <1>4, <1>5, <1>6 DEF DryStep
-----------------------------------------------------------------------------
(* Fetching. *)
LEMMA FetchInv == IInv /\ FetchStep => IInv'
  <1> SUFFICES ASSUME IInv, FetchStep PROVE IInv'
    OBVIOUS
  <1>0. TypeOK /\ TypeOK'
    BY TypeFetch DEF IInv
  <1>e. \A n \in DOMAIN trace : trace[n].call.label \in Label
    <2> SUFFICES ASSUME NEW n \in DOMAIN trace PROVE trace[n].call.label \in Label
      OBVIOUS
    <2>1. trace[n] \in Entries
      BY <1>0 DEF TypeOK
    <2> QED  BY <2>1 DEF Entries, Calls
  <1>1. ASSUME NEW l \in Label, Fetch(l) PROVE IInv'
    <2> DEFINE new == [i \in DOMAIN key_set[l] |-> ProofOf(key_set[l][i])]
    <2>1. /\ stage = "fetch" /\ waiting' = waiting \ {l} /\ state_proofs' = state_proofs \o new
          /\ UNCHANGED <<stage, injected, memorizer, dry, idx, sound>>
          /\ UNCHANGED <<trace, key_set, inclusion, non_inclusion, write, answers, replayed>>
      BY <1>1 DEF Fetch, memorizer, dry, sound
    <2>2. TraceTrue' /\ OneValue' /\ AllRecorded' /\ OnlyRecorded'
      BY <2>1, FrameDry DEF IInv
    <2>3. FactsTrue'
      BY <2>1, FrameFacts DEF IInv
    <2>4. /\ \A i \in DOMAIN state_proofs :
                i \in DOMAIN state_proofs' /\ state_proofs'[i] = state_proofs[i]
          /\ \A j \in DOMAIN key_set[l] :
                \E i \in DOMAIN state_proofs' : state_proofs'[i] = ProofOf(key_set[l][j])
          /\ \A i \in DOMAIN state_proofs' :
                \/ i \in DOMAIN state_proofs /\ state_proofs'[i] = state_proofs[i]
                \/ \E j \in DOMAIN key_set[l] : state_proofs'[i] = ProofOf(key_set[l][j])
      <3>1. /\ state_proofs \in Seq(Proofs) /\ new \in Seq(Proofs)
            /\ DOMAIN new = DOMAIN key_set[l]
            /\ \A j \in DOMAIN key_set[l] : new[j] = ProofOf(key_set[l][j])
        BY <1>0, ProofsOfType DEF TypeOK
      <3> HIDE DEF new
      <3>2. /\ \A i \in DOMAIN state_proofs :
                  /\ i \in DOMAIN (state_proofs \o new)
                  /\ (state_proofs \o new)[i] = state_proofs[i]
            /\ \A j \in DOMAIN new :
                  /\ Len(state_proofs) + j \in DOMAIN (state_proofs \o new)
                  /\ (state_proofs \o new)[Len(state_proofs) + j] = new[j]
            /\ \A i \in DOMAIN (state_proofs \o new) :
                  \/ i \in DOMAIN state_proofs /\ (state_proofs \o new)[i] = state_proofs[i]
                  \/ \E j \in DOMAIN new : (state_proofs \o new)[i] = new[j]
        BY <3>1, ConcatFacts
      <3>3. state_proofs' = state_proofs \o new
        BY <2>1
      <3>4. \A i \in DOMAIN state_proofs :
               i \in DOMAIN state_proofs' /\ state_proofs'[i] = state_proofs[i]
        BY <3>2, <3>3
      <3>5. ASSUME NEW j \in DOMAIN key_set[l]
            PROVE  \E i \in DOMAIN state_proofs' : state_proofs'[i] = ProofOf(key_set[l][j])
        <4>1. /\ Len(state_proofs) + j \in DOMAIN state_proofs'
              /\ state_proofs'[Len(state_proofs) + j] = ProofOf(key_set[l][j])
          BY <3>1, <3>2, <3>3
        <4> QED  BY <4>1
      <3>6. ASSUME NEW i \in DOMAIN state_proofs', i \notin DOMAIN state_proofs
            PROVE  \E j \in DOMAIN key_set[l] : state_proofs'[i] = ProofOf(key_set[l][j])
        <4>1. PICK j \in DOMAIN new : state_proofs'[i] = new[j]
          BY <3>2, <3>3, <3>6
        <4> QED  BY <3>1, <4>1
      <3> QED  BY <3>4, <3>5, <3>6
    <2>5. AllFetched'
      <3> SUFFICES ASSUME NEW n \in DOMAIN trace, IsAccess(trace[n])
                   PROVE  \/ trace[n].call.label \in waiting'
                          \/ \E i \in DOMAIN state_proofs' :
                                state_proofs'[i] = ProofOf(ActionOf(trace[n]))
        BY <2>1 DEF AllFetched
      <3>1. CASE trace[n].call.label = l
        <4>1. \E j \in DOMAIN key_set[l] : key_set[l][j] = ActionOf(trace[n])
          BY <3>1 DEF IInv, AllRecorded
        <4> QED  BY <2>4, <4>1
      <3>2. CASE trace[n].call.label # l
        BY <2>1, <2>4, <3>2 DEF IInv, AllFetched
      <3> QED  BY <3>1, <3>2
    <2>6. OnlyFetched'
      <3> SUFFICES ASSUME NEW i \in DOMAIN state_proofs'
                   PROVE  \E n \in DOMAIN trace :
                             IsAccess(trace[n]) /\ state_proofs'[i] = ProofOf(ActionOf(trace[n]))
        BY <2>1 DEF OnlyFetched
      <3>1. CASE i \in DOMAIN state_proofs /\ state_proofs'[i] = state_proofs[i]
        BY <3>1 DEF IInv, OnlyFetched
      <3>2. ASSUME NEW j \in DOMAIN key_set[l], state_proofs'[i] = ProofOf(key_set[l][j])
            PROVE  \E n \in DOMAIN trace :
                      IsAccess(trace[n]) /\ state_proofs'[i] = ProofOf(ActionOf(trace[n]))
        <4>1. \E n \in DOMAIN trace : IsAccess(trace[n]) /\ key_set[l][j] = ActionOf(trace[n])
          BY DEF IInv, OnlyRecorded
        <4> QED  BY <3>2, <4>1
      <3> QED  BY <2>4, <3>1, <3>2
    <2>7. CacheFresh' /\ ProofsPassed' /\ Progress' /\ SoundAgrees' /\ Completes'
      BY <2>1 DEF IInv, Progress, CacheFresh, ProofsPassed, SoundAgrees, Completes, Proving
    <2> QED  BY <1>0, <2>2, <2>3, <2>5, <2>6, <2>7 DEF IInv
  <1>2. ASSUME FetchFails PROVE IInv'
    BY <1>0, <1>2, Failing DEF FetchFails
  <1>3. ASSUME Load PROVE IInv'
    <2>1. /\ stage = "fetch" /\ stage' = "verify" /\ waiting = {}
          /\ runtime' = injected' /\ execute' = injected'
          /\ DOMAIN inclusion' = {} /\ DOMAIN non_inclusion' = {} /\ DOMAIN write' = {}
          /\ idx' = Len(state_proofs)
          /\ UNCHANGED <<injected, dry, waiting, state_proofs, sound, trace, key_set, answers, replayed>>
      BY <1>3, EmptyType DEF Load, dry, sound
    <2>2. TraceTrue' /\ OneValue' /\ AllRecorded' /\ OnlyRecorded'
      BY <2>1, FrameDry DEF IInv
    <2>3. OnlyFetched'
      BY <2>1, FrameFetched DEF IInv
    <2>4. AllFetched'
      BY <2>1 DEF IInv, AllFetched
    <2>5. FactsTrue'
      BY <2>1 DEF FactsTrue
    <2>6. ProofsPassed'
      <3>1. \A i \in DOMAIN state_proofs' : ~ i > idx'
        BY <1>0, <2>1 DEF TypeOK
      <3> QED  BY <3>1 DEF ProofsPassed
    <2>7. Progress'
      <3>1. answers' = <<>> /\ replayed' = 0
        BY <2>1 DEF IInv, Progress
      <3>2. Len(answers') + 1 = 1 /\ replayed' + 1 = 1
        BY <3>1
      <3>3. runtime' = RootsAt(Len(answers) + 1)' /\ execute' = RootsAt(replayed + 1)'
        BY <2>1, <3>2 DEF RootsAt
      <3> QED  BY <2>1, <3>1, <3>3 DEF Progress
    <2>8. CacheFresh' /\ SoundAgrees' /\ Completes'
      BY <2>1 DEF IInv, Progress, CacheFresh, SoundAgrees, Completes
    <2> QED  BY <1>0, <2>2, <2>3, <2>4, <2>5, <2>6, <2>7, <2>8 DEF IInv
  <1> QED  BY <1>1, <1>2, <1>3 DEF FetchStep

-----------------------------------------------------------------------------
(* Verifying.  A proof leaves the dry run, the proofs and the roots alone   *)
(* and makes the facts grow by one that is true.                            *)
LEMMA VerifyFrame ==
    ASSUME IInv, stage = "verify", stage' = "verify", idx' = idx - 1,
           UNCHANGED <<injected, runtime, execute, dry, waiting, state_proofs, sound>>
    PROVE  /\ TraceTrue' /\ OneValue' /\ AllRecorded' /\ OnlyRecorded'
           /\ AllFetched' /\ OnlyFetched' /\ CacheFresh' /\ Progress'
           /\ SoundAgrees' /\ Completes'
  <1>1. UNCHANGED <<trace, key_set, answers, replayed>>
    BY DEF dry, sound
  <1>2. /\ TraceTrue' /\ OneValue' /\ AllRecorded' /\ OnlyRecorded'
        /\ \A n : RootsAt(n)' = RootsAt(n)
    BY FrameDry DEF IInv
  <1>3. AllFetched'
    BY <1>1 DEF IInv, AllFetched
  <1>4. OnlyFetched'
    BY <1>1, FrameFetched DEF IInv
  <1>5. /\ answers = <<>> /\ replayed = 0
        /\ runtime = RootsAt(Len(answers) + 1) /\ execute = RootsAt(replayed + 1)
    BY DEF IInv, Progress, Proving
  <1>6. runtime' = RootsAt(Len(answers) + 1)' /\ execute' = RootsAt(replayed + 1)'
    BY <1>1, <1>5 DEF RootsAt, After
  <1>7. Progress'
    BY <1>1, <1>5, <1>6 DEF Progress
  <1> QED  BY <1>1, <1>2, <1>3, <1>4, <1>7 DEF CacheFresh, SoundAgrees, Completes, IInv

LEMMA VerifyInv == IInv /\ VerifyStep => IInv'
  <1> SUFFICES ASSUME IInv, VerifyStep PROVE IInv'
    OBVIOUS
  <1>0. TypeOK /\ TypeOK'
    BY TypeVerify DEF IInv
  <1> DEFINE p == state_proofs[idx]
  <1>p. ASSUME stage = "verify", idx > 0
        PROVE  /\ idx \in DOMAIN state_proofs /\ idx \in Nat
               /\ \E n \in DOMAIN trace : IsAccess(trace[n]) /\ p = ProofOf(ActionOf(trace[n]))
    <2>1. idx \in DOMAIN state_proofs /\ idx \in Nat
      BY <1>0, <1>p DEF TypeOK
    <2> QED  BY <2>1 DEF IInv, OnlyFetched
  <1>f. stage = "verify" => \A i \in DOMAIN state_proofs : i > idx => IsFact(state_proofs[i])
    BY DEF IInv, ProofsPassed, Proving
  <1>1. ASSUME VerifyRead PROVE IInv'
    <2>1. /\ stage = "verify" /\ stage' = "verify" /\ idx > 0 /\ idx' = idx - 1
          /\ p.op = "read"
          /\ UNCHANGED <<injected, runtime, execute, dry, waiting, state_proofs, sound, write, trace>>
      BY <1>1 DEF VerifyRead, dry
    <2>2. p.value = p.root[p.key]
      <3>1. PICK n \in DOMAIN trace : IsAccess(trace[n]) /\ p = ProofOf(ActionOf(trace[n]))
        BY <1>p, <2>1
      <3> QED  BY <2>1, <3>1 DEF ProofOf, ActionOf
    <2>3. At(p) = <<p.label, p.root, p.key>> /\ At(p)[2][At(p)[3]] = p.value
      BY <2>2 DEF At
    <2>4. ASSUME p.value # Zero, inclusion' = Add(inclusion, At(p), p.value),
                 UNCHANGED non_inclusion
          PROVE  FactsTrue' /\ \A i \in DOMAIN state_proofs : i > idx - 1 => IsFact(state_proofs[i])'
      <3>1. /\ DOMAIN inclusion' = DOMAIN inclusion \union {At(p)}
            /\ inclusion'[At(p)] = p.value
            /\ \A y \in DOMAIN inclusion : y # At(p) => inclusion'[y] = inclusion[y]
        BY <2>4 DEF Add
      <3>2. FactsTrue'
        <4>1. \A x \in DOMAIN inclusion' : inclusion'[x] = x[2][x[3]] /\ x[2][x[3]] # Zero
          BY <2>3, <2>4, <3>1 DEF IInv, FactsTrue
        <4> QED  BY <2>1, <2>4, <4>1 DEF IInv, FactsTrue
      <3>3. \A i \in DOMAIN state_proofs : i > idx - 1 => IsFact(state_proofs[i])'
        <4> SUFFICES ASSUME NEW i \in DOMAIN state_proofs, i > idx - 1
                     PROVE  IsFact(state_proofs[i])'
          OBVIOUS
        <4>1. CASE i = idx
          BY <2>1, <2>4, <3>1, <4>1 DEF IsFact
        <4>2. CASE i > idx
          BY <1>f, <2>1, <2>4, <3>1, <4>2 DEF IsFact
        <4>3. i \in Nat /\ idx \in Nat
          BY <1>0, <1>p, <2>1 DEF TypeOK
        <4> QED  BY <4>1, <4>2, <4>3
      <3> QED  BY <3>2, <3>3
    <2>5. ASSUME p.value = Zero, non_inclusion' = Add(non_inclusion, At(p), Zero),
                 UNCHANGED inclusion
          PROVE  FactsTrue' /\ \A i \in DOMAIN state_proofs : i > idx - 1 => IsFact(state_proofs[i])'
      <3>1. /\ DOMAIN non_inclusion' = DOMAIN non_inclusion \union {At(p)}
            /\ non_inclusion'[At(p)] = Zero
            /\ \A y \in DOMAIN non_inclusion : y # At(p) => non_inclusion'[y] = non_inclusion[y]
        BY <2>5 DEF Add
      <3>2. FactsTrue'
        <4>1. \A x \in DOMAIN non_inclusion' : non_inclusion'[x] = Zero /\ x[2][x[3]] = Zero
          BY <2>3, <2>5, <3>1 DEF IInv, FactsTrue
        <4> QED  BY <2>1, <2>5, <4>1 DEF IInv, FactsTrue
      <3>3. \A i \in DOMAIN state_proofs : i > idx - 1 => IsFact(state_proofs[i])'
        <4> SUFFICES ASSUME NEW i \in DOMAIN state_proofs, i > idx - 1
                     PROVE  IsFact(state_proofs[i])'
          OBVIOUS
        <4>1. CASE i = idx
          BY <2>1, <2>5, <3>1, <4>1 DEF IsFact
        <4>2. CASE i > idx
          BY <1>f, <2>1, <2>5, <3>1, <4>2 DEF IsFact
        <4>3. i \in Nat /\ idx \in Nat
          BY <1>0, <1>p, <2>1 DEF TypeOK
        <4> QED  BY <4>1, <4>2, <4>3
      <3> QED  BY <3>2, <3>3
    <2>6. FactsTrue' /\ \A i \in DOMAIN state_proofs : i > idx - 1 => IsFact(state_proofs[i])'
      BY <1>1, <2>4, <2>5 DEF VerifyRead
    <2>7. ProofsPassed'
      BY <2>1, <2>6 DEF ProofsPassed
    <2> QED  BY <1>0, <2>1, <2>6, <2>7, VerifyFrame DEF IInv
  <1>2. ASSUME VerifyWrite PROVE IInv'
    <2>1. /\ stage = "verify" /\ stage' = "verify" /\ idx > 0 /\ idx' = idx - 1
          /\ p.op = "write" /\ write' = Add(write, At(p), p.new_root)
          /\ UNCHANGED <<injected, runtime, execute, dry, waiting, state_proofs, sound,
                         inclusion, non_inclusion, trace>>
      BY <1>2 DEF VerifyWrite, dry
    <2>2. PICK n \in DOMAIN trace : IsAccess(trace[n]) /\ p = ProofOf(ActionOf(trace[n]))
      BY <1>p, <2>1
    <2>3. /\ IsWrite(trace[n])
          /\ At(p) = <<trace[n].call.label, Met(trace[n]), trace[n].call.key>>
          /\ p.new_root = Truth(trace[n])
      <3>1. trace[n] \in Entries
        BY <1>0 DEF TypeOK
      <3>2. trace[n].call.op \in {"label", "read", "write"}
        BY <3>1 DEF Entries, Calls
      <3>3. IsWrite(trace[n])
        BY <2>1, <2>2, <3>2 DEF IsAccess, IsWrite, ProofOf, ActionOf
      <3> QED  BY <2>2, <3>3 DEF IsWrite, ProofOf, ActionOf, At, Truth
    <2>4. /\ DOMAIN write' = DOMAIN write \union {At(p)}
          /\ write'[At(p)] = p.new_root
          /\ \A y \in DOMAIN write : y # At(p) => write'[y] = write[y]
      BY <2>1 DEF Add
    <2>5. FactsTrue'
      <3>1. ASSUME NEW x \in DOMAIN write'
            PROVE  \E m \in DOMAIN trace' :
                      /\ IsWrite(trace'[m])
                      /\ x = <<trace'[m].call.label, Met(trace'[m]), trace'[m].call.key>>
                      /\ write'[x] = Truth(trace'[m])
        <4>1. CASE x = At(p)
          BY <2>1, <2>3, <2>4, <4>1
        <4>2. CASE x # At(p)
          BY <2>1, <2>4, <4>2 DEF IInv, FactsTrue
        <4> QED  BY <4>1, <4>2
      <3> QED  BY <2>1, <3>1 DEF IInv, FactsTrue
    <2>6. ProofsPassed'
      <3> SUFFICES ASSUME NEW i \in DOMAIN state_proofs, i > idx - 1
                   PROVE  IsFact(state_proofs[i])'
        BY <2>1 DEF ProofsPassed
      <3>1. CASE i = idx
        BY <2>1, <2>4, <3>1 DEF IsFact
      <3>2. CASE i > idx
        BY <1>f, <2>1, <2>4, <3>2 DEF IsFact
      <3>3. i \in Nat /\ idx \in Nat
        BY <1>0, <1>p, <2>1 DEF TypeOK
      <3> QED  BY <3>1, <3>2, <3>3
    <2> QED  BY <1>0, <2>1, <2>5, <2>6, VerifyFrame DEF IInv
  <1>3. ASSUME VerifyEnds PROVE IInv'
    <2>1. /\ stage = "verify" /\ idx = 0 /\ stage' = "sound"
          /\ UNCHANGED <<injected, dry>>
          /\ UNCHANGED <<runtime, execute, inclusion, non_inclusion, write, trace, state_proofs,
                         idx, answers, replayed>>
      BY <1>3 DEF VerifyEnds, memorizer, dry, proofs, sound
    <2>2. /\ TraceTrue' /\ OneValue' /\ AllRecorded' /\ OnlyRecorded'
          /\ \A n : RootsAt(n)' = RootsAt(n)
      BY <2>1, FrameDry DEF IInv
    <2>3. FactsTrue' /\ OnlyFetched'
      BY <2>1, FrameFacts, FrameFetched DEF IInv
    <2>4. AllFetched'
      BY <2>1 DEF IInv, AllFetched
    <2>5. ProofsPassed'
      BY <1>f, <2>1 DEF ProofsPassed, IsFact
    <2>6. Progress'
      <3>1. answers = <<>> /\ replayed = 0
            /\ runtime = RootsAt(Len(answers) + 1) /\ execute = RootsAt(replayed + 1)
        BY <2>1 DEF IInv, Progress, Proving
      <3>2. runtime' = RootsAt(Len(answers) + 1)' /\ execute' = RootsAt(replayed + 1)'
        BY <2>1, <3>1 DEF RootsAt, After
      <3> QED  BY <2>1, <3>1, <3>2 DEF Progress
    <2>7. CacheFresh' /\ SoundAgrees' /\ Completes'
      BY <2>1 DEF IInv, CacheFresh, SoundAgrees, Completes
    <2> QED  BY <1>0, <2>2, <2>3, <2>4, <2>5, <2>6, <2>7 DEF IInv
  <1> QED  BY <1>1, <1>2, <1>3 DEF VerifyStep

-----------------------------------------------------------------------------
(* What the memorizer holds for a call once all proofs are verified. *)
LEMMA AccessIsFact ==
    ASSUME IInv, stage \in {"sound", "replay"}, NEW n \in DOMAIN trace, IsAccess(trace[n])
    PROVE  IsFact(ProofOf(ActionOf(trace[n])))
  <1>1. PICK i \in DOMAIN state_proofs : state_proofs[i] = ProofOf(ActionOf(trace[n]))
    BY DEF IInv, AllFetched
  <1>2. idx = 0 /\ Proving
    BY DEF IInv, Progress, Proving
  <1>3. i > 0
    BY DEF IInv, TypeOK
  <1> QED  BY <1>1, <1>2, <1>3 DEF IInv, ProofsPassed

(* For a read, the value at the root the dry run met, under one tag alone. *)
LEMMA ReadFact ==
    ASSUME IInv, stage \in {"sound", "replay"},
           NEW n \in DOMAIN trace, trace[n].call.op = "read",
           NEW x, x = <<trace[n].call.label, Met(trace[n]), trace[n].call.key>>
    PROVE  LET v == Met(trace[n])[trace[n].call.key]
           IN  \/ v # Zero /\ x \in DOMAIN inclusion /\ inclusion[x] = v /\ x \notin DOMAIN non_inclusion
               \/ v = Zero /\ x \in DOMAIN non_inclusion /\ non_inclusion[x] = v /\ x \notin DOMAIN inclusion
  <1> DEFINE v == Met(trace[n])[trace[n].call.key]
             p == ProofOf(ActionOf(trace[n]))
  <1>1. IsFact(p)
    BY AccessIsFact DEF IsAccess
  <1>2. p.op = "read" /\ p.value = v /\ At(p) = x
    BY DEF ProofOf, ActionOf, At
  <1>3. /\ v = Zero => x \in DOMAIN non_inclusion
        /\ v # Zero => x \in DOMAIN inclusion
    BY <1>1, <1>2 DEF IsFact
  <1>4. x[2][x[3]] = v
    OBVIOUS
  <1> QED  BY <1>3, <1>4 DEF IInv, FactsTrue

(* For a write, the updated root: another write there wrote the same value. *)
LEMMA WriteFact ==
    ASSUME IInv, stage \in {"sound", "replay"},
           NEW n \in DOMAIN trace, IsWrite(trace[n]),
           NEW x, x = <<trace[n].call.label, Met(trace[n]), trace[n].call.key>>
    PROVE  x \in DOMAIN write /\ write[x] = Truth(trace[n])
  <1> DEFINE p == ProofOf(ActionOf(trace[n]))
  <1>1. IsFact(p)
    BY AccessIsFact DEF IsAccess, IsWrite
  <1>2. p.op = "write" /\ At(p) = x
    BY DEF ProofOf, ActionOf, At, IsWrite
  <1>3. x \in DOMAIN write
    BY <1>1, <1>2 DEF IsFact
  <1>4. PICK m \in DOMAIN trace :
           /\ IsWrite(trace[m])
           /\ x = <<trace[m].call.label, Met(trace[m]), trace[m].call.key>>
           /\ write[x] = Truth(trace[m])
    BY <1>3 DEF IInv, FactsTrue
  <1>5. /\ trace[m].call.label = trace[n].call.label /\ trace[m].call.key = trace[n].call.key
        /\ Met(trace[m]) = Met(trace[n])
    BY <1>4
  <1>6. trace[m].call.value = trace[n].call.value
    BY <1>4, <1>5 DEF IInv, OneValue
  <1>7. Truth(trace[m]) = Truth(trace[n])
    BY <1>4, <1>5, <1>6 DEF Truth, IsWrite
  <1> QED  BY <1>3, <1>4, <1>7

(* What the sound run and the replay leave as it is. *)
LEMMA ProvedFrame ==
    ASSUME IInv, stage \in {"sound", "replay"}, stage' \in {"sound", "replay", "done"},
           UNCHANGED <<injected, inclusion, non_inclusion, write, dry, proofs>>
    PROVE  /\ TraceTrue' /\ OneValue' /\ AllRecorded' /\ OnlyRecorded'
           /\ AllFetched' /\ OnlyFetched' /\ CacheFresh' /\ FactsTrue' /\ ProofsPassed'
           /\ idx' = 0 /\ trace' = trace
           /\ \A n : RootsAt(n)' = RootsAt(n)
  <1>1. UNCHANGED <<trace, key_set, state_proofs, idx>>
    BY DEF dry, proofs
  <1>2. /\ TraceTrue' /\ OneValue' /\ AllRecorded' /\ OnlyRecorded'
        /\ \A n : RootsAt(n)' = RootsAt(n)
    BY FrameDry DEF IInv
  <1>3. FactsTrue' /\ OnlyFetched'
    BY <1>1, FrameFacts, FrameFetched DEF IInv
  <1>4. AllFetched'
    BY <1>1 DEF IInv, AllFetched
  <1>5. idx = 0 /\ \A i \in DOMAIN state_proofs : i > idx => IsFact(state_proofs[i])
    BY DEF IInv, Progress, ProofsPassed, Proving
  <1>6. ProofsPassed'
    BY <1>1, <1>5 DEF ProofsPassed, IsFact
  <1> QED  BY <1>1, <1>2, <1>3, <1>4, <1>5, <1>6 DEF CacheFresh

(* A call of the sound run that is answered as it was in the dry run. *)
LEMMA SoundAnswered ==
    ASSUME IInv, TypeOK', stage = "sound", stage' = "sound", Len(answers) < Len(trace),
           answers' = Append(answers, trace[Len(answers) + 1].answer),
           runtime' = After(trace[Len(answers) + 1]), UNCHANGED <<execute, replayed>>,
           UNCHANGED <<injected, inclusion, non_inclusion, write, dry, proofs>>
    PROVE  IInv'
  <1>1. /\ TraceTrue' /\ OneValue' /\ AllRecorded' /\ OnlyRecorded'
        /\ AllFetched' /\ OnlyFetched' /\ CacheFresh' /\ FactsTrue' /\ ProofsPassed'
        /\ idx' = 0 /\ trace' = trace
        /\ \A n : RootsAt(n)' = RootsAt(n)
    BY ProvedFrame
  <1>2. /\ Len(answers) \in Nat /\ Len(answers') = Len(answers) + 1
        /\ DOMAIN answers' = DOMAIN answers \union {Len(answers) + 1}
        /\ \A n \in DOMAIN answers : answers'[n] = answers[n]
        /\ answers'[Len(answers) + 1] = trace[Len(answers) + 1].answer
    BY DEF IInv, TypeOK
  <1>3. SoundAgrees'
    BY <1>1, <1>2 DEF IInv, SoundAgrees
  <1>4. runtime' = RootsAt(Len(answers) + 1)'
    BY <1>1, <1>2 DEF RootsAt
  <1>5. replayed = 0 /\ execute = RootsAt(replayed + 1)
    BY DEF IInv, Progress, Proving
  <1>6. execute' = RootsAt(replayed + 1)'
    BY <1>1, <1>5 DEF RootsAt
  <1>7. Progress'
    BY <1>1, <1>4, <1>5, <1>6 DEF Progress
  <1> QED  BY <1>1, <1>3, <1>7 DEF IInv, Completes

(* The sound run. *)
LEMMA SoundInv == IInv /\ SoundStep => IInv'
  <1> SUFFICES ASSUME IInv, SoundStep PROVE IInv'
    OBVIOUS
  <1>0. TypeOK /\ TypeOK'
    BY TypeSound DEF IInv
  <1> DEFINE n == Len(answers) + 1
             e == trace[n]
  <1>1. ASSUME stage = "sound", Len(answers) < Len(trace)
        PROVE  /\ n \in DOMAIN trace /\ NextCall = e.call
               /\ runtime = e.roots /\ runtime[e.call.label] = Met(e) /\ Met(e) # NoRoot
               /\ e.answer = Truth(e)
    <2>1. n \in DOMAIN trace
      BY <1>0, <1>1 DEF TypeOK
    <2>2. runtime = RootsAt(n)
      BY <1>1 DEF IInv, Progress, Proving
    <2> QED  BY <2>1, <2>2 DEF IInv, TraceTrue, Met, NextCall
  <1>2. ASSUME SoundLabel PROVE IInv'
    <2>1. /\ stage = "sound" /\ Len(answers) < Len(trace) /\ NextCall.op = "label"
          /\ answers' = Append(answers, runtime[NextCall.label])
          /\ UNCHANGED <<stage, replayed, injected, memorizer, dry, proofs>>
      BY <1>2 DEF SoundLabel, SoundCall, Respond, NextCall
    <2>2. runtime[NextCall.label] = e.answer /\ runtime = After(e)
      BY <1>1, <2>1 DEF Truth, After
    <2> QED  BY <1>0, <2>1, <2>2, SoundAnswered DEF memorizer
  <1>3. ASSUME SoundRead PROVE IInv'
    <2> DEFINE x == <<NextCall.label, runtime[NextCall.label], NextCall.key>>
               v == Met(e)[e.call.key]
    <2>1. /\ stage = "sound" /\ Len(answers) < Len(trace) /\ NextCall.op = "read"
          /\ UNCHANGED <<injected, memorizer, dry, proofs>>
          /\ \/ /\ x \in DOMAIN inclusion
                /\ Respond(Found(TRUE, inclusion[x]))
             \/ /\ x \notin DOMAIN inclusion /\ x \in DOMAIN non_inclusion
                /\ Respond(Found(FALSE, non_inclusion[x]))
             \/ /\ x \notin DOMAIN inclusion \union DOMAIN non_inclusion
                /\ Reject
      BY <1>3 DEF SoundRead, SoundCall, NextCall
    <2>2. /\ x = <<e.call.label, Met(e), e.call.key>> /\ e.call.op = "read" /\ n \in DOMAIN trace
          /\ e.answer = Found(v # Zero, v) /\ runtime = After(e)
      BY <1>1, <2>1 DEF Truth, After
    <2>3. \/ v # Zero /\ x \in DOMAIN inclusion /\ inclusion[x] = v /\ x \notin DOMAIN non_inclusion
          \/ v = Zero /\ x \in DOMAIN non_inclusion /\ non_inclusion[x] = v /\ x \notin DOMAIN inclusion
      BY <2>1, <2>2, ReadFact
    <2>4. Respond(e.answer)
      <3>1. CASE v # Zero
        <4>1. (v # Zero) = TRUE /\ x \in DOMAIN inclusion /\ inclusion[x] = v
          BY <2>3, <3>1
        <4>2. Respond(Found(TRUE, inclusion[x]))
          BY <2>1, <4>1
        <4> QED  BY <2>2, <4>1, <4>2
      <3>2. CASE v = Zero
        <4>1. /\ (v # Zero) = FALSE
              /\ x \notin DOMAIN inclusion /\ x \in DOMAIN non_inclusion /\ non_inclusion[x] = v
          BY <2>3, <3>2
        <4>2. Respond(Found(FALSE, non_inclusion[x]))
          BY <2>1, <4>1
        <4> QED  BY <2>2, <4>1, <4>2
      <3> QED  BY <3>1, <3>2
    <2> QED  BY <1>0, <2>1, <2>2, <2>4, SoundAnswered DEF Respond, memorizer
  <1>4. ASSUME SoundWrite PROVE IInv'
    <2> DEFINE l == NextCall.label
               x == <<l, runtime[l], NextCall.key>>
    <2>1. /\ stage = "sound" /\ Len(answers) < Len(trace) /\ NextCall.op = "write"
          /\ UNCHANGED <<injected, execute, inclusion, non_inclusion, write, dry, proofs>>
          /\ \/ /\ x \in DOMAIN write
                /\ runtime' = [runtime EXCEPT ![l] = write[x]]
                /\ Respond(write[x])
             \/ x \notin DOMAIN write
      BY <1>4 DEF SoundWrite, SoundCall, NextCall
    <2>2. /\ x = <<e.call.label, Met(e), e.call.key>> /\ IsWrite(e) /\ n \in DOMAIN trace
          /\ l = e.call.label /\ e.answer = Truth(e)
      BY <1>1, <2>1 DEF IsWrite
    <2>3. x \in DOMAIN write /\ write[x] = Truth(e)
      BY <2>1, <2>2, WriteFact
    <2>4. /\ answers' = Append(answers, e.answer) /\ UNCHANGED <<stage, replayed>>
          /\ runtime' = [runtime EXCEPT ![e.call.label] = e.answer]
      BY <2>1, <2>2, <2>3 DEF Respond
    <2>5. runtime' = After(e)
      BY <1>1, <2>1, <2>2, <2>4 DEF After, Truth, IsWrite, Met
    <2> QED  BY <1>0, <2>1, <2>4, <2>5, SoundAnswered
  <1>5. ASSUME SoundEnds PROVE IInv'
    <2>1. /\ stage = "sound" /\ stage' = "replay" /\ Len(answers) = Len(trace)
          /\ UNCHANGED <<injected, inclusion, non_inclusion, write, dry, proofs>>
          /\ UNCHANGED <<runtime, execute, answers, replayed>>
      BY <1>5 DEF SoundEnds, memorizer, sound
    <2>2. /\ TraceTrue' /\ OneValue' /\ AllRecorded' /\ OnlyRecorded'
          /\ AllFetched' /\ OnlyFetched' /\ CacheFresh' /\ FactsTrue' /\ ProofsPassed'
          /\ idx' = 0 /\ trace' = trace
          /\ \A m : RootsAt(m)' = RootsAt(m)
      BY <2>1, ProvedFrame
    <2>3. runtime = RootsAt(Len(answers) + 1) /\ execute = RootsAt(replayed + 1)
      BY <2>1 DEF IInv, Progress, Proving
    <2>4. runtime' = RootsAt(Len(answers) + 1)' /\ execute' = RootsAt(replayed + 1)'
      BY <2>1, <2>2, <2>3 DEF RootsAt
    <2>5. Progress'
      BY <2>1, <2>2, <2>4 DEF Progress
    <2> QED  BY <1>0, <2>1, <2>2, <2>5 DEF IInv, SoundAgrees, Completes
  <1> QED  BY <1>2, <1>3, <1>4, <1>5 DEF SoundStep

-----------------------------------------------------------------------------
(* A call of the replay whose assertion holds. *)
LEMMA ReplayAsserted ==
    ASSUME IInv, TypeOK', stage = "replay", stage' = "replay", replayed < Len(trace),
           replayed' = replayed + 1, execute' = After(trace[replayed + 1]),
           UNCHANGED <<runtime, answers>>,
           UNCHANGED <<injected, inclusion, non_inclusion, write, dry, proofs>>
    PROVE  IInv'
  <1>1. /\ TraceTrue' /\ OneValue' /\ AllRecorded' /\ OnlyRecorded'
        /\ AllFetched' /\ OnlyFetched' /\ CacheFresh' /\ FactsTrue' /\ ProofsPassed'
        /\ idx' = 0 /\ trace' = trace
        /\ \A n : RootsAt(n)' = RootsAt(n)
    BY ProvedFrame
  <1>2. replayed \in Nat /\ Len(answers) = Len(trace) /\ runtime = RootsAt(Len(answers) + 1)
    BY DEF IInv, TypeOK, Progress, Proving
  <1>3. runtime' = RootsAt(Len(answers) + 1)'
    BY <1>1, <1>2 DEF RootsAt
  <1>4. execute' = RootsAt(replayed + 1)'
    BY <1>1, <1>2 DEF RootsAt
  <1>5. Progress'
    BY <1>1, <1>2, <1>3, <1>4 DEF Progress
  <1>6. SoundAgrees' /\ Completes'
    BY <1>1 DEF IInv, SoundAgrees, Completes
  <1> QED  BY <1>1, <1>5, <1>6 DEF IInv

(* The replay. *)
LEMMA ReplayInv == IInv /\ ReplayStep => IInv'
  <1> SUFFICES ASSUME IInv, ReplayStep PROVE IInv'
    OBVIOUS
  <1>0. TypeOK /\ TypeOK'
    BY TypeReplay DEF IInv
  <1> DEFINE n == replayed + 1
             e == trace[n]
  <1>1. ASSUME stage = "replay", replayed < Len(trace)
        PROVE  /\ n \in DOMAIN trace /\ Replayed = e.call
               /\ execute = e.roots /\ execute[e.call.label] = Met(e) /\ Met(e) # NoRoot
               /\ answers[n] = e.answer /\ e.answer = Truth(e)
    <2>1. n \in DOMAIN trace
      BY <1>0, <1>1 DEF TypeOK
    <2>2. execute = RootsAt(n) /\ Len(answers) = Len(trace)
      BY <1>1 DEF IInv, Progress, Proving
    <2>3. n \in DOMAIN answers
      BY <1>0, <2>1, <2>2 DEF TypeOK
    <2> QED  BY <2>1, <2>2, <2>3 DEF IInv, TraceTrue, SoundAgrees, Met, Replayed
  <1>2. ASSUME ReplayLabel PROVE IInv'
    <2>1. /\ stage = "replay" /\ replayed < Len(trace) /\ Replayed.op = "label"
          /\ Asserted(execute[Replayed.label] # NoRoot /\ execute[Replayed.label] = answers[n])
          /\ UNCHANGED <<injected, memorizer, dry, proofs, answers>>
      BY <1>2 DEF ReplayLabel, ReplayCall, Replayed
    <2>2. execute[Replayed.label] # NoRoot /\ execute[Replayed.label] = answers[n] /\ execute = After(e)
      BY <1>1, <2>1 DEF Truth, After
    <2>3. replayed' = n /\ UNCHANGED stage
      BY <2>1, <2>2 DEF Asserted
    <2> QED  BY <1>0, <2>1, <2>2, <2>3, ReplayAsserted DEF memorizer
  <1>3. ASSUME ReplayRead PROVE IInv'
    <2> DEFINE l == Replayed.label
               x == <<l, execute[l], Replayed.key>>
               v == Met(e)[e.call.key]
    <2>1. /\ stage = "replay" /\ replayed < Len(trace) /\ Replayed.op = "read"
          /\ Asserted(execute[l] # NoRoot /\ Confirmed(x, answers[n]))
          /\ UNCHANGED <<injected, memorizer, dry, proofs, answers>>
      BY <1>3 DEF ReplayRead, ReplayCall, Replayed
    <2>2. /\ x = <<e.call.label, Met(e), e.call.key>> /\ e.call.op = "read" /\ n \in DOMAIN trace
          /\ answers[n] = Found(v # Zero, v) /\ execute[l] # NoRoot /\ execute = After(e)
      BY <1>1, <2>1 DEF Truth, After
    <2>3. \/ v # Zero /\ x \in DOMAIN inclusion /\ inclusion[x] = v /\ x \notin DOMAIN non_inclusion
          \/ v = Zero /\ x \in DOMAIN non_inclusion /\ non_inclusion[x] = v /\ x \notin DOMAIN inclusion
      BY <2>1, <2>2, ReadFact
    <2>4. Confirmed(x, answers[n])
      <3>1. CASE v # Zero
        <4>1. (v # Zero) = TRUE
          BY <3>1
        <4>2. answers[n] = Found(TRUE, v)
          BY <2>2, <4>1
        <4>3. answers[n].exist = TRUE /\ answers[n].value = v
          BY <4>2 DEF Found
        <4> QED  BY <2>3, <3>1, <4>3 DEF Confirmed
      <3>2. CASE v = Zero
        <4>1. (v # Zero) = FALSE
          BY <3>2
        <4>2. answers[n] = Found(FALSE, v)
          BY <2>2, <4>1
        <4>3. answers[n].exist = FALSE /\ answers[n].value = v
          BY <4>2 DEF Found
        <4> QED  BY <2>3, <3>2, <4>3 DEF Confirmed
      <3> QED  BY <3>1, <3>2
    <2>5. replayed' = n /\ UNCHANGED stage
      BY <2>1, <2>2, <2>4 DEF Asserted
    <2> QED  BY <1>0, <2>1, <2>2, <2>5, ReplayAsserted DEF memorizer
  <1>4. ASSUME ReplayWrite PROVE IInv'
    <2> DEFINE l == Replayed.label
               x == <<l, execute[l], Replayed.key>>
    <2>1. /\ stage = "replay" /\ replayed < Len(trace) /\ Replayed.op = "write"
          /\ Asserted(execute[l] # NoRoot)
          /\ execute' = [execute EXCEPT ![l] = IF x \in DOMAIN write THEN write[x] ELSE NoRoot]
          /\ UNCHANGED <<injected, runtime, inclusion, non_inclusion, write, dry, proofs, answers>>
      BY <1>4 DEF ReplayWrite, ReplayCall, Replayed
    <2>2. /\ x = <<e.call.label, Met(e), e.call.key>> /\ IsWrite(e) /\ n \in DOMAIN trace
          /\ l = e.call.label /\ execute[l] # NoRoot
      BY <1>1, <2>1 DEF IsWrite
    <2>3. x \in DOMAIN write /\ write[x] = Truth(e)
      BY <2>1, <2>2, WriteFact
    <2>4. replayed' = n /\ UNCHANGED stage
      BY <2>1, <2>2 DEF Asserted
    <2>5. execute' = [execute EXCEPT ![e.call.label] = Truth(e)]
      BY <2>1, <2>2, <2>3
    <2>6. execute' = After(e)
      BY <1>1, <2>1, <2>2, <2>5 DEF After, Truth, IsWrite, Met
    <2> QED  BY <1>0, <2>1, <2>4, <2>6, ReplayAsserted
  <1>5. ASSUME ReplayEnds PROVE IInv'
    <2>1. /\ stage = "replay" /\ stage' = "done" /\ replayed = Len(trace)
          /\ UNCHANGED <<injected, inclusion, non_inclusion, write, dry, proofs>>
          /\ UNCHANGED <<runtime, execute, answers, replayed>>
      BY <1>5 DEF ReplayEnds, memorizer, sound
    <2>2. /\ TraceTrue' /\ OneValue' /\ AllRecorded' /\ OnlyRecorded'
          /\ AllFetched' /\ OnlyFetched' /\ CacheFresh' /\ FactsTrue' /\ ProofsPassed'
          /\ idx' = 0 /\ trace' = trace
          /\ \A m : RootsAt(m)' = RootsAt(m)
      BY <2>1, ProvedFrame
    <2>3. /\ runtime = RootsAt(Len(answers) + 1) /\ execute = RootsAt(replayed + 1)
          /\ Len(answers) = Len(trace)
      BY <2>1 DEF IInv, Progress, Proving
    <2>4. runtime' = RootsAt(Len(answers) + 1)' /\ execute' = RootsAt(replayed + 1)'
      BY <2>1, <2>2, <2>3 DEF RootsAt
    <2>5. Progress'
      BY <2>1, <2>2, <2>3, <2>4 DEF Progress
    <2> QED  BY <1>0, <2>1, <2>2, <2>5 DEF IInv, SoundAgrees, Completes
  <1> QED  BY <1>2, <1>3, <1>4, <1>5 DEF ReplayStep

-----------------------------------------------------------------------------
(* The invariant holds at first and after every step. *)
LEMMA InvInit == Init => IInv
  <1> SUFFICES ASSUME Init PROVE IInv
    OBVIOUS
  <1>1. TypeOK
    BY TypeInit
  <1>2. /\ stage = "dry" /\ trace = <<>> /\ runtime = injected
        /\ DOMAIN inclusion = {} /\ DOMAIN non_inclusion = {} /\ DOMAIN write = {}
        /\ DOMAIN read_cache = {} /\ key_set = [l \in Label |-> <<>>]
        /\ state_proofs = <<>> /\ answers = <<>> /\ replayed = 0
    BY EmptyType DEF Init
  <1>3. Len(trace) + 1 = 1 /\ DOMAIN trace = {}
    BY <1>2
  <1>4. CacheFresh
    BY <1>2, <1>3 DEF CacheFresh, RootsAt
  <1>5. TraceTrue /\ OneValue /\ AllRecorded /\ OnlyRecorded
    BY <1>2, <1>3 DEF TraceTrue, OneValue, AllRecorded, OnlyRecorded
  <1>6. AllFetched /\ OnlyFetched /\ FactsTrue /\ ProofsPassed /\ Progress
    BY <1>2 DEF AllFetched, OnlyFetched, FactsTrue, ProofsPassed, Progress, Proving
  <1>7. SoundAgrees /\ Completes
    BY <1>2 DEF SoundAgrees, Completes
  <1> QED  BY <1>1, <1>4, <1>5, <1>6, <1>7 DEF IInv

LEMMA InvStutter == IInv /\ UNCHANGED vars => IInv'
  <1> SUFFICES ASSUME IInv, UNCHANGED vars PROVE IInv'
    OBVIOUS
  <1>1. UNCHANGED <<stage, injected, runtime, execute, inclusion, non_inclusion, write, trace,
                    read_cache, key_set, waiting, state_proofs, idx, answers, replayed>>
    BY DEF vars, memorizer, dry, proofs, sound
  <1>2. TypeOK'
    BY TypeStep DEF IInv
  <1>3. /\ TraceTrue' /\ OneValue' /\ AllRecorded' /\ OnlyRecorded'
        /\ \A n : RootsAt(n)' = RootsAt(n)
    BY <1>1, FrameDry DEF IInv, dry
  <1>4. FactsTrue' /\ OnlyFetched'
    BY <1>1, FrameFacts, FrameFetched DEF IInv
  <1>5. AllFetched'
    BY <1>1 DEF IInv, AllFetched
  <1>6. ProofsPassed'
    BY <1>1 DEF IInv, ProofsPassed, IsFact, Proving
  <1>7. CacheFresh'
    BY <1>1 DEF IInv, CacheFresh, RootsAt
  <1>8. Progress'
    BY <1>1 DEF IInv, Progress, Proving, RootsAt
  <1> QED  BY <1>1, <1>2, <1>3, <1>4, <1>5, <1>6, <1>7, <1>8 DEF IInv, SoundAgrees, Completes

LEMMA InvStep ==
    ASSUME Rules = AllRules
    PROVE  IInv /\ [Next]_vars => IInv'
  BY InvStutter, DryInv, FetchInv, VerifyInv, SoundInv, ReplayInv DEF Next

(* The inductive invariant. *)
THEOREM InvCorrect ==
    ASSUME Rules = AllRules
    PROVE  Spec => []IInv
  <1>1. IInv /\ [Next]_vars => IInv'
    BY InvStep
  <1> QED  BY <1>1, InvInit, PTL DEF Spec

(* The sound run gives every call the answer of the dry run, whatever the   *)
(* order the labels were fetched in.                                        *)
THEOREM SoundRunAgrees ==
    ASSUME Rules = AllRules
    PROVE  Spec => []SoundAgrees
  <1>1. IInv => SoundAgrees
    BY DEF IInv
  <1> QED  BY <1>1, InvCorrect, PTL

(* Neither a handler of the sound run nor an assertion of the replay fails. *)
THEOREM JobCompletes ==
    ASSUME Rules = AllRules
    PROVE  Spec => []Completes
  <1>1. IInv => Completes
    BY DEF IInv
  <1> QED  BY <1>1, InvCorrect, PTL

(* The dry run answers a read with the value at the root its label has.     *)
THEOREM DryRunReadsTrue ==
    ASSUME Rules = AllRules
    PROVE  Spec => []DryReadsTrue
  <1>1. IInv => DryReadsTrue
    <2> SUFFICES ASSUME IInv, NEW n \in DOMAIN trace, trace[n].call.op = "read"
                 PROVE  trace[n].answer.value = trace[n].roots[trace[n].call.label][trace[n].call.key]
      BY DEF DryReadsTrue
    <2> DEFINE v == trace[n].roots[trace[n].call.label][trace[n].call.key]
    <2>1. trace[n].answer = Found(v # Zero, v)
      BY DEF IInv, TraceTrue, Truth, Met
    <2>2. \A e \in BOOLEAN : Found(e, v).value = v
      BY DEF Found
    <2>3. (v # Zero) \in BOOLEAN
      OBVIOUS
    <2> QED  BY <2>1, <2>2, <2>3
  <1> QED  BY <1>1, InvCorrect, PTL

(* The replay ends at the roots of the sound run. *)
THEOREM RootsMeetAtTheEnd ==
    ASSUME Rules = AllRules
    PROVE  Spec => []RootsMeet
  <1>1. IInv => RootsMeet
    BY DEF IInv, Progress, Proving, RootsMeet
  <1> QED  BY <1>1, InvCorrect, PTL

(* A proof that is verified later changes no fact of the memorizer: what it *)
(* says of a place that is taken is what is there.                          *)
LEMMA FactsStep ==
    ASSUME Rules = AllRules, IInv, Next
    PROVE  Kept(inclusion, inclusion') /\ Kept(non_inclusion, non_inclusion') /\ Kept(write, write')
  <1>1. IInv'
    BY InvStep
  <1>2. \A x \in DOMAIN inclusion \intersect DOMAIN inclusion' : inclusion'[x] = inclusion[x]
    BY <1>1 DEF IInv, FactsTrue
  <1>3. \A x \in DOMAIN non_inclusion \intersect DOMAIN non_inclusion' :
           non_inclusion'[x] = non_inclusion[x]
    BY <1>1 DEF IInv, FactsTrue
  <1>4. VerifyRead \/ VerifyWrite \/ UNCHANGED <<inclusion, non_inclusion, write>>
        \/ (DOMAIN inclusion = {} /\ DOMAIN non_inclusion = {} /\ DOMAIN write = {})
    <2>1. DryStep => stage = "dry"
      BY DEF DryStep, DryLabel, DryFails, DryReadCached, DryRead, DryWrite, DryEnds, Calling
    <2>2. FetchStep => stage = "fetch"
      BY DEF FetchStep, Fetch, FetchFails, Load
    <2>3. stage \in {"dry", "fetch"} =>
             DOMAIN inclusion = {} /\ DOMAIN non_inclusion = {} /\ DOMAIN write = {}
      BY DEF IInv, Progress
    <2>4. VerifyEnds \/ SoundStep \/ ReplayStep => UNCHANGED <<inclusion, non_inclusion, write>>
      BY DEF VerifyEnds, SoundStep, SoundLabel, SoundRead, SoundWrite, SoundEnds,
             ReplayStep, ReplayLabel, ReplayRead, ReplayWrite, ReplayEnds, memorizer
    <2> QED  BY <2>1, <2>2, <2>3, <2>4 DEF Next, VerifyStep
  <1>5. CASE VerifyRead
    <2>1. /\ DOMAIN inclusion \subseteq DOMAIN inclusion'
          /\ DOMAIN non_inclusion \subseteq DOMAIN non_inclusion' /\ write' = write
      BY <1>5 DEF VerifyRead, Add
    <2> QED  BY <1>2, <1>3, <2>1 DEF Kept
  <1>6. CASE VerifyWrite
    <2> DEFINE p == state_proofs[idx]
    <2>1. /\ write' = Add(write, At(p), p.new_root)
          /\ UNCHANGED <<inclusion, non_inclusion, trace>>
      BY <1>6 DEF VerifyWrite, dry
    <2>2. DOMAIN write \subseteq DOMAIN write'
      BY <2>1 DEF Add
    <2>3. ASSUME NEW x \in DOMAIN write PROVE write'[x] = write[x]
      <3>1. PICK m \in DOMAIN trace :
               /\ IsWrite(trace[m])
               /\ x = <<trace[m].call.label, Met(trace[m]), trace[m].call.key>>
               /\ write[x] = Truth(trace[m])
        BY DEF IInv, FactsTrue
      <3>2. PICK n \in DOMAIN trace :
               /\ IsWrite(trace[n])
               /\ x = <<trace[n].call.label, Met(trace[n]), trace[n].call.key>>
               /\ write'[x] = Truth(trace[n])
        BY <1>1, <2>1, <2>2 DEF IInv, FactsTrue
      <3>3. trace[m].call.value = trace[n].call.value
        BY <3>1, <3>2 DEF IInv, OneValue
      <3> QED  BY <3>1, <3>2, <3>3 DEF Truth, IsWrite
    <2> QED  BY <2>1, <2>2, <2>3 DEF Kept
  <1>7. CASE UNCHANGED <<inclusion, non_inclusion, write>>
    BY <1>7 DEF Kept
  <1>8. CASE DOMAIN inclusion = {} /\ DOMAIN non_inclusion = {} /\ DOMAIN write = {}
    BY <1>8 DEF Kept
  <1> QED  BY <1>4, <1>5, <1>6, <1>7, <1>8

THEOREM FactsNeverChange ==
    ASSUME Rules = AllRules
    PROVE  Spec => FactsStay
  <1>1. IInv /\ [Next]_vars
          => [/\ Kept(inclusion, inclusion') /\ Kept(non_inclusion, non_inclusion')
              /\ Kept(write, write')]_vars
    BY FactsStep
  <1> QED  BY <1>1, InvCorrect, PTL DEF Spec, FactsStay
=============================================================================
