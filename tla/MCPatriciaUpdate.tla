-------------------------- MODULE MCPatriciaUpdate --------------------------
(* Small instances of PatriciaUpdate for TLC. *)
EXTENDS PatriciaUpdate, PatriciaHints, FiniteSets

CONSTANTS
    HonestHeight,   \* of the trees an honest write changes
    HonestLeaves,   \* at most so many leaves before the write
    AnyHeight,      \* of the trees two roots may be of when nobody vouches for them
    Value           \* the value of their leaves

(* Every tree, with empty children, zero leaves and edges over edges. *)
RECURSIVE AnyNodes(_)
AnyNodes(height) ==
    IF height = 0 THEN {Zero, Felt(Value)}
    ELSE {Zero}
           \union {Binary(n[1], n[2]) : n \in AnyNodes(height - 1) \X AnyNodes(height - 1)}
           \union UNION {{Edge(e[1], e[2]) : e \in Paths(n) \X AnyNodes(height - n)} : n \in 1..height}

Writes ==
    [content : {S \X {Value} : S \in {S \in SUBSET Paths(HonestHeight) : Cardinality(S) <= HonestLeaves}},
     key : Paths(HonestHeight), value : {0, 1, Value}]
MCHonestUpdates == {HonestUpdate(w) : w \in Writes}

MCKey == Paths(AnyHeight)
MCLeafValue == {0, Value}
MCRoot == AnyNodes(AnyHeight)
=============================================================================
