SPECIFICATION Spec
CONSTANTS
    HonestUpdates <- MCHonestUpdates
    Key <- MCKey
    LeafValue <- MCLeafValue
    Root <- MCRoot
    HonestHeight = 4
    HonestLeaves = 3
    AnyHeight = 2
    Value = 2
INVARIANTS
    OnlyTheKeyChanged
    HonestWritesAreAccepted
    DescentsAreLongest
CHECK_DEADLOCK FALSE
