SPECIFICATION Spec
CONSTANTS
    Held = Held
    Gone = Gone
    Short = Short
    Set = Set
    Unset = Unset
    NoFile = NoFile
    TornFile = TornFile
    ChainOrder <- MCChainOrder
    EvmChain = {1}
    StarknetChain = {2}
    Block <- MCBlock
    Age <- MCAge
    Version <- MCVersion
    Place <- MCPlace
    Account = {Held, Short}
    ShortAddress = {Short}
    SetSlot = {Set}
    Tx <- MCTx
    Log <- MCLog
    Unsettled <- MCUnsettled
    Programs <- MCPrograms
    OtherCalls <- MCOtherCalls
    Hasher <- MCHasher
    Configured = {1, 2}
    MaxSize = 7
    MaxFetches = 2
    OldFiles <- MCOldFiles
INVARIANTS
    JobInv
    Completes
    OnlySupported
    MemorizersTrue
    OutputCommits
    FileIsWhole
CHECK_DEADLOCK FALSE
PROPERTIES
    KeepsPromise
    CommandsEnd
