SPECIFICATION FairSpec
CONSTANTS
    Block <- SmallBlock
    ZeroHash = "zero"
    PrevBlock <- SmallPrev
    HeightOf <- SmallHeightOf
    TxOutId <- SmallTxOutId
    Storable <- SmallStorable
    Outs <- SmallOuts
    Ins <- SmallIns
    Address <- SmallAddress
    BalanceOf <- SmallBalanceOf
    UtxoAt <- SmallUtxoAt
    KnownAt <- SmallKnownAt
    Path <- SmallPath
    Sync = FALSE
    Confirmations = 2
    CommitSize = 4
    CommitMinBlocks = 1
    CommitMayFail = TRUE
    Subscriber = {"s"}
    ChanSize = 2
    TxHash <- SmallTxHash
    WireBlock <- SmallWireBlock
    Data <- SmallData
    NullId <- NullOut
INVARIANTS
    TypeOK
    StoredExact
    CommitAccepted
    QueueLinked
    InputsFound
    BalanceExact
    LoopsAgree
    DueCommitScheduled
PROPERTIES
    CommitProgress
    ImplementsIndex
