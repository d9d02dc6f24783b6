SPECIFICATION FairSpec
CONSTANTS
    Block <- SmallBlock
    ZeroHash = "zero"
    PrevBlock <- SmallPrev
    HeightOf <- SmallHeightOf
    TxOutId <- SmallTxOutId
    Storable <- SmallStorable
    Outs <- SmallOuts
    Ins <- SmallIns
    Address <- SmallAddress
    BalanceOf <- SmallBalanceOf
    UtxoAt <- SmallUtxoAt
    KnownAt <- SmallKnownAt
    Path <- SmallPath
    Sync = FALSE
    Confirmations = 1
    CommitSize = 4
    CommitMinBlocks = 2
    CommitMayFail = FALSE
    Subscriber = {"s"}
    ChanSize = 2
PROPERTIES
    SubscribersServed
