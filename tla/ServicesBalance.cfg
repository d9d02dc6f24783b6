SPECIFICATION FairSpec
CONSTANTS
    Block <- MCBlock
    ZeroHash = "zero"
    PrevBlock <- MCPrev
    HeightOf <- MCHeightOf
    TxOutId <- SmallTxOutId
    Storable <- SmallStorable
    Outs <- MCOuts
    Ins <- MCIns
    Address <- SmallAddress
    BalanceOf <- SmallBalanceOf
    UtxoAt <- MCUtxoAt
    KnownAt <- MCKnownAt
    Path <- MCPath
    Confirmations = 1
    Client = {"balance", "height"}
    ChanSize = 1
    CacheSize = 1
    Nobody = "nobody"
    Size = 2
    TxsOf <- MCTxsOf
    TxHash <- MCTxHash
    Delta <- MCDelta
INVARIANTS
    ProxyWhileAnnounced
PROPERTIES
    BalanceDrift
    RequestsAnswered
CHECK_DEADLOCK FALSE
