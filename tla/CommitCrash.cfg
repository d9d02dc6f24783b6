SPECIFICATION Spec
CONSTANTS
    Block <- SmallBlock
    ZeroHash = "zero"
    PrevBlock <- SmallPrev
    HeightOf <- SmallHeightOf
    TxOutId <- SmallTxOutId
    Storable <- SmallStorable
    Outs <- SmallOuts
    Ins <- SmallIns
    Address <- SmallAddress
    BalanceOf <- SmallBalanceOf
    UtxoAt <- SmallUtxoAt
    KnownAt <- SmallKnownAt
    Path <- SmallPath
    Sync = FALSE
INVARIANTS
    DatabaseExact
    NeverRejected
PROPERTIES
    ImplementsCache
