SPECIFICATION FairSpec
CONSTANTS
    Block <- ForkBlock
    Address = {}
    ZeroHash = "zero"
    PrevBlock <- ForkPrev
    HeightOf <- ForkHeightOf
    Path <- ForkPath
    FetcherBlockBufferSize = 1
    BlockQueueSize = 3
    Subscriber = {"s"}
    ChanSize = 1
    Damaged = {"d"}
INVARIANTS
    QueueIsChain
    FetchesNext
    InStep
PROPERTIES
    BacktracksReplaced
    CatchesUp
CHECK_DEADLOCK FALSE
