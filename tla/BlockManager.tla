---------------------------- MODULE BlockManager ----------------------------
(***************************************************************************)
(* block_manager/block_manager.go: the routine that follows the crawler's  *)
(* updates, keeps the unconfirmed blocks in a queue, moves the confirmed   *)
(* ones to the storage cache, commits the cache after a delay and answers  *)
(* balances and heights.                                                   *)
(*                                                                         *)
(* The routine handles one message at a time, so every case of its select  *)
(* is one action.  The crawler's side of the channel is the environment:   *)
(* a new block extends the block it sent last, a backtrack undoes it.      *)
(***************************************************************************)
EXTENDS StorageCache, Sequences

CONSTANTS
    Confirmations,    \* blocks that wait in the queue
    CommitSize,       \* cached ids beyond which a commit is required
    CommitMinBlocks,  \* cached blocks beyond which a commit is recommended
    CommitMayFail,    \* the database may return an error from a commit
    Subscriber,       \* update channels clients may register
    ChanSize          \* capacity of an update channel

ASSUME ManagerAssumption ==
    /\ Confirmations \in Nat
    /\ CommitSize \in Nat \ {0}
    /\ CommitMinBlocks \in Nat \ {0}
    /\ CommitMayFail \in BOOLEAN
    /\ ChanSize \in Nat \ {0}

VARIABLES
    height,              \* b.height
    pendingBlocks,       \* blocks waiting for confirmations, oldest first
    addrBalance,         \* pendingBlocks.addrBalance, 0 when absent
    commitTimerStarted,  \* commitTimerStartedFlag; the timer runs with it
    sinceLastBlock,      \* time since lastTime: 0, over 30 s: 1, over 120 s: 2
    commitFailed,        \* history: the last commit failed, no block came since
    registered,          \* managerRoutine's local map of subscribers
    subscribers,         \* b.subscribers, which signalSubscribers reads
    inbox                \* updates sent to each client's channel

clientVars == <<registered, subscribers, inbox>>
managerVars == <<height, pendingBlocks, addrBalance, commitTimerStarted,
                 sinceLastBlock, commitFailed>>
vars == <<cacheVars, managerVars, clientVars>>

Update(class, hash) == [class |-> class, hash |-> hash]
Updates == [class : {"NEWBLOCK", "BACKTRACK", "COMMIT", "COMMIT_DONE"}, hash : Point]

-----------------------------------------------------------------------------
\* Last block of the queue, or the last one moved to the cache.
Tip == IF pendingBlocks = <<>> THEN lastBlockHash
       ELSE pendingBlocks[Len(pendingBlocks)].hash

PendingOuts == UNION {Outs[pendingBlocks[i].hash] : i \in 1..Len(pendingBlocks)}

\* getBlockInputs: inputs created in the queue or in the block itself are
\* read there, the others are looked up in the cache and the database.
FoundInputsMutant(b) ==                      \* the queue is not searched
    IF Sync THEN {} ELSE BulkGetTxOut(Ins[b]) \cup (Ins[b] \cap Outs[b])
FoundInputs(b) ==
    LET near == Ins[b] \cap (PendingOuts \cup Outs[b])
    IN  IF Sync THEN {} ELSE near \cup BulkGetTxOut(Ins[b] \ near)

GetBalance(a) == addrBalance[a] + CacheBalance(a)

Synced == sinceLastBlock >= 1

CommitRequired ==
    /\ uncommittedBlocks >= 1
    /\ \/ UncommittedLen > CommitSize
       \/ Sync /\ sinceLastBlock = 2
       \/ ~Sync /\ uncommittedBlocks > CommitMinBlocks

\* A send to a full channel blocks the routine.
SignalSubscribers(updates) ==
    /\ \A s \in subscribers : Len(inbox[s]) + Len(updates) <= ChanSize
    /\ inbox' = [s \in Subscriber |->
                    IF s \in subscribers THEN inbox[s] \o updates ELSE inbox[s]]
    /\ UNCHANGED <<registered, subscribers>>

-----------------------------------------------------------------------------
Init ==
    /\ CacheInit
    /\ height = cacheHeight
    /\ pendingBlocks = <<>>
    /\ addrBalance = [a \in Address |-> 0]
    /\ commitTimerStarted = FALSE
    /\ sinceLastBlock = 2
    /\ commitFailed = FALSE
    /\ registered = {}
    /\ subscribers = {}
    /\ inbox = [s \in Subscriber |-> <<>>]

\* The process dies (a panic, a signal, a crash) and is started again; the
\* database's transaction leaves the last commit whole or not there at all.
Restart ==
    /\ Reopen
    /\ height' = cacheHeight'
    /\ pendingBlocks' = <<>>
    /\ addrBalance' = [a \in Address |-> 0]
    /\ commitTimerStarted' = FALSE
    /\ sinceLastBlock' = 2
    /\ commitFailed' = FALSE
    /\ registered' = {}
    /\ subscribers' = {}
    /\ inbox' = [s \in Subscriber |-> <<>>]

ArmTimerMutant ==                            \* decided before the update
    CommitRequired /\ ~commitTimerStarted
ArmTimer == CommitRequired' /\ ~commitTimerStarted

\* The case of managerRoutine for a block update, after the update itself.
AfterUpdate(update) ==
    /\ commitTimerStarted' = (commitTimerStarted \/ ArmTimer)
    /\ commitFailed' = FALSE
    /\ SignalSubscribers(IF ArmTimer THEN <<update, Update("COMMIT", ZeroHash)>>
                         ELSE <<update>>)

ConfirmedMutant(queue) == Len(queue) > Confirmations + 1
ConfirmedEarlyMutant(queue) == Len(queue) >= Confirmations
Confirmed(queue) == Len(queue) > Confirmations

NewBlock(b) ==
    LET block == [hash |-> b, height |-> height + 1, found |-> FoundInputs(b)]
        queue == Append(pendingBlocks, block)
    IN  /\ PrevBlock[b] = Tip
        /\ height' = height + 1
        /\ sinceLastBlock' = 0
        /\ IF Confirmed(queue)
           THEN /\ pendingBlocks' = Tail(queue)
                /\ addrBalance' = [a \in Address |->
                      addrBalance[a] + BlockDelta(block, a) - BlockDelta(Head(queue), a)]
                /\ AddBlock(Head(queue))
           ELSE /\ pendingBlocks' = queue
                /\ addrBalance' = [a \in Address |-> addrBalance[a] + BlockDelta(block, a)]
                /\ UNCHANGED cacheVars
        /\ AfterUpdate(Update("NEWBLOCK", b))

Backtrack ==
    /\ pendingBlocks # <<>>
    /\ LET n == Len(pendingBlocks)
       IN  /\ pendingBlocks' = SubSeq(pendingBlocks, 1, n - 1)
           /\ addrBalance' = [a \in Address |->
                 addrBalance[a] - BlockDelta(pendingBlocks[n], a)]
    /\ height' = height - 1
    /\ UNCHANGED <<cacheVars, sinceLastBlock>>
    /\ AfterUpdate(Update("BACKTRACK", Tip))

\* A backtrack past the queue is ErrBacktrackLimit, and the routine panics.
BacktrackLimit == pendingBlocks = <<>> /\ Restart

CommitTimer ==
    /\ commitTimerStarted
    /\ commitTimerStarted' = FALSE
    /\ IF CommitRequired
       THEN /\ \/ CommitDone /\ sinceLastBlock' = 0 /\ commitFailed' = FALSE
               \/ /\ CommitMayFail \/ ~UpdateAccepted
                  /\ CommitFailed
                  /\ commitFailed' = TRUE
                  /\ UNCHANGED sinceLastBlock
            /\ SignalSubscribers(<<Update("COMMIT_DONE", ZeroHash)>>)
       ELSE UNCHANGED <<cacheVars, sinceLastBlock, commitFailed, clientVars>>
    /\ UNCHANGED <<height, pendingBlocks, addrBalance>>

\* Requests for a balance, a height or the synced flag are answered and change
\* nothing; so is a stop request, whose break leaves only the select.
Subscribe(s) ==
    /\ registered' = registered \cup {s}
    /\ UNCHANGED <<cacheVars, managerVars, subscribers, inbox>>

Unsubscribe(s) ==
    /\ registered' = registered \ {s}
    /\ UNCHANGED <<cacheVars, managerVars, subscribers, inbox>>

\* Time passes with no block and no commit.
TimePasses ==
    /\ sinceLastBlock < 2
    /\ sinceLastBlock' = sinceLastBlock + 1
    /\ UNCHANGED <<cacheVars, clientVars, height, pendingBlocks, addrBalance,
                   commitTimerStarted, commitFailed>>

Next ==
    \/ \E b \in Block : NewBlock(b)
    \/ Backtrack
    \/ BacktrackLimit
    \/ CommitTimer
    \/ \E s \in Subscriber : Subscribe(s) \/ Unsubscribe(s)
    \/ TimePasses
    \/ Restart

Spec == Init /\ [][Next]_vars

\* The timer set by Reset expires, and the routine reads its channel.
FairSpec == Spec /\ WF_vars(CommitTimer)

-----------------------------------------------------------------------------
TypeOK ==
    /\ CacheTypeOK
    /\ height \in Int
    /\ pendingBlocks \in Seq(QueuedBlock)
    /\ addrBalance \in [Address -> Int]
    /\ commitTimerStarted \in BOOLEAN
    /\ sinceLastBlock \in 0..2
    /\ commitFailed \in BOOLEAN
    /\ registered \subseteq Subscriber
    /\ subscribers \subseteq Subscriber
    /\ inbox \in [Subscriber -> Seq(Updates)]

\* Hash of the block below the n-th of the queue, from the cache on.
PendingHash(n) == IF n = 0 THEN lastBlockHash ELSE pendingBlocks[n].hash

\* The queue is a chain of at most Confirmations blocks on top of the cached
\* ones, each with the height it was built with (addBlock, backtrackBlock).
QueueLinked ==
    /\ Len(pendingBlocks) <= Confirmations
    /\ height = HeightOf[Tip]
    /\ \A n \in 1..Len(pendingBlocks) :
          /\ PrevBlock[pendingBlocks[n].hash] = PendingHash(n - 1)
          /\ pendingBlocks[n].height = HeightOf[pendingBlocks[n].hash]

\* Every input with an address and a value is found when its block arrives,
\* wherever the output is: in the block, the queue, the cache or the
\* database (getBlockInputs).
InputsFound ==
    ~Sync => \A n \in 1..Len(pendingBlocks) :
                Ins[pendingBlocks[n].hash] \cap Storable \subseteq pendingBlocks[n].found

\* A balance answered at any moment, during a reorganisation, before or after
\* a commit, is the one of the ledger at the tip (getBalance over the queue's
\* index, the cache's delta and the rows).
BalanceExact ==
    ~Sync => \A a \in Address : GetBalance(a) = BalanceOf(UtxoAt[Tip], a)

\* A commit that the size of the cache or its number of blocks makes due has
\* its timer running: no order of blocks, backtracks and expiries leaves it
\* waiting for nobody, but a failed commit, which waits for the next block
\* (managerRoutine's two uses of commitRequired).
DueCommitScheduled ==
    /\ uncommittedBlocks >= 1
    /\ UncommittedLen > CommitSize \/ (~Sync /\ uncommittedBlocks > CommitMinBlocks)
    => commitTimerStarted \/ commitFailed

\* A block cached beyond CommitMinBlocks gets into the database, unless a
\* restart drops it from the cache or its commit fails.
CommitProgress ==
    \A b \in Block :
        (~Sync /\ uncommittedBlocks > CommitMinBlocks /\ lastBlockHash = b)
            ~> (b \in Path[lastBlock.hash] \/ b \notin Path[lastBlockHash] \/ commitFailed)

\* The cache is driven as StorageCache says: consecutive blocks, with their
\* inputs found, commits and reopenings.
DrivesCache == CacheSpec

Index == INSTANCE ChainIndex WITH
    tip <- Tip,
    settled <- lastBlockHash,
    durable <- lastBlock.hash,
    stored <- utxo,
    answers <- [a \in Address |-> GetBalance(a)]

\* The manager keeps ChainIndex's promise to its clients.
ImplementsIndex == Index!Spec

-----------------------------------------------------------------------------
\* What the comments say and the code does not do.

\* block_manager.go:473: Subscribe returns the channel where updates are sent.
SubscribersServed ==
    [][\A b \in Block : NewBlock(b) =>
           \A s \in registered : inbox'[s] # inbox[s]]_vars

=============================================================================
