------------------------------ MODULE Crawler ------------------------------
(***************************************************************************)
(* crawler/crawler.go and crawler/fetcher.go: the routine that asks the    *)
(* node for one block after the other, and the crawler routine that checks *)
(* that each one extends the last, goes back a block when it does not, and *)
(* sends what it did to its subscribers.                                   *)
(*                                                                         *)
(* The two run concurrently.  They share a buffered channel of blocks and  *)
(* an unbuffered channel on which the crawler hands over a stop signal: it *)
(* waits there until the fetcher has a block in its hand and listens.      *)
(* The node and the subscribers are the environment.                       *)
(***************************************************************************)
EXTENDS BlockTree, Sequences, SequencesExt

CONSTANTS
    FetcherBlockBufferSize,
    BlockQueueSize,
    Subscriber,      \* update channels
    ChanSize,        \* their capacity
    Damaged          \* blocks a transmission error may turn another one into

ASSUME CrawlerAssumption ==
    /\ FetcherBlockBufferSize \in Nat \ {0}
    /\ BlockQueueSize \in Nat \ {0}
    /\ ChanSize \in Nat \ {0}
    /\ Damaged \subseteq Block

VARIABLES
    best,            \* the node's best block
    \* fetcher routine: "none", "poll" and "fetch" (asking the node for its
    \* height and for a block), "offer" (the select)
    fetcher,
    nextHeight,      \* its local height
    topHeight,
    offered,         \* the record it is sending
    fetcherBlocks,   \* buffered records
    \* crawler routine: "select", "refetch" and "backtrack" (handing over the
    \* stop signal in newFetcher), "notify" (sending an update), "panic" (the
    \* program ends: the routine is never seen again)
    step,
    height,          \* c.height, of the next block
    blockQueue,      \* hashes of the last blocks, the newest at the back
    record,          \* the record in processBlock
    update,          \* the update being sent
    unsent,          \* subscribers it has not been sent to
    subscribers,
    \* the subscribers' side
    channel,         \* updates waiting in each channel
    clientTip        \* where the updates a subscriber has taken lead

fetcherVars == <<fetcher, nextHeight, topHeight, offered>>
routineVars == <<height, blockQueue, record, update, unsent>>
clientVars == <<subscribers, channel, clientTip>>
vars == <<best, fetcherVars, fetcherBlocks, step, routineVars, clientVars>>

\* The hash the fetcher asked for, and the hash of the block it was sent.
Record == [asked : Block, block : Block]
Update(class, hash) == [class |-> class, hash |-> hash]
Updates == [class : {"NEWBLOCK", "BACKTRACK"}, hash : Point]

Before(u) == IF u.class = "NEWBLOCK" THEN PrevBlock[u.hash] ELSE u.hash
After(u) == IF u.class = "NEWBLOCK" THEN u.hash ELSE PrevBlock[u.hash]

Back == Last(blockQueue)

-----------------------------------------------------------------------------
\* main: the crawler starts after the last block in the database, which was on
\* the node's chain when it was stored; the chain may have advanced since.
Init ==
    /\ best \in Block \ Damaged
    /\ \E start \in Point \ Damaged :
          /\ start = best \/ HeightOf[start] < HeightOf[best]
          /\ blockQueue = <<start>>
          /\ height = HeightOf[start] + 1
          /\ clientTip = [s \in Subscriber |-> start]
    /\ fetcher = "none"
    /\ nextHeight = 0
    /\ topHeight = 0
    /\ offered = CHOOSE r \in Record : r.asked = r.block
    /\ record = offered
    /\ fetcherBlocks = <<>>
    /\ step = "select"
    /\ update = Update("BACKTRACK", ZeroHash)
    /\ unsent = {}
    /\ subscribers = {}
    /\ channel = [s \in Subscriber |-> <<>>]

\* The node moves to a longer chain, of the same fork or of another.
NodeAdvances ==
    /\ \E b \in Block \ Damaged : HeightOf[b] > HeightOf[best] /\ best' = b
    /\ UNCHANGED <<fetcherVars, fetcherBlocks, step, routineVars, clientVars>>

-----------------------------------------------------------------------------
\* The fetcher has sent everything up to topHeight: it asks how high the chain
\* is until it is higher than that, and then for the next block.
PollCountMutant ==
    /\ fetcher = "poll"
    /\ topHeight < nextHeight
    /\ HeightOf[best] > topHeight + 1        \* off by one
    /\ topHeight' = HeightOf[best]
    /\ fetcher' = "fetch"
    /\ UNCHANGED <<best, nextHeight, offered, fetcherBlocks, step, routineVars, clientVars>>
PollCount ==
    /\ fetcher = "poll"
    /\ topHeight < nextHeight
    /\ HeightOf[best] > topHeight
    /\ topHeight' = HeightOf[best]
    /\ fetcher' = "fetch"
    /\ UNCHANGED <<best, nextHeight, offered, fetcherBlocks, step, routineVars, clientVars>>

\* GetBlockHash and GetBlock.  The topHeight found may still be too low, and
\* the node have the block all the same.
FetchBlock ==
    /\ fetcher = "fetch" \/ (fetcher = "poll" /\ topHeight >= nextHeight)
    /\ \E b \in Path[best] : \E received \in {b} \cup Damaged :
          /\ HeightOf[b] = nextHeight
          /\ offered' = [asked |-> b, block |-> received]
    /\ fetcher' = "offer"
    /\ UNCHANGED <<best, nextHeight, topHeight, fetcherBlocks, step, routineVars,
                   clientVars>>

\* The node has no such block yet: back to asking for its height.  (A request
\* that fails otherwise is tried again and changes nothing.)
NoBlock ==
    /\ fetcher = "fetch"
    /\ nextHeight > HeightOf[best]
    /\ fetcher' = "poll"
    /\ UNCHANGED <<best, nextHeight, topHeight, offered, fetcherBlocks, step, routineVars,
                   clientVars>>

OfferBlock ==
    /\ fetcher = "offer"
    /\ Len(fetcherBlocks) < FetcherBlockBufferSize
    /\ fetcherBlocks' = Append(fetcherBlocks, offered)
    /\ nextHeight' = nextHeight + 1
    /\ fetcher' = "poll"
    /\ UNCHANGED <<best, topHeight, offered, step, routineVars, clientVars>>

\* A new fetcher, with channels of its own.
FetcherAtMutant(h) ==                        \* the old buffer is read on
    /\ fetcher' = "poll"
    /\ nextHeight' = h
    /\ topHeight' = 0
    /\ UNCHANGED <<fetcherBlocks, offered>>
FetcherAt(h) ==
    /\ fetcher' = "poll"
    /\ nextHeight' = h
    /\ topHeight' = 0
    /\ fetcherBlocks' = <<>>
    /\ UNCHANGED offered

\* newFetcher hands the stop signal to the old fetcher, which takes it only
\* while it offers a block.
NewFetcher(h) == fetcher = "offer" /\ FetcherAt(h)

-----------------------------------------------------------------------------
Trimmed(queue) == IF Len(queue) > BlockQueueSize THEN Tail(queue) ELSE queue

\* newBlock and the update that follows.
AddBlock(b) ==
    /\ height' = height + 1
    /\ blockQueue' = Trimmed(Append(blockQueue, b))
    /\ update' = Update("NEWBLOCK", b)
    /\ unsent' = subscribers
    /\ step' = "notify"

\* backtrackBlock, up to the stop signal.
StartBacktrackMutant ==                      \* the height is left as it is
    /\ step' = IF Len(blockQueue) = 1 THEN "panic" ELSE "backtrack"
    /\ UNCHANGED <<height, blockQueue, update, unsent>>
StartBacktrack ==
    /\ IF Len(blockQueue) = 1 THEN step' = "panic" /\ UNCHANGED height
       ELSE step' = "backtrack" /\ height' = height - 1
    /\ UNCHANGED <<blockQueue, update, unsent>>

CheckBlock(b) == IF PrevBlock[b] # Back THEN StartBacktrack ELSE AddBlock(b)

\* processBlock: a damaged block is fetched again, and processed all the same.
ReceiveBlock ==
    /\ step = "select"
    /\ fetcherBlocks # <<>>
    /\ record' = Head(fetcherBlocks)
    /\ fetcherBlocks' = Tail(fetcherBlocks)
    /\ IF record'.block # record'.asked
       THEN step' = "refetch" /\ UNCHANGED <<height, blockQueue, update, unsent>>
       ELSE CheckBlock(record'.block)
    /\ UNCHANGED <<best, fetcherVars, clientVars>>

Refetch ==
    /\ step = "refetch"
    /\ NewFetcher(height + 1)
    /\ CheckBlock(record.block)
    /\ UNCHANGED <<best, record, clientVars>>

FinishBacktrackMutant ==                     \* the first block is popped
    /\ step = "backtrack"
    /\ NewFetcher(height)
    /\ blockQueue' = Tail(blockQueue)
    /\ update' = Update("BACKTRACK", Back)
    /\ unsent' = subscribers
    /\ step' = "notify"
    /\ UNCHANGED <<best, height, record, clientVars>>
FinishBacktrack ==
    /\ step = "backtrack"
    /\ NewFetcher(height)
    /\ blockQueue' = Front(blockQueue)
    /\ update' = Update("BACKTRACK", Back)
    /\ unsent' = subscribers
    /\ step' = "notify"
    /\ UNCHANGED <<best, height, record, clientVars>>

\* notifySubscribers: a full channel blocks the routine.
Notify(s) ==
    /\ step = "notify"
    /\ s \in unsent
    /\ Len(channel[s]) < ChanSize
    /\ channel' = [channel EXCEPT ![s] = Append(@, update)]
    /\ unsent' = unsent \ {s}
    /\ UNCHANGED <<best, fetcherVars, fetcherBlocks, step, height, blockQueue, record,
                   update, subscribers, clientTip>>

NotifyDone ==
    /\ step = "notify"
    /\ unsent = {}
    /\ step' = "select"
    /\ UNCHANGED <<best, fetcherVars, fetcherBlocks, routineVars, clientVars>>

-----------------------------------------------------------------------------
\* Requests, answered by the crawler routine when it is in its select.  A stop
\* request is answered and changes nothing: the break leaves only the select.
Start ==
    /\ step = "select"
    /\ fetcher = "none"
    /\ FetcherAt(height)
    /\ UNCHANGED <<best, step, routineVars, clientVars>>

\* A client that subscribes is taken to know the blocks so far.
Subscribe(s) ==
    /\ step = "select"
    /\ s \notin subscribers
    /\ subscribers' = subscribers \cup {s}
    /\ channel' = [channel EXCEPT ![s] = <<>>]
    /\ clientTip' = [clientTip EXCEPT ![s] = Back]
    /\ UNCHANGED <<best, fetcherVars, fetcherBlocks, step, routineVars>>

Unsubscribe(s) ==
    /\ step = "select"
    /\ subscribers' = subscribers \ {s}
    /\ UNCHANGED <<best, fetcherVars, fetcherBlocks, step, routineVars, channel,
                   clientTip>>

\* A subscriber takes an update from its channel.
TakeUpdate(s) ==
    /\ channel[s] # <<>>
    /\ channel' = [channel EXCEPT ![s] = Tail(@)]
    /\ clientTip' = [clientTip EXCEPT ![s] = After(Head(channel[s]))]
    /\ UNCHANGED <<best, fetcherVars, fetcherBlocks, step, routineVars, subscribers>>

Fetcher == PollCount \/ FetchBlock \/ NoBlock \/ OfferBlock
Routine == ReceiveBlock \/ Refetch \/ FinishBacktrack \/ NotifyDone
Requests == Start \/ \E s \in Subscriber : Subscribe(s) \/ Unsubscribe(s)

Next ==
    \/ NodeAdvances
    \/ Fetcher
    \/ Routine
    \/ \E s \in Subscriber : Notify(s) \/ TakeUpdate(s)
    \/ Requests

Spec == Init /\ [][Next]_vars

\* The routines and the clients run, and the crawler is started.  The node
\* owes no more blocks.
FairSpec ==
    /\ Spec
    /\ WF_vars(Start) /\ WF_vars(Fetcher) /\ WF_vars(Routine)
    /\ \A s \in Subscriber : WF_vars(Notify(s)) /\ WF_vars(TakeUpdate(s))

-----------------------------------------------------------------------------
\* The queue is a chain of at most BlockQueueSize blocks and height is the one above its last block,
\* or, while a block is being taken back, that block's own.
QueueIsChain ==
    /\ Len(blockQueue) \in 1..BlockQueueSize
    /\ \A n \in 2..Len(blockQueue) : PrevBlock[blockQueue[n]] = blockQueue[n - 1]
    /\ height = IF step = "backtrack" THEN HeightOf[Back] ELSE HeightOf[Back] + 1

\* The next record the crawler will read is the one at c.height: what an older
\* fetcher had sent or was about to send is never processed after a backtrack
\* (newFetcher's fresh channels).
FetchesNext ==
    fetcher # "none" /\ step \in {"select", "notify"} =>
        /\ nextHeight = height + Len(fetcherBlocks)
        /\ \A n \in DOMAIN fetcherBlocks :
              HeightOf[fetcherBlocks[n].asked] = height + n - 1
        /\ fetcher = "offer" => HeightOf[offered.asked] = nextHeight

\* The updates a subscriber has taken, those in its channel and the one it has
\* not been sent yet lead block by block to the crawler's last block: the
\* order that the block manager relies on (processBlockUpdate).
InStep ==
    \A s \in subscribers :
        LET todo == IF s \in unsent THEN Append(channel[s], update) ELSE channel[s]
        IN  /\ \A n \in DOMAIN todo :
                  Before(todo[n]) = IF n = 1 THEN clientTip[s] ELSE After(todo[n - 1])
            /\ Back = IF todo = <<>> THEN clientTip[s] ELSE After(Last(todo))

\* A block is taken back only because the node sent one that replaces it: an
\* undamaged block never takes back one of its own ancestors.
BacktracksReplaced ==
    [][step = "backtrack" /\ step' = "notify" /\ record.block = record.asked
           => update'.hash \notin Path[record.block]]_vars

\* The crawler waits in newFetcher for a fetcher that waits for the node.
WaitsForNode ==
    /\ step \in {"refetch", "backtrack"}
    /\ fetcher = "poll"
    /\ nextHeight > HeightOf[best]

\* Once the node's chain stays as it is and blocks arrive undamaged, the crawler
\* and its subscribers arrive at the node's best block, unless the crawler is
\* waiting for the next one or has panicked.
CatchesUp ==
    <>[](offered.block = offered.asked)
        => <>[](\/ Back = best /\ \A s \in subscribers : clientTip[s] = best
                \/ WaitsForNode
                \/ step = "panic")

=============================================================================
