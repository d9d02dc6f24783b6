# gobalance in TLA+

gobalance follows a bitcoind node, keeps the set of unspent transaction outputs
in a SQLite database, and answers the balance, the recent transactions and the
height over HTTP. This directory holds TLA+ modules translated from its Go
source, the TLC configurations that check them on small instances, and proofs
that TLAPS checks for every value of the constants. `PROJECT.json` lists the
components, the runs, one plausible bug per property that the property catches
(the `...Mutant` operators), the source lines of each definition, and the
hazards that the properties are for.

    tlc -workers 2 -config ManagerLedger.cfg MCBlockTx      # a run
    tlapm BlockManagerProofs.tla                            # the proofs of a module

## 1. The system

    bitcoind --> fetcher --blocks--> crawler --updates--> block manager --> storage cache --> SQLite
                    ^---- stop ---------'                   |  ^
                                                            |  '-- balance, height, synced, stop requests
                                     updates for clients ---'
                                          |--> balance cache --(proxy)--> another peer
                                          |--> recent transactions          ^
                                          '--> height                     peers
                                                 '---- JSON API ----'

| Component | Source | State | Operations | How it meets the others |
|---|---|---|---|---|
| Crawler | `crawler/crawler.go` | height of the next block, hashes of the last 500 blocks, current fetcher's channels, subscribers | start, subscribe, unsubscribe, process a block, backtrack, replace the fetcher, notify | reads the fetcher's channel, sends on each subscriber's channel and blocks when one is full |
| Fetcher | `crawler/fetcher.go` | next height, top height seen, the block in its hand | poll the height, fetch, offer, end | one goroutine per start or backtrack; takes the stop signal only while it offers a block |
| Block manager | `block_manager/block_manager.go` | height, queue of unconfirmed blocks, commit timer, subscribers | block update, backtrack, timer, subscribe, unsubscribe, requests, stop | one goroutine around a select |
| Storage cache | `block_manager/storage/cache.go` | pending inserts and deletions, balance deltas, last block | AddBlock, lookups, balance, Commit | used by the manager only |
| SQLite storage | `block_manager/storage/sqlite.go` | rows of `utxo`, `last_block` | open, bulk update, queries | one connection, one transaction per commit |
| Block queue | `primitives/block_queue.go` | deque of blocks, index by transaction, per address a list of transactions and a balance | push and pop at both ends, Tx, GetTx, GetBalance | the manager's queue and the recent transactions' window |
| Deque | `primitives/queue/queue.go` | ring buffer | push and pop at both ends, grow, shrink | under the block queue and the crawler's hashes |
| Balance cache | `balance/` | LRU map of balances, proxy mode | update, request, stop | asks the manager on a miss; asks a peer in proxy mode |
| Recent transactions | `recent_tx/` | a window of blocks | update, request, stop | |
| Height cache | `height/` | a height under a lock | update, get, stop | Stop unsubscribes from the manager |
| Peer handler | `peers/discovery.go`, `peers.go`, `routines.go`, `handlers.go`, `http.go` | peers by host in the order of their turns, index by API host, reachability and retries of each | select cases: commands, announcements, status updates, resolved hosts, three tickers; start, shutdown | one goroutine per request to another node; reads `commandCh`, `statusUpdateCh`, the resolver's channel; signals on `subscriberCh` |
| Resolver | `peers/resolve.go` | names waiting, failures of each | take a name, look one up, close | two channels with the peer handler |
| Peer manager | `peers/manager.go` | list of API hosts with their marks, client cache, started flag, a lock | GetPeer, GetPeerPersistent, MarkPeerUnreachable, Start, Stop, its routine | callers share the lock with the routine; sends commands to the handler with the lock held |
| Configuration, API, logging, utilities | | none that changes | | |

What is hard here: a reorganisation while blocks are partly queued, cached and
stored; a commit that fails, or is cut short, between any two statements; the
process ending at any moment (a signal calls `CleanUp`, which returns before it
closes anything, so that every exit is a crash); goroutines that wait for each
other over unbuffered channels; a cache that reads the manager's present while
updates of the past are still on their way to it; a timer that decides on one
state and acts on a later one; indexes kept beside the data they index; a lock
held across a send to a goroutine that waits for the lock's owner; nodes that
come back at another port while reports about the old one are still under way.

What makes each component correct:

* *Crawler*: the hashes it keeps are a chain; no record of a replaced fetcher is
  processed; the updates sent lead from one block to the next with none lost; it
  reaches the node's tip.
* *Manager and cache*: the rows are the unspent outputs of the stored block, the
  rows with the cache those of the last confirmed block, and an answered balance
  that of the tip, through reorganisations, failures and restarts; a commit that
  is due takes place and is never refused.
* *SQLite*: an update happens as a whole or not at all.
* *Block queue*: the index by transaction and the balances are those of the blocks in
  the queue, and so is the number of each address's entries. Which transactions the
  entries name is right only until a block is taken off the back (section 4).
* *Deque*: it is a sequence.
* *Caches*: they follow the chain, and what they answer is off by no more than
  the updates they have not taken.
* *Peer handler*: what it signals is exactly how the set of reachable full peers
  changes; a dead peer does not stay; commands, names and a shutdown get through.
* *Peer manager*: its list becomes the handler's; a client is sent only to a peer
  that is listed; every peer has its turn; the lock is given back.

## 2. Modules

| Module | Models | EXTENDS / INSTANCE |
|---|---|---|
| `Blocks`, `BlockTree` | the names of blocks and addresses; blocks with a parent and a height, for the tree of all forks | |
| `Chain` | what blocks create and spend, and the ledger that results | BlockTree |
| `ChainIndex` | abstract: tip, settled and durable block, exact answers | Chain |
| `StorageCache` | `cache.go` with an atomic database | Chain |
| `BlockManager` | `managerRoutine`, the queue, the commit timer, restarts | StorageCache, ChainIndex |
| `BlockTx` | the loops over transactions of `getBlockInputs`, `AddBlock` and `ForEachAddress` | BlockManager |
| `Sqlite` | `BulkUpdateFromMap` and `Transact` statement by statement | Chain |
| `CacheCommit` | the cache over `Sqlite`, refining `StorageCache` | Sqlite, StorageCache |
| `Crawler` | crawler and fetcher routines, node, subscribers | BlockTree |
| `SeqDeque`, `Deque` | a sequence with two ends, and the ring buffer that refines it | |
| `BlockQueue` | the queue's indexes | Blocks |
| `ManagerFeed` | the manager as its clients see it, with their channels | BlockTree |
| `BalanceCache`, `RecentTx`, `HeightCache` | one client each | ManagerFeed, BlockQueue |
| `Services` | the clients `main.go` starts, on one manager | ManagerFeed, Chain, BlockQueue and the three clients |
| `OrderedMap` | the map with an order that both peer components use (external) | |
| `PeerFeed` | abstract: a set of API hosts, and a signal for each change, on bounded channels | |
| `Resolver` | `resolve.go` | |
| `PeerHandler` | the discovery routine with its helper routines, HTTP handlers and resolver, refining `PeerFeed` | Resolver, OrderedMap |
| `PeerManager` | `manager.go` over the handler's promise | PeerFeed, OrderedMap |
| `StorageCacheProofs`, `BlockManagerProofs`, `CacheCommitProofs`, `CrawlerProofs`, `ServicesProofs`, `PeerHandlerProofs`, `PeerManagerProofs`, `DequeProofs` | theorems about the module each is named after, those of `BlockManager` and `BlockTx` in one | that module |
| `SmallChain`, `SmallForks`, `MC...` | instances for TLC | |

How code corresponds to state and actions:

* **Blocks and outputs.** `Block` is the set of all blocks of all forks, `PrevBlock`,
  `HeightOf` and `Path` their tree. `Outs[b]` and `Ins[b]` are the ids a block
  creates and spends (the null id of a coinbase included), `UtxoAt[p]` the ledger
  after block p. The data of an output is a function of its id, so a Go map from
  ids to data is a set of ids.
* **BlockManager** has one action per case of the select. `NewBlock` is `addBlock`
  with everything it calls, then the subscribers' signals and the timer; `Backtrack`
  is `backtrackBlock` likewise. `BacktrackLimit` is the panic, and `Restart` any end of
  the process followed by a start on the same database. Time is the three ranges
  the code compares with (at most 30 s, at most 120 s, more). A stop request, and
  requests for a balance, a height or the synced flag, change no state.
* **BlockTx** ties the set-level definitions to the loops. Its invariants are
  evaluated in every reachable state of the manager.
* **Sqlite** has a `phase` for the loop a bulk update is in; `Rollback` and
  `Crash` may follow any statement. `CacheCommit` adds the step between the
  database's commit and the reset of the cache's maps.
* **Crawler** splits `processBlock` where it may wait: `ReceiveBlock` up to the stop
  signal, `Refetch` and `FinishBacktrack` after it, `Notify` per subscriber.
* **ManagerFeed** sends the updates as the interface in `manager.go` promises. Its
  `announced` is a history variable: whether the last of the two commit messages sent was
  the announcement. Nothing reads it but a property.
  `block_manager.go` sends none (section 4): the clients' modules say what the
  clients do with updates, and hold of the program once it sends them.
* **BlockQueue** is a module of its own for the queue with pushes and pops at both ends,
  about which section 6 proves, and `RecentTx` extends it: its window is such a queue,
  all three indexes included, and each update is made of the queue's operations. The
  program pushes at the back only, so that is what `ServicesWindow` checks.
* **PeerHandler.** Only the discovery routine touches the peers, so a message is
  handled in one action up to what it sends; the sends are kept in `sending` and
  done one by one when there is room, and nothing is read before they are done.
  The helpers (`DelPeer`, `AddPeer`, `MarkPeerUnreachable`, `SetPeerStatus`) map a
  table of peers, index and sends to the next. A host is a model value: `Status`
  gives the two hosts that a node's ports make with its ip. `Peer.discovered` is the
  one field that another goroutine sets (`AnnounceAnswer`), under the peer's own lock.
  What other nodes answer, and when, is the environment's choice from `Answers`,
  `Mentioned` and `Requests`. A node's list may mention anything: what parses is a
  member of `Host`, what does not is a `Name` for the resolver to look up.
* **PeerManager** has one action per critical section. Where the code sends to
  the handler with the lock held (`MarkPeerUnreachable`, the end of the routine),
  the variable `lock` is the command being sent until there is room for it. The
  marks of a peer are a number, any of which may have expired.
* **Composition.** `PeersFound` shows, and `PeerHandlerProofs` proves, that `PeerHandler`
  implements `PeerFeed`; `PeerManager` is built on `PeerFeed`'s actions, so its safety
  properties hold with the handler below it, as long as nodes keep their
  peer port and mode and no API host is that of two nodes (`StableNodes`). Liveness
  does not carry over in this way. Each half assumes nothing of the
  other where the other may wait for ever, and its properties name that wait: the
  handler may wait for itself (`SelfBlocked`; seen from the manager, `HandlerWaits`)
  or for the manager to read (`SignalBlocked`, of which `HandlerStuck` is the part that
  lasts).

## 3. Runs

A tree of blocks in `SmallChain` (three forks, twelve blocks, given by its
transactions, from which the sets are computed) has a spend of an older block,
of the same block and of both, a spend of an output without an address, a
transaction that is in two forks, and blocks with only a coinbase. `SmallForks` has
two forks without transactions, the second longer, and a damaged block.

| Run | Question | Bounds |
|---|---|---|
| `ManagerLedger` | Are rows, cache and answers always the ledger's? Do the loops agree with the sets? Does a due commit take place? | two confirmations: reorganisations of one and two blocks are undone, a deeper one is past the limit; the commit becomes due both by size and by number; it may fail; restarts anywhere; one client |
| `CrawlerFollows` | Is nothing stale processed, do updates stay in step, is the tip reached? | buffers of one, three remembered hashes: both limits are hit; the node moves to any higher block |
| `DequeRing` | Is the ring a sequence? | up to nine elements: growth 4, 8, 16 and shrinking 16 to 8 |
| `CommitCrash` | Does an interrupted commit leave one block's ledger? | all of `SmallChain`, an error or an end at each statement |
| `ServicesWindow` | Do the window and the height follow? Do the window's balances, its index by transaction and its numbers of entries agree with its blocks? Does Stop return? | a window of two blocks out of four in two forks, channels of one, one block to take back |
| `ServicesBalance` | How stale may a cached balance be? Is the mode that of the commits announced? Is a request answered? | one cached address of two |
| `PeersFound` | Do the signals tell how the reachable full peers change? | a full node with two API ports, a seed node; every channel of one, one request to other nodes at a time, all three tickers; a peer is discarded after its second failure |
| `PeersSettle` | Are commands taken, dead peers dropped, does a shutdown end, whatever the manager reads? | a full node found by name, and one that announces itself and never answers; channels of one, so that each is full; one retry of a look-up; status ticks only |
| `NamesSettle` | Is every name found or given up? | one node that is found by name and whose lists mention a second name, which never resolves, any number of times; one retry of a look-up; status and list ticks |
| `PeersServed` | Does the manager's list follow the handler's? Does the lock come back? | two API hosts, channels of one, one mark allowed, two calls of Stop, one remembered client |

Two more runs end in a violation that is expected (section 4).

The counters are bounded by the trees: a block is added only on its parent, and
a path has at most six blocks. What the bounds leave out is longer queues and
more forks, larger channels and other parameters, which the theorems of section 6 cover.
The two `Services` runs take two clients each; the three together give about
five million states and no behaviour that two of them do not have, as the
manager is the only thing they share. `CHECK_DEADLOCK FALSE` is in the runs
where the program really may stop: the crawler after a panic or with a node at
rest, the services when all is delivered or the manager is stuck.

**Fairness.** In `BlockManager`, the timer set by Reset fires and the routine
reads it. In `Crawler`, the two goroutines and the subscribers run and main calls
Start; nothing is assumed of the node, which may stay at rest, nor of damage,
which may go on (`CatchesUp` asks only what follows when it ends). In `Services`
the manager goes on sending and the clients reading; a request to the manager
is one of several ready cases of a select, and Go chooses among the ready cases
at random, so that a request ready again and again is taken (strong fairness on
`Answer` and `Unsubscribe`). No fairness is put on the environment's blocks,
requests, stops, failures or restarts.

In `PeerHandler` the routine's select is the same: a ready command, update, host
or status tick is taken in the end (strong fairness), and a send goes through when
there is room. The resolver's select is another one, with its request and its
ticker as cases (strong fairness on `TakeName` and `LookUp`, weak on its
send). Nothing is assumed of the manager, which may stop reading the handler's
signals at any time (no fairness on `TakeSignal`). Of the other nodes only this is assumed,
that a request to one ends, as the HTTP client has a timeout of two seconds
(`peers.go:18`). List and announcement ticks and their requests need no fairness.
In `PeerManager`, Go's mutex and channels serve those who wait in the order they
came, so that a step enabled again and again is taken (strong fairness on the
steps that need the lock or room in a channel). The handler takes commands and sends
signals when there is room, but nothing ends its send to itself (no fairness on
`SendOwn`). Calls are the callers' choice.

What some of the properties say:

* `StoredExact`, `BalanceExact`: equality with the ledger at the stored block and at
  the tip. `LoopsAgree`: the transaction loops compute the sets used for this.
* `CommitAccepted`, `NeverRejected`: no key conflict and no trigger ever refuses a
  commit, which would keep the maps and make every later commit fail too.
* `ImplementsIndex`: the manager refines `ChainIndex`. `ImplementsCache`: the cache
  over single statements refines the cache with an atomic commit.
* `DueCommitScheduled`: a commit made due by the cache's size or its number of
  blocks has its timer running. It excuses the time after a commit that failed
  (`commitFailed`), since the code arms no timer until another update arrives.
* `IndexesAgree`: the balances and the transaction index are those of the blocks in the
  queue, and each address has as many entries as they give it. Of the content of the
  entries it says nothing, as after a pop at the back that is not the blocks'
  (section 4): `NewEntriesRight` says which of them are right.
* `FetchesNext`: what the crawler reads next has the height it expects, whatever
  the replaced fetcher had sent or held.
* `BalanceDrift`: a cached balance is off by exactly what was in the channel when it
  was fetched. It is not corrected later, nor does it grow.
* `NewEntriesRight`: after a backtrack the entries of an address are mixed up; those of
  the blocks pushed since are right and come last, and all are once the window was
  refilled.
* `ProxyWhileAnnounced`: with its updates taken, the balance service is in proxy mode if
  and only if the last commit message sent announced a commit: it neither misses the
  announcement nor stays in proxy mode after the end of the commit. A
  commit that is called off has no end (section 4).
* `RequestsAnswered`, `StopEnds`: answered, unless the manager is stuck on the full
  channel of a client that waits for it, or has ended without unsubscribing.
* `ImplementsFeed`: each step of the handler is a step of `PeerFeed`, so no signal is
  lost, doubled or out of order, through polls that cross announcements, ports
  that change, reports and discarded peers.
* `ListFollows`: with the pending signals applied, the manager's list is the
  handler's, but for hosts whose report is on its way to the handler.
* `LockReleased`, `StopHeard`, `CommandsTaken`, `ShutdownEnds`: each says that something
  gets through *unless* the components are in one of the states where the code
  really waits for ever: the handler for itself (`SelfBlocked`, `HandlerWaits`), the handler
  for the manager (`SignalBlocked`, `HandlerStuck`), the resolver or a request for a handler
  that is closing. TLC shows the wait when such an exception is dropped,
  but for `ResolverBlocked`, which takes more hosts at a time than `PeersSettle` has,
  and `http = Waiting`, which with a channel of one is the other exception on `http`.
* `DeadPeerLeaves`: a peer that answers no more is no longer reachable in the end,
  unless hosts never contacted keep coming, as they are polled first, or the handler
  waits for itself or for the manager for ever, or was stopped.
* `NamesSettled`: a name does not stay with the resolver for ever, unless nodes mention
  names for ever. TLC shows that this exception is needed: a name asked for again
  starts with no failures (`resolve.go:81`), and so comes before those that have some.

## 4. Where the code differs from its comments

Two runs are expected to end in a violation. Each states what a comment says.

* `SubscribersServed` (`block_manager.go:378`): `Subscribe` registers a channel in a
  map local to `managerRoutine`; `signalSubscribers` ranges over `b.subscribers`,
  which nothing fills. No client ever gets an update, so that the height stays
  zero, the window empty and cached balances as they were fetched.
* `ModeSwitches` (`discovery.go:447`): a status that changes only the mode of a
  reachable peer sends no signal. A node that turns from full to seed stays on
  the manager's list, and one that turns full is never added to it (and is taken
  off it when it is lost).

Seen while translating, modelled as the code has it, with no run of its own:

* In sync mode the tail of the chain is to be committed when 120 seconds pass
  without a block (`block_manager.go:309`). `commitRequired` is called only after a
  block or by a timer already running (`block_manager.go:444`), so nothing happens then.
* After a hash mismatch the block is fetched again and the bad one is processed
  all the same (`crawler.go:139`, `crawler.go:143`).
* `delAddress` drops the oldest entry of an address whichever block is removed
  (`block_queue.go:68`). After a pop at the back the list keeps the entries of
  the removed block and has lost those of another, so that `GetTx`
  (`block_queue.go:194`) lists the wrong transactions, although "delAddress removes
  tx from both address indexes" (`block_queue.go:63`).
* The break of the stop case leaves only the select, in the manager (`block_manager.go:432`)
  and in the crawler (`crawler.go:219`): both answer and go on.
* `newFetcher` (`crawler.go:165`) waits for a fetcher that listens only while it offers
  a block. If the node's chain is not longer than the height asked for, the crawler
  waits until it is: the exception `WaitsForNode` in `CatchesUp`.
* An announced commit need not start: later blocks may bring the cache under its limit
  again before the timer fires (`block_manager.go:456`). No OP_COMMIT_DONE follows
  then, and a balance service would stay in proxy mode.
* The error of a commit is dropped, and OP_COMMIT_DONE sent (`block_manager.go:457`).
* A reorganisation below the stored block panics, and again at each start:
  the crawler's queue begins with the stored block, and nothing is below it.
* A client that ends without unsubscribing (the balance cache, the recent
  transactions), or waits in `GetBalance` with its channel full, stops the manager.
* `BlockQueue.Front` returns the last block (`block_queue.go:171`). Nobody calls it.
* `GetBalance` of the cache returns -1 and no error when the query fails
  (`cache.go:246`); such failures of queries are not modelled.
* A status with another peer port makes a second peer at the new host and leaves
  the old one, with the same entry of `apiHostIdx`. When the old one is discarded
  the entry goes too (`discovery.go:394`), and the manager, told to delete the API host
  by the old peer's loss, no longer lists a node that answers. `PeersFound`
  therefore gives each node one peer port.
* The handler sends the status of an announcement on the channel that only it reads
  (`discovery.go:277`): with the channel full it waits for ever, `SelfBlocked`.
* `Stop` of a manager that is not started returns before it unlocks (`manager.go:149`), and
  nobody gets the lock any more (`Leaked`). The test of the manager stops it
  twice (`manager_test.go:120`, `manager_test.go:146`); nothing in the program calls Stop.
* A second `Stop` that is called before the first is taken (`manager.go:155`) waits for ever:
  the routine takes one and ends.
* `MarkPeerUnreachable` waits with the lock held for room in `commandCh`, and the
  routine that makes the handler go on waits for that lock (`manager.go:255`): with
  both channels full neither moves, `HandlerStuck`. After Stop nobody reads
  `subscriberCh`, and a handler with a full one never reads its stop command.
* A node may mention the same unresolvable name in every list (`routines.go:18`): each
  time its failures are forgotten, and names that failed more often wait.
* A status with port 0 is an error of `setPeerStatus` (`discovery.go:428`) that its caller
  drops; the model has no such port.
* "Number of unreachable marks required" (`manager.go:18`) is one less than the
  marks it takes (`manager.go:279`).
* A node that was announced to keeps its discovered flag while it stays known, so
  one that restarted and forgot this node is not announced to again.
* In the program nothing calls `MarkPeerUnreachable`, and the error of
  `GetPeerPersistent` is overwritten (`balance.go:74`), so that with no peer the request
  goes to an empty host.
* `Stop` of the recent transactions closes a channel that `GetRecentTx` may be
  sending to (`recent_tx.go:117`), which panics; nothing calls it.
* `recent_blocks` is cut to 16 bits (`main.go:113`): a multiple of 65536 asks for no
  confirmations at all.
* `synced()` is true before the first block, since the time of the last one is zero
  at the start.

## 5. What is not modelled

The JSON API, logging and utilities keep no state. Configuration is read once: the
parser and the validators of its options are left out, and the models take every
value the options allow. Of the peers, the encoding of requests and answers
is left out, and so is a port that does not parse in a status (`discovery.go:428`: the status is
dropped). An address that does not parse in a list is not left out: the code
takes it for a name (`resolve.go:79`). The wait
for the initial sync in `main.go` is left out. Script parsing and address encoding are left out: the
properties depend on an output's address and value only. `Sqlite` has the calls the
program makes; `Set`, `SetLastBlock`, `MarkDirty`, `Delete` and `BulkUpdate` have no
caller outside the tests. A query that fails and a full disk at open are left out.
Requests that read (GetRecentTx, GetHeight, Tx) change nothing and have no action.
Sync mode is covered by the theorems, which hold for both values of `Sync`; no run
has it. `PeerHandler` leaves out the announcements' own result beyond the flag, and
takes one HTTP request and one request to another node at a time (`AskLimit`); a late
answer still meets a peer that was replaced or discarded meanwhile, as
announcements and reports go on.

## 6. Proofs

The theorems hold for every tree of blocks, set of outputs, number of
confirmations, commit limits, subscribers, hosts, sizes of buffers and channels,
and both modes. They assume only what the modules state:

* `BlockTree`, `Chain`: each block has a parent one below it, and its path is its
  parent's and itself (a block names its parent by hash); a block spends what is unspent
  (`ValidSpends`, which the node checks); an output id is created once on a chain,
  and before it is spent (`FreshOutputs`: BIP 30 and 34); `BalanceOf` is additive over
  disjoint sets and only storable outputs count. TLC evaluates all of these on the
  instances.
* `Services`: a transaction is in one block of a chain (`ChainTxsAssumption`, BIP 30), and only
  `ServicesIndexes` rests on it.
* `BlockTx`: what `WireAssumption`, `BlocksAssumption`, `IdAssumption` and `OrderAssumption` say of
  the transactions of a block (below); only `ManagerLoopsAgree` rests on them.
* Each module's `...Assumption` about its parameters: ranges, which allow all that
  `config/options.go` and `main.go` can give, and no confirmations besides.
* `DequeAssumption`: the ring's first size is a power of two up to 64; it is 4
  (`queue.go:17`).

**The cache.** `CacheInv` is the type invariant with `StoredExact`, `AvailableExact`
and `CacheBalanceExact`, strengthened by four facts: every id in the rows and in
the maps was created or spent on the chain so far (`KnownIds`), no pending insert
is also a row (`Apart`), the stored block is on the path of the last cached one
(`Behind`), and the last cached block is not the root while any block is pending
(`AddedBlocks`). The first two are what makes a block's own outputs new to all
three sets, by `FreshOutputs`: without them an output could cancel a pending deletion or
meet its own row, and neither `AvailableExact` nor `CommitAccepted` would be preserved.
From `CacheInv` follow `CacheStoredExact`, `CacheAvailableExact`, `CacheCommitAccepted`,
`CacheBalancesExact` and `CacheMovesForward`.

**The manager.** `BalanceExact` is not inductive: a balance is a sum of three parts
(queue, cache, rows), one step may push a block at one end and move another to
the cache, and a block's inputs are found by looking in three places. `ManagerInv`
has

    TypeOK /\ CacheInv /\ QueueOK(pendingBlocks, lastBlockHash)
           /\ QueueBalance(pendingBlocks, lastBlockHash, addrBalance)
           /\ Len(pendingBlocks) <= Confirmations /\ height = HeightOf[Tip]

where `QueueOK(q, base)` says that the blocks of q form a chain on base with their
heights, each with its inputs found, that an output unspent at any of them was
unspent at base or created in between (`Reachable`: why a lookup cannot miss), and
that they lie on one path (`Climbs`). The lemmas are about a queue q on a base:
`PushOK`, and its counterparts for the two pops, carry `QueueOK` along, so that
`NewBlockInv` is a push followed, when the queue is too long, by a pop into the
cache. From `ManagerInvariant` follow `ManagerTyped`, `ManagerQueueLinked`,
`ManagerInputsFound` and `ManagerBalanceExact`. `ManagerDrivesCache` shows each step
to be a step of `CacheSpec` or a stutter, so the cache's theorems are the manager's
(`ManagerStoredExact`, `ManagerAvailableExact`, `ManagerCommitAccepted`,
`ManagerMovesForward`). `ManagerImplementsIndex` maps each step to one of
`ChainIndex` or to a stutter.

`ManagerDueCommitScheduled` needs no strengthening: every block and backtrack arms
the timer itself when it leaves a commit required.

**The loops over transactions.** `ManagerLoopsAgree` says, in every state of the manager, that
three pieces of code compute what the specification says in sets. It is a consequence of
`ManagerInv`: a lemma for each piece shows a fold to be what an invariant of the loop says
after each turn.

* `AddBlock` (`AddBlockIs`): `Through(O, N, found)` is what the maps hold when the outputs O
  were created and the inputs N spent. `OutStep` and `InStep` are one turn of either
  loop, `OutsLoop`, `InsLoop` and `TxsLoop` go through a transaction and a block. The order
  matters: an input that spends an output of its block must find it among the pending
  inserts, or its deletion would meet no row.
* `getBlockInputs` (`LookupIs`): what one pass collects, a second hands out by a counter.
  `ConcatStarts` and `JoinedStarts` say where in the collected ids those of a transaction and
  of an input start; that the counter is there at each turn is what `FilledIs` carries through a
  transaction and `LookupIs` through the block. The same holds one level down, of `BulkGetTxOut` (`BulkGetIs`). That
  an input is looked up among the transactions near it exactly when the sets say so is
  `NearIs`.
* `ForEachAddress` (`IndexIs`): outputs less inputs, summed over a block, are the block's
  delta, as no id occurs twice (`OutsMoved`, `InsMoved`, `BlockMoved`).

These lemmas, and no others, use four assumptions that `BlockTx` makes of a block of transactions:
`WireAssumption` gives them their types; `BlocksAssumption` says that the sets of `Chain` are those
of the transactions; `IdAssumption` that a hash stands for one transaction and an
id for an output of one, or for the null id; `OrderAssumption` that the transactions of a
block differ, that an output is spent after its creation and once, and that only a
coinbase spends the null id. The last two are consensus rules, checked by the node that the
blocks come from. `SmallChain` satisfies them, and TLC evaluates them in `ManagerLedger`.

**A commit statement by statement.** `CacheCommitProofs` instantiates the cache's
proofs on the state a commit stands for: the maps are empty from the database's
commit on, though the code resets them a step later. Its invariant adds to
`CacheInv` what the open transaction has done (`TxInv`): in each phase its work is
the table less the deletions done so far, plus the inserts done so far, and its
request is still what the maps hold. With it each statement is a stutter of
`StorageCache` and the commit its one atomic step (`CommitImplementsCache`);
`CommitDatabaseExact` and `CommitNeverRejected` then follow from the cache's
theorems.

**The crawler.** `FetchesNext` needs to know that a fetcher that has not started has
sent nothing, `QueueIsChain` that only a queue of two or more loses its last hash,
`InStep` that the update being sent is the one that leads to the new last hash
(`Leads`: a trail of blocks, one per update, from where a subscriber is to where the
crawler is). `BacktracksReplaced` rests on the record that causes a backtrack being
one above the hash taken back (`RecordInv`) and on facts about heights on a path
that need induction: they are proved by taking the lowest height at which a path
breaks them (`LowestExists`).

**The services.** `FeedInv` says that what a client has in its channel leads from the
block it has reached to some block, and what the manager has still to send from
there to the manager's tip. `ServicesHeight` and `ServicesWindow` then read off what a
client does with one update. `ServicesProxyMode` follows from an invariant about the
updates under way: the mode *after* all of them (`On`) is what the history variable
`announced` says. It is an equivalence, so that a service which ignored either
message would not satisfy it; it is stated with the
hypothesis that the balance service is among the clients, since a service that
was not started takes no update. `ServicesBalanceDrift` is an action property: it
follows from `BlockBalance`, that a block changes a balance by what it creates less
what it spends.

**The block queue and the recent transactions.** The indexes are sums and concatenations
over the blocks of a queue and the transactions of a block, so what they hold is a
fold. The provers cannot instantiate an induction theorem with an operator, but
they can with a set: `SetInduction` and `SeqInduction` are induction with the set of
the numbers, or sequences, that have the property, by the least one that has not. A fold
is defined by a recursion that the library unfolds to a `CHOOSE` over functions of
sets of indexes; `FoldExists` shows that function to exist, `TotalIs` and `FlattenIs` that
`Total` and `FlattenSeq` add and join element by element, and the lemmas up to `FlatEnds`
are what follows for both ends of a sequence.

`Grown(B, w, b, v)` says that v is w with the block b at its back or at its front, so
that one lemma serves a push and a pop at either end, a pop being a push read
backwards (`IndexedGrows`). `Indexed` has one conjunct per index; the one of the transactions
(`IndexOf`) says that no transaction is twice in the queue, since otherwise a pop would
delete the entry of another block. `BlockQueueIndexes` and `BlockQueueOrder` are about
`QueueSpec`, a queue of any length: every sequence of pushes and pops, for every
assignment of transactions to blocks, in which no transaction is in two queued blocks
(`Extends`, a condition on what callers push: the queue itself checks nothing). Of an
address's entries they state the number, the only thing that pops at both ends keep.
`ServicesIndexes` says the same of the window, through the manager's updates. There
the condition is no assumption about callers but follows: the window is a chain (`WindowPath`),
and a transaction is in one block of a chain (`ChainTxsAssumption`, BIP 30), so that the
block an update brings is new, and so are its transactions (`NextIsNew`).

`NewEntriesRight` is not inductive: pops at the front take an entry of an address
whichever transaction leaves, so that after a backtrack the older entries may be any.
`EntriesOf` splits the window in its older blocks and the newest `fresh`, and the entries
of an address likewise: the newer part is right, of the older part only the *length*
is (`Split`). That length is what lets a pop at the front take an entry of the older
part and never one of the newer, and it holds after a backtrack because a backtrack
removes as many entries as the block it takes back had made. `ServicesNewEntries`
carries this through every update, with `WindowFollows` for the size.

**The peer manager.** `ListFollows` is inductive with the types and `PhaseInv`, what the two
routines are doing (a list that is not started is empty; the handler sends signals
of others or one of its own). The work is in the pending signals: whether a host
is listed after a sequence of them (`Has`) is composed over three channels, for
each end at which one is added or taken. The map with an order carries its own
lemmas (`WithoutOK`, `SetOK`, `DeleteOK`, `MoveLastOK`).

**The peer handler.** `HandlerTyped` needs no hypothesis on what other nodes answer. It
rests on three facts about every table of peers the helpers make: the order of
turns has each known peer once (so that a removal takes the right element and a
turn always finds a peer), a peer never contacted is not reachable (so that every
signal has an API host), and a peer with more failures than allowed is deleted in
the step that counts the failure.

`HandlerImplementsFeed` is the refinement, from the hypothesis `StableNodes`: a node
answers with its own peer host, two reports of one node have the same mode, and no two
nodes have an API host in common; API ports may change, and nodes may be silent,
come back and announce themselves at any time. Without the first the index loses an
entry, without the second a signal is missing (both in section 4): the theorem is
false without them, as `ModeSwitches` shows of the second. The constants of `PeersFound` satisfy it. The invariant
`Inv` says that what the routine believes of a peer some report said (`Believed`), that
every message under way is such a report, a failure or a signal, and that the index
and the peers are inverse to each other (`IndexOK`). The last is what the proof turns
on: whether an API host is listed can then be read off the index (`ListedIndex`), so
that a peer replaced after a change of its API port takes exactly its old host off the list,
and a report from the manager finds the peer it is about or finds that there is none.
One lemma per helper says what it does to the listed hosts and to the sends
(`DelPeerEffect`, `AddPeerEffect`, `MarkEffect`, `StatusEffect`: nothing, a gain, a loss or
a swap), one per action that the step is one of `PeerFeed`'s or none. A channel of
`PeerFeed` is the handler's with each message mapped, and `MappedHead`, `MappedAppend` carry
the two along. `PeersIndexed` is the part of `Inv` a reader of the code would ask for.

**The ring buffer.** `Ring(n, r, f, b, l)` says that the unused slots hold nil and that
`back` is where `front` and `length` put it; what the ring stands for is `View`, slot by
slot from `front`. Each operation maps to the sequence's, a copy to a larger or a
smaller ring included. `DequeEndsRight`: `Front` and `Back` answer nil exactly when the
queue is empty, which is true only because what is popped is overwritten.

`OrderedMap`, `PeerHandler` and `Deque` are written with what the provers can use: a
removal is two slices rather than a `SelectSeq`, the first of the keys that pass is
the least of their positions, and a step builds its record rather than nesting
EXCEPT. `BlockBalance`, the lemmas about the ordered map and those about folds stand in two
modules each, as the modules that need them have no variables in common.

Every invariant that a passing run checks is the subject of a theorem, and every action
property and refinement. Only model-checked, and why:

* Liveness (`StopEnds`, `CatchesUp`, `RequestsAnswered`, `CommandsTaken` and the others):
  the prover has no ENABLED.
* The two violations, of which the runs show the counterexample.

Proved, and not the subject of a run, are `FifoKeepsOrder`, `BlockQueueIndexes` (of a queue
that is pushed at both ends), `AvailableExact`, `StoredMovesForward`,
`DrivesCache`, `CacheBalanceExact` and `EndsRight`.

## 7. Plan

Done: the ledger path (SQLite, cache, manager), the crawler, the data structures,
the services and the peers; and theorems about all of them. Next:

1. `CrawlerManager`: the crawler's channel to the manager as one system, to replace
   the manager's environment (`PrevBlock[b] = Tip`) by what the crawler sends.
2. What the peer manager promises beyond single invariants: an implementation of a
   list that changes only through signals and marks.
