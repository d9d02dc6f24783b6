---------------------------- MODULE StorageCache ----------------------------
(***************************************************************************)
(* storage/cache.go over storage/sqlite.go: the unspent outputs in the     *)
(* database (utxo, lastBlock) and the write-back cache of the blocks that  *)
(* are confirmed but not committed yet.                                    *)
(*                                                                         *)
(* A transaction's outputs and inputs are applied here a block at a time;  *)
(* BlockTx holds the loop over its transactions, and its runs show that    *)
(* the two agree.  The data of an output is a function of its id, so a     *)
(* map from ids to data is the set of its ids.                             *)
(***************************************************************************)
EXTENDS Chain, FiniteSets

CONSTANT Sync      \* sync mode: the balance index is disabled

ASSUME SyncAssumption == Sync \in BOOLEAN

VARIABLES
    utxo,              \* database: ids of the stored outputs
    lastBlock,         \* database: height and hash of the last committed block
    inserts,           \* ids waiting to be inserted
    deletions,         \* ids waiting to be deleted
    balance,           \* balance delta of the uncommitted blocks
    cacheHeight,       \* height of the last block added
    lastBlockHash,     \* its hash
    uncommittedBlocks  \* blocks added since the last commit

dbVars == <<utxo, lastBlock>>
cacheVars == <<utxo, lastBlock, inserts, deletions, balance,
               cacheHeight, lastBlockHash, uncommittedBlocks>>

\* A block whose inputs were looked up: found holds the ids whose address
\* and value the lookup returned.
QueuedBlock == [hash : Block, height : Nat, found : SUBSET TxOutId]

-----------------------------------------------------------------------------
\* Set of the outputs the cache answers for: GetTxOut and Contains.
Available == (utxo \ deletions) \cup inserts

\* BulkGetTxOut finds an id in the pending inserts or in the database,
\* without a look at the pending deletions.
BulkGetTxOutMutant(ids) == ids \cap utxo     \* the cache is not consulted
BulkGetTxOut(ids) == ids \cap (inserts \cup utxo)

CacheBalance(a) == balance[a] + BalanceOf(utxo, a)

UncommittedLen == Cardinality(inserts) + Cardinality(deletions)

-----------------------------------------------------------------------------
CacheInit ==
    /\ utxo = {}
    /\ lastBlock = [height |-> -1, hash |-> ZeroHash]
    /\ inserts = {}
    /\ deletions = {}
    /\ balance = [a \in Address |-> 0]
    /\ cacheHeight = lastBlock.height
    /\ lastBlockHash = lastBlock.hash
    /\ uncommittedBlocks = 0

EmptyMapsMutant ==                           \* the inserts are kept
    /\ inserts' = inserts
    /\ deletions' = {}
    /\ balance' = [a \in Address |-> 0]
    /\ uncommittedBlocks' = 0
EmptyMaps ==
    /\ inserts' = {}
    /\ deletions' = {}
    /\ balance' = [a \in Address |-> 0]
    /\ uncommittedBlocks' = 0

\* The process ends, for whatever reason, and starts on the same database.
Reopen ==
    /\ EmptyMaps
    /\ cacheHeight' = lastBlock.height
    /\ lastBlockHash' = lastBlock.hash
    /\ UNCHANGED dbVars

\* A storable output cancels the pending deletion of its id or is queued.
AfterOutputsMutant(block) ==                 \* unspendable outputs are queued too
    inserts \cup (Outs[block.hash] \ deletions)
AfterOutputs(block) ==
    inserts \cup ((Outs[block.hash] \cap Storable) \ deletions)

BlockDelta(block, a) ==
    BalanceOf(Outs[block.hash], a) - BalanceOf(block.found, a)

\* updateBalance does nothing while the index is disabled.
IndexedBalance(block) ==
    IF Sync THEN balance
    ELSE [a \in Address |-> balance[a] + BlockDelta(block, a)]

\* An input discards the pending insert of its id or queues a deletion, for
\* the null id of a coinbase too.
QueuedDeletions(block) ==
    (deletions \ (Outs[block.hash] \cap Storable))
        \cup (Ins[block.hash] \ AfterOutputs(block))

AddBlock(block) ==
    /\ inserts' = AfterOutputs(block) \ Ins[block.hash]
    /\ deletions' = QueuedDeletions(block)
    /\ balance' = IndexedBalance(block)
    /\ cacheHeight' = block.height
    /\ lastBlockHash' = block.hash
    /\ uncommittedBlocks' = uncommittedBlocks + 1
    /\ UNCHANGED dbVars

\* The statements of BulkUpdateFromMap all succeed: the height is set, no row
\* has the key of a pending insert, and no trigger rejects one.
UpdateAccepted ==
    /\ cacheHeight >= 0
    /\ inserts \cap (utxo \ deletions) = {}
    /\ inserts \subseteq Storable

CommittedRowsMutant == utxo \cup inserts     \* spent outputs stay
CommittedRows == (utxo \ deletions) \cup inserts

\* One transaction replaces the rows and the last block, then the maps are
\* emptied.
CommitDone ==
    /\ UpdateAccepted
    /\ utxo' = CommittedRows
    /\ lastBlock' = [height |-> cacheHeight, hash |-> lastBlockHash]
    /\ EmptyMaps
    /\ UNCHANGED <<cacheHeight, lastBlockHash>>

\* An error rolls the transaction back and leaves the cache as it was.
CommitFailed == UNCHANGED cacheVars

-----------------------------------------------------------------------------
\* A lookup finds every storable input, or nothing is looked up in sync mode.
LookedUp(block) ==
    IF Sync THEN block.found = {}
    ELSE Ins[block.hash] \cap Storable \subseteq block.found
         /\ block.found \subseteq Ins[block.hash]

AddNextBlock ==
    \E b \in Block : \E F \in SUBSET Ins[b] :
        LET block == [hash |-> b, height |-> HeightOf[b], found |-> F]
        IN  /\ PrevBlock[b] = lastBlockHash
            /\ LookedUp(block)
            /\ AddBlock(block)

CacheNext == AddNextBlock \/ CommitDone \/ CommitFailed \/ Reopen

CacheSpec == CacheInit /\ [][CacheNext]_cacheVars

-----------------------------------------------------------------------------
CacheTypeOK ==
    /\ utxo \subseteq Storable
    /\ lastBlock \in [height : Int, hash : Point]
    /\ inserts \subseteq Storable
    /\ deletions \subseteq TxOutId
    /\ balance \in [Address -> Int]
    /\ cacheHeight \in Int
    /\ lastBlockHash \in Point
    /\ uncommittedBlocks \in Nat

\* The database holds exactly the outputs unspent at the block it names:
\* a commit interrupted, failed or repeated never mixes two blocks
\* (BulkUpdateFromMap's transaction and Commit's reset of the maps).
StoredExact ==
    /\ utxo = UtxoAt[lastBlock.hash]
    /\ lastBlock.height = HeightOf[lastBlock.hash]

\* Database, pending deletions and pending inserts together are exactly the
\* outputs unspent at the last block added (addTxOut and delTxOut).
AvailableExact ==
    /\ Available = UtxoAt[lastBlockHash]
    /\ cacheHeight = HeightOf[lastBlockHash]

\* With the index on, the balance delta and the sum of the rows are together
\* the balance of the address at the last block added.
CacheBalanceExact ==
    ~Sync => \A a \in Address : CacheBalance(a) = BalanceOf(UtxoAt[lastBlockHash], a)

\* A commit of pending blocks is never refused by the database: no insert
\* hits the primary key of a row that stays or a trigger, so that the cache
\* can always be emptied.
CommitAccepted == uncommittedBlocks > 0 => UpdateAccepted

\* The committed block only moves forward along one chain of blocks, across
\* failed commits and restarts.
StoredForward == lastBlock.hash \in Path[lastBlock'.hash]
StoredMovesForward == [][StoredForward]_cacheVars

=============================================================================
