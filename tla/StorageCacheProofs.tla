------------------------- MODULE StorageCacheProofs -------------------------
(***************************************************************************)
(* Proofs about StorageCache, for every tree of blocks.                    *)
(***************************************************************************)
EXTENDS StorageCache, TLAPS

\* A block changes every balance by what its outputs hold less what its found
\* inputs held, which is the delta addrBalance and updateBalance apply.
LEMMA BlockBalance ==
    ASSUME NEW b \in Block, NEW F \in SUBSET Ins[b], NEW a \in Address,
           Ins[b] \cap Storable \subseteq F
    PROVE  BalanceOf(UtxoAt[b], a) =
               BalanceOf(UtxoAt[PrevBlock[b]], a) + BalanceOf(Outs[b], a) - BalanceOf(F, a)
<1> DEFINE U == UtxoAt[PrevBlock[b]]
           C == Outs[b] \cap Storable
           S == Ins[b] \cap Storable
           X == U \cup C
<1>1. PrevBlock[b] \in Point
  BY TreeAssumption
<1>2. /\ Outs[b] \subseteq TxOutId
      /\ Ins[b] \subseteq TxOutId
      /\ Storable \subseteq TxOutId
      /\ U \subseteq Storable
      /\ F \subseteq TxOutId
  BY <1>1, OutputAssumption, UtxoAssumption
<1>3. U \cap C = {}
  <2>1. U \subseteq KnownAt[PrevBlock[b]]
    BY <1>1, KnownAssumption
  <2>2. Outs[b] \cap KnownAt[PrevBlock[b]] = {}
    BY FreshOutputs
  <2> QED
    BY <2>1, <2>2
<1>4. BalanceOf(X, a) = BalanceOf(U, a) + BalanceOf(C, a)
  <2>1. U \in SUBSET TxOutId /\ C \in SUBSET (TxOutId \ U)
    BY <1>2, <1>3
  <2> QED
    BY <2>1, BalanceAssumption
<1>5. BalanceOf(X, a) = BalanceOf(UtxoAt[b], a) + BalanceOf(S, a)
  <2>1. S \subseteq X
    BY ValidSpends
  <2>2. UtxoAt[b] = X \ S
    <3>1. UtxoAt[b] = X \ Ins[b]
      BY UtxoAssumption
    <3> QED
      BY <3>1, <1>2
  <2>3. UtxoAt[b] \in SUBSET TxOutId /\ S \in SUBSET (TxOutId \ UtxoAt[b])
    BY <2>1, <2>2, <1>2
  <2>4. X = UtxoAt[b] \cup S
    BY <2>1, <2>2
  <2> QED
    BY <2>3, <2>4, BalanceAssumption
<1>6. BalanceOf(Outs[b], a) = BalanceOf(C, a)
  BY <1>2, BalanceAssumption
<1>7. BalanceOf(F, a) = BalanceOf(S, a)
  <2>1. F \cap Storable = S
    OBVIOUS
  <2> QED
    BY <2>1, <1>2, BalanceAssumption
<1>8. /\ BalanceOf(X, a) \in Int /\ BalanceOf(U, a) \in Int
      /\ BalanceOf(C, a) \in Int /\ BalanceOf(S, a) \in Int
      /\ BalanceOf(UtxoAt[b], a) \in Int
  <2>1. /\ X \in SUBSET TxOutId /\ U \in SUBSET TxOutId /\ C \in SUBSET TxOutId
        /\ S \in SUBSET TxOutId /\ UtxoAt[b] \in SUBSET TxOutId
    BY <1>2, UtxoAssumption
  <2> QED
    BY <2>1, BalanceAssumption
<1> QED
  BY <1>4, <1>5, <1>6, <1>7, <1>8

-----------------------------------------------------------------------------
\* Ids of the database, the inserts and the deletions are known to the chain
\* of the last block, so that the next block's outputs are in none of them.
KnownIds == utxo \cup inserts \cup deletions \subseteq KnownAt[lastBlockHash]

\* No id is both stored and waiting to be inserted.
Apart == inserts \cap utxo = {}

Behind == lastBlock.hash \in Path[lastBlockHash]

AddedBlocks == uncommittedBlocks > 0 => lastBlockHash \in Block

\* The inductive invariant of the cache.
CacheInv ==
    /\ CacheTypeOK
    /\ StoredExact
    /\ AvailableExact
    /\ KnownIds
    /\ Apart
    /\ Behind
    /\ AddedBlocks
    /\ CacheBalanceExact

\* A commit or a restart leaves the maps empty over the rows of one block.
CacheClean ==
    /\ inserts = {}
    /\ deletions = {}
    /\ balance = [a \in Address |-> 0]
    /\ uncommittedBlocks = 0
    /\ lastBlockHash = lastBlock.hash
    /\ cacheHeight = lastBlock.height

LEMMA CleanInv ==
    ASSUME CacheClean, StoredExact, lastBlock \in [height : Int, hash : Point]
    PROVE  CacheInv
<1> USE DEF CacheClean
<1>1. lastBlock.hash \in Point /\ lastBlock.height \in Int
  OBVIOUS
<1>2. utxo \subseteq Storable /\ utxo \subseteq KnownAt[lastBlockHash]
  BY <1>1, UtxoAssumption, KnownAssumption DEF StoredExact
<1>3. CacheTypeOK
  BY <1>1, <1>2 DEF CacheTypeOK
<1>4. AvailableExact
  BY DEF AvailableExact, Available, StoredExact
<1>5. KnownIds /\ Apart /\ AddedBlocks
  BY <1>2 DEF KnownIds, Apart, AddedBlocks
<1>6. Behind
  <2>1. \A p \in Point : p \in Path[p]
    BY PathAssumption DEF Point
  <2> QED
    BY <1>1, <2>1 DEF Behind
<1>7. CacheBalanceExact
  <2> SUFFICES ASSUME NEW a \in Address
               PROVE  balance[a] + BalanceOf(utxo, a) = BalanceOf(UtxoAt[lastBlockHash], a)
    BY DEF CacheBalanceExact, CacheBalance
  <2>1. utxo \in SUBSET TxOutId
    BY <1>2, OutputAssumption
  <2>2. BalanceOf(utxo, a) \in Int
    BY <2>1, BalanceAssumption
  <2>3. balance[a] = 0
    OBVIOUS
  <2>4. utxo = UtxoAt[lastBlockHash]
    BY DEF StoredExact
  <2> QED
    BY <2>2, <2>3, <2>4
<1> QED
  BY <1>3, <1>4, <1>5, <1>6, <1>7 DEF CacheInv

LEMMA CacheInitInv == CacheInit => CacheInv
<1> SUFFICES ASSUME CacheInit PROVE CacheInv
  OBVIOUS
<1>1. CacheClean
  BY DEF CacheInit, CacheClean
<1>2. lastBlock = [height |-> -1, hash |-> ZeroHash]
  BY DEF CacheInit
<1>3. lastBlock \in [height : Int, hash : Point]
  BY <1>2 DEF Point
<1>4. StoredExact
  BY <1>2, TreeAssumption, UtxoAssumption DEF CacheInit, StoredExact
<1> QED
  BY <1>1, <1>3, <1>4, CleanInv

\* The next block, with its height and all its storable inputs found.
NextBlock(block) ==
    /\ block \in QueuedBlock
    /\ PrevBlock[block.hash] = lastBlockHash
    /\ block.height = HeightOf[block.hash]
    /\ block.found \subseteq Ins[block.hash]
    /\ ~Sync => Ins[block.hash] \cap Storable \subseteq block.found

LEMMA AddBlockInv ==
    ASSUME CacheInv, NEW block, NextBlock(block), AddBlock(block)
    PROVE  CacheInv'
<1> DEFINE b == block.hash
           C == Outs[b] \cap Storable
           S == Ins[b]
<1>1. /\ b \in Block /\ b \in Point /\ PrevBlock[b] = lastBlockHash
      /\ block.height = HeightOf[b] /\ block.found \subseteq S
      /\ ~Sync => S \cap Storable \subseteq block.found
  BY DEF NextBlock, QueuedBlock, Point
<1>2. /\ inserts \subseteq Storable /\ utxo \subseteq Storable
      /\ C \subseteq Storable /\ S \subseteq TxOutId
      /\ deletions \subseteq TxOutId /\ Storable \subseteq TxOutId
  BY <1>1, OutputAssumption DEF CacheInv, CacheTypeOK
<1>3. C \cap KnownAt[lastBlockHash] = {}
  BY <1>1, FreshOutputs
<1>4. /\ C \cap utxo = {} /\ C \cap inserts = {} /\ C \cap deletions = {}
      /\ inserts \cap utxo = {}
  BY <1>3 DEF CacheInv, KnownIds, Apart
<1>5. /\ inserts' = (inserts \cup C) \ S
      /\ deletions' = deletions \cup (S \ (inserts \cup C))
  BY <1>4 DEF AddBlock, AfterOutputs, QueuedDeletions
<1>6. /\ cacheHeight' = block.height /\ lastBlockHash' = b
      /\ uncommittedBlocks' = uncommittedBlocks + 1
      /\ utxo' = utxo /\ lastBlock' = lastBlock
  BY DEF AddBlock, dbVars
<1>7. balance' \in [Address -> Int]
  <2>1. balance \in [Address -> Int]
    BY DEF CacheInv, CacheTypeOK
  <2>2. balance' = IF Sync THEN balance
                   ELSE [a \in Address |-> balance[a] + (BalanceOf(Outs[b], a) - BalanceOf(block.found, a))]
    BY DEF AddBlock, IndexedBalance, BlockDelta
  <2>3. Outs[b] \in SUBSET TxOutId /\ block.found \in SUBSET TxOutId
    BY <1>1, <1>2, OutputAssumption
  <2>4. \A a \in Address : BalanceOf(Outs[b], a) \in Int /\ BalanceOf(block.found, a) \in Int
    BY <2>3, BalanceAssumption
  <2> QED
    BY <2>1, <2>2, <2>4
<1>8. CacheTypeOK'
  <2>1. inserts' \subseteq Storable /\ deletions' \subseteq TxOutId
    BY <1>2, <1>5
  <2>2. cacheHeight' \in Int
    BY <1>1, <1>6, TreeAssumption
  <2> QED
    BY <1>1, <1>6, <1>7, <2>1, <2>2 DEF CacheTypeOK, CacheInv
<1>9. StoredExact'
  BY <1>6 DEF CacheInv, StoredExact
<1>10. AvailableExact'
  <2>1. UtxoAt[b] = (UtxoAt[lastBlockHash] \cup C) \ S
    BY <1>1, UtxoAssumption
  <2>2. UtxoAt[lastBlockHash] = (utxo \ deletions) \cup inserts
    BY DEF CacheInv, AvailableExact, Available
  <2>3. (utxo \ deletions') \cup inserts' = (((utxo \ deletions) \cup inserts) \cup C) \ S
    BY <1>4, <1>5
  <2> QED
    BY <1>1, <1>6, <2>1, <2>2, <2>3 DEF AvailableExact, Available
<1>11. KnownIds'
  <2>1. KnownAt[b] = KnownAt[lastBlockHash] \cup Outs[b] \cup S
    BY <1>1, KnownAssumption
  <2>2. utxo \cup inserts \cup deletions \subseteq KnownAt[lastBlockHash]
    BY DEF CacheInv, KnownIds
  <2>3. utxo \cup inserts' \cup deletions' \subseteq KnownAt[b]
    BY <1>5, <2>1, <2>2
  <2> QED
    BY <1>6, <2>3 DEF KnownIds
<1>12. Apart'
  BY <1>4, <1>5, <1>6 DEF Apart
<1>13. Behind'
  <2>1. Path[b] = Path[lastBlockHash] \cup {b}
    BY <1>1, PathAssumption
  <2> QED
    BY <1>6, <2>1 DEF Behind, CacheInv
<1>14. AddedBlocks'
  BY <1>1, <1>6 DEF AddedBlocks
<1>15. CacheBalanceExact'
  <2> SUFFICES ASSUME ~Sync, NEW a \in Address
               PROVE  balance'[a] + BalanceOf(utxo', a) = BalanceOf(UtxoAt[lastBlockHash'], a)
    BY DEF CacheBalanceExact, CacheBalance
  <2>1. BalanceOf(UtxoAt[b], a) =
            BalanceOf(UtxoAt[lastBlockHash], a) + BalanceOf(Outs[b], a) - BalanceOf(block.found, a)
    BY <1>1, BlockBalance
  <2>2. balance'[a] = balance[a] + (BalanceOf(Outs[b], a) - BalanceOf(block.found, a))
    BY DEF AddBlock, IndexedBalance, BlockDelta
  <2>3. balance[a] + BalanceOf(utxo, a) = BalanceOf(UtxoAt[lastBlockHash], a)
    BY DEF CacheInv, CacheBalanceExact, CacheBalance
  <2>4. /\ Outs[b] \in SUBSET TxOutId /\ block.found \in SUBSET TxOutId
        /\ utxo \in SUBSET TxOutId
    BY <1>1, <1>2, OutputAssumption
  <2>5. /\ BalanceOf(Outs[b], a) \in Int /\ BalanceOf(block.found, a) \in Int
        /\ BalanceOf(utxo, a) \in Int
    BY <2>4, BalanceAssumption
  <2>6. balance[a] \in Int
    BY DEF CacheInv, CacheTypeOK
  <2> QED
    BY <1>6, <2>1, <2>2, <2>3, <2>5, <2>6
<1> QED
  BY <1>8, <1>9, <1>10, <1>11, <1>12, <1>13, <1>14, <1>15 DEF CacheInv

LEMMA CommitDoneInv ==
    ASSUME CacheInv, CommitDone
    PROVE  CacheInv'
<1>1. CacheClean'
  BY DEF CommitDone, EmptyMaps, CacheClean
<1>2. StoredExact'
  BY DEF CacheInv, CommitDone, CommittedRows, AvailableExact, Available, StoredExact
<1>3. lastBlock' \in [height : Int, hash : Point]
  BY DEF CacheInv, CacheTypeOK, CommitDone
<1>4. (CacheClean /\ StoredExact /\ lastBlock \in [height : Int, hash : Point] => CacheInv)'
  BY CleanInv, PTL
<1> QED
  BY <1>1, <1>2, <1>3, <1>4

LEMMA ReopenInv ==
    ASSUME CacheInv, Reopen
    PROVE  CacheInv'
<1>1. CacheClean'
  BY DEF Reopen, EmptyMaps, dbVars, CacheClean
<1>2. StoredExact' /\ lastBlock' \in [height : Int, hash : Point]
  BY DEF CacheInv, CacheTypeOK, Reopen, dbVars, StoredExact
<1>3. (CacheClean /\ StoredExact /\ lastBlock \in [height : Int, hash : Point] => CacheInv)'
  BY CleanInv, PTL
<1> QED
  BY <1>1, <1>2, <1>3

LEMMA CacheStutterInv ==
    ASSUME CacheInv, UNCHANGED cacheVars
    PROVE  CacheInv'
BY DEF CacheInv, cacheVars, CacheTypeOK, StoredExact, AvailableExact, Available,
       KnownIds, Apart, Behind, AddedBlocks, CacheBalanceExact, CacheBalance

LEMMA AddNextBlockInv ==
    ASSUME CacheInv, AddNextBlock
    PROVE  CacheInv'
<1>1. PICK b \in Block : \E F \in SUBSET Ins[b] :
        LET block == [hash |-> b, height |-> HeightOf[b], found |-> F]
        IN  PrevBlock[b] = lastBlockHash /\ LookedUp(block) /\ AddBlock(block)
  BY DEF AddNextBlock
<1>2. PICK F \in SUBSET Ins[b] :
        LET block == [hash |-> b, height |-> HeightOf[b], found |-> F]
        IN  PrevBlock[b] = lastBlockHash /\ LookedUp(block) /\ AddBlock(block)
  BY <1>1
<1> DEFINE block == [hash |-> b, height |-> HeightOf[b], found |-> F]
<1>3. NextBlock(block)
  <2>1. block \in QueuedBlock
    BY OutputAssumption, TreeAssumption DEF QueuedBlock
  <2> QED
    BY <1>2, <2>1 DEF NextBlock, LookedUp
<1>4. AddBlock(block)
  BY <1>2
<1> HIDE DEF block
<1> QED
  BY <1>3, <1>4, AddBlockInv

LEMMA CacheStepInv == CacheInv /\ [CacheNext]_cacheVars => CacheInv'
<1> SUFFICES ASSUME CacheInv, [CacheNext]_cacheVars PROVE CacheInv'
  OBVIOUS
<1>1. CASE AddNextBlock
  BY <1>1, AddNextBlockInv
<1>2. CASE CommitDone
  BY <1>2, CommitDoneInv
<1>3. CASE CommitFailed
  BY <1>3, CacheStutterInv DEF CommitFailed
<1>4. CASE Reopen
  BY <1>4, ReopenInv
<1>5. CASE UNCHANGED cacheVars
  BY <1>5, CacheStutterInv
<1> QED
  BY <1>1, <1>2, <1>3, <1>4, <1>5 DEF CacheNext

LEMMA CacheInvariant == CacheSpec => []CacheInv
<1> QED
  BY CacheInitInv, CacheStepInv, PTL DEF CacheSpec

-----------------------------------------------------------------------------
\* The types of the cache and the database hold in every state.
THEOREM CacheTyped == CacheSpec => []CacheTypeOK
<1>1. CacheInv => CacheTypeOK
  BY DEF CacheInv
<1> QED
  BY <1>1, CacheInvariant, PTL

\* The rows are always those of the block the database names, whatever
\* commits fail and wherever the process dies.
THEOREM CacheStoredExact == CacheSpec => []StoredExact
<1>1. CacheInv => StoredExact
  BY DEF CacheInv
<1> QED
  BY <1>1, CacheInvariant, PTL

\* The cache over the database always holds the outputs unspent at the last
\* block added, on every tree of blocks.
THEOREM CacheAvailableExact == CacheSpec => []AvailableExact
<1>1. CacheInv => AvailableExact
  BY DEF CacheInv
<1> QED
  BY <1>1, CacheInvariant, PTL

\* The balances of the cache over the database are those of the ledger.
THEOREM CacheBalancesExact == CacheSpec => []CacheBalanceExact
<1>1. CacheInv => CacheBalanceExact
  BY DEF CacheInv
<1> QED
  BY <1>1, CacheInvariant, PTL

\* No commit of pending blocks is refused by the primary key, a trigger or
\* the height check.
THEOREM CacheCommitAccepted == CacheSpec => []CommitAccepted
<1>1. CacheInv => CommitAccepted
  <2> SUFFICES ASSUME CacheInv, uncommittedBlocks > 0 PROVE UpdateAccepted
    BY DEF CommitAccepted
  <2>1. lastBlockHash \in Block /\ cacheHeight = HeightOf[lastBlockHash]
    BY DEF CacheInv, AddedBlocks, AvailableExact
  <2>2. cacheHeight >= 0
    BY <2>1, TreeAssumption
  <2>3. inserts \cap utxo = {} /\ inserts \subseteq Storable
    BY DEF CacheInv, Apart, CacheTypeOK
  <2> QED
    BY <2>2, <2>3 DEF UpdateAccepted
<1> QED
  BY <1>1, CacheInvariant, PTL

\* The committed block only moves forward along one chain.
LEMMA ForwardStep == CacheInv /\ [CacheNext]_cacheVars => [StoredForward]_cacheVars
<1> SUFFICES ASSUME CacheInv, CacheNext PROVE StoredForward
  BY DEF StoredForward
<1>1. lastBlock.hash \in Path[lastBlock.hash]
  <2>1. \A p \in Point : p \in Path[p]
    BY PathAssumption DEF Point
  <2> QED
    BY <2>1 DEF CacheInv, CacheTypeOK
<1>2. CASE lastBlock' = lastBlock
  BY <1>1, <1>2 DEF StoredForward
<1>3. CASE CommitDone
  BY <1>3 DEF CommitDone, StoredForward, CacheInv, Behind
<1>4. lastBlock' = lastBlock \/ CommitDone
  BY DEF CacheNext, AddNextBlock, AddBlock, CommitFailed, Reopen, dbVars, cacheVars
<1> QED
  BY <1>2, <1>3, <1>4

THEOREM CacheMovesForward == CacheSpec => StoredMovesForward
<1> QED
  BY CacheInvariant, ForwardStep, PTL DEF CacheSpec, StoredMovesForward

=============================================================================
