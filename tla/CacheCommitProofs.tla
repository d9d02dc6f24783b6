------------------------- MODULE CacheCommitProofs --------------------------
(***************************************************************************)
(* Proofs about a commit of the cache statement by statement: it is the    *)
(* one atomic step of StorageCache, whatever fails and wherever the        *)
(* process ends.                                                           *)
(***************************************************************************)
EXTENDS CacheCommit, TLAPS

\* The proved invariant of StorageCache, on the state the commit stands for.
Atomic == INSTANCE StorageCacheProofs WITH
    inserts <- IF Committed THEN {} ELSE inserts,
    deletions <- IF Committed THEN {} ELSE deletions,
    balance <- IF Committed THEN [a \in Address |-> 0] ELSE balance,
    uncommittedBlocks <- IF Committed THEN 0 ELSE uncommittedBlocks

\* Height and hash of the last block added: the row a commit writes.
NewRow == [height |-> cacheHeight, hash |-> lastBlockHash]

\* What the transaction has done so far, from the maps as they still are: a
\* prefix of the deletions, then of the inserts.
TxInv ==
    /\ phase \in {"idle", "delete", "insert", "commit", "done"}
    /\ phase # "idle" =>
          /\ open
          /\ cacheHeight >= 0
          /\ request = [insert |-> inserts, remove |-> deletions, lastBlock |-> NewRow]
    /\ phase = "delete" =>
          /\ left \subseteq deletions
          /\ work = [utxo |-> utxo \ (deletions \ left), lastBlock |-> lastBlock]
    /\ phase = "insert" =>
          /\ left \subseteq inserts
          /\ work = [utxo |-> (utxo \ deletions) \cup (inserts \ left), lastBlock |-> lastBlock]
    /\ phase = "commit" =>
          work = [utxo |-> (utxo \ deletions) \cup inserts, lastBlock |-> NewRow]

\* The inductive invariant: the transaction is consistent with the maps, and
\* the state it stands for is one of StorageCache.
Inv == TxInv /\ Atomic!CacheInv

\* The lemmas of StorageCacheProofs hold for this instance.
LEMMA AtomicAssumptions ==
    /\ Atomic!TreeAssumption /\ Atomic!PathAssumption /\ Atomic!OutputAssumption
    /\ Atomic!UtxoAssumption /\ Atomic!ValidSpends /\ Atomic!KnownAssumption
    /\ Atomic!FreshOutputs /\ Atomic!BalanceAssumption /\ Atomic!SyncAssumption
BY TreeAssumption, PathAssumption, OutputAssumption,
   UtxoAssumption, ValidSpends, KnownAssumption, FreshOutputs, BalanceAssumption,
   CommitSyncAssumption
DEF Point, Atomic!Point, Atomic!TreeAssumption , Atomic!PathAssumption , Atomic!OutputAssumption
    , Atomic!UtxoAssumption , Atomic!ValidSpends , Atomic!KnownAssumption
    , Atomic!FreshOutputs , Atomic!BalanceAssumption , Atomic!SyncAssumption

LEMMA AtomicInit == Atomic!CacheInit => Atomic!CacheInv
BY Atomic!CacheInitInv, AtomicAssumptions

LEMMA AtomicStep ==
    Atomic!CacheInv /\ [Atomic!CacheNext]_(Atomic!cacheVars) => Atomic!CacheInv'
BY Atomic!CacheStepInv, AtomicAssumptions

\* The invariant holds before the database is opened.
LEMMA InitInv == Init => Inv
<1> SUFFICES ASSUME Init PROVE Inv
  OBVIOUS
<1>1. TxInv
  BY DEF Init, SqlInit, TxInv
<1>2. Atomic!CacheInit
  BY DEF Init, SqlInit, Cache!CacheInit, Atomic!CacheInit, Committed
<1> QED
  BY <1>1, <1>2, AtomicInit DEF Inv

\* The last step of the database's transaction is the commit of the abstract
\* cache: the loops have applied every deletion and every insert.
LEMMA CommitRefines ==
    ASSUME Inv, CommitTx, UNCHANGED memoryVars
    PROVE  Atomic!CommitDone
<1>1. Committed' /\ ~Committed
  BY DEF CommitTx, Committed
<1>2. Atomic!CacheTypeOK /\ Atomic!Apart
  BY DEF Inv, Atomic!CacheInv
<1>3. inserts \cap utxo = {} /\ inserts \subseteq Storable
  BY <1>1, <1>2 DEF Atomic!CacheTypeOK, Atomic!Apart
<1>4. Atomic!UpdateAccepted
  BY <1>1, <1>3 DEF Atomic!UpdateAccepted, Inv, TxInv, CommitTx
<1>5. /\ utxo' = (utxo \ deletions) \cup inserts
      /\ lastBlock' = NewRow
  BY DEF Inv, TxInv, CommitTx
<1> QED
  BY <1>1, <1>4, <1>5
  DEF Atomic!CommitDone, Atomic!CommittedRows, Atomic!EmptyMaps, NewRow, memoryVars

\* A block is added to the abstract cache when it is added to the maps.
LEMMA AddNextBlockRefines == AddNextBlock => Atomic!AddNextBlock
<1> SUFFICES ASSUME AddNextBlock PROVE Atomic!AddNextBlock
  OBVIOUS
<1>1. ~Committed /\ ~Committed'
  BY DEF AddNextBlock, txVars, Committed
<1> QED
  BY <1>1
  DEF AddNextBlock, Cache!AddNextBlock, Atomic!AddNextBlock, Cache!LookedUp, Atomic!LookedUp,
      Cache!AddBlock, Atomic!AddBlock, Cache!AfterOutputs, Atomic!AfterOutputs,
      Cache!IndexedBalance, Atomic!IndexedBalance, Cache!BlockDelta, Atomic!BlockDelta,
      Cache!QueuedDeletions, Atomic!QueuedDeletions, Cache!dbVars, Atomic!dbVars

\* The end of the process is the restart of the abstract cache, whatever the
\* transaction was doing.
LEMMA ExitRefines == Exit => Atomic!Reopen
<1> SUFFICES ASSUME Exit PROVE Atomic!Reopen
  OBVIOUS
<1>1. ~Committed'
  BY DEF Exit, Crash, Committed
<1> QED
  BY <1>1
  DEF Exit, Crash, Cache!Reopen, Atomic!Reopen, Cache!EmptyMaps, Atomic!EmptyMaps,
      dbVars, Cache!dbVars, Atomic!dbVars

\* Every step of the commit is a step of the abstract cache or none.
LEMMA StepRefines ==
    ASSUME Inv, [Next]_vars
    PROVE  [Atomic!CacheNext]_(Atomic!cacheVars)
<1> USE DEF Atomic!cacheVars, memoryVars, dbVars, txVars, sqlVars, Committed
<1>1. CASE AddNextBlock
  BY <1>1, AddNextBlockRefines DEF Atomic!CacheNext
<1>2. CASE BeginCommit
  BY <1>2 DEF BeginCommit, BeginUpdate, Usable
<1>3. CASE CommitStep
  <2>1. CASE CommitTx
    BY <1>3, <2>1, CommitRefines DEF Atomic!CacheNext, CommitStep
  <2>2. CASE DeleteRow \/ StartInserts \/ InsertRow \/ WriteLastBlock \/ Rollback
    BY <1>3, <2>2
    DEF CommitStep, DeleteRow, StartInserts, InsertRow, WriteLastBlock, Rollback
  <2> QED
    BY <1>3, <2>1, <2>2 DEF CommitStep, UpdateStep
<1>4. CASE EndCommit
  BY <1>4 DEF EndCommit, Returned, Cache!EmptyMaps
<1>5. CASE Exit
  BY <1>5, ExitRefines DEF Atomic!CacheNext
<1>6. CASE OpenStorage
  BY <1>6 DEF OpenStorage, Open
<1>7. CASE UNCHANGED vars
  BY <1>7 DEF vars
<1> QED
  BY <1>1, <1>2, <1>3, <1>4, <1>5, <1>6, <1>7 DEF Next

\* What the transaction holds in each of its phases.
LEMMA StepTxInv ==
    ASSUME TxInv, [Next]_vars
    PROVE  TxInv'
<1> USE DEF TxInv, NewRow, memoryVars, dbVars, txVars, sqlVars
<1>1. CASE AddNextBlock
  BY <1>1 DEF AddNextBlock
<1>2. CASE BeginCommit
  BY <1>2 DEF BeginCommit, BeginUpdate, Usable
<1>3. CASE CommitStep
  <2>1. CASE DeleteRow
    <3>1. PICK id \in left : /\ work' = [work EXCEPT !.utxo = @ \ {id}]
                             /\ left' = left \ {id}
      BY <2>1 DEF DeleteRow
    <3>2. /\ left \subseteq deletions
          /\ work = [utxo |-> utxo \ (deletions \ left), lastBlock |-> lastBlock]
      BY <2>1 DEF DeleteRow
    <3>3. work' = [utxo |-> (utxo \ (deletions \ left)) \ {id}, lastBlock |-> lastBlock]
      BY <3>1, <3>2
    <3>4. (utxo \ (deletions \ left)) \ {id} = utxo \ (deletions \ left')
      BY <3>1, <3>2
    <3> QED
      BY <1>3, <2>1, <3>1, <3>2, <3>3, <3>4 DEF CommitStep, DeleteRow
  <2>2. CASE StartInserts
    BY <1>3, <2>2 DEF CommitStep, StartInserts
  <2>3. CASE InsertRow
    <3>1. PICK id \in left : /\ work' = [work EXCEPT !.utxo = @ \cup {id}]
                             /\ left' = left \ {id}
      BY <2>3 DEF InsertRow
    <3>2. /\ left \subseteq inserts
          /\ work = [utxo |-> (utxo \ deletions) \cup (inserts \ left), lastBlock |-> lastBlock]
      BY <2>3 DEF InsertRow
    <3>3. work' = [utxo |-> ((utxo \ deletions) \cup (inserts \ left)) \cup {id},
                   lastBlock |-> lastBlock]
      BY <3>1, <3>2
    <3>4. ((utxo \ deletions) \cup (inserts \ left)) \cup {id} =
              (utxo \ deletions) \cup (inserts \ left')
      BY <3>1, <3>2
    <3> QED
      BY <1>3, <2>3, <3>1, <3>2, <3>3, <3>4 DEF CommitStep, InsertRow
  <2>4. CASE WriteLastBlock
    BY <1>3, <2>4 DEF CommitStep, WriteLastBlock
  <2>5. CASE CommitTx \/ Rollback
    BY <1>3, <2>5 DEF CommitStep, CommitTx, Rollback
  <2> QED
    BY <1>3, <2>1, <2>2, <2>3, <2>4, <2>5 DEF CommitStep, UpdateStep
<1>4. CASE EndCommit
  BY <1>4 DEF EndCommit, Returned
<1>5. CASE Exit
  BY <1>5 DEF Exit, Crash
<1>6. CASE OpenStorage
  BY <1>6 DEF OpenStorage, Open
<1>7. CASE UNCHANGED vars
  BY <1>7 DEF vars
<1> QED
  BY <1>1, <1>2, <1>3, <1>4, <1>5, <1>6, <1>7 DEF Next

\* The invariant is preserved, by the step of StorageCache each step refines.
LEMMA StepInv == Inv /\ [Next]_vars => Inv'
BY StepTxInv, StepRefines, AtomicStep DEF Inv

LEMMA Invariant == Spec => []Inv
<1> QED
  BY InitInv, StepInv, PTL DEF Spec

-----------------------------------------------------------------------------
\* A commit of many statements that can fail or be cut short anywhere is the
\* one step of StorageCache: the maps are emptied together with the commit of
\* the database, also in the state between the two.
THEOREM CommitImplementsCache == Spec => ImplementsCache
<1>1. Init => AtomicCache!CacheInit
  BY DEF Init, SqlInit, Cache!CacheInit, AtomicCache!CacheInit, Committed
<1>2. [Atomic!CacheNext]_(Atomic!cacheVars) => [AtomicCache!CacheNext]_(AtomicCache!cacheVars)
  BY DEF
      Atomic!CacheNext, AtomicCache!CacheNext, Atomic!cacheVars, AtomicCache!cacheVars,
      Atomic!AddNextBlock, AtomicCache!AddNextBlock, Atomic!LookedUp,
      AtomicCache!LookedUp, Atomic!AddBlock, AtomicCache!AddBlock, Atomic!AfterOutputs,
      AtomicCache!AfterOutputs, Atomic!QueuedDeletions, AtomicCache!QueuedDeletions,
      Atomic!IndexedBalance, AtomicCache!IndexedBalance, Atomic!BlockDelta,
      AtomicCache!BlockDelta, Atomic!dbVars, AtomicCache!dbVars, Atomic!CommitDone,
      AtomicCache!CommitDone, Atomic!UpdateAccepted, AtomicCache!UpdateAccepted,
      Atomic!CommittedRows, AtomicCache!CommittedRows, Atomic!EmptyMaps,
      AtomicCache!EmptyMaps, Atomic!CommitFailed, AtomicCache!CommitFailed,
      Atomic!Reopen, AtomicCache!Reopen
<1> QED
  BY <1>1, <1>2, Invariant, StepRefines, PTL DEF Spec, ImplementsCache, AtomicCache!CacheSpec

\* Between commits the maps over the rows are the outputs unspent at the last
\* block added, and the rows are always those of the block the database names.
THEOREM CommitDatabaseExact == Spec => []DatabaseExact
<1>1. Inv => DatabaseExact
  BY DEF Inv, Atomic!CacheInv, Committed, DatabaseExact,
         Atomic!StoredExact, Cache!StoredExact,
         Atomic!AvailableExact, Cache!AvailableExact, Atomic!Available, Cache!Available
<1> QED
  BY <1>1, Invariant, PTL

\* No insert of a commit meets its key in the table or fails a trigger.
THEOREM CommitNeverRejected == Spec => []NeverRejected
<1>1. Inv => NeverRejected
  <2> SUFFICES ASSUME Inv, phase = "insert", NEW id \in left
               PROVE  Insertable(work.utxo, id)
    BY DEF NeverRejected
  <2>1. Atomic!CacheTypeOK /\ Atomic!Apart /\ ~Committed
    BY DEF Inv, Atomic!CacheInv, Committed
  <2>2. inserts \cap utxo = {} /\ inserts \subseteq Storable
    BY <2>1 DEF Atomic!CacheTypeOK, Atomic!Apart
  <2>3. id \in inserts /\ work.utxo = (utxo \ deletions) \cup (inserts \ left)
    BY DEF Inv, TxInv
  <2> QED
    BY <2>2, <2>3 DEF Insertable
<1> QED
  BY <1>1, Invariant, PTL

=============================================================================
