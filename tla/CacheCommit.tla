----------------------------- MODULE CacheCommit ----------------------------
(***************************************************************************)
(* The write-back cache (StorageCache) on the database as it is, statement *)
(* by statement (Sqlite): a commit that takes many steps, any of which can *)
(* fail or be the last of the process, also the one between the database's *)
(* commit and the reset of the cache's maps.                               *)
(***************************************************************************)
EXTENDS Sqlite

CONSTANT Sync      \* sync mode: the balance index is disabled

ASSUME CommitSyncAssumption == Sync \in BOOLEAN

VARIABLES inserts, deletions, balance, cacheHeight, lastBlockHash, uncommittedBlocks

memoryVars == <<inserts, deletions, balance, cacheHeight, lastBlockHash, uncommittedBlocks>>
vars == <<sqlVars, memoryVars>>

Cache == INSTANCE StorageCache

Init == SqlInit /\ Cache!CacheInit

\* The manager is one routine: it adds no block while it commits.
AddNextBlock ==
    /\ open
    /\ phase = "idle"
    /\ Cache!AddNextBlock
    /\ UNCHANGED <<open, txVars>>

\* The mutant drops the pending deletions first.
BeginCommitMutant ==
    /\ uncommittedBlocks > 0
    /\ BeginUpdate(inserts, {}, [height |-> cacheHeight, hash |-> lastBlockHash])
    /\ UNCHANGED memoryVars
BeginCommit ==
    /\ uncommittedBlocks > 0
    /\ BeginUpdate(inserts, deletions, [height |-> cacheHeight, hash |-> lastBlockHash])
    /\ UNCHANGED memoryVars

CommitStep == (UpdateStep \/ Rollback) /\ UNCHANGED memoryVars

\* Commit re-allocates the maps after the update returned without an error.
EndCommitMutant == Returned /\ UNCHANGED memoryVars
EndCommit == Returned /\ Cache!EmptyMaps /\ UNCHANGED <<cacheHeight, lastBlockHash>>

\* The process ends; the next one makes a new cache from GetLastBlock.
Exit == Crash /\ Cache!Reopen
OpenStorage == Open /\ UNCHANGED memoryVars

Next ==
    \/ AddNextBlock
    \/ BeginCommit \/ CommitStep \/ EndCommit
    \/ Exit \/ OpenStorage

Spec == Init /\ [][Next]_vars

-----------------------------------------------------------------------------
\* The maps count as empty from the moment the database has committed them.
Committed == phase = "done"

AtomicCache == INSTANCE StorageCache WITH
    inserts <- IF Committed THEN {} ELSE inserts,
    deletions <- IF Committed THEN {} ELSE deletions,
    balance <- IF Committed THEN [a \in Address |-> 0] ELSE balance,
    uncommittedBlocks <- IF Committed THEN 0 ELSE uncommittedBlocks

\* Whatever fails and whenever the process ends, the cache and the database
\* go through a commit as if it were one step (StorageCache.CommitDone).
ImplementsCache == AtomicCache!CacheSpec

\* While no commit is under way the cache and the database agree on the
\* unspent outputs of the last block; during one, and after a crash in the
\* middle of it, the database is that of one block.
DatabaseExact ==
    /\ Cache!StoredExact
    /\ phase # "done" => Cache!AvailableExact

\* No statement of a commit is refused by the primary key or by a trigger:
\* a commit fails only when the disk does.
NeverRejected == phase = "insert" => \A id \in left : Insertable(work.utxo, id)

=============================================================================
