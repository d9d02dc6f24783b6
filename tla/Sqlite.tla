------------------------------- MODULE Sqlite -------------------------------
(***************************************************************************)
(* storage/sqlite.go statement by statement: the rows in the database, the *)
(* connection, and the transaction of a bulk update with the points where  *)
(* it can fail or the process end.  The connection is the only one         *)
(* (SetMaxOpenConns), so that nothing else runs during a transaction.      *)
(*                                                                         *)
(* Only the calls the program makes are here.  Nothing in it calls Set,    *)
(* SetLastBlock, Delete or MarkDirty, so that no database is ever dirty.   *)
(***************************************************************************)
EXTENDS Chain, FiniteSets

VARIABLES
    \* database
    utxo,            \* rows of the table utxo
    lastBlock,       \* row of last_block
    \* process
    open,            \* SQLiteStorage was created
    phase,           \* of a bulk update: the loop, or the call, it is in
    request,         \* its arguments
    left,            \* ids the loop has not reached
    work             \* the rows as the transaction sees them

dbVars == <<utxo, lastBlock>>
txVars == <<phase, request, left, work>>
sqlVars == <<dbVars, open, txVars>>

BlockRow == [height : Int, hash : Point]
Rows == [utxo : SUBSET TxOutId, lastBlock : BlockRow]
Request == [insert : SUBSET TxOutId, remove : SUBSET TxOutId, lastBlock : BlockRow]

SqlInit ==
    /\ utxo = {}
    /\ lastBlock = [height |-> -1, hash |-> ZeroHash]
    /\ open = FALSE
    /\ phase = "idle"
    /\ request = [insert |-> {}, remove |-> {}, lastBlock |-> lastBlock]
    /\ left = {}
    /\ work = [utxo |-> {}, lastBlock |-> lastBlock]

Open ==
    /\ ~open
    /\ open' = TRUE
    /\ UNCHANGED <<dbVars, txVars>>

\* The process ends: what was not committed is lost.
Crash ==
    /\ open
    /\ open' = FALSE
    /\ phase' = "idle"
    /\ UNCHANGED <<dbVars, request, left, work>>

-----------------------------------------------------------------------------
\* Primary key and triggers.
Insertable(rows, id) == id \notin rows /\ id \in Storable

Usable == open /\ phase = "idle"

-----------------------------------------------------------------------------
\* BulkUpdateFromMap: deletions, insertions, last block.
BeginUpdate(insert, remove, row) ==
    /\ Usable
    /\ row.height >= 0
    /\ request' = [insert |-> insert, remove |-> remove, lastBlock |-> row]
    /\ work' = [utxo |-> utxo, lastBlock |-> lastBlock]
    /\ left' = remove
    /\ phase' = "delete"
    /\ UNCHANGED <<dbVars, open>>

DeleteRow ==
    /\ phase = "delete"
    /\ \E id \in left : work' = [work EXCEPT !.utxo = @ \ {id}] /\ left' = left \ {id}
    /\ UNCHANGED <<dbVars, open, phase, request>>

StartInserts ==
    /\ phase = "delete"
    /\ left = {}
    /\ left' = request.insert
    /\ phase' = "insert"
    /\ UNCHANGED <<dbVars, open, request, work>>

InsertRow ==
    /\ phase = "insert"
    /\ \E id \in left :
          /\ Insertable(work.utxo, id)
          /\ work' = [work EXCEPT !.utxo = @ \cup {id}]
          /\ left' = left \ {id}
    /\ UNCHANGED <<dbVars, open, phase, request>>

\* The mutant writes the row outside of the transaction.
WriteLastBlockMutant ==
    /\ phase = "insert"
    /\ left = {}
    /\ work' = [work EXCEPT !.lastBlock = request.lastBlock]
    /\ lastBlock' = request.lastBlock
    /\ phase' = "commit"
    /\ UNCHANGED <<utxo, open, request, left>>
WriteLastBlock ==
    /\ phase = "insert"
    /\ left = {}
    /\ work' = [work EXCEPT !.lastBlock = request.lastBlock]
    /\ phase' = "commit"
    /\ UNCHANGED <<dbVars, open, request, left>>

CommitTx ==
    /\ phase = "commit"
    /\ utxo' = work.utxo
    /\ lastBlock' = work.lastBlock
    /\ phase' = "done"
    /\ UNCHANGED <<open, request, left, work>>

\* A statement or the commit fails: Transact rolls back and returns the error.
Rollback ==
    /\ phase \in {"delete", "insert", "commit"}
    /\ phase' = "idle"
    /\ UNCHANGED <<dbVars, open, request, left, work>>

\* The update returns without an error.
Returned ==
    /\ phase = "done"
    /\ phase' = "idle"
    /\ UNCHANGED <<dbVars, open, request, left, work>>

UpdateStep == DeleteRow \/ StartInserts \/ InsertRow \/ WriteLastBlock \/ CommitTx

=============================================================================
