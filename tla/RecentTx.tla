------------------------------ MODULE RecentTx ------------------------------
(***************************************************************************)
(* recent_tx/recent_tx.go: the routine that keeps the last blocks in a     *)
(* BlockQueue, a window that follows the manager's updates, and answers    *)
(* with the transactions of an address and their blocks.                   *)
(***************************************************************************)
EXTENDS ManagerFeed, BlockQueue

CONSTANT Size        \* blocks in the window (trackedBlocks)

Me == "recent_tx"    \* the subscriber

VARIABLES
    running,         \* the routine has not been stopped
    fresh            \* history: blocks pushed since a pop at the back, to Size

windowVars == <<queueVars, running, fresh>>

Init ==
    /\ QueueInit
    /\ running = TRUE
    /\ fresh = 0

-----------------------------------------------------------------------------
OverSize(window) == Len(window) > Size

NewBlock(b) ==
    LET window == Append(blocks, b)
        balance == BalanceWith(addrBalance, b)
        entries == EntriesWith(addrTx, b)
        index == IndexWith(txIndex, b)
    IN  IF OverSize(window)
        THEN /\ blocks' = Tail(window)
             /\ addrBalance' = BalanceWithout(balance, Head(window))
             /\ addrTx' = EntriesWithout(entries, Head(window))
             /\ txIndex' = IndexWithout(index, Head(window))
        ELSE /\ blocks' = window
             /\ addrBalance' = balance /\ addrTx' = entries /\ txIndex' = index

\* backtrackBlock pops whatever is last, or nothing.
BacktrackMutant ==                           \* the oldest block is popped
    IF blocks = <<>> THEN UNCHANGED queueVars ELSE PopFront
Backtrack == IF blocks = <<>> THEN UNCHANGED queueVars ELSE PopBack

TakeUpdate ==
    /\ running
    /\ \E u \in Updates :
          /\ Take(Me, u)
          /\ CASE u.class = "NEWBLOCK" ->
                    NewBlock(u.block) /\ fresh' = IF fresh < Size THEN fresh + 1 ELSE fresh
               [] u.class = "BACKTRACK" -> Backtrack /\ fresh' = 0
               [] OTHER -> UNCHANGED <<queueVars, fresh>>
    /\ UNCHANGED running

\* The routine ends and stays subscribed.
Stop ==
    /\ running
    /\ running' = FALSE
    /\ UNCHANGED <<feedVars, queueVars, fresh>>

Next == TakeUpdate \/ Stop

-----------------------------------------------------------------------------
\* The blocks of the last n positions of the window, and an address' entries.
Newest(n) == SubSeq(blocks, Len(blocks) - n + 1, Len(blocks))

TouchingOf(window, a) ==
    FlattenSeq([n \in DOMAIN window |-> Touching(window[n], a)])

\* The window is a piece of the manager's chain that ends with the block the
\* updates taken so far lead to, also after more backtracks than it has blocks.
WindowFollows ==
    /\ Len(blocks) <= Size
    /\ blocks # <<>> =>
        /\ Last(blocks) = clientTip[Me]
        /\ \A n \in 2..Len(blocks) : PrevBlock[blocks[n]] = blocks[n - 1]

\* After a backtrack the entries of an address are mixed up, but those of the
\* blocks pushed since are right, and they are the last ones: when the window
\* was refilled with new blocks all entries are right again.
NewEntriesRight ==
    \A a \in Address :
        LET right == TouchingOf(Newest(fresh), a)
        IN  IsSuffix(right, addrTx[a])

\* The routine takes no update.
Deaf == ~running

=============================================================================
