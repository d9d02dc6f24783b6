---------------------------- MODULE HeightCache -----------------------------
(***************************************************************************)
(* height/height.go: the height of the last block a routine has heard of,  *)
(* kept under a lock for the API.                                          *)
(*                                                                         *)
(* Stop makes the routine unsubscribe, a request the manager takes only    *)
(* while it is not sending to the channel nobody reads any more.           *)
(***************************************************************************)
EXTENDS ManagerFeed, Integers

Me == "height"       \* the subscriber

VARIABLES
    height,          \* h.height
    routine,         \* "select", "unsubscribing" or "ended"
    heard            \* a block update was taken

cacheVars == <<height, routine, heard>>

Init ==
    /\ height = 0
    /\ routine = "select"
    /\ heard = FALSE

HeightAfterMutant(u) ==                      \* the height of the block taken back
    IF u.class \in {"NEWBLOCK", "BACKTRACK"} THEN HeightOf[u.block] ELSE height
HeightAfter(u) ==
    CASE u.class = "NEWBLOCK" -> HeightOf[u.block]
      [] u.class = "BACKTRACK" -> HeightOf[u.block] - 1
      [] OTHER -> height

TakeUpdate ==
    /\ routine = "select"
    /\ \E u \in Updates :
          /\ Take(Me, u)
          /\ height' = HeightAfter(u)
          /\ heard' = (heard \/ u.class \in {"NEWBLOCK", "BACKTRACK"})
    /\ UNCHANGED routine

Stop ==
    /\ routine = "select"
    /\ routine' = "unsubscribing"
    /\ UNCHANGED <<feedVars, height, heard>>

UnsubscribeMutant ==                         \* it waits for the channel to drain
    /\ routine = "unsubscribing"
    /\ channel[Me] = <<>>
    /\ Unsubscribed(Me)
    /\ routine' = "ended"
    /\ UNCHANGED <<height, heard>>
Unsubscribe ==
    /\ routine = "unsubscribing"
    /\ Unsubscribed(Me)
    /\ routine' = "ended"
    /\ UNCHANGED <<height, heard>>

Next == TakeUpdate \/ Stop \/ Unsubscribe

-----------------------------------------------------------------------------
\* The height is that of the block the updates lead to, and zero before the
\* first one, whatever the height of the database.
HeightFollows == height = IF heard THEN HeightOf[clientTip[Me]] ELSE 0

\* The routine takes no update.
Deaf == routine # "select"

=============================================================================
