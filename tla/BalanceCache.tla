---------------------------- MODULE BalanceCache ----------------------------
(***************************************************************************)
(* balance/balance.go and balance/cache.go: the routine that answers       *)
(* balance requests from a bounded cache, which it fills from the block    *)
(* manager and updates with every block, and that passes requests on to a  *)
(* peer while a commit is announced.                                       *)
(*                                                                         *)
(* A miss makes the routine wait for the manager's answer.  It takes no    *)
(* update meanwhile.                                                       *)
(***************************************************************************)
EXTENDS ManagerFeed, Chain

CONSTANTS
    CacheSize,
    Nobody           \* not an address

Me == "balance"      \* the subscriber

VARIABLES
    cache,           \* balance of each cached address
    asking,          \* address the routine has asked the manager for
    proxyMode,
    running          \* the routine has not been stopped

cacheVars == <<cache, asking, proxyMode, running>>

Init ==
    /\ cache = << >>
    /\ asking = Nobody
    /\ proxyMode = FALSE
    /\ running = TRUE

-----------------------------------------------------------------------------
\* What a block adds to the balance of an address.
BlockDelta(b, a) == BalanceOf(Outs[b], a) - BalanceOf(Ins[b], a)

\* NewBlock and Backtrack touch only the addresses in the cache.
UpdatedMutant(u) ==                          \* a backtrack is added too
    [a \in DOMAIN cache |->
        IF u.class \in {"NEWBLOCK", "BACKTRACK"} THEN cache[a] + BlockDelta(u.block, a)
        ELSE cache[a]]
Updated(u) ==
    [a \in DOMAIN cache |->
        CASE u.class = "NEWBLOCK" -> cache[a] + BlockDelta(u.block, a)
          [] u.class = "BACKTRACK" -> cache[a] - BlockDelta(u.block, a)
          [] OTHER -> cache[a]]

\* The LRU cache drops entries when it is full.
Stored(a, value) ==
    LET room == IF Cardinality(DOMAIN cache \cup {a}) <= CacheSize
                THEN {DOMAIN cache}
                ELSE {D \in SUBSET DOMAIN cache : Cardinality(D) < CacheSize}
    IN  {[x \in D \cup {a} |-> IF x = a THEN value ELSE cache[x]] : D \in room}

ModeAfterMutant(u) == u.class = "COMMIT"     \* any other update ends the mode
ModeAfter(u) ==
    CASE u.class = "COMMIT" -> TRUE
      [] u.class = "COMMIT_DONE" -> FALSE
      [] OTHER -> proxyMode

TakeUpdate ==
    /\ running /\ asking = Nobody
    /\ \E u \in Updates :
          /\ Take(Me, u)
          /\ cache' = Updated(u)
          /\ proxyMode' = ModeAfter(u)
    /\ UNCHANGED <<asking, running>>

\* A request that misses the cache.  One that hits it, and one that is passed
\* on to a peer in proxy mode by a goroutine of its own, change nothing here.
Miss(a) ==
    /\ running /\ asking = Nobody
    /\ ~proxyMode
    /\ a \notin DOMAIN cache
    /\ asking' = a
    /\ UNCHANGED <<feedVars, cache, proxyMode, running>>

\* The manager answers with the balance at its own tip, whatever is still in
\* the channel.
AnswerMutant ==                              \* only when all was taken, which
    /\ asking # Nobody                       \* the routine does not do now
    /\ InSelect /\ channel[Me] = <<>>
    /\ cache' \in Stored(asking, BalanceOf(UtxoAt[tip], asking))
    /\ asking' = Nobody
    /\ UNCHANGED <<feedVars, proxyMode, running>>
Answer ==
    /\ asking # Nobody
    /\ InSelect
    /\ cache' \in Stored(asking, BalanceOf(UtxoAt[tip], asking))
    /\ asking' = Nobody
    /\ UNCHANGED <<feedVars, proxyMode, running>>

\* The routine ends and stays subscribed.
Stop ==
    /\ running /\ asking = Nobody
    /\ running' = FALSE
    /\ UNCHANGED <<feedVars, cache, asking, proxyMode>>

Next ==
    \/ TakeUpdate
    \/ \E a \in Address : Miss(a)
    \/ Answer
    \/ Stop

-----------------------------------------------------------------------------
\* A balance fetched while updates wait in the channel already has them in it
\* and gets them once more; from then on it is off by what they changed, and
\* no later block, backtrack or commit makes it better or worse.  Fetched with
\* an empty channel it is that of the block the cache has reached.
BalanceDrift ==
    [][\A a \in DOMAIN cache' :
          cache'[a] - BalanceOf(UtxoAt[clientTip'[Me]], a) =
              IF a \in DOMAIN cache THEN cache[a] - BalanceOf(UtxoAt[clientTip[Me]], a)
              ELSE BalanceOf(UtxoAt[tip], a) - BalanceOf(UtxoAt[clientTip[Me]], a)
      ]_<<feedVars, cacheVars>>

\* Once the updates are taken, requests go to a peer when a commit was announced
\* and not reported done since, and at no other time: no commit update is lost
\* among those of blocks, and none is taken out of turn.  After a commit that is
\* called off the mode therefore stays on (block_manager.go:456).
ProxyWhileAnnounced ==
    channel[Me] = <<>> /\ outgoing = <<>> => (proxyMode <=> announced)

\* The routine takes no update.
Deaf == asking # Nobody \/ ~running

=============================================================================
