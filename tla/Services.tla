------------------------------ MODULE Services ------------------------------
(***************************************************************************)
(* main.go: the block manager and the three routines that serve the API    *)
(* from its updates: the balance cache, the recent transactions and the    *)
(* height, those of them that Client names.  They meet in the manager:     *)
(* while it sends to a full channel it answers nobody and sends to nobody  *)
(* else, and a routine that waits for its answer takes no update.          *)
(***************************************************************************)
EXTENDS ManagerFeed, Chain, BlockQueue

CONSTANTS
    CacheSize, Nobody,  \* BalanceCache
    Size                \* RecentTx

ASSUME ServicesAssumption ==
    /\ CacheSize \in Nat \ {0}
    /\ Nobody \notin Address
    /\ Size \in Nat \ {0}
    /\ Client \subseteq {"balance", "recent_tx", "height"}

\* Consensus (BIP 30): a transaction is in one block of a chain.
ASSUME ChainTxsAssumption ==
    \A b \in Block : \A c \in Path[PrevBlock[b]] \cap Block :
        ToSet(TxsOf[b]) \cap ToSet(TxsOf[c]) = {}

VARIABLES
    cache, asking, proxyMode, balanceRunning,
    recentRunning, fresh,
    height, routine, heard

Balance == INSTANCE BalanceCache WITH running <- balanceRunning
Recent == INSTANCE RecentTx WITH running <- recentRunning
Height == INSTANCE HeightCache

balanceVars == <<cache, asking, proxyMode, balanceRunning>>
recentVars == <<queueVars, recentRunning, fresh>>
heightVars == <<height, routine, heard>>
serviceVars == <<balanceVars, recentVars, heightVars>>
vars == <<feedVars, serviceVars>>

Init == FeedInit /\ Balance!Init /\ Recent!Init /\ Height!Init

BalanceStep == Balance!Me \in Client /\ Balance!Next /\ UNCHANGED <<recentVars, heightVars>>
RecentStep == Recent!Me \in Client /\ Recent!Next /\ UNCHANGED <<balanceVars, heightVars>>
HeightStep == Height!Me \in Client /\ Height!Next /\ UNCHANGED <<balanceVars, recentVars>>

Next ==
    \/ Manager /\ UNCHANGED serviceVars
    \/ BalanceStep
    \/ RecentStep
    \/ HeightStep

Spec == Init /\ [][Next]_vars

\* The manager goes on sending and the routines go on reading.  Which request
\* a select takes is left to chance, so that it takes each one some time.
FairSpec ==
    /\ Spec
    /\ WF_vars(Sending /\ UNCHANGED serviceVars)
    /\ WF_vars(Balance!TakeUpdate /\ UNCHANGED <<recentVars, heightVars>>)
    /\ WF_vars(Recent!TakeUpdate /\ UNCHANGED <<balanceVars, heightVars>>)
    /\ WF_vars(Height!TakeUpdate /\ UNCHANGED <<balanceVars, recentVars>>)
    /\ SF_vars(Balance!Answer /\ UNCHANGED <<recentVars, heightVars>>)
    /\ SF_vars(Height!Unsubscribe /\ UNCHANGED <<balanceVars, recentVars>>)

-----------------------------------------------------------------------------
Deaf(c) ==
    CASE c = Balance!Me -> Balance!Deaf
      [] c = Recent!Me -> Recent!Deaf
      [] c = Height!Me -> Height!Deaf

\* The manager is sending to a full channel that nobody reads: the whole
\* program waits, and will for ever.
Stuck == \E c \in unsent : Len(channel[c]) = ChanSize /\ Deaf(c)

BalanceDrift == Balance!BalanceDrift
ProxyWhileAnnounced == Balance!ProxyWhileAnnounced
WindowFollows == Recent!WindowFollows
NewEntriesRight == Recent!NewEntriesRight
HeightFollows == Height!HeightFollows

\* A balance request is answered, whatever the other services do, unless the
\* manager is stuck on the channel of a routine that waits for it or stopped.
RequestsAnswered == asking # Nobody ~> asking = Nobody \/ Stuck

\* The height cache's Stop returns, under the same exception.
StopEnds == routine = "unsubscribing" ~> routine = "ended" \/ Stuck

=============================================================================
