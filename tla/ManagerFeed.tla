----------------------------- MODULE ManagerFeed ----------------------------
(***************************************************************************)
(* The block manager as its clients see it through the interface of        *)
(* manager.go: updates that arrive in order on a channel of each client's  *)
(* own, and a routine that answers requests only while it is not sending   *)
(* one.                                                                    *)
(*                                                                         *)
(* That the updates are sent is what the interface promises.  In           *)
(* block_manager.go they are not (BlockManager, SubscribersServed): the    *)
(* modules that extend this one say what the caches do with updates, and   *)
(* are to be read with that in mind.                                       *)
(***************************************************************************)
EXTENDS BlockTree, Sequences, SequencesExt

CONSTANTS
    Confirmations,   \* blocks that can be taken back
    Client,          \* routines that subscribe
    ChanSize         \* capacity of a client's channel

ASSUME FeedAssumption == Confirmations \in Nat /\ ChanSize \in Nat \ {0}

VARIABLES
    tip,             \* the manager's last block
    floor,           \* the last one that no backtrack undoes
    scheduled,       \* the commit timer is running
    announced,       \* history: OP_COMMIT was signalled and no OP_COMMIT_DONE since
    subscribers,
    outgoing,        \* updates that signalSubscribers has not sent to all
    unsent,          \* clients that the first of them was not sent to
    channel,         \* updates each client has not taken
    clientTip        \* where the updates a client has taken lead

managerVars == <<tip, floor, scheduled, announced>>
feedVars == <<managerVars, subscribers, outgoing, unsent, channel, clientTip>>

Update(class, block) == [class |-> class, block |-> block]
Updates == [class : {"NEWBLOCK", "BACKTRACK"}, block : Block]
               \cup [class : {"COMMIT", "COMMIT_DONE"}, block : {ZeroHash}]

\* The block an update leads to.
After(u, from) ==
    CASE u.class = "NEWBLOCK" -> u.block
      [] u.class = "BACKTRACK" -> PrevBlock[u.block]
      [] OTHER -> from

\* The routine is in its select, where it takes requests.
InSelect == outgoing = <<>>

-----------------------------------------------------------------------------
\* The clients have just subscribed.
FeedInit ==
    /\ tip \in Point
    /\ floor \in {p \in Path[tip] : HeightOf[tip] - HeightOf[p] <= Confirmations}
    /\ scheduled = FALSE
    /\ announced = FALSE
    /\ subscribers = Client
    /\ outgoing = <<>>
    /\ unsent = {}
    /\ channel = [c \in Client |-> <<>>]
    /\ clientTip = [c \in Client |-> tip]

\* signalSubscribers starts to send the updates, one to all and then the next.
Signal(updates) ==
    /\ outgoing' = IF subscribers = {} THEN <<>> ELSE updates
    /\ unsent' = IF updates = <<>> THEN {} ELSE subscribers
    /\ UNCHANGED <<subscribers, channel, clientTip>>

\* An update, and OP_COMMIT with it when a commit is required.
Announce(update) ==
    \/ Signal(<<update>>) /\ UNCHANGED <<scheduled, announced>>
    \/ /\ ~scheduled
       /\ scheduled' = TRUE
       /\ announced' = TRUE
       /\ Signal(<<update, Update("COMMIT", ZeroHash)>>)

Extend ==
    /\ InSelect
    /\ \E b \in Block :
          /\ PrevBlock[b] = tip
          /\ tip' = b
          /\ floor' = IF HeightOf[b] - HeightOf[floor] > Confirmations
                      THEN CHOOSE p \in Path[b] : HeightOf[p] = HeightOf[floor] + 1
                      ELSE floor
          /\ Announce(Update("NEWBLOCK", b))

\* Every chain has the same first block, which is never taken back.
Retract ==
    /\ InSelect
    /\ tip # floor
    /\ PrevBlock[tip] # ZeroHash
    /\ tip' = PrevBlock[tip]
    /\ Announce(Update("BACKTRACK", tip))
    /\ UNCHANGED floor

\* The timer expires, and the commit is no longer required, of which nothing is
\* signalled, or it is done.
Commit ==
    /\ InSelect
    /\ scheduled
    /\ scheduled' = FALSE
    /\ \/ Signal(<<>>) /\ UNCHANGED announced
       \/ Signal(<<Update("COMMIT_DONE", ZeroHash)>>) /\ announced' = FALSE
    /\ UNCHANGED <<tip, floor>>

\* The subscribers are taken in any order; a full channel blocks the manager.
Send(c) ==
    LET rest == unsent \ {c}
    IN  /\ c \in unsent
        /\ Len(channel[c]) < ChanSize
        /\ channel' = [channel EXCEPT ![c] = Append(@, Head(outgoing))]
        /\ outgoing' = IF rest = {} THEN Tail(outgoing) ELSE outgoing
        /\ unsent' = IF rest = {} /\ Len(outgoing) > 1 THEN subscribers ELSE rest
        /\ UNCHANGED <<managerVars, subscribers, clientTip>>

Sending == \E c \in Client : Send(c)

Manager == Extend \/ Retract \/ Commit \/ Sending

\* A client takes its next update.
Take(c, u) ==
    /\ c \in Client /\ channel[c] # <<>>
    /\ u = Head(channel[c])
    /\ channel' = [channel EXCEPT ![c] = Tail(@)]
    /\ clientTip' = [clientTip EXCEPT ![c] = After(u, @)]
    /\ UNCHANGED <<managerVars, subscribers, outgoing, unsent>>

\* A client's request, which the manager takes in its select.
Unsubscribed(c) ==
    /\ InSelect
    /\ subscribers' = subscribers \ {c}
    /\ UNCHANGED <<managerVars, outgoing, unsent, channel, clientTip>>

-----------------------------------------------------------------------------
=============================================================================
