---------------------------- MODULE PeerManager -----------------------------
(***************************************************************************)
(* peers/manager.go: the list of API hosts that balance requests are sent  *)
(* to in turn, its lock, and the routine that keeps it up to date from the *)
(* handler's signals.  The handler is PeerFeed, which PeerHandler          *)
(* implements.                                                             *)
(*                                                                         *)
(* What is done with the lock held is one action, but the two sends to the *)
(* handler: while one waits for room, lock is the command it sends.        *)
(***************************************************************************)
EXTENDS PeerFeed, OrderedMap, Functions, FiniteSets

CONSTANTS
    Client,              \* ids of clients, some of all
    UnreachableMarks,    \* marks that a peer is still kept with
    StopCalls            \* bound of the model: calls of Stop

ASSUME ManagerAssumption ==
    /\ UnreachableMarks \in Nat \ {0}
    /\ StopCalls \in Nat

VARIABLES
    peers,               \* API host to its number of marks, in the order of the turns
    clientPeerCache,     \* the host each client was sent to last
    started,
    lock,                \* Free, Leaked or the command its holder is sending
    routine,             \* "none", "starting", "select", "stopping", "ended"
    update,              \* the signal the routine is handling, or none
    waiting,             \* calls of Stop sending on stopCh
    stops                \* calls of Stop so far

managerVars == <<peers, clientPeerCache, started, lock, routine, update, waiting, stops>>
vars == <<feedVars, managerVars>>

Free == [type |-> "Free"]
Leaked == [type |-> "Leaked"]
NoPeer == "none"

Init ==
    /\ FeedInit
    /\ peers = EmptyMap /\ clientPeerCache = <<>>
    /\ started = FALSE
    /\ lock = Free
    /\ routine = "none" /\ update = <<>>
    /\ waiting = 0 /\ stops = 0

-----------------------------------------------------------------------------
\* Start takes no lock; it is called once.
Start ==
    /\ routine = "none"
    /\ routine' = "starting"
    /\ started' = TRUE
    /\ UNCHANGED <<feedVars, peers, clientPeerCache, lock, update, waiting, stops>>

\* peerUpdateRoutine
Begin ==
    /\ routine = "starting" /\ lock = Free
    /\ routine' = "select"
    /\ UNCHANGED <<feedVars, peers, clientPeerCache, started, lock, update, waiting, stops>>

Selects == routine = "select" /\ update = <<>>

TakeUpdate ==
    /\ Selects
    /\ TakeSignal
    /\ update' = <<Head(subscriberCh)>>
    /\ UNCHANGED <<peers, clientPeerCache, started, lock, routine, waiting, stops>>

\* addPeer, delPeer
Apply ==
    /\ update # <<>> /\ lock = Free
    /\ LET signal == Head(update) IN
       peers' = IF signal.type = "Add" THEN Set(peers, signal.api, 0)
                                       ELSE Delete(peers, signal.api)
    /\ update' = <<>>
    /\ UNCHANGED <<feedVars, clientPeerCache, started, lock, routine, waiting, stops>>

TakeStop ==
    /\ Selects
    /\ waiting > 0
    /\ waiting' = waiting - 1
    /\ routine' = "stopping"
    /\ UNCHANGED <<feedVars, peers, clientPeerCache, started, lock, update, stops>>

StopAll ==
    /\ routine = "stopping" /\ lock = Free
    /\ started' = FALSE
    /\ peers' = EmptyMap
    /\ lock' = StopHandler
    /\ routine' = "ended"
    /\ UNCHANGED <<feedVars, clientPeerCache, update, waiting, stops>>

\* The holder of the lock sends its command and unlocks.  After StopAll that is
\* the last thing the routine does.
SendHeldMutant ==                            \* it keeps the lock
    /\ lock \in Commands
    /\ SendCommand(lock)
    /\ UNCHANGED managerVars
SendHeld ==
    /\ lock \in Commands
    /\ SendCommand(lock)
    /\ lock' = Free
    /\ UNCHANGED <<peers, clientPeerCache, started, routine, update, waiting, stops>>

-----------------------------------------------------------------------------
\* The calls, from any goroutine.  The first peer goes to the back.
NextPeer == IF started /\ Keys(peers) # {} THEN Head(peers.order) ELSE NoPeer

GetPeerMutant ==                             \* it loses its marks, not its turn
    /\ lock = Free
    /\ NextPeer # NoPeer
    /\ peers' = Set(peers, NextPeer, 0)
    /\ UNCHANGED <<feedVars, clientPeerCache, started, lock, routine, update, waiting, stops>>
GetPeer ==
    /\ lock = Free
    /\ NextPeer # NoPeer
    /\ peers' = MoveLast(peers, NextPeer)
    /\ UNCHANGED <<feedVars, clientPeerCache, started, lock, routine, update, waiting, stops>>

\* GetPeerPersistent's answer: the cached peer, while it is available.
AnswerMutant(client) ==                      \* available or not
    IF client \in DOMAIN clientPeerCache THEN clientPeerCache[client] ELSE NextPeer
Remembered(client) ==
    client \in DOMAIN clientPeerCache /\ clientPeerCache[client] \in Keys(peers)
Answer(client) == IF Remembered(client) THEN clientPeerCache[client] ELSE NextPeer

GetPeerPersistent(client) ==
    /\ lock = Free
    /\ NextPeer # NoPeer
    /\ ~Remembered(client)
    /\ clientPeerCache' = [c \in DOMAIN clientPeerCache \cup {client} |->
                              IF c = client THEN NextPeer ELSE clientPeerCache[c]]
    /\ peers' = MoveLast(peers, NextPeer)
    /\ UNCHANGED <<feedVars, started, lock, routine, update, waiting, stops>>

\* Calls for clients outside Client fill the cache, which forgets its oldest.
PruneCache(client) ==
    /\ lock = Free
    /\ NextPeer # NoPeer
    /\ client \in DOMAIN clientPeerCache
    /\ clientPeerCache' = Restrict(clientPeerCache, DOMAIN clientPeerCache \ {client})
    /\ peers' = MoveLast(peers, NextPeer)
    /\ UNCHANGED <<feedVars, started, lock, routine, update, waiting, stops>>

IsUnreachableMutant(marks) == marks > UnreachableMarks + 1
IsUnreachable(marks) == marks > UnreachableMarks

\* Marks older than UnreachablePeriod are dropped, so that any number stays.
MarkPeerUnreachableMutant(api) ==            \* the handler is not told
    /\ lock = Free /\ started /\ api \in Keys(peers)
    /\ \E marks \in 1..peers.value[api] + 1 :
          peers' = IF IsUnreachable(marks) THEN Delete(peers, api) ELSE Set(peers, api, marks)
    /\ UNCHANGED <<feedVars, clientPeerCache, started, lock, routine, update, waiting, stops>>
MarkPeerUnreachable(api) ==
    /\ lock = Free /\ started /\ api \in Keys(peers)
    /\ \E marks \in 1..peers.value[api] + 1 :
          IF IsUnreachable(marks)
          THEN peers' = Delete(peers, api) /\ lock' = Unreachable(api)
          ELSE peers' = Set(peers, api, marks) /\ UNCHANGED lock
    /\ UNCHANGED <<feedVars, clientPeerCache, started, routine, update, waiting, stops>>

\* Stop of a manager that is not started returns before it unlocks.
StopMutant ==                                \* unlocked when it returns
    /\ lock = Free
    /\ stops < StopCalls
    /\ stops' = stops + 1
    /\ lock' = Leaked
    /\ waiting' = IF started THEN waiting + 1 ELSE waiting
    /\ UNCHANGED <<feedVars, peers, clientPeerCache, started, routine, update>>
Stop ==
    /\ lock = Free
    /\ stops < StopCalls
    /\ stops' = stops + 1
    /\ IF started THEN waiting' = waiting + 1 /\ UNCHANGED lock
                  ELSE lock' = Leaked /\ UNCHANGED waiting
    /\ UNCHANGED <<feedVars, peers, clientPeerCache, started, routine, update>>

-----------------------------------------------------------------------------
HandlerRuns == Handler \/ SendCommand(Other)

Next ==
    \/ Start
    \/ Begin \/ TakeUpdate \/ Apply \/ TakeStop \/ StopAll
    \/ SendHeld
    \/ GetPeer \/ \E client \in Client : GetPeerPersistent(client) \/ PruneCache(client)
    \/ \E api \in Api : MarkPeerUnreachable(api)
    \/ Stop
    \/ routine # "none" /\ HandlerRuns /\ UNCHANGED managerVars

Spec == Init /\ [][Next]_vars

\* Go's locks and channels serve those who wait in the order they came, and a
\* select takes a case that is ready again and again.  Nothing makes the handler
\* end a send to itself.
FairSpec ==
    /\ Spec
    /\ WF_vars(Begin) /\ SF_vars(TakeUpdate) /\ SF_vars(Apply)
    /\ SF_vars(TakeStop) /\ SF_vars(StopAll) /\ SF_vars(SendHeld)
    /\ SF_vars(TakeCommand /\ UNCHANGED managerVars)
    /\ WF_vars(SendSignal /\ UNCHANGED managerVars)

-----------------------------------------------------------------------------
TypeOK ==
    /\ IsMap(peers, Api, 0..UnreachableMarks)
    /\ DOMAIN clientPeerCache \subseteq Client
    /\ \A client \in DOMAIN clientPeerCache : clientPeerCache[client] \in Api
    /\ started \in BOOLEAN
    /\ lock \in Commands \cup {Free, Leaked}
    /\ routine \in {"none", "starting", "select", "stopping", "ended"}
    /\ update \in Seq(Signals) /\ Len(update) <= 1
    /\ waiting \in 0..StopCalls /\ stops \in 0..StopCalls
    /\ listed \subseteq Api
    /\ commandCh \in Seq(Commands) /\ Len(commandCh) <= CommandSize
    /\ subscriberCh \in Seq(Signals) /\ Len(subscriberCh) <= SubscriberSize
    /\ sending \in Seq(Signals \cup {Own})
    /\ phase \in {"running", "closing", "ended"}

\* The handler's signals that are still to be applied, in order.
Pending == update \o subscriberCh \o sending

\* The list when they are.
Expected(api) ==
    \/ api \in Keys(peers) /\ Del(api) \notin ToSet(Pending)
    \/ \E n \in DOMAIN Pending :
          /\ Pending[n] = Add(api)
          /\ \A m \in n..Len(Pending) : Pending[m] # Del(api)

\* A report of the host is on its way to the handler.
Reported(api) == Unreachable(api) \in ToSet(commandCh) \cup {lock}

\* Through marks, hosts that come back, and reports that cross a signal for
\* the same host, the manager's list becomes the handler's once the signals
\* are applied, but for the hosts the handler is being told of.
ListFollows ==
    started => \A api \in Api : /\ Expected(api) => api \in listed
                                /\ api \in listed => Expected(api) \/ Reported(api)

\* No client is sent to a host that the handler does not list, unless its loss
\* has been signalled already, whatever host the client was sent to before
\* (manager.go:221).
AnswersListed ==
    \A client \in Client :
        LET api == Answer(client) IN
        api # NoPeer => api \in listed \/ Del(api) \in ToSet(Pending)

\* The handler waits for the manager's routine to read a signal, for ever: the
\* routine has ended, or it waits for the lock, whose holder waits for room in
\* the channel the handler reads.
HandlerStuck ==
    /\ sending # <<>> /\ Head(sending) # Own
    /\ Len(subscriberCh) = SubscriberSize
    /\ \/ routine = "ended"
       \/ /\ update # <<>> \/ routine = "stopping"
          /\ lock \in Commands /\ Len(commandCh) = CommandSize

\* The handler waits for itself (discovery.go:277).
HandlerWaits == sending # <<>> /\ Head(sending) = Own

\* Who sends to the handler with the lock held gets rid of it (manager.go:184,
\* manager.go:255), unless the handler is stuck or waits for itself for ever, and
\* its command channel is full.
LockReleased ==
    \/ lock \in Commands ~> lock = Free \/ (HandlerStuck /\ Len(commandCh) = CommandSize)
    \/ <>[](HandlerWaits /\ Len(commandCh) = CommandSize)

\* Once Stop is called the handler hears of it, through the routine's select and
\* the lock (manager.go:155), unless it is stuck or waits for itself for ever.
StopHeard ==
    \/ waiting > 0 ~> phase # "running" \/ HandlerStuck
    \/ <>[]HandlerWaits

\* While peers are asked for again and again, each one on the list has its
\* turn, whoever joins and leaves.
EveryPeerServed ==
    \A api \in Api :
        []<><<GetPeer>>_vars /\ <>[](api \in Keys(peers)) => []<>(NextPeer = api)

=============================================================================
