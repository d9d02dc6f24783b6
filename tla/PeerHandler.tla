---------------------------- MODULE PeerHandler -----------------------------
(***************************************************************************)
(* peers/discovery.go, with Peer of peers.go, the short routines of        *)
(* routines.go and the HTTP handlers of handlers.go: the routine that      *)
(* finds other nodes, polls their status, and signals to PeerManager which *)
(* of them answer balance requests.                                        *)
(*                                                                         *)
(* Only this routine reads or writes its peers (but for the discovered     *)
(* flag), so it computes the outcome of a message at once and then sends   *)
(* what is in "sending", waiting for room where the code does.  The nodes  *)
(* it talks to, its manager and the timers are the environment.            *)
(***************************************************************************)
EXTENDS Resolver, OrderedMap

CONSTANTS
    Api,             \* API hosts (ip:port)
    Answers,         \* statuses the node at a peer host may report
    Requests,        \* requests of other nodes: Status, PeerList, announcements
    Mentioned,       \* what the peer lists of other nodes hold, hosts or not
    Seeds,           \* SeedNodes: hosts and names
    LocalHosts,      \* hosts with one of this machine's own ips
    AllowLocalIP,
    PeerMaxRetries,
    CommandSize,     \* capacity of commandCh
    SubscriberSize,  \* capacity of subscriberCh
    StatusSize,      \* capacity of statusUpdateCh
    Tickers,         \* the timers whose period is short enough to fire
    MayStop,         \* whether the manager stops the handler
    AskLimit         \* bound: requests for a status, a list or an announcement at a time

NoApi == "none"      \* the API host of a peer that has not been contacted

\* A reported status: the peer host and the API host that its ports give with
\* the ip of the one that reports it, and its mode.
Status == [host : Host, api : Api, mode : {"full", "seed", "loadbalance"}]

ASSUME HandlerAssumption ==
    /\ Answers \in [Host -> SUBSET Status]
    /\ Requests \subseteq
          [type : {"PeerList", "Status"}] \cup [type : {"Announcement"}, status : Status]
    /\ Mentioned \subseteq Host \cup Name
    /\ Seeds \subseteq Host \cup Name
    /\ IsFiniteSet(Seeds) /\ Cardinality(Seeds) <= RequestSize
    /\ LocalHosts \subseteq Host
    /\ AllowLocalIP \in BOOLEAN /\ MayStop \in BOOLEAN
    /\ Tickers \subseteq {"status", "list", "announce"}
    /\ PeerMaxRetries \in Nat \ {0}
    /\ CommandSize \in Nat \ {0} /\ SubscriberSize \in Nat \ {0} /\ StatusSize \in Nat \ {0}
    /\ NoApi \notin Api

VARIABLES
    peers,           \* peers by peer host, in the order of their turns
    apiHostIdx,      \* API host to peer host
    asking,          \* hosts whose status is being requested
    listing,         \* hosts whose peer list is being requested
    telling,         \* hosts this node is being announced to
    statusUpdateCh,
    commandCh,
    subscriberCh,
    sending,         \* what the routine has still to send
    http,            \* a request: Idle, the command it sends, Waiting
    phase            \* "running"; "closing", "shutdown": in shutdown(); "ended"

indexVars == <<peers, apiHostIdx, telling>>
requestVars == <<asking, listing>>
channelVars == <<statusUpdateCh, commandCh, subscriberCh>>
vars == <<indexVars, requestVars, channelVars, sending, http, phase, resolverVars>>

Signal(type, api) == [type |-> type, api |-> api]
Update(host, answer) == [type |-> "Update", host |-> host, answer |-> answer]
Failure(host) == Update(host, {})
Updates == {Update(h, {s}) : h \in Host, s \in Status} \cup {Failure(h) : h \in Host}
Idle == [type |-> "Idle"]
Waiting == [type |-> "Waiting"]
Commands == Requests \cup [type : {"Unreachable"}, api : Api] \cup [type : {"Stop"}]

Peer == [api : Api \cup {NoApi}, mode : {"full", "seed", "loadbalance", "unknown"},
         status : {"reachable", "unreachable", "unknown"}, retries : 0..PeerMaxRetries,
         discovered : BOOLEAN]
NewPeer == [api |-> NoApi, mode |-> "unknown", status |-> "unknown", retries |-> 0,
            discovered |-> FALSE]

Known(host) == host \in Keys(peers)
IsReachable(peer) == peer.status = "reachable"
IsListed(peer) == IsReachable(peer) /\ peer.mode = "full"

Init ==
    /\ ResolverInit(CHOOSE seeds \in SetToSeqs(Seeds) : TRUE)
    /\ peers = EmptyMap /\ apiHostIdx = <<>> /\ telling = {}
    /\ asking = <<>> /\ listing = <<>>
    /\ statusUpdateCh = <<>> /\ commandCh = <<>> /\ subscriberCh = <<>>
    /\ sending = <<>>
    /\ http = Idle
    /\ phase = "running"

-----------------------------------------------------------------------------
\* What the helpers do, to a table of what they change.
Table == [peers |-> peers, index |-> apiHostIdx, telling |-> telling, sends |-> <<>>]

\* The sends of delPeer and markPeerUnreachable.
Withdrawn(peer) == IF IsListed(peer) THEN <<Signal("Delete", peer.api)>> ELSE <<>>

DelPeerMutant(table, host) ==                \* the index keeps the old host
    IF host \notin Keys(table.peers) THEN table
    ELSE [table EXCEPT !.peers = Delete(@, host), !.telling = @ \ {host},
                       !.sends = @ \o Withdrawn(table.peers.value[host])]
DelPeer(table, host) ==
    IF host \notin Keys(table.peers) THEN table
    ELSE LET peer == table.peers.value[host] IN
         [peers |-> Delete(table.peers, host),
          index |-> Restrict(table.index, DOMAIN table.index \ {peer.api}),
          telling |-> table.telling \ {host},
          sends |-> table.sends \o Withdrawn(peer)]

AddPeer(table, host, peer) ==
    LET free == DelPeer(table, host) IN [free EXCEPT !.peers = Set(@, host, peer)]

ExhaustedMutant(peer) == peer.retries > PeerMaxRetries + 1
Exhausted(peer) == peer.retries > PeerMaxRetries

MarkPeerUnreachableMutant(table, host) ==    \* still reachable
    IF host \notin Keys(table.peers) THEN table
    ELSE LET peer == table.peers.value[host] IN
         [table EXCEPT !.sends = @ \o Withdrawn(peer)]
MarkPeerUnreachable(table, host) ==
    IF host \notin Keys(table.peers) THEN table
    ELSE LET peer == table.peers.value[host]
             failed == [peer EXCEPT !.retries = @ + 1,
                                    !.status = IF IsReachable(peer) THEN "unreachable" ELSE @]
             marked == [table EXCEPT !.peers = Set(@, host, failed),
                                     !.sends = @ \o Withdrawn(peer)]
         IN  IF Exhausted(failed) THEN DelPeer(marked, host) ELSE marked

\* Equal compares the ports of the status with those of the peer; a peer that
\* differs is replaced, at the peer host that the status names.
SetPeerStatus(table, host, status) ==
    IF host \notin Keys(table.peers) THEN table
    ELSE LET old == table.peers.value[host]
             same == status.host = host /\ status.api = old.api
             kept == IF same THEN table ELSE AddPeer(table, status.host, NewPeer)
             peer == [(IF same THEN old ELSE NewPeer) EXCEPT
                          !.api = status.api, !.mode = status.mode,
                          !.status = "reachable", !.retries = 0]
             found == status.mode = "full" /\ (~same \/ ~IsReachable(old))
         IN  [kept EXCEPT
                  !.peers = Set(@, status.host, peer),
                  !.index = [a \in DOMAIN @ \cup {status.api} |->
                                 IF a = status.api THEN status.host ELSE @[a]],
                  !.sends = IF found THEN Append(@, Signal("Add", status.api)) ELSE @]

\* Put the table back.
Becomes(table) ==
    /\ peers' = table.peers
    /\ apiHostIdx' = table.index
    /\ telling' = table.telling
    /\ sending' = table.sends

-----------------------------------------------------------------------------
\* peerDiscoveryRoutine: one action per case of the select.
Reading == phase = "running" /\ sending = <<>>

\* The handler of the request is waiting for the answer.
AnswerRequest(command) ==
    /\ command.type \in {"PeerList", "Status"}
    /\ http' = Idle
    /\ UNCHANGED <<indexVars, sending, phase>>

\* The announcement goes through statusUpdateCh, back to this routine.
TakeAnnouncement(command) ==
    /\ command.type = "Announcement"
    /\ LET host == command.status.host
           added == IF Known(host) THEN Table ELSE AddPeer(Table, host, NewPeer)
           known == [added.peers.value[host] EXCEPT !.discovered = TRUE]
       IN  Becomes([added EXCEPT !.peers = Set(@, host, known),
                                 !.sends = <<Update(host, {command.status})>>])
    /\ UNCHANGED <<http, phase>>

TakeUnreachable(command) ==
    /\ command.type = "Unreachable"
    /\ IF command.api \in DOMAIN apiHostIdx
       THEN Becomes(MarkPeerUnreachable(Table, apiHostIdx[command.api]))
       ELSE UNCHANGED <<indexVars, sending>>
    /\ UNCHANGED <<http, phase>>

TakeStop(command) ==
    /\ command.type = "Stop"
    /\ phase' = "closing"
    /\ UNCHANGED <<indexVars, sending, http>>

TakeCommand ==
    /\ Reading
    /\ commandCh # <<>>
    /\ commandCh' = Tail(commandCh)
    /\ LET command == Head(commandCh) IN
       \/ AnswerRequest(command) \/ TakeAnnouncement(command)
       \/ TakeUnreachable(command) \/ TakeStop(command)
    /\ UNCHANGED <<requestVars, statusUpdateCh, subscriberCh, resolverVars>>

\* A resolved host is only added if it is new and not this machine.
TakeResolved ==
    /\ Reading
    /\ responses # <<>>
    /\ responses' = Tail(responses)
    /\ LET host == Head(responses) IN
       IF ~Known(host) /\ (AllowLocalIP \/ host \notin LocalHosts)
       THEN Becomes(AddPeer(Table, host, NewPeer))
       ELSE UNCHANGED <<indexVars, sending>>
    /\ UNCHANGED <<requestVars, channelVars, http, phase, hosts, requests, resolved, resolver>>

TakeUpdate ==
    /\ Reading
    /\ statusUpdateCh # <<>>
    /\ statusUpdateCh' = Tail(statusUpdateCh)
    /\ LET update == Head(statusUpdateCh) IN
       \/ update.answer = {} /\ Becomes(MarkPeerUnreachable(Table, update.host))
       \/ \E status \in update.answer : Becomes(SetPeerStatus(Table, update.host, status))
    /\ UNCHANGED <<requestVars, commandCh, subscriberCh, http, phase, resolverVars>>

Asked == Len(asking) + Len(listing) + Cardinality(telling)

\* The peer whose turn it is goes to the back.
FirstOf(preferred, others) ==
    LET turns == IF preferred # {} THEN preferred ELSE others
    IN  peers.order[CHOOSE n \in turns : \A m \in turns : n <= m]
ToBack(host) ==
    /\ peers' = MoveLast(peers, host)
    /\ UNCHANGED <<apiHostIdx, channelVars, sending, http, phase, resolverVars>>

\* getNextStatusUpdatePeer: a peer never contacted first.
NextStatusPeer ==
    FirstOf(Passing(peers, LAMBDA p : p.status = "unknown"), DOMAIN peers.order)
StatusTick ==
    /\ Reading /\ "status" \in Tickers
    /\ peers.order # <<>>
    /\ Asked < AskLimit
    /\ asking' = Append(asking, NextStatusPeer)
    /\ ToBack(NextStatusPeer)
    /\ UNCHANGED <<listing, telling>>

\* getNextListPeer: a seed node first.
SeedPeers == Passing(peers, LAMBDA p : p.mode = "seed")
ReachablePeers == Passing(peers, IsReachable)
ListTick ==
    /\ Reading /\ "list" \in Tickers
    /\ SeedPeers # {} \/ ReachablePeers # {}
    /\ Asked < AskLimit
    /\ LET host == FirstOf(SeedPeers, ReachablePeers)
       IN  listing' = Append(listing, host) /\ ToBack(host)
    /\ UNCHANGED <<asking, telling>>

\* getNextAnnouncePeer
UndiscoveredPeers == Passing(peers, LAMBDA p : ~p.discovered)
AnnounceTick ==
    /\ Reading /\ "announce" \in Tickers
    /\ UndiscoveredPeers # {}
    /\ Asked < AskLimit
    /\ LET host == FirstOf(UndiscoveredPeers, {})
       IN  telling' = telling \cup {host} /\ ToBack(host)
    /\ UNCHANGED requestVars

\* The sends of a handled message.
SendSignal ==
    /\ sending # <<>> /\ Head(sending).type # "Update"
    /\ Len(subscriberCh) < SubscriberSize
    /\ subscriberCh' = Append(subscriberCh, Head(sending))
    /\ sending' = Tail(sending)
    /\ UNCHANGED <<indexVars, requestVars, statusUpdateCh, commandCh, http, phase, resolverVars>>

SendUpdateMutant == FALSE                    \* statusUpdateCh without a buffer
SendUpdate ==
    /\ sending # <<>> /\ Head(sending).type = "Update"
    /\ Len(statusUpdateCh) < StatusSize
    /\ statusUpdateCh' = Append(statusUpdateCh, Head(sending))
    /\ sending' = Tail(sending)
    /\ UNCHANGED <<indexVars, requestVars, commandCh, subscriberCh, http, phase, resolverVars>>

\* shutdown: the resolver takes the signal in its select, and the HTTP server
\* waits for the requests it has accepted.
StopResolver ==
    /\ phase = "closing"
    /\ CloseResolver
    /\ phase' = "shutdown"
    /\ UNCHANGED <<indexVars, requestVars, channelVars, sending, http>>

HttpShutdown ==
    /\ phase = "shutdown"
    /\ http = Idle
    /\ phase' = "ended"
    /\ UNCHANGED <<indexVars, requestVars, channelVars, sending, http, resolverVars>>

Routine ==
    \/ TakeCommand \/ TakeResolved \/ TakeUpdate
    \/ SendSignal \/ SendUpdate \/ StopResolver \/ HttpShutdown

-----------------------------------------------------------------------------
\* getPeerStatusRoutine: the node answers or does not, and the routine waits
\* for room for its result.
StatusAnswer ==
    /\ Len(statusUpdateCh) < StatusSize
    /\ \E n \in DOMAIN asking :
          /\ asking' = RemoveAt(asking, n)
          /\ \/ statusUpdateCh' = Append(statusUpdateCh, Failure(asking[n]))
             \/ \E status \in Answers[asking[n]] :
                   statusUpdateCh' = Append(statusUpdateCh, Update(asking[n], {status}))
    /\ UNCHANGED <<indexVars, listing, commandCh, subscriberCh, sending, http, phase,
                   resolverVars>>

\* getPeerListRoutine: the strings of the answer, one after the other.
ListAnswer ==
    /\ \E n \in DOMAIN listing :
          \/ listing' = RemoveAt(listing, n) /\ UNCHANGED requests
          \/ /\ \E hostname \in Mentioned : requests' = Append(requests, hostname)
             /\ UNCHANGED listing
    /\ Len(requests') <= RequestSize
    /\ UNCHANGED <<indexVars, asking, channelVars, sending, http, phase, hosts, responses,
                   resolved, resolver>>

\* announcePeerRoutine.  A peer replaced meanwhile keeps its own flag: the
\* routine holds the old one.
AnnounceAnswer ==
    /\ \E host \in telling :
          /\ telling' = telling \ {host}
          /\ \/ UNCHANGED peers
             \/ peers' = [peers EXCEPT !.value[host].discovered = TRUE]
    /\ UNCHANGED <<apiHostIdx, requestVars, channelVars, sending, http, phase, resolverVars>>

\* The HTTP handlers: a request becomes a command, and waits for its answer.
\* The bound is one request at a time.
HttpRequest ==
    /\ http = Idle
    /\ phase \in {"running", "closing"}
    /\ http' \in Requests
    /\ UNCHANGED <<indexVars, requestVars, channelVars, sending, phase, resolverVars>>

HttpSend ==
    /\ http \in Requests
    /\ Len(commandCh) < CommandSize
    /\ commandCh' = Append(commandCh, http)
    /\ http' = IF http.type = "Announcement" THEN Idle ELSE Waiting
    /\ UNCHANGED <<indexVars, requestVars, statusUpdateCh, subscriberCh, sending, phase,
                   resolverVars>>

\* PeerManager: it takes the signals, reports API hosts, and stops the handler
\* once.  Its routine may take no more signals: it ends with that stop, and it
\* waits for a lock that a report holds (manager.go:180, manager.go:255).
ManagerSends(command) ==
    /\ Len(commandCh) < CommandSize
    /\ commandCh' = Append(commandCh, command)
    /\ UNCHANGED <<indexVars, requestVars, statusUpdateCh, subscriberCh, sending, http, phase,
                   resolverVars>>
MarkUnreachable(api) == ManagerSends([type |-> "Unreachable", api |-> api])
Stop ==
    /\ MayStop
    /\ phase = "running" /\ [type |-> "Stop"] \notin ToSet(commandCh)
    /\ ManagerSends([type |-> "Stop"])
TakeSignal ==
    /\ subscriberCh # <<>>
    /\ subscriberCh' = Tail(subscriberCh)
    /\ UNCHANGED <<indexVars, requestVars, statusUpdateCh, commandCh, sending, http, phase,
                   resolverVars>>

Resolve == ResolverStep /\ UNCHANGED <<indexVars, requestVars, channelVars, sending, http, phase>>
Manager == TakeSignal \/ Stop \/ \E api \in Api : MarkUnreachable(api)

Next ==
    \/ Routine \/ StatusTick \/ ListTick \/ AnnounceTick
    \/ StatusAnswer \/ ListAnswer \/ AnnounceAnswer
    \/ HttpRequest \/ HttpSend
    \/ Resolve
    \/ Manager

Spec == Init /\ [][Next]_vars

\* Go chooses at random among the cases of a select that are ready: a case
\* that is ready again and again is taken.  Nothing is assumed of the other
\* nodes, but that a request ends (its client has a timeout), and nothing of the
\* manager, neither that it reads its channel nor that it reports or stops.
handlerVars == <<indexVars, requestVars, channelVars, sending, http, phase>>
FairSpec ==
    /\ Spec
    /\ WF_vars(SendSignal) /\ WF_vars(SendUpdate) /\ WF_vars(HttpShutdown)
    /\ SF_vars(TakeCommand) /\ SF_vars(TakeResolved) /\ SF_vars(TakeUpdate)
    /\ SF_vars(StatusTick) /\ SF_vars(StopResolver)
    /\ SF_vars(StatusAnswer) /\ WF_vars(HttpSend)
    /\ SF_vars(TakeName /\ UNCHANGED handlerVars)
    /\ SF_vars(LookUp /\ UNCHANGED handlerVars)
    /\ WF_vars(SendHost /\ UNCHANGED handlerVars)

-----------------------------------------------------------------------------
TypeOK ==
    /\ IsMap(peers, Host, Peer)
    /\ apiHostIdx \in [DOMAIN apiHostIdx -> Host] /\ DOMAIN apiHostIdx \subseteq Api
    /\ telling \subseteq Keys(peers)
    /\ asking \in Seq(Host) /\ listing \in Seq(Host)
    /\ statusUpdateCh \in Seq(Updates) /\ Len(statusUpdateCh) <= StatusSize
    /\ commandCh \in Seq(Commands) /\ Len(commandCh) <= CommandSize
    /\ subscriberCh \in Seq([type : {"Add", "Delete"}, api : Api])
    /\ http \in {Idle, Waiting} \cup Requests
    /\ phase \in {"running", "closing", "shutdown", "ended"}
    /\ resolved \subseteq Host /\ responses \in Seq(Host)

\* The API hosts that answer balance requests, as far as the routine knows.
Listed == {peers.value[h].api : h \in {g \in Keys(peers) : IsListed(peers.value[g])}}

FeedCommands == [n \in DOMAIN commandCh |->
                    IF commandCh[n] \in Requests THEN [type |-> "Other"] ELSE commandCh[n]]
FeedSending == [n \in DOMAIN sending |->
                   IF sending[n].type = "Update" THEN [type |-> "Own"] ELSE sending[n]]
FeedPhase == IF phase = "shutdown" THEN "closing" ELSE phase

Feed == INSTANCE PeerFeed WITH
    listed <- Listed, commandCh <- FeedCommands, sending <- FeedSending, phase <- FeedPhase

\* While every node keeps its peer port and its mode, the signals on the
\* manager's channel are those of the reachable full peers joining and leaving,
\* through API ports that change, reports and discarded peers (discovery.go:422).
ImplementsFeed == Feed!FeedSpec

\* The routine waits for room in the channel that only it reads.
SelfBlocked ==
    /\ sending # <<>> /\ Head(sending).type = "Update"
    /\ Len(statusUpdateCh) = StatusSize

\* The routine waits for the manager to read a signal.
SignalBlocked ==
    /\ sending # <<>> /\ Head(sending).type # "Update"
    /\ Len(subscriberCh) = SubscriberSize

\* Every command is taken from the channel, unless the routine waits for itself
\* for ever (discovery.go:277), or for its manager (discovery.go:398, :412, :449),
\* or has been stopped: no stream of polls, answers or hosts keeps it from one.
CommandsTaken ==
    \/ []<>(commandCh = <<>>)
    \/ <>[]SelfBlocked
    \/ <>[]SignalBlocked
    \/ <>[](phase # "running")

ResolverBlocked == resolved # {} /\ Len(responses) = ResponseSize

\* A stop ends the routine, unless the resolver waits for it to read a host
\* (discovery.go:371) or an HTTP request for it to answer (discovery.go:372).
ShutdownEnds ==
    phase = "closing" ~> \/ phase = "ended"
                         \/ ResolverBlocked
                         \/ http = Waiting
                         \/ http # Idle /\ Len(commandCh) = CommandSize

\* No answer of a host is on its way to the routine.
Silent(host) ==
    \A update \in ToSet(statusUpdateCh) \cup {m \in ToSet(sending) : m.type = "Update"} :
        update.host = host => update.answer = {}

\* A peer that answers no more is not held reachable, as every peer has its
\* turn; unless hosts never contacted keep coming, which are asked first
\* (discovery.go:553), or the routine waits for itself or for its manager for
\* ever, or has been stopped.
DeadPeerLeaves ==
    \A h \in Host :
        <>[]Silent(h) =>
            \/ <>[](Known(h) => ~IsReachable(peers.value[h]))
            \/ []<>(\E g \in Keys(peers) : peers.value[g].status = "unknown")
            \/ <>[](SelfBlocked \/ SignalBlocked \/ phase # "running")

\* A name is found or given up: the others that fail do not keep it waiting, and
\* it does not stay for ever.  Not so when the handler reads no hosts any more,
\* or when other nodes ask for names again and again: a name asked for starts
\* again without failures (resolve.go:81), before those that have some.
NamesSettled ==
    \A name \in Name :
        <>[](name \in DOMAIN hosts) =>
            \/ <>[](ResolverBlocked \/ resolver = "closed")
            \/ []<><<TakeName /\ Head(requests) \in Name>>_vars

-----------------------------------------------------------------------------
\* What the comments say and the code does not do.

\* manager.go:84: the updates are those on the available peers.
UpdatesTellAvailable ==
    [][/\ \A api \in Listed' \ Listed : Signal("Add", api) \in ToSet(sending')
       /\ \A api \in Listed \ Listed' : Signal("Delete", api) \in ToSet(sending')]_vars

=============================================================================
