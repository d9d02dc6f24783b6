------------------------------ MODULE PeerFeed ------------------------------
(***************************************************************************)
(* What PeerHandler promises the PeerManager it works for, without peers,  *)
(* polls or announcements: a set of API hosts, and a signal for each one   *)
(* that joins or leaves it, in order, on a channel of limited size.        *)
(*                                                                         *)
(* Its routine does one thing at a time.  It reads nothing more before all *)
(* it has to send is sent, which takes room in the channels.               *)
(***************************************************************************)
EXTENDS Sequences, Integers

CONSTANTS
    Api,             \* API hosts (ip:port) of the peers
    CommandSize,     \* capacity of commandCh
    SubscriberSize   \* capacity of subscriberCh

ASSUME FeedAssumption == CommandSize \in Nat \ {0} /\ SubscriberSize \in Nat \ {0}

VARIABLES
    listed,          \* the API hosts its manager may send clients to
    commandCh,       \* to the routine
    subscriberCh,    \* from the routine
    sending,         \* what the routine has still to send
    phase            \* "running", "closing", "ended"

feedVars == <<listed, commandCh, subscriberCh, sending, phase>>

Add(api) == [type |-> "Add", api |-> api]
Del(api) == [type |-> "Delete", api |-> api]
Signals == [type : {"Add", "Delete"}, api : Api]
\* A send of the routine to itself.
Own == [type |-> "Own"]

Unreachable(api) == [type |-> "Unreachable", api |-> api]
StopHandler == [type |-> "Stop"]
Other == [type |-> "Other"]          \* the requests of other nodes
Commands == [type : {"Unreachable"}, api : Api] \cup {StopHandler, Other}

FeedInit ==
    /\ listed = {}
    /\ commandCh = <<>> /\ subscriberCh = <<>> /\ sending = <<>>
    /\ phase = "running"

-----------------------------------------------------------------------------
Reading == phase = "running" /\ sending = <<>>

\* A peer is found, is lost, or is found again at another API host.
Gain(api) ==
    /\ api \notin listed
    /\ listed' = listed \cup {api}
    /\ sending' = <<Add(api)>>

Lose(api) ==
    /\ api \in listed
    /\ listed' = listed \ {api}
    /\ sending' = <<Del(api)>>

Swap(from, to) ==
    /\ from \in listed /\ to \notin listed
    /\ listed' = (listed \ {from}) \cup {to}
    /\ sending' = <<Del(from), Add(to)>>

PeerChange ==
    /\ Reading
    /\ \E a, b \in Api : Gain(a) \/ Lose(a) \/ Swap(a, b)
    /\ UNCHANGED <<commandCh, subscriberCh, phase>>

TakeCommand ==
    /\ Reading
    /\ commandCh # <<>>
    /\ commandCh' = Tail(commandCh)
    /\ LET command == Head(commandCh) IN
       \/ command.type = "Unreachable" /\ Lose(command.api) /\ UNCHANGED phase
       \/ /\ command.type = "Unreachable" /\ command.api \notin listed
          /\ UNCHANGED <<listed, sending, phase>>
       \/ /\ command = Other
          /\ sending' \in {<<>>, <<Own>>}
          /\ UNCHANGED <<listed, phase>>
       \/ command = StopHandler /\ phase' = "closing" /\ UNCHANGED <<listed, sending>>
    /\ UNCHANGED subscriberCh

SendSignal ==
    /\ sending # <<>> /\ Head(sending) # Own
    /\ Len(subscriberCh) < SubscriberSize
    /\ subscriberCh' = Append(subscriberCh, Head(sending))
    /\ sending' = Tail(sending)
    /\ UNCHANGED <<listed, commandCh, phase>>

\* It may never happen: the routine waits for room in a channel that only it
\* reads (discovery.go:277).
SendOwn ==
    /\ sending # <<>> /\ Head(sending) = Own
    /\ sending' = Tail(sending)
    /\ UNCHANGED <<listed, commandCh, subscriberCh, phase>>

End ==
    /\ phase = "closing"
    /\ phase' = "ended"
    /\ UNCHANGED <<listed, commandCh, subscriberCh, sending>>

Handler == PeerChange \/ TakeCommand \/ SendSignal \/ SendOwn \/ End

-----------------------------------------------------------------------------
\* The other side: PeerManager and the HTTP server.
SendCommand(command) ==
    /\ Len(commandCh) < CommandSize
    /\ commandCh' = Append(commandCh, command)
    /\ UNCHANGED <<listed, subscriberCh, sending, phase>>

TakeSignal ==
    /\ subscriberCh # <<>>
    /\ subscriberCh' = Tail(subscriberCh)
    /\ UNCHANGED <<listed, commandCh, sending, phase>>

FeedNext == Handler \/ TakeSignal \/ \E command \in Commands : SendCommand(command)

FeedSpec == FeedInit /\ [][FeedNext]_feedVars

=============================================================================
