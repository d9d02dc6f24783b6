------------------------------ MODULE Resolver ------------------------------
(***************************************************************************)
(* peers/resolve.go: the routine that turns the names of peers into hosts. *)
(*                                                                         *)
(* A host (ip:port) is handed back as it is.  A name is looked up at the   *)
(* ticks of a timer, one name per tick, the one with the fewest failures   *)
(* first, until it is found or has failed too often.                       *)
(***************************************************************************)
EXTENDS Sequences, SequencesExt, Integers

CONSTANTS
    Host,            \* peer hosts (ip:port)
    Name,            \* names that have to be looked up
    HostsOf,         \* hosts a look-up of a name may return; {} if it fails
    RequestSize,     \* capacity of resolveRequestCh
    ResponseSize,    \* capacity of resolveResponseCh
    LookupMaxRetries

ASSUME ResolverAssumption ==
    /\ Host \cap Name = {}
    /\ HostsOf \in [Name -> SUBSET Host]
    /\ RequestSize \in Nat \ {0} /\ ResponseSize \in Nat \ {0}
    /\ LookupMaxRetries \in Nat

VARIABLES
    hosts,           \* failed look-ups of each name still to be resolved
    requests,        \* resolveRequestCh
    responses,       \* resolveResponseCh
    resolved,        \* a host the routine is sending, or none
    resolver         \* "select" or "closed"

resolverVars == <<hosts, requests, responses, resolved, resolver>>

ResolverInit(seeds) ==
    /\ hosts = <<>>
    /\ requests = seeds
    /\ responses = <<>>
    /\ resolved = {}
    /\ resolver = "select"

ResolverReads == resolver = "select" /\ resolved = {}

\* A name asked for again starts again.
TakeName ==
    /\ ResolverReads
    /\ requests # <<>>
    /\ requests' = Tail(requests)
    /\ LET name == Head(requests) IN
       IF name \in Name
       THEN /\ hosts' = [n \in DOMAIN hosts \cup {name} |-> IF n = name THEN 0 ELSE hosts[n]]
            /\ UNCHANGED resolved
       ELSE resolved' = {name} /\ UNCHANGED hosts
    /\ UNCHANGED <<responses, resolver>>

\* getNextHostname
NextNames == {name \in DOMAIN hosts : \A other \in DOMAIN hosts : hosts[name] <= hosts[other]}

Forget(name) == Restrict(hosts, DOMAIN hosts \ {name})

\* doResolve
LookUpMutant ==                              \* starts again instead of giving up
    /\ ResolverReads
    /\ \E name \in NextNames :
          \/ \E host \in HostsOf[name] : hosts' = Forget(name) /\ resolved' = {host}
          \/ /\ hosts' = [hosts EXCEPT ![name] = IF @ >= LookupMaxRetries THEN 0 ELSE @ + 1]
             /\ UNCHANGED resolved
    /\ UNCHANGED <<requests, responses, resolver>>
LookUp ==
    /\ ResolverReads
    /\ \E name \in NextNames :
          \/ \E host \in HostsOf[name] : hosts' = Forget(name) /\ resolved' = {host}
          \/ /\ hosts' = IF hosts[name] >= LookupMaxRetries THEN Forget(name)
                         ELSE [hosts EXCEPT ![name] = @ + 1]
             /\ UNCHANGED resolved
    /\ UNCHANGED <<requests, responses, resolver>>

SendHost ==
    /\ resolved # {}
    /\ Len(responses) < ResponseSize
    /\ \E host \in resolved : responses' = Append(responses, host)
    /\ resolved' = {}
    /\ UNCHANGED <<hosts, requests, resolver>>

ResolverStep == TakeName \/ LookUp \/ SendHost

\* The rendezvous on resolveCloseCh.
CloseResolverMutant ==                       \* only looked at after a request
    /\ ResolverReads
    /\ requests # <<>>
    /\ resolver' = "closed"
    /\ UNCHANGED <<hosts, requests, responses, resolved>>
CloseResolver ==
    /\ ResolverReads
    /\ resolver' = "closed"
    /\ UNCHANGED <<hosts, requests, responses, resolved>>

=============================================================================
