------------------------- MODULE PeerHandlerProofs --------------------------
(***************************************************************************)
(* PeerHandler keeps its types, and implements PeerFeed while the nodes    *)
(* are stable, for every set of hosts, every answer and announcement, and  *)
(* every capacity.                                                         *)
(***************************************************************************)
EXTENDS PeerHandler, SequenceTheorems, FiniteSetTheorems, WellFoundedInduction, TLAPS

\* What other nodes say of themselves, when asked or on their own.
Answered == UNION {Answers[h] : h \in Host}
Announced == {r.status : r \in {q \in Requests : q.type = "Announcement"}}
Reported == Answered \cup Announced

\* Nodes may come back at another API port and may stay silent; they keep
\* their peer port and their mode, and no API host is that of two nodes.
StableNodes ==
    /\ \A h \in Host : \A s \in Answers[h] : s.host = h
    /\ \A s, t \in Reported : /\ s.host = t.host => s.mode = t.mode
                              /\ s.api = t.api => s.host = t.host

-----------------------------------------------------------------------------
\* The inductive invariant.  What the routine holds of a peer was reported by
\* that node, and nothing else.
PeerFields == [api : Api \cup {NoApi}, mode : {"full", "seed", "loadbalance", "unknown"},
               status : {"reachable", "unreachable", "unknown"}, retries : Nat,
               discovered : BOOLEAN]

Believed(host, peer) ==
    /\ peer \in PeerFields
    /\ peer.api = NoApi => ~IsReachable(peer)
    /\ peer.api # NoApi =>
          \E s \in Reported : s.host = host /\ s.api = peer.api /\ s.mode = peer.mode

PeersOK(map) ==
    /\ map = [order |-> map.order, value |-> map.value]
    /\ map.order \in Seq(Host)
    /\ Keys(map) \subseteq Host
    /\ \A h \in Keys(map) : Believed(h, map.value[h])

\* The index has the API host of every contacted peer, and of no other.
IndexOK(map, index) ==
    /\ DOMAIN index \subseteq Api
    /\ \A a \in DOMAIN index : index[a] \in Keys(map) /\ map.value[index[a]].api = a
    /\ \A h \in Keys(map) : map.value[h].api # NoApi =>
          map.value[h].api \in DOMAIN index /\ index[map.value[h].api] = h

\* The messages that may be under way.
Results == {Update(s.host, {s}) : s \in Reported} \cup {Failure(h) : h \in Host}
Sends == {Update(s.host, {s}) : s \in Reported} \cup [type : {"Add", "Delete"}, api : Api]

MessagesOK ==
    /\ asking \in Seq(Host)
    /\ statusUpdateCh \in Seq(Results)
    /\ commandCh \in Seq(Commands)
    /\ sending \in Seq(Sends)
    /\ http \in {Idle, Waiting} \cup Requests

HostsOK ==
    /\ DOMAIN hosts \subseteq Name
    /\ requests \in Seq(Host \cup Name)
    /\ resolved \subseteq Host
    /\ responses \in Seq(Host)

Inv == PeersOK(peers) /\ IndexOK(peers, apiHostIdx) /\ MessagesOK /\ HostsOK

-----------------------------------------------------------------------------
\* The map keeps its shape.
LEMMA RemoveSeq ==
    ASSUME NEW K, NEW seq \in Seq(K), NEW n \in DOMAIN seq
    PROVE  RemoveAt(seq, n) \in Seq(K)
<1> DEFINE N == Len(seq)
           a == SubSeq(seq, 1, n - 1)
           b == SubSeq(seq, n + 1, N)
<1>1. N \in Nat /\ n \in 1..N /\ \A m \in 1..N : seq[m] \in K
  BY LenProperties, ElementOfSeq
<1>2. RemoveAt(seq, n) = a \o b
  BY DEF RemoveAt
<1> HIDE DEF N
<1>3. a \in Seq(K)
  <2>1. 1 \in Int /\ n - 1 \in Int /\ \A m \in 1..(n - 1) : seq[m] \in K
    BY <1>1
  <2> QED
    BY <2>1, SubSeqProperties
<1>4. b \in Seq(K)
  <2>1. n + 1 \in Int /\ N \in Int /\ \A m \in (n + 1)..N : seq[m] \in K
    BY <1>1
  <2> QED
    BY <2>1, SubSeqProperties
<1> HIDE DEF a, b
<1> QED
  BY <1>2, <1>3, <1>4, ConcatProperties

LEMMA WithoutSeq ==
    ASSUME NEW K, NEW order \in Seq(K), NEW key
    PROVE  Without(order, key) \in Seq(K)
<1> DEFINE n == CHOOSE m \in DOMAIN order : order[m] = key
<1>1. CASE key \in ToSet(order)
  <2>1. n \in DOMAIN order
    BY <1>1 DEF ToSet
  <2> QED
    BY <1>1, <2>1, RemoveSeq DEF Without
<1> QED
  BY <1>1 DEF Without

\* The API hosts of the peers of a map that answer.
ListedIn(map) == {map.value[h].api : h \in {g \in Keys(map) : IsListed(map.value[g])}}

LEMMA ListedIndex ==
    ASSUME NEW map, NEW index, PeersOK(map), IndexOK(map, index)
    PROVE  /\ ListedIn(map) \subseteq Api
           /\ \A a : a \in ListedIn(map) <=> a \in DOMAIN index /\ IsListed(map.value[index[a]])
           /\ \A h \in Keys(map) : map.value[h].api \in ListedIn(map) <=> IsListed(map.value[h])
<1>1. ASSUME NEW h \in Keys(map), IsListed(map.value[h])
      PROVE  /\ map.value[h].api # NoApi
             /\ map.value[h].api \in DOMAIN index /\ index[map.value[h].api] = h
  BY <1>1 DEF PeersOK, IndexOK, Believed, IsListed
<1>2. ASSUME NEW a \in ListedIn(map)
      PROVE  a \in DOMAIN index /\ IsListed(map.value[index[a]])
  <2>1. PICK h \in Keys(map) : IsListed(map.value[h]) /\ a = map.value[h].api
    BY DEF ListedIn
  <2> QED
    BY <1>1, <2>1
<1>3. ASSUME NEW a \in DOMAIN index, IsListed(map.value[index[a]]) PROVE a \in ListedIn(map)
  BY <1>3 DEF IndexOK, ListedIn
<1>4. ASSUME NEW h \in Keys(map), map.value[h].api \in ListedIn(map)
      PROVE  IsListed(map.value[h])
  <2>1. PICK g \in Keys(map) : IsListed(map.value[g]) /\ map.value[g].api = map.value[h].api
    BY <1>4 DEF ListedIn
  <2>2. g = h
    BY <1>1, <2>1 DEF IndexOK
  <2> QED
    BY <2>1, <2>2
<1>5. ASSUME NEW h \in Keys(map), IsListed(map.value[h])
      PROVE  map.value[h].api \in ListedIn(map)
  BY <1>5 DEF ListedIn
<1> QED
  BY <1>2, <1>3, <1>4, <1>5 DEF IndexOK

\* What the operations of the map do to its peers.
LEMMA SetPeer ==
    ASSUME NEW map, PeersOK(map), NEW host \in Host, NEW peer, Believed(host, peer)
    PROVE  /\ PeersOK(Set(map, host, peer))
           /\ Keys(Set(map, host, peer)) = Keys(map) \cup {host}
           /\ Set(map, host, peer).value[host] = peer
           /\ \A h \in Keys(map) : h # host => Set(map, host, peer).value[h] = map.value[h]
<1> DEFINE m == Set(map, host, peer)
<1>1. /\ m = [order |-> m.order, value |-> m.value]
      /\ Keys(m) = Keys(map) \cup {host}
      /\ m.value[host] = peer
      /\ \A h \in Keys(map) : h # host => m.value[h] = map.value[h]
  BY DEF Set, Keys
<1>2. m.order \in Seq(Host)
  <2>1. m.order = IF host \in Keys(map) THEN map.order ELSE Append(map.order, host)
    BY DEF Set
  <2>2. map.order \in Seq(Host) /\ Append(map.order, host) \in Seq(Host)
    BY AppendProperties DEF PeersOK
  <2> QED
    BY <2>1, <2>2
<1> HIDE DEF m
<1>3. PeersOK(m)
  BY <1>1, <1>2 DEF PeersOK
<1> QED
  BY <1>1, <1>3 DEF m

LEMMA DeletePeer ==
    ASSUME NEW map, PeersOK(map), NEW host
    PROVE  /\ PeersOK(Delete(map, host))
           /\ Keys(Delete(map, host)) = Keys(map) \ {host}
           /\ \A h \in Keys(map) \ {host} : Delete(map, host).value[h] = map.value[h]
<1> DEFINE m == Delete(map, host)
<1>1. /\ m = [order |-> m.order, value |-> m.value]
      /\ Keys(m) = Keys(map) \ {host}
      /\ \A h \in Keys(map) \ {host} : m.value[h] = map.value[h]
  BY DEF Delete, Keys, Restrict
<1>2. m.order \in Seq(Host)
  BY WithoutSeq DEF PeersOK, Delete
<1> HIDE DEF m
<1>3. PeersOK(m)
  BY <1>1, <1>2 DEF PeersOK
<1> QED
  BY <1>1, <1>3 DEF m

\* A peer that is new, or changes without a change of its API host.
LEMMA SameApi ==
    ASSUME NEW map, NEW index, PeersOK(map), IndexOK(map, index),
           NEW host \in Host, NEW peer, Believed(host, peer),
           NEW next, PeersOK(next), Keys(next) = Keys(map) \cup {host},
           next.value[host] = peer,
           \A h \in Keys(map) : h # host => next.value[h] = map.value[h],
           peer.api = IF host \in Keys(map) THEN map.value[host].api ELSE NoApi
    PROVE  /\ IndexOK(next, index)
           /\ host \in Keys(map) /\ (IsListed(peer) <=> IsListed(map.value[host])) =>
                 ListedIn(next) = ListedIn(map)
           /\ ~IsListed(peer) => ListedIn(next) = ListedIn(map) \ {peer.api}
           /\ IsListed(peer) => ListedIn(next) = ListedIn(map) \cup {peer.api}
<1>1. \A h \in Keys(map) : next.value[h].api = map.value[h].api
  OBVIOUS
<1>2. IndexOK(next, index)
  BY <1>1 DEF IndexOK
<1>3. \A a : a \in ListedIn(next) <=> a \in DOMAIN index /\ IsListed(next.value[index[a]])
  BY <1>2, ListedIndex
<1>4. \A a : a \in ListedIn(map) <=> a \in DOMAIN index /\ IsListed(map.value[index[a]])
  BY ListedIndex
<1>5. \A a \in DOMAIN index :
          index[a] # host => (IsListed(next.value[index[a]]) <=> IsListed(map.value[index[a]]))
  BY DEF IndexOK
<1>6. ASSUME NEW a \in DOMAIN index, index[a] = host
      PROVE  host \in Keys(map) /\ peer.api = a
  BY <1>6 DEF IndexOK
<1>7. IsListed(peer) => peer.api \in DOMAIN index /\ index[peer.api] = host
  BY DEF IndexOK, Believed, IsListed
<1>8. \A a : a \in ListedIn(next) /\ a # peer.api <=> a \in ListedIn(map) /\ a # peer.api
  BY <1>3, <1>4, <1>5, <1>6
<1>9. host \in Keys(map) /\ (IsListed(peer) <=> IsListed(map.value[host])) =>
          \A a : a \in ListedIn(next) <=> a \in ListedIn(map)
  BY <1>3, <1>4, <1>5
<1>10. ~IsListed(peer) => peer.api \notin ListedIn(next)
  BY <1>2, ListedIndex
<1>11. IsListed(peer) => peer.api \in ListedIn(next)
  BY <1>3, <1>7
<1> QED
  BY <1>2, <1>8, <1>9, <1>10, <1>11

\* A peer without an API host gets one that no peer has.
LEMMA NewApi ==
    ASSUME NEW map, NEW index, PeersOK(map), IndexOK(map, index),
           NEW host \in Keys(map), map.value[host].api = NoApi,
           NEW peer, Believed(host, peer), peer.api \in Api \ DOMAIN index,
           NEW next, PeersOK(next), Keys(next) = Keys(map),
           next.value[host] = peer,
           \A h \in Keys(map) : h # host => next.value[h] = map.value[h],
           NEW wider, DOMAIN wider = DOMAIN index \cup {peer.api},
           wider[peer.api] = host, \A a \in DOMAIN index : wider[a] = index[a]
    PROVE  /\ IndexOK(next, wider)
           /\ peer.api \notin ListedIn(map)
           /\ ~IsListed(peer) => ListedIn(next) = ListedIn(map)
           /\ IsListed(peer) => ListedIn(next) = ListedIn(map) \cup {peer.api}
<1>1. \A a \in DOMAIN index : wider[a] # host
  <2> SUFFICES ASSUME NEW a \in DOMAIN index, index[a] = host PROVE FALSE
    OBVIOUS
  <2>1. a = NoApi /\ a \in Api
    BY DEF IndexOK
  <2> QED
    BY <2>1, HandlerAssumption
<1>2. IndexOK(next, wider)
  <2>1. DOMAIN wider \subseteq Api
    BY DEF IndexOK
  <2>2. ASSUME NEW a \in DOMAIN wider
        PROVE  wider[a] \in Keys(next) /\ next.value[wider[a]].api = a
    <3>1. CASE a = peer.api
      BY <3>1
    <3>2. CASE a \in DOMAIN index
      BY <1>1, <3>2 DEF IndexOK
    <3> QED
      BY <3>1, <3>2
  <2>3. ASSUME NEW h \in Keys(next), next.value[h].api # NoApi
        PROVE  next.value[h].api \in DOMAIN wider /\ wider[next.value[h].api] = h
    <3>1. CASE h = host
      BY <3>1
    <3>2. CASE h # host
      BY <2>3, <3>2 DEF IndexOK
    <3> QED
      BY <3>1, <3>2
  <2> QED
    BY <2>1, <2>2, <2>3 DEF IndexOK
<1>3. \A a : a \in ListedIn(next) <=> a \in DOMAIN wider /\ IsListed(next.value[wider[a]])
  BY <1>2, ListedIndex
<1>4. \A a : a \in ListedIn(map) <=> a \in DOMAIN index /\ IsListed(map.value[index[a]])
  BY ListedIndex
<1>5. \A a \in DOMAIN index : next.value[wider[a]] = map.value[index[a]]
  BY <1>1 DEF IndexOK
<1>6. \A a : a \in ListedIn(next) <=> a \in ListedIn(map) \/ (a = peer.api /\ IsListed(peer))
  BY <1>3, <1>4, <1>5
<1> QED
  BY <1>2, <1>4, <1>6

-----------------------------------------------------------------------------
\* The helpers of the routine, on a table of what they change.
Joined(s, t) == s \o t

LEMMA ShortSends ==
    /\ \A x : Append(<<>>, x) = <<x>> /\ Joined(<<>>, <<x>>) = <<x>> /\ Joined(<<x>>, <<>>) = <<x>>
    /\ \A x, y : Append(<<x>>, y) = <<x, y>>
    /\ Joined(<<>>, <<>>) = <<>>
<1>1. \A x : Append(<<>>, x) = <<x>>
  OBVIOUS
<1>2. ASSUME NEW x, NEW y PROVE Append(<<x>>, y) = <<x, y>>
  <2>1. <<x>> \in Seq({x, y}) /\ Len(<<x>>) = 1 /\ <<x>>[1] = x
    OBVIOUS
  <2> DEFINE r == Append(<<x>>, y)
  <2>2. r \in Seq({x, y}) /\ Len(r) = 2 /\ r[1] = x /\ r[2] = y
    BY <2>1, AppendProperties
  <2> HIDE DEF r
  <2>3. r = <<x, y>>
    BY <2>2
  <2> QED
    BY <2>3 DEF r
<1>3. \A S : \A seq \in Seq(S) : Joined(seq, <<>>) = seq /\ Joined(<<>>, seq) = seq
  BY ConcatEmptySeq DEF Joined
<1>4. \A x : <<x>> \in Seq({x}) /\ <<>> \in Seq({x})
  OBVIOUS
<1> QED
  BY <1>1, <1>2, <1>3, <1>4

TableOK(t) ==
    /\ t = [peers |-> t.peers, index |-> t.index, telling |-> t.telling, sends |-> t.sends]
    /\ PeersOK(t.peers)
    /\ IndexOK(t.peers, t.index)

LEMMA DelPeerEffect ==
    ASSUME NEW t, TableOK(t), NEW host \in Keys(t.peers)
    PROVE  LET peer == t.peers.value[host]
               left == DelPeer(t, host)
           IN  /\ TableOK(left)
               /\ Keys(left.peers) = Keys(t.peers) \ {host}
               /\ DOMAIN left.index = DOMAIN t.index \ {peer.api}
               /\ left.sends = Joined(t.sends, Withdrawn(peer))
               /\ ListedIn(left.peers) = ListedIn(t.peers) \ {peer.api}
               /\ \A a \in DOMAIN left.index : left.index[a] = t.index[a]
               /\ IsListed(peer) <=> peer.api \in ListedIn(t.peers)
<1> DEFINE peer == t.peers.value[host]
           left == DelPeer(t, host)
           map == Delete(t.peers, host)
           index == Restrict(t.index, DOMAIN t.index \ {peer.api})
           sends == Joined(t.sends, Withdrawn(peer))
<1>1. left = [peers |-> map, index |-> index, telling |-> t.telling \ {host}, sends |-> sends]
  BY DEF DelPeer, Joined
<1>2. /\ PeersOK(map) /\ Keys(map) = Keys(t.peers) \ {host}
      /\ \A h \in Keys(t.peers) \ {host} : map.value[h] = t.peers.value[h]
  BY DeletePeer DEF TableOK
<1>3. /\ DOMAIN index = DOMAIN t.index \ {peer.api}
      /\ \A a \in DOMAIN index : index[a] = t.index[a]
  BY DEF Restrict
<1> HIDE DEF map, index, sends
<1>4. \A a \in DOMAIN index : t.index[a] # host
  BY <1>3 DEF TableOK, IndexOK
<1>5. IndexOK(map, index)
  <2>1. DOMAIN index \subseteq Api
    BY <1>3 DEF TableOK, IndexOK
  <2>2. \A a \in DOMAIN index : index[a] \in Keys(map) /\ map.value[index[a]].api = a
    BY <1>2, <1>3, <1>4 DEF TableOK, IndexOK
  <2>3. ASSUME NEW h \in Keys(map), map.value[h].api # NoApi
        PROVE  map.value[h].api \in DOMAIN index /\ index[map.value[h].api] = h
    <3>1. h \in Keys(t.peers) /\ h # host /\ map.value[h] = t.peers.value[h]
      BY <1>2
    <3>2. map.value[h].api \in DOMAIN t.index /\ t.index[map.value[h].api] = h
      BY <2>3, <3>1 DEF TableOK, IndexOK
    <3>3. map.value[h].api # peer.api
      <4> SUFFICES ASSUME map.value[h].api = peer.api PROVE FALSE
        OBVIOUS
      <4>1. t.index[peer.api] = host
        BY <2>3 DEF TableOK, IndexOK
      <4> QED
        BY <3>1, <3>2, <4>1
    <3> QED
      BY <1>3, <3>2, <3>3
  <2> QED
    BY <2>1, <2>2, <2>3 DEF IndexOK
<1>6. ListedIn(map) = ListedIn(t.peers) \ {peer.api}
  <2>1. \A a : a \in ListedIn(map) <=> a \in DOMAIN index /\ IsListed(map.value[index[a]])
    BY <1>2, <1>5, ListedIndex
  <2>2. \A a : a \in ListedIn(t.peers)
                   <=> a \in DOMAIN t.index /\ IsListed(t.peers.value[t.index[a]])
    BY ListedIndex DEF TableOK
  <2>3. \A a \in DOMAIN index : map.value[index[a]] = t.peers.value[t.index[a]]
    BY <1>2, <1>3, <1>4 DEF TableOK, IndexOK
  <2> QED
    BY <1>3, <2>1, <2>2, <2>3
<1>7. IsListed(peer) <=> peer.api \in ListedIn(t.peers)
  BY ListedIndex DEF TableOK
<1>8. TableOK(left)
  BY <1>1, <1>2, <1>5 DEF TableOK
<1>9. left.peers = map /\ left.index = index /\ left.sends = sends
  BY <1>1
<1> HIDE DEF left, peer
<1>10. /\ TableOK(left)
       /\ Keys(left.peers) = Keys(t.peers) \ {host}
       /\ DOMAIN left.index = DOMAIN t.index \ {peer.api}
       /\ left.sends = sends
       /\ ListedIn(left.peers) = ListedIn(t.peers) \ {peer.api}
       /\ \A a \in DOMAIN left.index : left.index[a] = t.index[a]
       /\ IsListed(peer) <=> peer.api \in ListedIn(t.peers)
  BY <1>2, <1>3, <1>6, <1>7, <1>8, <1>9
<1> QED
  BY <1>10 DEF left, peer, sends

LEMMA NewPeerBelieved ==
    ASSUME NEW host
    PROVE  Believed(host, NewPeer) /\ ~IsListed(NewPeer) /\ NewPeer.api = NoApi
BY DEF Believed, NewPeer, PeerFields, IsReachable, IsListed

LEMMA AddPeerEffect ==
    ASSUME NEW t, TableOK(t), NEW host \in Host
    PROVE  LET left == DelPeer(t, host)
               added == AddPeer(t, host, NewPeer)
           IN  /\ TableOK(added)
               /\ Keys(added.peers) = Keys(t.peers) \cup {host}
               /\ added.peers.value[host] = NewPeer
               /\ added.index = left.index
               /\ added.sends = left.sends
               /\ ListedIn(added.peers) = ListedIn(left.peers)
<1> DEFINE left == DelPeer(t, host)
           added == AddPeer(t, host, NewPeer)
           map == Set(left.peers, host, NewPeer)
<1>1. TableOK(left) /\ Keys(left.peers) = Keys(t.peers) \ {host}
  <2>1. CASE host \in Keys(t.peers)
    BY <2>1, DelPeerEffect
  <2>2. CASE host \notin Keys(t.peers)
    BY <2>2 DEF DelPeer
  <2> QED
    BY <2>1, <2>2
<1>2. added = [left EXCEPT !.peers = map]
  BY DEF AddPeer
<1> HIDE DEF left, added
<1>3. added = [peers |-> map, index |-> left.index, telling |-> left.telling,
               sends |-> left.sends]
  BY <1>1, <1>2 DEF TableOK
<1>4. /\ PeersOK(map)
      /\ Keys(map) = Keys(left.peers) \cup {host}
      /\ map.value[host] = NewPeer
      /\ \A h \in Keys(left.peers) : h # host => map.value[h] = left.peers.value[h]
  BY <1>1, NewPeerBelieved, SetPeer DEF TableOK
<1> HIDE DEF map
<1>5. IndexOK(map, left.index) /\ ListedIn(map) = ListedIn(left.peers) \ {NoApi}
  BY <1>1, <1>4, NewPeerBelieved, SameApi DEF TableOK
<1>6. NoApi \notin ListedIn(left.peers)
  BY <1>1, ListedIndex, HandlerAssumption DEF TableOK
<1>7. TableOK(added)
  BY <1>3, <1>4, <1>5 DEF TableOK
<1>8. /\ TableOK(added)
      /\ Keys(added.peers) = Keys(t.peers) \cup {host}
      /\ added.peers.value[host] = NewPeer
      /\ added.index = left.index
      /\ added.sends = left.sends
      /\ ListedIn(added.peers) = ListedIn(left.peers)
  BY <1>1, <1>3, <1>4, <1>5, <1>6, <1>7
<1> QED
  BY <1>8 DEF left, added

\* A failure takes a listed peer off, and does nothing to any other.
LEMMA MarkEffect ==
    ASSUME NEW t, TableOK(t), t.sends = <<>>, NEW host \in Keys(t.peers)
    PROVE  LET peer == t.peers.value[host]
               marked == MarkPeerUnreachable(t, host)
           IN  /\ TableOK(marked)
               /\ ListedIn(marked.peers) = ListedIn(t.peers) \ {peer.api}
               /\ IsListed(peer) <=> peer.api \in ListedIn(t.peers)
               /\ marked.sends = Withdrawn(peer)
<1> DEFINE peer == t.peers.value[host]
           failed == [peer EXCEPT !.retries = @ + 1,
                                  !.status = IF IsReachable(peer) THEN "unreachable" ELSE @]
           map == Set(t.peers, host, failed)
           all == Joined(t.sends, Withdrawn(peer))
           marked == [t EXCEPT !.peers = map, !.sends = all]
<1>1. host \in Host /\ Believed(host, peer)
  BY DEF TableOK, PeersOK
<1>2. /\ Believed(host, failed) /\ ~IsListed(failed) /\ failed.api = peer.api
      /\ failed.mode = peer.mode
  <2>1. /\ failed \in PeerFields /\ failed.api = peer.api /\ failed.mode = peer.mode
        /\ ~IsReachable(failed)
    <3>1. /\ peer = [api |-> peer.api, mode |-> peer.mode, status |-> peer.status,
                     retries |-> peer.retries, discovered |-> peer.discovered]
          /\ peer.api \in Api \cup {NoApi} /\ peer.discovered \in BOOLEAN
          /\ peer.mode \in {"full", "seed", "loadbalance", "unknown"}
          /\ peer.status \in {"reachable", "unreachable", "unknown"}
          /\ peer.retries \in Nat
      BY <1>1 DEF Believed, PeerFields
    <3> DEFINE status == IF IsReachable(peer) THEN "unreachable" ELSE peer.status
               retries == peer.retries + 1
    <3>2. status \in {"reachable", "unreachable", "unknown"} /\ status # "reachable"
          /\ retries \in Nat
      BY <3>1 DEF IsReachable
    <3> HIDE DEF peer
    <3>3. failed = [api |-> peer.api, mode |-> peer.mode, status |-> status,
                    retries |-> retries, discovered |-> peer.discovered]
      <4> SUFFICES ASSUME NEW f, f = failed
                   PROVE  f = [api |-> peer.api, mode |-> peer.mode, status |-> status,
                               retries |-> retries, discovered |-> peer.discovered]
        OBVIOUS
      <4> QED
        BY <3>1
    <3> HIDE DEF failed, status, retries
    <3> QED
      BY <3>1, <3>2, <3>3 DEF PeerFields, IsReachable
  <2> QED
    BY <1>1, <2>1 DEF Believed, IsListed
<1>3. all = Withdrawn(peer)
  BY ShortSends DEF Withdrawn
<1>4. MarkPeerUnreachable(t, host) = IF Exhausted(failed) THEN DelPeer(marked, host) ELSE marked
  BY DEF MarkPeerUnreachable, Joined
<1> HIDE DEF failed, all, peer, map
<1>5. marked = [peers |-> map, index |-> t.index, telling |-> t.telling, sends |-> all]
  <2> SUFFICES ASSUME NEW m, m = marked
               PROVE  m = [peers |-> map, index |-> t.index, telling |-> t.telling, sends |-> all]
    OBVIOUS
  <2> QED
    BY DEF TableOK
<1> HIDE DEF marked
<1> USE DEF peer, map
<1>6. /\ PeersOK(map)
      /\ Keys(map) = Keys(t.peers) \cup {host}
      /\ map.value[host] = failed
      /\ \A h \in Keys(t.peers) : h # host => map.value[h] = t.peers.value[h]
  BY <1>1, <1>2, SetPeer DEF TableOK
<1> HIDE DEF map
<1>7. IndexOK(map, t.index) /\ ListedIn(map) = ListedIn(t.peers) \ {peer.api}
  BY <1>1, <1>2, <1>6, SameApi DEF TableOK
<1>8. TableOK(marked) /\ marked.peers = map /\ marked.sends = Withdrawn(peer)
  BY <1>3, <1>5, <1>6, <1>7 DEF TableOK
<1>9. LET left == DelPeer(marked, host)
      IN  /\ TableOK(left)
          /\ ListedIn(left.peers) = ListedIn(map) \ {peer.api}
          /\ left.sends = Withdrawn(peer)
  <2> DEFINE left == DelPeer(marked, host)
             both == Joined(marked.sends, Withdrawn(failed))
  <2>1. host \in Keys(marked.peers) /\ marked.peers.value[host] = failed
    BY <1>6, <1>8
  <2>2. /\ TableOK(left)
        /\ ListedIn(left.peers) = ListedIn(marked.peers) \ {failed.api}
        /\ left.sends = both
    BY <1>8, <2>1, DelPeerEffect
  <2>3. both = Withdrawn(peer)
    <3>1. Withdrawn(failed) = <<>>
      BY <1>2 DEF Withdrawn
    <3>2. Joined(Withdrawn(peer), <<>>) = Withdrawn(peer)
      BY ShortSends DEF Withdrawn
    <3> QED
      BY <1>8, <3>1, <3>2
  <2> QED
    BY <1>2, <1>8, <2>2, <2>3
<1>10. IsListed(peer) <=> peer.api \in ListedIn(t.peers)
  BY ListedIndex DEF TableOK
<1> QED
  BY <1>4, <1>7, <1>8, <1>9, <1>10

\* What an answer does to the listed hosts, and what is signalled.
Unchanged(t, next) == ListedIn(next.peers) = ListedIn(t.peers) /\ next.sends = <<>>
Gains(t, next, api) ==
    /\ api \notin ListedIn(t.peers)
    /\ ListedIn(next.peers) = ListedIn(t.peers) \cup {api}
    /\ next.sends = <<Signal("Add", api)>>
Swaps(t, next, from, to) ==
    /\ from \in ListedIn(t.peers) /\ to \notin ListedIn(t.peers)
    /\ ListedIn(next.peers) = (ListedIn(t.peers) \ {from}) \cup {to}
    /\ next.sends = <<Signal("Delete", from), Signal("Add", to)>>

LEMMA ReportedStatus == Reported \subseteq Status
<1>1. ASSUME NEW h \in Host PROVE Answers[h] \subseteq Status
  BY HandlerAssumption
<1>2. ASSUME NEW r \in Requests, r.type = "Announcement" PROVE r.status \in Status
  BY <1>2, HandlerAssumption
<1> SUFFICES ASSUME NEW s \in Reported PROVE s \in Status
  OBVIOUS
<1>3. CASE s \in Answered
  BY <1>1, <1>3 DEF Answered
<1>4. CASE s \in Announced
  BY <1>2, <1>4 DEF Announced
<1> QED
  BY <1>3, <1>4 DEF Reported

\* The peer after an answer.
Contacted(old, s) ==
    [old EXCEPT !.api = s.api, !.mode = s.mode, !.status = "reachable", !.retries = 0]

LEMMA ContactedBelieved ==
    ASSUME NEW host, NEW s \in Reported, s.host = host, NEW old, Believed(host, old)
    PROVE  LET peer == Contacted(old, s)
           IN  Believed(host, peer) /\ peer.api = s.api /\ (IsListed(peer) <=> s.mode = "full")
<1> SUFFICES ASSUME NEW peer, peer = Contacted(old, s)
             PROVE  Believed(host, peer) /\ peer.api = s.api /\ (IsListed(peer) <=> s.mode = "full")
  OBVIOUS
<1>1. s \in Status
  BY ReportedStatus
<1>2. /\ old = [api |-> old.api, mode |-> old.mode, status |-> old.status,
                retries |-> old.retries, discovered |-> old.discovered]
      /\ old.discovered \in BOOLEAN
  BY DEF Believed, PeerFields
<1>3. peer = [api |-> s.api, mode |-> s.mode, status |-> "reachable", retries |-> 0,
              discovered |-> old.discovered]
  BY <1>2 DEF Contacted
<1>4. /\ peer.api = s.api /\ peer.mode = s.mode /\ peer.status = "reachable"
      /\ peer \in PeerFields
  BY <1>1, <1>2, <1>3 DEF PeerFields, Status
<1>5. s.api # NoApi
  BY <1>1, HandlerAssumption DEF Status
<1> QED
  BY <1>4, <1>5 DEF Believed, IsReachable, IsListed

LEMMA StatusEffect ==
    ASSUME StableNodes,
           NEW t, TableOK(t), t.sends = <<>>, NEW host \in Keys(t.peers),
           NEW s \in Reported, s.host = host
    PROVE  LET next == SetPeerStatus(t, host, s)
           IN  /\ TableOK(next)
               /\ \/ Unchanged(t, next)
                  \/ Gains(t, next, s.api)
                  \/ Swaps(t, next, t.peers.value[host].api, s.api)
<1> DEFINE old == t.peers.value[host]
           same == s.host = host /\ s.api = old.api
           kept == IF same THEN t ELSE AddPeer(t, s.host, NewPeer)
           before == IF same THEN old ELSE NewPeer
           peer == Contacted(before, s)
           found == s.mode = "full" /\ (~same \/ ~IsReachable(old))
           map == Set(kept.peers, host, peer)
           index == [a \in DOMAIN kept.index \cup {s.api} |->
                        IF a = s.api THEN host ELSE kept.index[a]]
           sends == IF found THEN Append(kept.sends, Signal("Add", s.api)) ELSE kept.sends
           next == [kept EXCEPT !.peers = map, !.index = index, !.sends = sends]
<1>1. SetPeerStatus(t, host, s) = next
  BY DEF SetPeerStatus, Contacted
<1>2. host \in Host /\ Believed(host, old) /\ s \in Status /\ s.api \in Api /\ s.api # NoApi
  BY ReportedStatus, HandlerAssumption DEF TableOK, PeersOK, Status
<1>3. TableOK(kept) /\ Believed(host, before) /\ host \in Keys(kept.peers)
      /\ kept.peers.value[host] = before
  <2>1. CASE same
    BY <1>2, <2>1
  <2>2. CASE ~same
    BY <1>2, <2>2, AddPeerEffect, NewPeerBelieved
  <2> QED
    BY <2>1, <2>2
<1>4. Believed(host, peer) /\ peer.api = s.api /\ (IsListed(peer) <=> s.mode = "full")
  <2> HIDE DEF before
  <2> QED
    BY <1>3, ContactedBelieved
<1> HIDE DEF peer
<1>5. /\ PeersOK(map)
      /\ Keys(map) = Keys(kept.peers)
      /\ map.value[host] = peer
      /\ \A h \in Keys(kept.peers) : h # host => map.value[h] = kept.peers.value[h]
  <2> HIDE DEF kept, before
  <2> DEFINE K == kept.peers
  <2>1. PeersOK(K) /\ Keys(K) \cup {host} = Keys(K)
    BY <1>3 DEF TableOK
  <2> HIDE DEF K
  <2>2. /\ PeersOK(Set(K, host, peer))
        /\ Keys(Set(K, host, peer)) = Keys(K) \cup {host}
        /\ Set(K, host, peer).value[host] = peer
        /\ \A h \in Keys(K) : h # host => Set(K, host, peer).value[h] = K.value[h]
    BY <1>2, <1>4, <2>1, SetPeer
  <2> QED
    BY <2>1, <2>2 DEF K
<1>6. /\ DOMAIN index = DOMAIN kept.index \cup {s.api} /\ index[s.api] = host
      /\ \A a \in DOMAIN kept.index : a # s.api => index[a] = kept.index[a]
  OBVIOUS
<1> HIDE DEF map, index
<1>7. next = [peers |-> map, index |-> index, telling |-> kept.telling, sends |-> sends]
  <2> SUFFICES ASSUME NEW n, n = next
               PROVE  n = [peers |-> map, index |-> index, telling |-> kept.telling,
                           sends |-> sends]
    OBVIOUS
  <2> HIDE DEF kept, sends
  <2> QED
    BY <1>3 DEF TableOK
<1>8. next.peers = map /\ next.index = index /\ next.sends = sends
      /\ next = [peers |-> next.peers, index |-> next.index, telling |-> next.telling,
                 sends |-> next.sends]
  <2> HIDE DEF next, sends
  <2> QED
    BY <1>7
<1> HIDE DEF next
<1>9. CASE same
  <2>1. kept = t /\ before = old /\ s.api = old.api /\ s.mode = old.mode
    <3>1. kept = t /\ before = old /\ s.api = old.api
      BY <1>9
    <3>2. PICK r \in Reported : r.host = host /\ r.mode = old.mode
      BY <1>2, <3>1 DEF Believed
    <3> QED
      BY <3>1, <3>2 DEF StableNodes
  <2>2. DOMAIN index = DOMAIN t.index /\ \A a \in DOMAIN t.index : index[a] = t.index[a]
    BY <1>2, <1>6, <2>1 DEF TableOK, IndexOK
  <2>3. IndexOK(t.peers, index)
    BY <2>2 DEF TableOK, IndexOK
  <2>4. /\ IndexOK(map, index)
        /\ (IsListed(peer) <=> IsListed(old)) => ListedIn(map) = ListedIn(t.peers)
        /\ IsListed(peer) => ListedIn(map) = ListedIn(t.peers) \cup {s.api}
    BY <1>2, <1>3, <1>4, <1>5, <2>1, <2>3, SameApi DEF TableOK
  <2>5. IsListed(old) <=> s.api \in ListedIn(t.peers)
    BY <2>1, ListedIndex DEF TableOK
  <2>6. CASE found
    <3>1. sends = <<Signal("Add", s.api)>>
      <4>1. kept.sends = <<>>
        BY <2>1
      <4> HIDE DEF kept
      <4> QED
        BY <2>6, <4>1, ShortSends
    <3>2. ~IsListed(old) /\ IsListed(peer)
      BY <1>4, <1>9, <2>6 DEF IsListed
    <3> HIDE DEF sends
    <3> QED
      BY <1>1, <1>5, <1>8, <2>4, <2>5, <3>1, <3>2 DEF TableOK, Gains
  <2>7. CASE ~found
    <3>1. sends = <<>>
      BY <2>1, <2>7
    <3>2. IsListed(old) <=> IsListed(peer)
      BY <1>4, <1>9, <2>1, <2>7 DEF IsListed
    <3> HIDE DEF sends
    <3> QED
      BY <1>1, <1>5, <1>8, <2>4, <3>1, <3>2 DEF TableOK, Unchanged
  <2> QED
    BY <2>6, <2>7
<1>10. CASE ~same
  <2>1. before = NewPeer /\ s.api # old.api /\ kept = AddPeer(t, host, NewPeer)
    BY <1>10
  <2> DEFINE left == DelPeer(t, host)
             withdrawn == Joined(t.sends, Withdrawn(old))
  <2>2. /\ DOMAIN left.index = DOMAIN t.index \ {old.api}
        /\ left.sends = withdrawn
        /\ ListedIn(left.peers) = ListedIn(t.peers) \ {old.api}
        /\ IsListed(old) <=> old.api \in ListedIn(t.peers)
    BY DelPeerEffect
  <2>3. withdrawn = Withdrawn(old)
    BY ShortSends DEF Withdrawn
  <2> HIDE DEF left, withdrawn
  <2>4. kept.index = left.index /\ kept.sends = Withdrawn(old)
        /\ ListedIn(kept.peers) = ListedIn(t.peers) \ {old.api}
    BY <1>2, <2>1, <2>2, <2>3, AddPeerEffect DEF left
  <2>5. s.api \notin DOMAIN t.index
    <3> SUFFICES ASSUME s.api \in DOMAIN t.index PROVE FALSE
      OBVIOUS
    <3>1. t.index[s.api] \in Keys(t.peers) /\ t.peers.value[t.index[s.api]].api = s.api
      BY DEF TableOK, IndexOK
    <3>2. PICK r \in Reported : r.host = t.index[s.api] /\ r.api = s.api
      BY <1>2, <3>1 DEF TableOK, PeersOK, Believed
    <3>3. r.host = host
      BY <3>2 DEF StableNodes
    <3> QED
      BY <2>1, <3>1, <3>2, <3>3
  <2>6. s.api \notin DOMAIN kept.index
    BY <2>2, <2>4, <2>5
  <2>7. /\ IndexOK(map, index)
        /\ s.api \notin ListedIn(kept.peers)
        /\ ~IsListed(peer) => ListedIn(map) = ListedIn(kept.peers)
        /\ IsListed(peer) => ListedIn(map) = ListedIn(kept.peers) \cup {s.api}
    <3>1. before.api = NoApi /\ PeersOK(kept.peers) /\ IndexOK(kept.peers, kept.index)
          /\ peer.api \in Api \ DOMAIN kept.index
      BY <1>2, <1>3, <1>4, <2>1, <2>6, NewPeerBelieved DEF TableOK
    <3> HIDE DEF kept, before
    <3> QED
      BY <1>2, <1>3, <1>4, <1>5, <1>6, <2>6, <3>1, NewApi
  <2>8. s.api \notin ListedIn(t.peers)
    BY <2>1, <2>4, <2>7
  <2>9. TableOK(next)
    BY <1>5, <1>8, <2>7 DEF TableOK
  <2>10. CASE IsListed(old)
    <3>1. s.mode = "full"
      <4>1. old.api # NoApi
        BY <1>2, <2>10 DEF Believed, IsListed
      <4>2. PICK r \in Reported : r.host = host /\ r.mode = old.mode
        BY <1>2, <4>1 DEF Believed
      <4> QED
        BY <2>10, <4>2 DEF StableNodes, IsListed
    <3>2. sends = <<Signal("Delete", old.api), Signal("Add", s.api)>>
      <4>1. kept.sends = <<Signal("Delete", old.api)>>
        BY <2>4, <2>10 DEF Withdrawn
      <4>2. found
        BY <1>10, <3>1
      <4> HIDE DEF kept
      <4> QED
        BY <4>1, <4>2, ShortSends
    <3> HIDE DEF sends
    <3> QED
      BY <1>1, <1>4, <1>8, <2>2, <2>4, <2>7, <2>8, <2>9, <2>10, <3>1, <3>2 DEF Swaps
  <2>11. CASE ~IsListed(old)
    <3>1. kept.sends = <<>> /\ ListedIn(kept.peers) = ListedIn(t.peers)
      BY <2>2, <2>4, <2>11 DEF Withdrawn
    <3>2. CASE s.mode = "full"
      <4>1. sends = <<Signal("Add", s.api)>>
        <5>1. found
          BY <1>10, <3>2
        <5> HIDE DEF kept, found
        <5> QED
          BY <3>1, <5>1, ShortSends
      <4> HIDE DEF sends
      <4> QED
        BY <1>1, <1>4, <1>8, <2>7, <2>8, <2>9, <3>1, <3>2, <4>1 DEF Gains
    <3>3. CASE s.mode # "full"
      <4>1. sends = <<>>
        BY <3>1, <3>3
      <4> HIDE DEF sends
      <4> QED
        BY <1>1, <1>4, <1>8, <2>7, <2>9, <3>1, <3>3, <4>1 DEF Unchanged
    <3> QED
      BY <3>2, <3>3
  <2> QED
    BY <2>10, <2>11
<1> QED
  BY <1>9, <1>10

-----------------------------------------------------------------------------
\* What PeerFeed sees of a channel: each message as the kind it is.
Maps(f, S, T) == \A x \in S : f[x] \in T
Mapped(f, q) == [n \in DOMAIN q |-> f[q[n]]]

LEMMA MappedSeq ==
    ASSUME NEW S, NEW T, NEW f, Maps(f, S, T), NEW q \in Seq(S)
    PROVE  /\ Mapped(f, q) \in Seq(T) /\ Len(Mapped(f, q)) = Len(q)
           /\ \A n \in 1..Len(q) : Mapped(f, q)[n] = f[q[n]]
<1>1. Len(q) \in Nat /\ DOMAIN q = 1..Len(q) /\ \A n \in 1..Len(q) : q[n] \in S
  BY LenProperties, ElementOfSeq
<1> DEFINE N == Len(q)
           e(n) == f[q[n]]
<1>2. N \in Nat /\ \A n \in 1..N : e(n) \in T
  BY <1>1 DEF Maps
<1>3. Mapped(f, q) = [n \in 1..N |-> e(n)]
  BY <1>1 DEF Mapped
<1> HIDE DEF N
<1>4. [n \in 1..N |-> e(n)] \in Seq(T)
  BY <1>2, IsASeq
<1>5. Len([n \in 1..N |-> e(n)]) = N
  BY <1>2
<1> QED
  BY <1>3, <1>4, <1>5 DEF N

LEMMA MappedEmpty ==
    ASSUME NEW S, NEW T, NEW f, Maps(f, S, T), NEW q \in Seq(S)
    PROVE  Mapped(f, q) = <<>> <=> q = <<>>
BY MappedSeq, EmptySeq

LEMMA MappedHead ==
    ASSUME NEW S, NEW T, NEW f, Maps(f, S, T), NEW q \in Seq(S), q # <<>>
    PROVE  /\ Head(q) \in S /\ Tail(q) \in Seq(S)
           /\ Head(Mapped(f, q)) = f[Head(q)]
           /\ Tail(Mapped(f, q)) = Mapped(f, Tail(q))
<1> DEFINE m == Mapped(f, q)
           r == Tail(q)
           t == Mapped(f, r)
<1>1. /\ m \in Seq(T) /\ Len(m) = Len(q) /\ m # <<>>
      /\ \A n \in 1..Len(q) : m[n] = f[q[n]]
  BY MappedSeq, MappedEmpty
<1>2. /\ Head(q) \in S /\ Head(q) = q[1] /\ r \in Seq(S) /\ Len(r) = Len(q) - 1
      /\ \A n \in 1..Len(r) : r[n] = q[n + 1]
      /\ Len(q) \in Nat \ {0}
  BY HeadTailProperties, EmptySeq
<1> HIDE DEF r
<1>3. t \in Seq(T) /\ Len(t) = Len(r) /\ \A n \in 1..Len(r) : t[n] = f[r[n]]
  BY <1>2, MappedSeq
<1> HIDE DEF m, t
<1>4. /\ Head(m) = m[1] /\ Tail(m) \in Seq(T) /\ Len(Tail(m)) = Len(q) - 1
      /\ \A n \in 1..Len(Tail(m)) : Tail(m)[n] = m[n + 1]
  BY <1>1, HeadTailProperties
<1>5. \A n \in 1..Len(t) : Tail(m)[n] = t[n]
  BY <1>1, <1>2, <1>3, <1>4
<1>6. Tail(m) = t
  <2> DEFINE u == Tail(m)
  <2>1. u \in Seq(T) /\ Len(u) = Len(t) /\ \A n \in 1..Len(u) : u[n] = t[n]
    BY <1>2, <1>3, <1>4, <1>5
  <2> HIDE DEF u
  <2>2. u = t
    BY <1>3, <2>1, SeqEqual
  <2> QED
    BY <2>2 DEF u
<1>7. Head(m) = f[Head(q)]
  BY <1>1, <1>2, <1>4
<1> QED
  BY <1>2, <1>6, <1>7 DEF m, r, t

LEMMA MappedAppend ==
    ASSUME NEW S, NEW T, NEW f, Maps(f, S, T), NEW q \in Seq(S), NEW e \in S
    PROVE  /\ Append(q, e) \in Seq(S)
           /\ Mapped(f, Append(q, e)) = Append(Mapped(f, q), f[e])
<1> DEFINE m == Mapped(f, q)
           r == Append(q, e)
           t == Mapped(f, r)
           u == Append(m, f[e])
<1>1. m \in Seq(T) /\ Len(m) = Len(q) /\ \A n \in 1..Len(q) : m[n] = f[q[n]]
  BY MappedSeq
<1>2. /\ r \in Seq(S) /\ Len(r) = Len(q) + 1 /\ r[Len(q) + 1] = e
      /\ \A n \in 1..Len(q) : r[n] = q[n]
      /\ Len(q) \in Nat
  BY AppendProperties, LenProperties
<1> HIDE DEF r, m
<1>3. t \in Seq(T) /\ Len(t) = Len(r) /\ \A n \in 1..Len(r) : t[n] = f[r[n]]
  BY <1>2, MappedSeq
<1>4. /\ u \in Seq(T) /\ Len(u) = Len(q) + 1 /\ u[Len(q) + 1] = f[e]
      /\ \A n \in 1..Len(q) : u[n] = m[n]
  <2>1. f[e] \in T
    BY DEF Maps
  <2> QED
    BY <1>1, <2>1, AppendProperties
<1> HIDE DEF t, u
<1>5. \A n \in 1..Len(u) : u[n] = t[n]
  BY <1>1, <1>2, <1>3, <1>4
<1>6. t = u
  BY <1>2, <1>3, <1>4, <1>5, SeqEqual
<1> QED
  BY <1>2, <1>6 DEF m, r, t, u

\* A command, and a send, as PeerFeed has them.
commandOf == [c \in Commands |-> IF c \in Requests THEN Feed!Other ELSE c]
sendOf == [s \in Sends |-> IF s.type = "Update" THEN Feed!Own ELSE s]

LEMMA RequestTypes == \A r \in Requests : r.type \in {"PeerList", "Status", "Announcement"}
BY HandlerAssumption

LEMMA CommandKinds ==
    /\ Maps(commandOf, Commands, Feed!Commands)
    /\ \A r \in Requests : r \in Commands /\ commandOf[r] = Feed!Other
    /\ \A api \in Api : LET c == [type |-> "Unreachable", api |-> api]
                        IN  c \in Commands /\ commandOf[c] = c
    /\ LET c == [type |-> "Stop"] IN c \in Commands /\ commandOf[c] = c
<1>1. ASSUME NEW c \in Commands PROVE commandOf[c] \in Feed!Commands
  BY DEF commandOf, Commands, Feed!Commands, Feed!Other, Feed!StopHandler
<1>2. \A r \in Requests : r \in Commands /\ commandOf[r] = Feed!Other
  BY DEF commandOf, Commands
<1>3. ASSUME NEW api \in Api
      PROVE  LET c == [type |-> "Unreachable", api |-> api]
             IN  c \in Commands /\ commandOf[c] = c
  <2> DEFINE c == [type |-> "Unreachable", api |-> api]
  <2>1. c \in Commands /\ c.type = "Unreachable"
    BY DEF Commands
  <2> HIDE DEF c
  <2>2. c \notin Requests
    BY <2>1, RequestTypes
  <2>3. commandOf[c] = c
    BY <2>1, <2>2 DEF commandOf
  <2> QED
    BY <2>1, <2>3 DEF c
<1>4. LET c == [type |-> "Stop"] IN c \in Commands /\ commandOf[c] = c
  <2> DEFINE c == [type |-> "Stop"]
  <2>1. c \in Commands /\ c.type = "Stop"
    BY DEF Commands
  <2> HIDE DEF c
  <2>2. c \notin Requests
    BY <2>1, RequestTypes
  <2>3. commandOf[c] = c
    BY <2>1, <2>2 DEF commandOf
  <2> QED
    BY <2>1, <2>3 DEF c
<1> QED
  BY <1>1, <1>2, <1>3, <1>4 DEF Maps

LEMMA SendKinds ==
    /\ Maps(sendOf, Sends, Feed!Signals \cup {Feed!Own})
    /\ \A s \in Sends : s.type = "Update" => sendOf[s] = Feed!Own /\ s \in Results
    /\ \A s \in Sends : s.type # "Update" => sendOf[s] = s /\ s # Feed!Own
    /\ \A s \in Reported : LET u == Update(s.host, {s}) IN u \in Sends /\ sendOf[u] = Feed!Own
    /\ \A api \in Api : Signal("Add", api) \in Sends /\ Signal("Delete", api) \in Sends
    /\ \A api \in Api : /\ sendOf[Signal("Add", api)] = Feed!Add(api)
                        /\ sendOf[Signal("Delete", api)] = Feed!Del(api)
<1>1. ASSUME NEW s \in Sends
      PROVE  s \in Feed!Signals \/ (s.type = "Update" /\ s \in Results)
  <2>1. CASE \E r \in Reported : s = Update(r.host, {r})
    <3>1. \A r : Update(r.host, {r}).type = "Update"
      BY DEF Update
    <3>2. s \in Results
      BY <2>1 DEF Results
    <3> QED
      BY <2>1, <3>1, <3>2
  <2>2. CASE s \in Feed!Signals
    BY <2>2
  <2> QED
    BY <2>1, <2>2 DEF Sends, Feed!Signals
<1>2. \A s \in Feed!Signals : s.type # "Update" /\ s # Feed!Own
  BY DEF Feed!Signals, Feed!Own
<1>3. \A s \in Reported : Update(s.host, {s}) \in Sends /\ Update(s.host, {s}).type = "Update"
  BY DEF Sends, Update
<1>4. \A api \in Api : /\ Signal("Add", api) \in Sends /\ Signal("Delete", api) \in Sends
                       /\ Signal("Add", api).type = "Add" /\ Signal("Delete", api).type = "Delete"
                       /\ Signal("Add", api) = Feed!Add(api)
                       /\ Signal("Delete", api) = Feed!Del(api)
  BY DEF Sends, Signal, Feed!Add, Feed!Del
<1>5. \A s \in Sends : sendOf[s] = IF s.type = "Update" THEN Feed!Own ELSE s
  BY DEF sendOf
<1>6. Maps(sendOf, Sends, Feed!Signals \cup {Feed!Own})
  BY <1>1, <1>5 DEF Maps
<1> HIDE DEF sendOf
<1> QED
  BY <1>1, <1>2, <1>3, <1>4, <1>5, <1>6

-----------------------------------------------------------------------------
\* PeerFeed's variables, in a state of the handler.
MapsFeed ==
    /\ FeedCommands = Mapped(commandOf, commandCh)
    /\ FeedSending = Mapped(sendOf, sending)
    /\ Listed = ListedIn(peers)

LEMMA FeedMapped == Inv => MapsFeed
<1> SUFFICES ASSUME Inv PROVE MapsFeed
  OBVIOUS
<1>1. \A n \in DOMAIN commandCh : commandCh[n] \in Commands
  BY LenProperties, ElementOfSeq DEF Inv, MessagesOK
<1>2. \A n \in DOMAIN sending : sending[n] \in Sends
  BY LenProperties, ElementOfSeq DEF Inv, MessagesOK
<1>3. \A c \in Commands :
          commandOf[c] = IF c \in Requests THEN [type |-> "Other"] ELSE c
  BY DEF commandOf, Feed!Other
<1>4. \A s \in Sends :
          sendOf[s] = IF s.type = "Update" THEN [type |-> "Own"] ELSE s
  BY DEF sendOf, Feed!Own
<1> QED
  BY <1>1, <1>2, <1>3, <1>4 DEF MapsFeed, FeedCommands, FeedSending, Mapped, Listed, ListedIn

LEMMA NextFeedMapped == Inv' => MapsFeed'
BY FeedMapped, PTL

\* A step keeps the invariant, and is a step of PeerFeed or none.
Refines == Inv' /\ [Feed!FeedNext]_(Feed!feedVars)

LEMMA Stutters ==
    ASSUME Inv', ListedIn(peers') = ListedIn(peers), Inv,
           UNCHANGED <<commandCh, subscriberCh, sending, FeedPhase>>
    PROVE  Refines
<1>1. Listed' = Listed
  BY FeedMapped, NextFeedMapped DEF MapsFeed
<1>2. UNCHANGED <<FeedCommands, FeedSending>>
  BY DEF FeedCommands, FeedSending
<1> QED
  BY <1>1, <1>2 DEF Refines, Feed!feedVars

-----------------------------------------------------------------------------
\* What the other goroutines do, and the turns of the peers.
LEMMA LeastTurn ==
    ASSUME NEW T \in SUBSET Nat, T # {}
    PROVE  \E n \in T : \A m \in T : n <= m
<1>1. PICK n \in T : \A m \in T : ~(<<m, n>> \in OpToRel(<, Nat))
  BY NatLessThanWellFounded, WFMin
<1>2. ASSUME NEW m \in T PROVE n <= m
  <2>1. <<m, n>> \in Nat \X Nat
    OBVIOUS
  <2>2. ~(m < n)
    BY <1>1, <2>1 DEF OpToRel
  <2> QED
    BY <2>2
<1> QED
  BY <1>2

LEMMA FirstOfHost ==
    ASSUME peers.order \in Seq(Host), NEW preferred, NEW others,
           preferred \cup others \subseteq DOMAIN peers.order,
           preferred # {} \/ others # {}
    PROVE  FirstOf(preferred, others) \in Host \cap ToSet(peers.order)
<1> DEFINE turns == IF preferred # {} THEN preferred ELSE others
           first == CHOOSE n \in turns : \A m \in turns : n <= m
<1>1. DOMAIN peers.order = 1..Len(peers.order) /\ Len(peers.order) \in Nat
  BY LenProperties
<1>2. turns \subseteq 1..Len(peers.order) /\ turns # {}
  BY <1>1
<1> HIDE DEF turns
<1>3. \E n \in turns : \A m \in turns : n <= m
  BY <1>1, <1>2, LeastTurn
<1>4. first \in turns
  BY <1>3
<1> HIDE DEF first
<1>5. peers.order[first] \in Host
  BY <1>1, <1>2, <1>4, ElementOfSeq
<1>6. peers.order[first] \in ToSet(peers.order)
  BY <1>1, <1>2, <1>4 DEF ToSet
<1> QED
  BY <1>5, <1>6 DEF FirstOf, turns, first

\* Each tick is for a peer.
LEMMA TickHosts ==
    ASSUME peers.order \in Seq(Host)
    PROVE  LET Turns == Host \cap ToSet(peers.order)
           IN  /\ StatusTick => NextStatusPeer \in Turns
               /\ ListTick => FirstOf(SeedPeers, ReachablePeers) \in Turns
               /\ AnnounceTick => FirstOf(UndiscoveredPeers, {}) \in Turns
<1>1. ASSUME StatusTick
      PROVE  NextStatusPeer \in Host \cap ToSet(peers.order)
  <2>1. DOMAIN peers.order # {}
    <3>1. peers.order # <<>>
      BY <1>1 DEF StatusTick
    <3>2. Len(peers.order) \in Nat \ {0} /\ DOMAIN peers.order = 1..Len(peers.order)
      BY <3>1, EmptySeq, LenProperties
    <3>3. 1 \in 1..Len(peers.order)
      BY <3>2
    <3> QED
      BY <3>2, <3>3
  <2>2. Passing(peers, LAMBDA p : p.status = "unknown") \subseteq DOMAIN peers.order
    BY DEF Passing
  <2> QED
    BY <2>1, <2>2, FirstOfHost DEF NextStatusPeer
<1>2. ASSUME ListTick
      PROVE  FirstOf(SeedPeers, ReachablePeers) \in Host \cap ToSet(peers.order)
  <2>1. SeedPeers \subseteq DOMAIN peers.order /\ ReachablePeers \subseteq DOMAIN peers.order
    BY DEF Passing, SeedPeers, ReachablePeers
  <2> QED
    BY <1>2, <2>1, FirstOfHost DEF ListTick
<1>3. ASSUME AnnounceTick
      PROVE  FirstOf(UndiscoveredPeers, {}) \in Host \cap ToSet(peers.order)
  <2>1. UndiscoveredPeers \subseteq DOMAIN peers.order
    BY DEF Passing, UndiscoveredPeers
  <2> QED
    BY <1>3, <2>1, FirstOfHost DEF AnnounceTick
<1> QED
  BY <1>1, <1>2, <1>3

\* Only the order changes.
LEMMA ToBackKeeps ==
    ASSUME Inv, NEW host \in Host, ToBack(host)
    PROVE  /\ PeersOK(peers') /\ IndexOK(peers', apiHostIdx')
           /\ ListedIn(peers') = ListedIn(peers)
<1> DEFINE order == Append(Without(peers.order, host), host)
<1>1. peers' = [order |-> order, value |-> peers.value] /\ apiHostIdx' = apiHostIdx
  BY DEF ToBack, MoveLast
<1>2. order \in Seq(Host)
  BY WithoutSeq, AppendProperties DEF Inv, PeersOK
<1> HIDE DEF order
<1>3. /\ peers' = [order |-> peers'.order, value |-> peers'.value]
      /\ peers'.order \in Seq(Host) /\ peers'.value = peers.value
  BY <1>1, <1>2
<1>4. Keys(peers') = Keys(peers)
  BY <1>3 DEF Keys
<1>5. PeersOK(peers')
  BY <1>3, <1>4 DEF Inv, PeersOK
<1>6. IndexOK(peers', apiHostIdx')
  BY <1>1, <1>3, <1>4 DEF Inv, IndexOK
<1>7. ListedIn(peers') = ListedIn(peers)
  BY <1>3, <1>4 DEF ListedIn
<1> QED
  BY <1>5, <1>6, <1>7

LEMMA TicksRefine ==
    ASSUME Inv, StatusTick \/ ListTick \/ AnnounceTick
    PROVE  Refines
<1>1. ASSUME NEW host \in Host, ToBack(host), asking' \in Seq(Host) PROVE Refines
  <2>1. Inv'
    BY <1>1, ToBackKeeps DEF Inv, MessagesOK, HostsOK, ToBack, channelVars, resolverVars
  <2> QED
    BY <1>1, <2>1, ToBackKeeps, Stutters DEF ToBack, channelVars, FeedPhase
<1>2. peers.order \in Seq(Host) /\ asking \in Seq(Host)
  BY DEF Inv, PeersOK, MessagesOK
<1>3. CASE StatusTick
  <2>1. NextStatusPeer \in Host
    BY <1>2, <1>3, TickHosts
  <2>2. asking' \in Seq(Host)
    BY <1>2, <1>3, <2>1, AppendProperties DEF StatusTick
  <2> QED
    BY <1>1, <1>3, <2>1, <2>2 DEF StatusTick
<1>4. CASE ListTick
  <2>1. FirstOf(SeedPeers, ReachablePeers) \in Host
    BY <1>2, <1>4, TickHosts
  <2> QED
    BY <1>1, <1>2, <1>4, <2>1 DEF ListTick
<1>5. CASE AnnounceTick
  <2>1. FirstOf(UndiscoveredPeers, {}) \in Host
    BY <1>2, <1>5, TickHosts
  <2> QED
    BY <1>1, <1>2, <1>5, <2>1 DEF AnnounceTick, requestVars
<1> QED
  BY <1>3, <1>4, <1>5

LEMMA StatusAnswerRefines ==
    ASSUME StableNodes, Inv, StatusAnswer
    PROVE  Refines
<1>1. PICK n \in DOMAIN asking :
          /\ asking' = RemoveAt(asking, n)
          /\ \/ statusUpdateCh' = Append(statusUpdateCh, Failure(asking[n]))
             \/ \E status \in Answers[asking[n]] :
                   statusUpdateCh' = Append(statusUpdateCh, Update(asking[n], {status}))
  BY DEF StatusAnswer
<1>2. asking[n] \in Host /\ asking' \in Seq(Host)
  <2>1. asking \in Seq(Host) /\ DOMAIN asking = 1..Len(asking)
    BY LenProperties DEF Inv, MessagesOK
  <2> QED
    BY <1>1, <2>1, ElementOfSeq, RemoveSeq
<1>3. statusUpdateCh' \in Seq(Results)
  <2>1. statusUpdateCh \in Seq(Results)
    BY DEF Inv, MessagesOK
  <2>2. \A r \in Results : Append(statusUpdateCh, r) \in Seq(Results)
    BY <2>1, AppendProperties
  <2>3. Failure(asking[n]) \in Results
    BY <1>2 DEF Results
  <2>4. ASSUME NEW s \in Answers[asking[n]] PROVE Update(asking[n], {s}) \in Results
    <3>1. s \in Reported /\ s.host = asking[n]
      BY <1>2, <2>4 DEF StableNodes, Reported, Answered
    <3> QED
      BY <3>1 DEF Results
  <2> QED
    BY <1>1, <2>2, <2>3, <2>4
<1>4. Inv'
  BY <1>2, <1>3 DEF Inv, MessagesOK, HostsOK, StatusAnswer, indexVars, resolverVars
<1> QED
  BY <1>4, Stutters DEF StatusAnswer, indexVars, FeedPhase

LEMMA ListAnswerRefines ==
    ASSUME Inv, ListAnswer
    PROVE  Refines
<1>1. requests' \in Seq(Host \cup Name)
  <2>1. Mentioned \subseteq Host \cup Name /\ requests \in Seq(Host \cup Name)
    BY HandlerAssumption DEF Inv, HostsOK
  <2>2. \A host \in Mentioned : Append(requests, host) \in Seq(Host \cup Name)
    BY <2>1, AppendProperties
  <2> QED
    BY <2>1, <2>2 DEF ListAnswer
<1>2. Inv'
  BY <1>1 DEF Inv, MessagesOK, HostsOK, ListAnswer, indexVars, channelVars
<1> QED
  BY <1>2, Stutters DEF ListAnswer, indexVars, channelVars, FeedPhase

LEMMA AnnounceAnswerRefines ==
    ASSUME Inv, AnnounceAnswer
    PROVE  Refines
<1>1. PICK host : \/ UNCHANGED peers
                  \/ peers' = [peers EXCEPT !.value[host].discovered = TRUE]
  BY DEF AnnounceAnswer
<1>2. PeersOK(peers') /\ IndexOK(peers', apiHostIdx) /\ ListedIn(peers') = ListedIn(peers)
  <2>1. CASE UNCHANGED peers
    BY <2>1 DEF Inv
  <2>2. CASE peers' = [peers EXCEPT !.value[host].discovered = TRUE]
    <3> DEFINE old == peers.value[host]
               peer == [old EXCEPT !.discovered = TRUE]
    <3>1. /\ peers' = [order |-> peers.order, value |-> [peers.value EXCEPT ![host] = peer]]
          /\ peers.order \in Seq(Host)
      BY <2>2 DEF Inv, PeersOK
    <3>2. /\ peers' = [order |-> peers'.order, value |-> peers'.value]
          /\ peers'.order \in Seq(Host) /\ DOMAIN peers'.value = DOMAIN peers.value
          /\ host \in DOMAIN peers.value => peers'.value[host] = peer
          /\ \A h \in DOMAIN peers.value : h # host => peers'.value[h] = peers.value[h]
      <4> HIDE DEF peer
      <4> QED
        BY <3>1
    <3>3. Keys(peers') = Keys(peers) /\ Keys(peers) \subseteq Host
      BY <3>2 DEF Keys, Inv, PeersOK
    <3>4. CASE host \in Keys(peers)
      <4>1. Believed(host, old)
        BY <3>4 DEF Inv, PeersOK
      <4>2. /\ Believed(host, peer) /\ peer.api = old.api /\ (IsListed(peer) <=> IsListed(old))
        <5> HIDE DEF old
        <5> SUFFICES ASSUME NEW p, p = peer
                     PROVE  /\ Believed(host, p) /\ p.api = old.api
                            /\ (IsListed(p) <=> IsListed(old))
          OBVIOUS
        <5>1. /\ p \in PeerFields /\ p.api = old.api /\ p.mode = old.mode
              /\ p.status = old.status
          BY <4>1 DEF Believed, PeerFields
        <5> HIDE DEF peer
        <5> QED
          BY <4>1, <5>1 DEF Believed, IsReachable, IsListed
      <4> HIDE DEF peer, old
      <4>3. PeersOK(peers')
        BY <3>2, <3>3, <4>2 DEF Inv, PeersOK, Keys
      <4>4. /\ Keys(peers') = Keys(peers) \cup {host} /\ host \in Host
            /\ peers'.value[host] = peer
            /\ \A h \in Keys(peers) : h # host => peers'.value[h] = peers.value[h]
            /\ peer.api = IF host \in Keys(peers) THEN peers.value[host].api ELSE NoApi
            /\ (IsListed(peer) <=> IsListed(peers.value[host]))
        BY <3>2, <3>3, <3>4, <4>2 DEF Keys, old
      <4> QED
        BY <3>4, <4>2, <4>3, <4>4, SameApi DEF Inv
    <3>5. CASE host \notin Keys(peers)
      <4>1. \A h \in Keys(peers) : peers'.value[h] = peers.value[h]
        BY <3>2, <3>5 DEF Keys
      <4>2. PeersOK(peers')
        BY <3>2, <3>3, <4>1 DEF Inv, PeersOK
      <4>3. IndexOK(peers', apiHostIdx)
        BY <3>3, <4>1 DEF Inv, IndexOK
      <4>4. ListedIn(peers') = ListedIn(peers)
        BY <3>3, <4>1 DEF ListedIn
      <4> QED
        BY <4>2, <4>3, <4>4
    <3> QED
      BY <3>4, <3>5
  <2> QED
    BY <1>1, <2>1, <2>2
<1>3. Inv'
  BY <1>2 DEF Inv, MessagesOK, HostsOK, AnnounceAnswer, requestVars, channelVars, resolverVars
<1> QED
  BY <1>2, <1>3, Stutters DEF AnnounceAnswer, channelVars, FeedPhase

\* A command that is sent.
LEMMA CommandSent ==
    ASSUME Inv, Len(commandCh) < CommandSize, NEW c \in Commands,
           commandCh' = Append(commandCh, c),
           UNCHANGED <<indexVars, requestVars, statusUpdateCh, subscriberCh, sending, phase,
                       resolverVars>>,
           http' \in {Idle, Waiting} \cup Requests
    PROVE  Refines
<1>1. commandCh \in Seq(Commands) /\ commandCh' \in Seq(Commands)
  BY AppendProperties DEF Inv, MessagesOK
<1>2. Inv'
  BY <1>1 DEF Inv, MessagesOK, HostsOK, indexVars, requestVars, resolverVars
<1>3. FeedCommands = Mapped(commandOf, commandCh) /\ FeedCommands' = Mapped(commandOf, commandCh')
  BY <1>2, FeedMapped, NextFeedMapped DEF MapsFeed, commandOf
<1>4. /\ Len(FeedCommands) < CommandSize
      /\ FeedCommands' = Append(FeedCommands, commandOf[c])
      /\ commandOf[c] \in Feed!Commands
  <2>1. Len(Mapped(commandOf, commandCh)) = Len(commandCh)
    BY <1>1, CommandKinds, MappedSeq
  <2>2. Mapped(commandOf, Append(commandCh, c))
            = Append(Mapped(commandOf, commandCh), commandOf[c])
    BY <1>1, CommandKinds, MappedAppend
  <2>3. commandOf[c] \in Feed!Commands
    BY CommandKinds DEF Maps
  <2> QED
    BY <1>3, <2>1, <2>2, <2>3
<1>5. Listed' = Listed /\ FeedSending' = FeedSending /\ FeedPhase' = FeedPhase
  BY DEF indexVars, Listed, FeedSending, FeedPhase
<1>6. Feed!SendCommand(commandOf[c])
  BY <1>4, <1>5 DEF Feed!SendCommand
<1> QED
  BY <1>2, <1>4, <1>6 DEF Refines, Feed!FeedNext

LEMMA HttpRefines ==
    ASSUME Inv, HttpRequest \/ HttpSend
    PROVE  Refines
<1>1. CASE HttpRequest
  <2>1. Inv'
    BY <1>1 DEF HttpRequest, Inv, MessagesOK, HostsOK, indexVars, requestVars, channelVars,
                resolverVars
  <2> QED
    BY <1>1, <2>1, Stutters DEF HttpRequest, indexVars, channelVars, FeedPhase
<1>2. CASE HttpSend
  <2>1. http \in Commands /\ http' \in {Idle, Waiting} \cup Requests
    BY <1>2 DEF HttpSend, Commands
  <2> QED
    BY <1>2, <2>1, CommandSent DEF HttpSend
<1> QED
  BY <1>1, <1>2

\* What the resolver holds.
LEMMA ResolveHosts ==
    ASSUME HostsOK, Resolve
    PROVE  HostsOK'
<1>1. CASE TakeName
  <2> DEFINE name == Head(requests)
  <2>1. name \in Host \cup Name /\ Tail(requests) \in Seq(Host \cup Name)
    BY <1>1, HeadTailProperties DEF TakeName, HostsOK
  <2>2. CASE name \in Name
    <3>1. DOMAIN hosts' = DOMAIN hosts \cup {name} /\ resolved' = resolved
      BY <1>1, <2>2 DEF TakeName
    <3> QED
      BY <1>1, <2>1, <2>2, <3>1 DEF TakeName, HostsOK
  <2>3. CASE name \notin Name
    BY <1>1, <2>1, <2>3 DEF TakeName, HostsOK
  <2> QED
    BY <2>2, <2>3
<1>2. CASE LookUp
  <2>1. PICK name \in NextNames :
            \/ \E host \in HostsOf[name] : hosts' = Forget(name) /\ resolved' = {host}
            \/ /\ hosts' = IF hosts[name] >= LookupMaxRetries THEN Forget(name)
                           ELSE [hosts EXCEPT ![name] = @ + 1]
               /\ UNCHANGED resolved
    BY <1>2 DEF LookUp
  <2>2. name \in Name /\ HostsOf[name] \subseteq Host
    BY <2>1, ResolverAssumption DEF NextNames, HostsOK
  <2>3. DOMAIN Forget(name) \subseteq Name
    BY DEF Forget, Restrict, HostsOK
  <2>4. DOMAIN [hosts EXCEPT ![name] = @ + 1] \subseteq Name
    BY DEF HostsOK
  <2>5. DOMAIN hosts' \subseteq Name /\ resolved' \subseteq Host
    BY <2>1, <2>2, <2>3, <2>4 DEF HostsOK
  <2> QED
    BY <1>2, <2>5 DEF LookUp, HostsOK
<1>3. CASE SendHost
  <2>1. PICK host \in resolved : responses' = Append(responses, host)
    BY <1>3 DEF SendHost
  <2>2. responses' \in Seq(Host)
    BY <2>1, AppendProperties DEF HostsOK
  <2> QED
    BY <1>3, <2>2 DEF SendHost, HostsOK
<1> QED
  BY <1>1, <1>2, <1>3 DEF Resolve, ResolverStep

LEMMA ResolveRefines ==
    ASSUME Inv, Resolve
    PROVE  Refines
<1>1. HostsOK'
  BY ResolveHosts DEF Inv
<1>2. Inv'
  BY <1>1 DEF Inv, MessagesOK, Resolve, indexVars, requestVars, channelVars
<1> QED
  BY <1>2, Stutters DEF Resolve, indexVars, channelVars, FeedPhase

LEMMA ManagerRefines ==
    ASSUME Inv, Manager
    PROVE  Refines
<1>1. CASE TakeSignal
  <2>1. Inv'
    BY <1>1 DEF TakeSignal, Inv, MessagesOK, HostsOK, indexVars, requestVars, resolverVars
  <2>2. Feed!TakeSignal
    BY <1>1 DEF TakeSignal, Feed!TakeSignal, indexVars, Listed, FeedCommands, FeedSending,
                FeedPhase
  <2> QED
    BY <2>1, <2>2 DEF Refines, Feed!FeedNext
<1>2. CASE Stop
  <2> DEFINE c == [type |-> "Stop"]
  <2>1. c \in Commands /\ ManagerSends(c)
    BY <1>2, CommandKinds DEF Stop
  <2> HIDE DEF c
  <2>2. http \in {Idle, Waiting} \cup Requests
    BY DEF Inv, MessagesOK
  <2> QED
    BY <2>1, <2>2, CommandSent DEF ManagerSends
<1>3. CASE \E api \in Api : MarkUnreachable(api)
  <2>1. PICK api \in Api : MarkUnreachable(api)
    BY <1>3
  <2> DEFINE c == [type |-> "Unreachable", api |-> api]
  <2>2. c \in Commands /\ ManagerSends(c)
    BY <2>1, CommandKinds DEF MarkUnreachable
  <2> HIDE DEF c
  <2>3. http \in {Idle, Waiting} \cup Requests
    BY DEF Inv, MessagesOK
  <2> QED
    BY <2>2, <2>3, CommandSent DEF ManagerSends
<1> QED
  BY <1>1, <1>2, <1>3 DEF Manager

-----------------------------------------------------------------------------
\* What the routine sends, and its end.
LEMMA FirstSend ==
    ASSUME Inv, Inv', sending # <<>>, sending' = Tail(sending)
    PROVE  /\ Head(sending) \in Sends
           /\ FeedSending # <<>> /\ Head(FeedSending) = sendOf[Head(sending)]
           /\ FeedSending' = Tail(FeedSending)
<1>1. FeedSending = Mapped(sendOf, sending) /\ FeedSending' = Mapped(sendOf, sending')
  BY FeedMapped, NextFeedMapped DEF MapsFeed, sendOf
<1>2. sending \in Seq(Sends)
  BY DEF Inv, MessagesOK
<1>3. Mapped(sendOf, sending) # <<>>
  BY <1>2, MappedEmpty, SendKinds
<1>4. /\ Head(sending) \in Sends
      /\ Head(Mapped(sendOf, sending)) = sendOf[Head(sending)]
      /\ Tail(Mapped(sendOf, sending)) = Mapped(sendOf, Tail(sending))
  BY <1>2, MappedHead, SendKinds
<1> QED
  BY <1>1, <1>3, <1>4

LEMMA SendsRefine ==
    ASSUME Inv, SendSignal \/ SendUpdate
    PROVE  Refines
<1>1. /\ sending # <<>> /\ sending' = Tail(sending) /\ sending' \in Seq(Sends)
      /\ Head(sending) \in Sends
  <2>1. sending \in Seq(Sends) /\ sending # <<>> /\ sending' = Tail(sending)
    BY DEF SendSignal, SendUpdate, Inv, MessagesOK
  <2> QED
    BY <2>1, HeadTailProperties
<1>2. Listed' = Listed /\ FeedCommands' = FeedCommands /\ FeedPhase' = FeedPhase
  BY DEF SendSignal, SendUpdate, indexVars, Listed, FeedCommands, FeedPhase
<1>3. CASE SendSignal
  <2>1. Inv'
    BY <1>1, <1>3 DEF SendSignal, Inv, MessagesOK, HostsOK, indexVars, requestVars, resolverVars
  <2>2. Head(FeedSending) = Head(sending) /\ Head(FeedSending) # Feed!Own
        /\ FeedSending # <<>> /\ FeedSending' = Tail(FeedSending)
    BY <1>1, <1>3, <2>1, FirstSend, SendKinds DEF SendSignal
  <2>3. Feed!SendSignal
    BY <1>2, <1>3, <2>2 DEF SendSignal, Feed!SendSignal
  <2> QED
    BY <2>1, <2>3 DEF Refines, Feed!FeedNext, Feed!Handler
<1>4. CASE SendUpdate
  <2>1. Head(sending) \in Results
    BY <1>1, <1>4, SendKinds DEF SendUpdate
  <2>2. statusUpdateCh' \in Seq(Results)
    BY <1>4, <2>1, AppendProperties DEF SendUpdate, Inv, MessagesOK
  <2>3. Inv'
    BY <1>1, <1>4, <2>2 DEF SendUpdate, Inv, MessagesOK, HostsOK, indexVars, requestVars,
                            resolverVars
  <2>4. Head(FeedSending) = Feed!Own
        /\ FeedSending # <<>> /\ FeedSending' = Tail(FeedSending)
    BY <1>1, <1>4, <2>3, FirstSend, SendKinds DEF SendUpdate
  <2>5. Feed!SendOwn
    BY <1>2, <1>4, <2>4 DEF SendUpdate, Feed!SendOwn
  <2> QED
    BY <2>3, <2>5 DEF Refines, Feed!FeedNext, Feed!Handler
<1> QED
  BY <1>3, <1>4

LEMMA EndRefines ==
    ASSUME Inv, StopResolver \/ HttpShutdown
    PROVE  Refines
<1>1. CASE StopResolver
  <2>1. Inv'
    BY <1>1 DEF StopResolver, CloseResolver, Inv, MessagesOK, HostsOK, indexVars, requestVars,
                channelVars
  <2>2. FeedPhase' = FeedPhase
    BY <1>1 DEF StopResolver, FeedPhase
  <2> QED
    BY <1>1, <2>1, <2>2, Stutters DEF StopResolver, indexVars, channelVars
<1>2. CASE HttpShutdown
  <2>1. Inv'
    BY <1>2 DEF HttpShutdown, Inv, MessagesOK, HostsOK, indexVars, requestVars, channelVars,
                resolverVars
  <2>2. Feed!End
    BY <1>2 DEF HttpShutdown, Feed!End, indexVars, channelVars, Listed, FeedCommands,
                FeedSending, FeedPhase
  <2> QED
    BY <2>1, <2>2 DEF Refines, Feed!FeedNext, Feed!Handler
<1> QED
  BY <1>1, <1>2

-----------------------------------------------------------------------------
\* What the routine reads: the table it works on, and what it becomes.
LEMMA StateTable ==
    ASSUME Inv, Reading
    PROVE  /\ TableOK(Table)
           /\ Table.peers = peers /\ Table.index = apiHostIdx /\ Table.sends = <<>>
BY DEF Inv, Reading, Table, TableOK

LEMMA BecomesInv ==
    ASSUME Inv, NEW next, TableOK(next), Becomes(next), next.sends \in Seq(Sends),
           statusUpdateCh' \in Seq(Results), commandCh' \in Seq(Commands), HostsOK',
           UNCHANGED <<asking, http>>
    PROVE  Inv' /\ ListedIn(peers') = ListedIn(next.peers) /\ sending' = next.sends
BY DEF Inv, MessagesOK, Becomes, TableOK

LEMMA MappedShort ==
    ASSUME NEW S, NEW T, NEW f, Maps(f, S, T)
    PROVE  /\ Mapped(f, <<>>) = <<>>
           /\ \A x \in S : Mapped(f, <<x>>) = <<f[x]>>
           /\ \A x, y \in S : Mapped(f, <<x, y>>) = <<f[x], f[y]>>
<1>1. <<>> \in Seq(S) /\ Mapped(f, <<>>) = <<>>
  BY EmptySeq, MappedEmpty
<1>2. ASSUME NEW x \in S
      PROVE  /\ <<x>> \in Seq(S)
             /\ Mapped(f, <<x>>) = <<f[x]>>
  <2> DEFINE none == <<>>
  <2>1. none \in Seq(S) /\ Mapped(f, none) = none
    BY <1>1
  <2> HIDE DEF none
  <2>2. Append(none, x) \in Seq(S) /\ Mapped(f, Append(none, x)) = Append(none, f[x])
    BY <2>1, MappedAppend
  <2> QED
    BY <2>2, ShortSends DEF none
<1>3. ASSUME NEW x \in S, NEW y \in S
      PROVE  Mapped(f, <<x, y>>) = <<f[x], f[y]>>
  <2> DEFINE one == <<x>>
             image == <<f[x]>>
  <2>1. one \in Seq(S) /\ Mapped(f, one) = image
    BY <1>2
  <2> HIDE DEF one, image
  <2>2. Mapped(f, Append(one, y)) = Append(image, f[y])
    BY <2>1, MappedAppend
  <2> QED
    BY <2>2, ShortSends DEF one, image
<1> QED
  BY <1>1, <1>2, <1>3

\* What PeerFeed has in sending, for what the routine has.
LEMMA SendingMapped ==
    ASSUME Inv'
    PROVE  /\ sending' = <<>> => FeedSending' = <<>>
           /\ \A s \in Sends : sending' = <<s>> => FeedSending' = <<sendOf[s]>>
           /\ \A s, u \in Sends : sending' = <<s, u>> => FeedSending' = <<sendOf[s], sendOf[u]>>
<1>1. FeedSending' = Mapped(sendOf, sending')
  BY NextFeedMapped DEF MapsFeed, sendOf
<1> QED
  BY <1>1, MappedShort, SendKinds

LEMMA ListedMapped ==
    ASSUME Inv, Inv'
    PROVE  Listed = ListedIn(peers) /\ Listed' = ListedIn(peers')
BY FeedMapped, NextFeedMapped DEF MapsFeed

LEMMA ReadingMapped ==
    ASSUME Inv, Reading
    PROVE  FeedPhase = "running" /\ FeedSending = <<>> /\ Feed!Reading
<1>1. FeedSending = Mapped(sendOf, sending) /\ sending = <<>> /\ phase = "running"
  BY FeedMapped DEF MapsFeed, Reading
<1>2. Mapped(sendOf, <<>>) = <<>>
  BY MappedShort, SendKinds
<1> QED
  BY <1>1, <1>2 DEF FeedPhase, Feed!Reading

LEMMA GainFeed ==
    ASSUME Inv, Inv', NEW api \in Api, api \notin ListedIn(peers),
           ListedIn(peers') = ListedIn(peers) \cup {api},
           sending' = <<Signal("Add", api)>>
    PROVE  Feed!Gain(api)
BY ListedMapped, SendingMapped, SendKinds DEF Feed!Gain

LEMMA LoseFeed ==
    ASSUME Inv, Inv', NEW api \in Api, api \in ListedIn(peers),
           ListedIn(peers') = ListedIn(peers) \ {api},
           sending' = <<Signal("Delete", api)>>
    PROVE  Feed!Lose(api)
BY ListedMapped, SendingMapped, SendKinds DEF Feed!Lose

LEMMA SwapFeed ==
    ASSUME Inv, Inv', NEW from \in Api, NEW to \in Api,
           from \in ListedIn(peers), to \notin ListedIn(peers),
           ListedIn(peers') = (ListedIn(peers) \ {from}) \cup {to},
           sending' = <<Signal("Delete", from), Signal("Add", to)>>
    PROVE  Feed!Swap(from, to)
BY ListedMapped, SendingMapped, SendKinds DEF Feed!Swap

LEMMA TakeUpdateRefines ==
    ASSUME StableNodes, Inv, TakeUpdate
    PROVE  Refines
<1> DEFINE message == Head(statusUpdateCh)
<1>1. Reading /\ message \in Results /\ statusUpdateCh' \in Seq(Results)
  BY HeadTailProperties DEF TakeUpdate, Inv, MessagesOK
<1>2. ASSUME NEW next, TableOK(next), Becomes(next), next.sends \in Seq(Sends)
      PROVE  Inv' /\ ListedIn(peers') = ListedIn(next.peers) /\ sending' = next.sends
  <2>1. HostsOK' /\ commandCh' \in Seq(Commands) /\ UNCHANGED <<asking, http>>
    BY DEF TakeUpdate, Inv, MessagesOK, HostsOK, requestVars, resolverVars
  <2> QED
    BY <1>1, <1>2, <2>1, BecomesInv
<1>3. UNCHANGED <<commandCh, subscriberCh, FeedCommands, FeedPhase>>
  BY DEF TakeUpdate, FeedCommands, FeedPhase
<1>4. ASSUME Inv', \E a, b \in Api : Feed!Gain(a) \/ Feed!Lose(a) \/ Feed!Swap(a, b)
      PROVE  Refines
  BY <1>1, <1>3, <1>4, ReadingMapped DEF Refines, Feed!FeedNext, Feed!Handler, Feed!PeerChange
<1>5. ASSUME NEW next, TableOK(next), Becomes(next), next.sends = <<>>,
             ListedIn(next.peers) = ListedIn(peers)
      PROVE  Refines
  <2>1. next.sends \in Seq(Sends) /\ sending = <<>>
    BY <1>1, <1>5, EmptySeq DEF Reading
  <2> QED
    BY <1>2, <1>3, <1>5, <2>1, Stutters
<1>6. TableOK(Table) /\ Table.peers = peers /\ Table.index = apiHostIdx /\ Table.sends = <<>>
  BY <1>1, StateTable
<1>7. ListedIn(peers) \subseteq Api
  BY ListedIndex DEF Inv
<1>8. ASSUME NEW host, Becomes(MarkPeerUnreachable(Table, host)) PROVE Refines
  <2> DEFINE next == MarkPeerUnreachable(Table, host)
  <2>1. CASE host \notin Keys(peers)
    BY <1>5, <1>6, <1>8, <2>1 DEF MarkPeerUnreachable
  <2>2. CASE host \in Keys(peers)
    <3> DEFINE peer == peers.value[host]
    <3>1. /\ TableOK(next)
          /\ ListedIn(next.peers) = ListedIn(peers) \ {peer.api}
          /\ IsListed(peer) <=> peer.api \in ListedIn(peers)
          /\ next.sends = Withdrawn(peer)
      BY <1>6, <2>2, MarkEffect
    <3> HIDE DEF next
    <3>2. CASE IsListed(peer)
      <4>1. next.sends = <<Signal("Delete", peer.api)>> /\ peer.api \in Api
            /\ peer.api \in ListedIn(peers)
        BY <1>7, <3>1, <3>2 DEF Withdrawn
      <4>2. next.sends \in Seq(Sends)
        BY <4>1, SendKinds
      <4>3. Inv' /\ ListedIn(peers') = ListedIn(next.peers) /\ sending' = next.sends
        BY <1>2, <1>8, <3>1, <4>2 DEF next
      <4>4. Feed!Lose(peer.api)
        BY <3>1, <4>1, <4>3, LoseFeed
      <4> QED
        BY <1>4, <4>1, <4>3, <4>4
    <3>3. CASE ~IsListed(peer)
      BY <1>5, <1>8, <3>1, <3>3 DEF Withdrawn, next
    <3> QED
      BY <3>2, <3>3
  <2> QED
    BY <2>1, <2>2
<1>9. ASSUME NEW s \in Reported, Becomes(SetPeerStatus(Table, s.host, s)) PROVE Refines
  <2> DEFINE next == SetPeerStatus(Table, s.host, s)
             old == peers.value[s.host]
  <2>1. CASE s.host \notin Keys(peers)
    BY <1>5, <1>6, <1>9, <2>1 DEF SetPeerStatus
  <2>2. CASE s.host \in Keys(peers)
    <3>1. TableOK(next) /\ s.api \in Api
      BY <1>6, <2>2, StatusEffect, ReportedStatus DEF Status
    <3>2. Unchanged(Table, next) \/ Gains(Table, next, s.api) \/ Swaps(Table, next, old.api, s.api)
      BY <1>6, <2>2, StatusEffect
    <3>3. Becomes(next)
      BY <1>9
    <3> HIDE DEF next
    <3>4. CASE Unchanged(Table, next)
      BY <1>5, <1>6, <3>1, <3>3, <3>4 DEF Unchanged
    <3>5. CASE Gains(Table, next, s.api)
      <4>1. next.sends = <<Signal("Add", s.api)>> /\ next.sends \in Seq(Sends)
        BY <3>1, <3>5, SendKinds DEF Gains
      <4>2. Inv' /\ ListedIn(peers') = ListedIn(next.peers) /\ sending' = next.sends
        BY <1>2, <3>1, <3>3, <4>1
      <4>3. Feed!Gain(s.api)
        BY <1>6, <3>1, <3>5, <4>1, <4>2, GainFeed DEF Gains
      <4> QED
        BY <1>4, <3>1, <4>2, <4>3
    <3>6. CASE Swaps(Table, next, old.api, s.api)
      <4>1. /\ next.sends = <<Signal("Delete", old.api), Signal("Add", s.api)>>
            /\ old.api \in Api
        BY <1>6, <1>7, <3>6 DEF Swaps
      <4>2. next.sends \in Seq(Sends)
        BY <3>1, <4>1, SendKinds
      <4>3. Inv' /\ ListedIn(peers') = ListedIn(next.peers) /\ sending' = next.sends
        BY <1>2, <3>1, <3>3, <4>2
      <4>4. Feed!Swap(old.api, s.api)
        BY <1>6, <3>1, <3>6, <4>1, <4>3, SwapFeed DEF Swaps
      <4> QED
        BY <1>4, <3>1, <4>1, <4>3, <4>4
    <3> QED
      BY <3>2, <3>4, <3>5, <3>6
  <2> QED
    BY <2>1, <2>2
<1>10. CASE message.answer = {} /\ Becomes(MarkPeerUnreachable(Table, message.host))
  BY <1>8, <1>10
<1>11. CASE \E status \in message.answer : Becomes(SetPeerStatus(Table, message.host, status))
  <2>1. PICK status \in message.answer : Becomes(SetPeerStatus(Table, message.host, status))
    BY <1>11
  <2>2. \E s \in Reported : message.host = s.host /\ message.answer = {s}
    <3>1. CASE \E s \in Reported : message = Update(s.host, {s})
      BY <3>1 DEF Update
    <3>2. CASE \E h \in Host : message = Failure(h)
      BY <2>1, <3>2 DEF Failure, Update
    <3> HIDE DEF message
    <3> QED
      BY <1>1, <3>1, <3>2 DEF Results
  <2> HIDE DEF message
  <2>3. status \in Reported /\ message.host = status.host
    BY <2>1, <2>2
  <2> QED
    BY <1>9, <2>1, <2>3
<1> QED
  BY <1>10, <1>11 DEF TakeUpdate
LEMMA TakeResolvedRefines ==
    ASSUME Inv, TakeResolved
    PROVE  Refines
<1> DEFINE host == Head(responses)
           next == AddPeer(Table, host, NewPeer)
<1>1. Reading /\ host \in Host /\ responses' \in Seq(Host)
  BY HeadTailProperties DEF TakeResolved, Inv, HostsOK
<1>3. CASE ~Known(host) /\ Becomes(next)
  <2>1. TableOK(Table) /\ Table.peers = peers /\ Table.sends = <<>>
    BY <1>1, StateTable
  <2>2. DelPeer(Table, host) = Table
    BY <1>3, <2>1 DEF DelPeer, Known
  <2>3. TableOK(next) /\ next.sends = <<>> /\ ListedIn(next.peers) = ListedIn(peers)
    BY <1>1, <2>1, <2>2, AddPeerEffect
  <2>4. sending = <<>> /\ next.sends \in Seq(Sends)
    BY <1>1, <2>3, EmptySeq DEF Reading
  <2>5. Becomes(next)
    BY <1>3
  <2>6. /\ statusUpdateCh' \in Seq(Results) /\ commandCh' \in Seq(Commands) /\ HostsOK'
        /\ UNCHANGED <<asking, http, commandCh, subscriberCh, FeedPhase>>
    BY <1>1 DEF TakeResolved, Inv, MessagesOK, HostsOK, requestVars, channelVars, FeedPhase
  <2> HIDE DEF next
  <2>7. Inv' /\ ListedIn(peers') = ListedIn(next.peers) /\ sending' = next.sends
    BY <2>3, <2>4, <2>5, <2>6, BecomesInv
  <2> QED
    BY <2>3, <2>4, <2>6, <2>7, Stutters
<1>4. CASE UNCHANGED <<indexVars, sending>>
  <2>1. Inv'
    BY <1>1, <1>4 DEF TakeResolved, Inv, MessagesOK, HostsOK, indexVars, requestVars, channelVars
  <2> QED
    BY <1>4, <2>1, Stutters DEF TakeResolved, indexVars, channelVars, FeedPhase
<1> QED
  BY <1>3, <1>4 DEF TakeResolved

-----------------------------------------------------------------------------
\* The commands.  The one that is taken is taken from PeerFeed's channel too.
LEMMA FirstCommand ==
    ASSUME Inv, TakeCommand
    PROVE  /\ Head(commandCh) \in Commands /\ commandCh' \in Seq(Commands)
           /\ FeedCommands # <<>> /\ Head(FeedCommands) = commandOf[Head(commandCh)]
           /\ Inv' => FeedCommands' = Tail(FeedCommands)
<1>1. commandCh \in Seq(Commands) /\ commandCh # <<>> /\ commandCh' = Tail(commandCh)
  BY DEF TakeCommand, Inv, MessagesOK
<1>2. Head(commandCh) \in Commands /\ commandCh' \in Seq(Commands)
  BY <1>1, HeadTailProperties
<1>3. FeedCommands = Mapped(commandOf, commandCh)
  BY FeedMapped DEF MapsFeed
<1>4. Inv' => FeedCommands' = Mapped(commandOf, commandCh')
  BY NextFeedMapped DEF MapsFeed, commandOf
<1>5. Mapped(commandOf, commandCh) # <<>>
  BY <1>1, MappedEmpty, CommandKinds
<1>6. /\ Head(Mapped(commandOf, commandCh)) = commandOf[Head(commandCh)]
      /\ Tail(Mapped(commandOf, commandCh)) = Mapped(commandOf, Tail(commandCh))
  BY <1>1, MappedHead, CommandKinds
<1> QED
  BY <1>1, <1>2, <1>3, <1>4, <1>5, <1>6

\* What every command leaves alone.
LEMMA CommandLeaves ==
    ASSUME Inv, TakeCommand
    PROVE  /\ Reading
           /\ statusUpdateCh' \in Seq(Results) /\ HostsOK'
           /\ asking' = asking /\ subscriberCh' = subscriberCh
BY DEF TakeCommand, Inv, MessagesOK, HostsOK, requestVars, resolverVars

LEMMA AnswerRequestRefines ==
    ASSUME Inv, TakeCommand, AnswerRequest(Head(commandCh))
    PROVE  Refines
<1> DEFINE command == Head(commandCh)
<1>1. command \in Commands /\ command.type \in {"PeerList", "Status"} /\ http' = Idle
  BY FirstCommand DEF AnswerRequest
<1>2. command \in Requests
  BY <1>1 DEF Commands
<1>3. Inv'
  BY FirstCommand, CommandLeaves DEF AnswerRequest, Inv, MessagesOK, indexVars
<1>4. Head(FeedCommands) = Feed!Other /\ FeedCommands # <<>>
      /\ FeedCommands' = Tail(FeedCommands)
  BY <1>2, <1>3, FirstCommand, CommandKinds
<1>5. Listed' = Listed /\ FeedSending' = FeedSending /\ FeedPhase' = FeedPhase
  BY DEF AnswerRequest, indexVars, Listed, FeedSending, FeedPhase
<1>6. Feed!Reading /\ FeedSending = <<>>
  BY CommandLeaves, ReadingMapped
<1>7. Feed!TakeCommand
  BY <1>4, <1>5, <1>6, CommandLeaves DEF Feed!TakeCommand
<1> QED
  BY <1>3, <1>7 DEF Refines, Feed!FeedNext, Feed!Handler

LEMMA TakeStopRefines ==
    ASSUME Inv, TakeCommand, TakeStop(Head(commandCh))
    PROVE  Refines
<1> DEFINE command == Head(commandCh)
<1>1. command \in Commands /\ command.type = "Stop"
  BY FirstCommand DEF TakeStop
<1>2. command = [type |-> "Stop"]
  BY <1>1, RequestTypes DEF Commands
<1>3. Inv'
  BY FirstCommand, CommandLeaves DEF TakeStop, Inv, MessagesOK, indexVars
<1>4. Head(FeedCommands) = Feed!StopHandler /\ FeedCommands # <<>>
      /\ FeedCommands' = Tail(FeedCommands)
  <2>1. commandOf[command] = Feed!StopHandler
    BY <1>2, CommandKinds DEF Feed!StopHandler
  <2> QED
    BY <1>3, <2>1, FirstCommand
<1>5. Listed' = Listed /\ FeedSending' = FeedSending /\ FeedPhase' = "closing"
  BY DEF TakeStop, indexVars, Listed, FeedSending, FeedPhase
<1>6. Feed!Reading
  BY CommandLeaves, ReadingMapped
<1>7. Feed!TakeCommand
  BY <1>4, <1>5, <1>6, CommandLeaves DEF Feed!TakeCommand
<1> QED
  BY <1>3, <1>7 DEF Refines, Feed!FeedNext, Feed!Handler
LEMMA TakeUnreachableRefines ==
    ASSUME Inv, TakeCommand, TakeUnreachable(Head(commandCh))
    PROVE  Refines
<1> DEFINE command == Head(commandCh)
           api == command.api
           host == apiHostIdx[api]
           next == MarkPeerUnreachable(Table, host)
<1>1. command \in Commands /\ command.type = "Unreachable"
  BY FirstCommand DEF TakeUnreachable
<1>2. api \in Api /\ command = [type |-> "Unreachable", api |-> api]
  BY <1>1, RequestTypes DEF Commands
<1>3. commandOf[command] = command
  BY <1>2, CommandKinds
<1>4. Reading /\ UNCHANGED <<subscriberCh, FeedPhase, http>>
  BY CommandLeaves DEF TakeUnreachable, FeedPhase
<1>5. TableOK(Table) /\ Table.peers = peers /\ Table.index = apiHostIdx /\ Table.sends = <<>>
  BY <1>4, StateTable
<1>6. ASSUME NEW t, TableOK(t), Becomes(t), t.sends \in Seq(Sends)
      PROVE  Inv' /\ ListedIn(peers') = ListedIn(t.peers) /\ sending' = t.sends
  BY <1>4, <1>6, FirstCommand, CommandLeaves, BecomesInv
<1>7. ASSUME Inv' PROVE /\ FeedCommands # <<>> /\ Head(FeedCommands) = command
                        /\ FeedCommands' = Tail(FeedCommands)
  BY <1>3, <1>7, FirstCommand
<1>8. Feed!Reading /\ FeedSending = <<>> /\ sending = <<>>
  BY <1>4, ReadingMapped DEF Reading
<1>9. ASSUME Inv', Feed!Lose(api) PROVE Refines
  <2>1. Feed!TakeCommand
    BY <1>1, <1>4, <1>7, <1>8, <1>9 DEF Feed!TakeCommand
  <2> QED
    BY <1>9, <2>1 DEF Refines, Feed!FeedNext, Feed!Handler
<1>10. ASSUME Inv', api \notin ListedIn(peers), ListedIn(peers') = ListedIn(peers),
              sending' = <<>>
       PROVE  Refines
  <2>1. api \notin Listed /\ Listed' = Listed /\ FeedSending' = <<>>
    BY <1>10, ListedMapped, SendingMapped
  <2>2. Feed!TakeCommand
    BY <1>1, <1>4, <1>7, <1>8, <1>10, <2>1 DEF Feed!TakeCommand
  <2> QED
    BY <1>10, <2>2 DEF Refines, Feed!FeedNext, Feed!Handler
<1>11. CASE api \in DOMAIN apiHostIdx
  <2> DEFINE peer == peers.value[host]
  <2>1. host \in Keys(peers) /\ peer.api = api
    BY <1>11 DEF Inv, IndexOK
  <2>2. /\ TableOK(next)
        /\ ListedIn(next.peers) = ListedIn(peers) \ {api}
        /\ IsListed(peer) <=> api \in ListedIn(peers)
        /\ next.sends = Withdrawn(peer)
    <3> HIDE DEF host
    <3>1. host \in Keys(Table.peers) /\ Table.peers.value[host] = peer
      BY <1>5, <2>1
    <3> HIDE DEF peer
    <3> QED
      BY <1>5, <2>1, <3>1, MarkEffect
  <2>3. Becomes(next)
    BY <1>11 DEF TakeUnreachable
  <2> HIDE DEF next, host
  <2>4. CASE IsListed(peer)
    <3>1. next.sends = <<Signal("Delete", api)>>
      BY <2>1, <2>2, <2>4 DEF Withdrawn
    <3>2. next.sends \in Seq(Sends)
      BY <1>2, <3>1, SendKinds
    <3>3. Inv' /\ ListedIn(peers') = ListedIn(next.peers) /\ sending' = next.sends
      BY <1>6, <2>2, <2>3, <3>2
    <3>4. Feed!Lose(api)
      BY <1>2, <2>2, <2>4, <3>1, <3>3, LoseFeed
    <3> QED
      BY <1>9, <3>3, <3>4
  <2>5. CASE ~IsListed(peer)
    <3>1. next.sends = <<>> /\ next.sends \in Seq(Sends)
      BY <2>2, <2>5, EmptySeq DEF Withdrawn
    <3>2. Inv' /\ ListedIn(peers') = ListedIn(next.peers) /\ sending' = next.sends
      BY <1>6, <2>2, <2>3, <3>1
    <3> QED
      BY <1>10, <2>2, <2>5, <3>1, <3>2
  <2> QED
    BY <2>4, <2>5
<1>12. CASE api \notin DOMAIN apiHostIdx
  <2>1. UNCHANGED <<indexVars, sending>>
    BY <1>12 DEF TakeUnreachable
  <2>2. Inv' /\ ListedIn(peers') = ListedIn(peers)
    BY <1>4, <2>1, FirstCommand, CommandLeaves DEF Inv, MessagesOK, indexVars
  <2>3. api \notin ListedIn(peers)
    BY <1>12, ListedIndex DEF Inv
  <2> QED
    BY <1>8, <1>10, <2>1, <2>2, <2>3
<1> QED
  BY <1>11, <1>12

LEMMA Discovered ==
    ASSUME NEW host, NEW old, Believed(host, old),
           NEW peer, peer = [old EXCEPT !.discovered = TRUE]
    PROVE  Believed(host, peer) /\ peer.api = old.api /\ (IsListed(peer) <=> IsListed(old))
<1>1. /\ peer \in PeerFields /\ peer.api = old.api /\ peer.mode = old.mode
      /\ peer.status = old.status
  BY DEF Believed, PeerFields
<1> QED
  BY <1>1 DEF Believed, IsReachable, IsListed

\* The peer that announces itself is there afterwards, and its API host, if it
\* had one, is as listed as before.
LEMMA AnnouncedEffect ==
    ASSUME Inv, Reading, NEW host \in Host, NEW sends \in Seq(Sends)
    PROVE  LET added == IF Known(host) THEN Table ELSE AddPeer(Table, host, NewPeer)
               known == [added.peers.value[host] EXCEPT !.discovered = TRUE]
               next == [added EXCEPT !.peers = Set(@, host, known), !.sends = sends]
           IN  TableOK(next) /\ next.sends = sends /\ ListedIn(next.peers) = ListedIn(peers)
<1> DEFINE added == IF Known(host) THEN Table ELSE AddPeer(Table, host, NewPeer)
           old == added.peers.value[host]
           known == [old EXCEPT !.discovered = TRUE]
           map == Set(added.peers, host, known)
           next == [added EXCEPT !.peers = map, !.sends = sends]
<1>1. TableOK(Table) /\ Table.peers = peers
  BY StateTable
<1>2. /\ TableOK(added) /\ host \in Keys(added.peers)
      /\ ListedIn(added.peers) = ListedIn(peers)
  <2>1. CASE Known(host)
    BY <1>1, <2>1 DEF Known
  <2>2. CASE ~Known(host)
    <3> DEFINE new == AddPeer(Table, host, NewPeer)
    <3>1. DelPeer(Table, host) = Table
      BY <1>1, <2>2 DEF DelPeer, Known
    <3>2. /\ TableOK(new) /\ Keys(new.peers) = Keys(Table.peers) \cup {host}
          /\ ListedIn(new.peers) = ListedIn(Table.peers)
      BY <1>1, <3>1, AddPeerEffect
    <3>3. added = new
      BY <2>2
    <3> HIDE DEF new, added
    <3> QED
      BY <1>1, <3>2, <3>3
  <2> QED
    BY <2>1, <2>2
<1> HIDE DEF added
<1>3. Believed(host, old)
  BY <1>2 DEF TableOK, PeersOK
<1> HIDE DEF old
<1>4. Believed(host, known) /\ known.api = old.api /\ (IsListed(known) <=> IsListed(old))
  BY <1>3, Discovered
<1> HIDE DEF known
<1>5. /\ PeersOK(map)
      /\ Keys(map) = Keys(added.peers) \cup {host}
      /\ map.value[host] = known
      /\ \A h \in Keys(added.peers) : h # host => map.value[h] = added.peers.value[h]
  BY <1>2, <1>4, SetPeer DEF TableOK
<1>6. next = [peers |-> map, index |-> added.index, telling |-> added.telling, sends |-> sends]
  <2> HIDE DEF map
  <2> SUFFICES ASSUME NEW n, n = next
               PROVE  n = [peers |-> map, index |-> added.index, telling |-> added.telling,
                           sends |-> sends]
    OBVIOUS
  <2> QED
    BY <1>2 DEF TableOK
<1> HIDE DEF map, next
<1>7. IndexOK(map, added.index) /\ ListedIn(map) = ListedIn(added.peers)
  BY <1>2, <1>4, <1>5, SameApi DEF TableOK, old
<1>8. TableOK(next) /\ next.peers = map /\ next.sends = sends
  BY <1>5, <1>6, <1>7 DEF TableOK
<1> QED
  BY <1>2, <1>7, <1>8 DEF next, map, known, old, added

LEMMA TakeAnnouncementRefines ==
    ASSUME StableNodes, Inv, TakeCommand, TakeAnnouncement(Head(commandCh))
    PROVE  Refines
<1> DEFINE command == Head(commandCh)
           status == command.status
           host == status.host
           update == Update(host, {status})
           sends == <<update>>
           added == IF Known(host) THEN Table ELSE AddPeer(Table, host, NewPeer)
           known == [added.peers.value[host] EXCEPT !.discovered = TRUE]
           next == [added EXCEPT !.peers = Set(@, host, known), !.sends = sends]
<1>1. command \in Commands /\ command.type = "Announcement"
  BY FirstCommand DEF TakeAnnouncement
<1>2. command \in Requests /\ commandOf[command] = Feed!Other
  <2>1. command \in Requests
    BY <1>1 DEF Commands
  <2> QED
    BY <2>1, CommandKinds
<1>3. status \in Reported /\ host \in Host
  <2>1. status \in Reported
    BY <1>1, <1>2 DEF Reported, Announced
  <2> QED
    BY <2>1, ReportedStatus DEF Status
<1>4. update \in Sends /\ sendOf[update] = Feed!Own /\ sends \in Seq(Sends)
  <2>1. update \in Sends /\ sendOf[update] = Feed!Own
    BY <1>3, SendKinds
  <2> HIDE DEF update
  <2> QED
    BY <2>1
<1>5. Reading /\ UNCHANGED <<subscriberCh, FeedPhase, http>>
  BY CommandLeaves DEF TakeAnnouncement, FeedPhase
<1>6. Becomes(next)
  BY DEF TakeAnnouncement
<1> HIDE DEF sends, command
<1>7. TableOK(next) /\ next.sends = sends /\ ListedIn(next.peers) = ListedIn(peers)
  BY <1>3, <1>4, <1>5, AnnouncedEffect
<1> HIDE DEF next
<1>8. Inv' /\ ListedIn(peers') = ListedIn(peers) /\ sending' = sends
  BY <1>4, <1>5, <1>6, <1>7, FirstCommand, CommandLeaves, BecomesInv
<1>9. FeedSending' = <<Feed!Own>> /\ Listed' = Listed
  BY <1>4, <1>8, SendingMapped, ListedMapped DEF sends
<1>10. /\ FeedCommands # <<>> /\ Head(FeedCommands) = Feed!Other
       /\ FeedCommands' = Tail(FeedCommands)
  BY <1>2, <1>8, FirstCommand DEF command
<1>11. Feed!Reading
  BY <1>5, ReadingMapped
<1>12. Feed!TakeCommand
  BY <1>5, <1>9, <1>10, <1>11 DEF Feed!TakeCommand
<1> QED
  BY <1>8, <1>12 DEF Refines, Feed!FeedNext, Feed!Handler
LEMMA TakeCommandRefines ==
    ASSUME StableNodes, Inv, TakeCommand
    PROVE  Refines
<1>1. \/ AnswerRequest(Head(commandCh)) \/ TakeAnnouncement(Head(commandCh))
      \/ TakeUnreachable(Head(commandCh)) \/ TakeStop(Head(commandCh))
  BY DEF TakeCommand
<1> QED
  BY <1>1, AnswerRequestRefines, TakeAnnouncementRefines, TakeUnreachableRefines, TakeStopRefines

-----------------------------------------------------------------------------
\* The start: the seed nodes wait for the resolver, in some order.
LEMMA SeedsQueued == (CHOOSE seeds \in SetToSeqs(Seeds) : TRUE) \in Seq(Host \cup Name)
<1> DEFINE N == Cardinality(Seeds)
<1>1. N \in Nat /\ \E f : f \in Bijection(1..N, Seeds)
  BY HandlerAssumption, FS_CardinalityType DEF ExistsBijection
<1>2. PICK f : f \in Bijection(1..N, Seeds)
  BY <1>1
<1>3. f \in SetToSeqs(Seeds)
  BY <1>2 DEF SetToSeqs, Bijection, Injection, Surjection, IsInjective
<1>4. \A g \in SetToSeqs(Seeds) : g \in Seq(Host \cup Name)
  BY <1>1, HandlerAssumption DEF SetToSeqs
<1> QED
  BY <1>3, <1>4

LEMMA InitRefines == Init => Inv /\ Feed!FeedInit
<1> SUFFICES ASSUME Init PROVE Inv /\ Feed!FeedInit
  OBVIOUS
<1>1. PeersOK(peers) /\ IndexOK(peers, apiHostIdx)
  BY DEF Init, EmptyMap, PeersOK, IndexOK, Keys
<1>2. MessagesOK
  BY DEF Init, MessagesOK
<1>3. HostsOK
  BY SeedsQueued DEF Init, ResolverInit, HostsOK
<1>4. Listed = {} /\ FeedPhase = "running"
  BY DEF Init, EmptyMap, Listed, Keys, FeedPhase
<1>5. FeedCommands = <<>> /\ FeedSending = <<>>
  BY DEF Init, FeedCommands, FeedSending
<1> QED
  BY <1>1, <1>2, <1>3, <1>4, <1>5 DEF Inv, Init, Feed!FeedInit

LEMMA StepRefines ==
    ASSUME StableNodes, Inv, [Next]_vars
    PROVE  Refines
<1>1. CASE Routine
  BY <1>1, TakeCommandRefines, TakeResolvedRefines, TakeUpdateRefines, SendsRefine, EndRefines
     DEF Routine
<1>2. CASE UNCHANGED vars
  <2>1. Inv'
    BY <1>2 DEF vars, indexVars, requestVars, channelVars, resolverVars, Inv, MessagesOK, HostsOK
  <2> QED
    BY <1>2, <2>1, Stutters DEF vars, indexVars, channelVars, FeedPhase
<1> QED
  BY <1>1, <1>2, TicksRefine, StatusAnswerRefines, ListAnswerRefines, AnnounceAnswerRefines,
     HttpRefines, ResolveRefines, ManagerRefines DEF Next

\* While the nodes are stable, what the routine holds of a peer is what that
\* node reported, and the index of the API hosts is the inverse of the peers:
\* through replaced peers, discarded ones and announcements, a report of an
\* API host finds its peer (discovery.go:258, 318).
THEOREM PeersIndexed ==
    ASSUME StableNodes
    PROVE  Spec => [](PeersOK(peers) /\ IndexOK(peers, apiHostIdx))
<1>1. Init => Inv
  BY InitRefines
<1>2. Inv /\ [Next]_vars => Inv'
  BY StepRefines DEF Refines
<1>3. Inv => PeersOK(peers) /\ IndexOK(peers, apiHostIdx)
  BY DEF Inv
<1> QED
  BY <1>1, <1>2, <1>3, PTL DEF Spec

\* While every node keeps its peer port and its mode and no two nodes have an
\* API host in common, the signals on the manager's channel are those of the
\* reachable full peers joining and leaving, each exactly once and in order
\* (discovery.go:422).
THEOREM HandlerImplementsFeed ==
    ASSUME StableNodes
    PROVE  Spec => ImplementsFeed
<1>1. Init => Inv /\ Feed!FeedInit
  BY InitRefines
<1>2. Inv /\ [Next]_vars => Inv' /\ [Feed!FeedNext]_(Feed!feedVars)
  BY StepRefines DEF Refines
<1> QED
  BY <1>1, <1>2, PTL DEF Spec, ImplementsFeed, Feed!FeedSpec

-----------------------------------------------------------------------------
\* The ordered map: what its operations do to its keys.
LEMMA WithoutOK ==
    ASSUME NEW K, NEW order \in Seq(K), IsInjective(order), NEW key
    PROVE  /\ Without(order, key) \in Seq(K)
           /\ IsInjective(Without(order, key))
           /\ ToSet(Without(order, key)) = ToSet(order) \ {key}
<1>1. CASE key \notin ToSet(order)
  BY <1>1 DEF Without
<1>2. CASE key \in ToSet(order)
  <2> DEFINE N == Len(order)
             n == CHOOSE m \in DOMAIN order : order[m] = key
             a == SubSeq(order, 1, n - 1)
             b == SubSeq(order, n + 1, N)
             r == a \o b
  <2>1. N \in Nat /\ DOMAIN order = 1..N /\ n \in 1..N /\ order[n] = key
        /\ \A m \in 1..N : order[m] \in K
    BY <1>2, LenProperties, ElementOfSeq DEF ToSet
  <2>2. Without(order, key) = r
    BY <1>2 DEF Without, RemoveAt
  <2> HIDE DEF N, n
  <2>3. /\ a \in Seq(K) /\ Len(a) = n - 1
        /\ \A m \in 1..(n - 1) : a[m] = order[m]
    <3> DEFINE k == n - 1
    <3>1. k \in Nat /\ 1 \in Int /\ \A m \in 1..k : order[m] \in K
      BY <2>1
    <3> HIDE DEF k
    <3>2. /\ SubSeq(order, 1, k) \in Seq(K)
          /\ Len(SubSeq(order, 1, k)) = IF 1 <= k THEN k - 1 + 1 ELSE 0
          /\ \A m \in 1..(k - 1 + 1) : SubSeq(order, 1, k)[m] = order[1 + m - 1]
      BY <3>1, SubSeqProperties
    <3>3. k - 1 + 1 = k /\ \A m \in 1..k : 1 + m - 1 = m
      BY <3>1
    <3>4. Len(SubSeq(order, 1, k)) = k
          /\ \A m \in 1..k : SubSeq(order, 1, k)[m] = order[m]
      BY <3>1, <3>2, <3>3
    <3> QED
      BY <3>2, <3>4 DEF k
  <2>4. /\ b \in Seq(K) /\ Len(b) = N - n
        /\ \A m \in 1..(N - n) : b[m] = order[n + m]
    <3> DEFINE k == n + 1
    <3>1. k \in Int /\ N \in Int /\ k >= 1 /\ k <= N + 1 /\ \A m \in k..N : order[m] \in K
      BY <2>1
    <3>2. N - k + 1 = N - n /\ \A m \in 1..(N - n) : k + m - 1 = n + m
      BY <2>1
    <3> HIDE DEF k
    <3>3. /\ SubSeq(order, k, N) \in Seq(K)
          /\ Len(SubSeq(order, k, N)) = IF k <= N THEN N - k + 1 ELSE 0
          /\ \A m \in 1..(N - k + 1) : SubSeq(order, k, N)[m] = order[k + m - 1]
      BY <3>1, SubSeqProperties
    <3>4. /\ Len(SubSeq(order, k, N)) = N - n
          /\ \A m \in 1..(N - n) : SubSeq(order, k, N)[m] = order[n + m]
      BY <3>1, <3>2, <3>3
    <3> QED
      BY <3>3, <3>4 DEF k
  <2> HIDE DEF a, b
  <2>5. /\ r \in Seq(K) /\ Len(r) = N - 1
        /\ \A m \in 1..(N - 1) : r[m] = IF m < n THEN order[m] ELSE order[m + 1]
    <3>1. r \in Seq(K) /\ Len(r) = Len(a) + Len(b)
          /\ \A m \in 1..(Len(a) + Len(b)) : r[m] = IF m <= Len(a) THEN a[m] ELSE b[m - Len(a)]
      BY <2>3, <2>4, ConcatProperties
    <3> HIDE DEF r
    <3>2. Len(a) + Len(b) = N - 1
      BY <2>1, <2>3, <2>4
    <3>3. ASSUME NEW m \in 1..(N - 1)
          PROVE  r[m] = IF m < n THEN order[m] ELSE order[m + 1]
      <4>1. CASE m < n
        <5>1. m \in 1..(n - 1) /\ m <= Len(a)
          BY <2>1, <2>3, <4>1
        <5> QED
          BY <2>3, <3>1, <3>2, <4>1, <5>1
      <4>2. CASE ~(m < n)
        <5>1. m - Len(a) \in 1..(N - n) /\ n + (m - Len(a)) = m + 1 /\ ~(m <= Len(a))
          BY <2>1, <2>3, <4>2
        <5> QED
          BY <2>4, <3>1, <3>2, <4>2, <5>1
      <4> QED
        BY <4>1, <4>2
    <3> QED
      BY <3>1, <3>2, <3>3
  <2> HIDE DEF r
  <2>6. DOMAIN r = 1..(N - 1)
    BY <2>5, LenProperties
  <2>7. \A m, k \in 1..N : order[m] = order[k] => m = k
    BY <2>1 DEF IsInjective
  <2>8. IsInjective(r)
    <3> SUFFICES ASSUME NEW m \in 1..(N - 1), NEW k \in 1..(N - 1), r[m] = r[k] PROVE m = k
      BY <2>6 DEF IsInjective
    <3> DEFINE i == IF m < n THEN m ELSE m + 1
               j == IF k < n THEN k ELSE k + 1
    <3>1. i \in 1..N /\ j \in 1..N /\ order[i] = order[j]
      BY <2>1, <2>5
    <3>2. i = j
      BY <2>7, <3>1
    <3> QED
      BY <2>1, <3>2
  <2>9. ToSet(r) = ToSet(order) \ {key}
    <3>1. ASSUME NEW x \in ToSet(r) PROVE x \in ToSet(order) \ {key}
      <4>1. PICK m \in 1..(N - 1) : x = r[m]
        BY <2>6 DEF ToSet
      <4> DEFINE i == IF m < n THEN m ELSE m + 1
      <4>2. i \in 1..N /\ x = order[i] /\ i # n
        BY <2>1, <2>5, <4>1
      <4> QED
        BY <2>1, <2>7, <4>2 DEF ToSet
    <3>2. ASSUME NEW x \in ToSet(order), x # key PROVE x \in ToSet(r)
      <4>1. PICK i \in 1..N : x = order[i]
        BY <2>1 DEF ToSet
      <4> DEFINE m == IF i < n THEN i ELSE i - 1
      <4>2. m \in 1..(N - 1) /\ r[m] = order[i]
        <5>1. i # n
          BY <2>1, <3>2, <4>1
        <5>2. CASE i < n
          <6>1. i \in 1..(N - 1)
            BY <2>1, <5>2
          <6> QED
            BY <2>5, <5>2, <6>1
        <5>3. CASE i > n
          <6>1. i - 1 \in 1..(N - 1) /\ ~(i - 1 < n) /\ (i - 1) + 1 = i
            BY <2>1, <5>3
          <6>2. r[i - 1] = order[(i - 1) + 1] /\ m = i - 1
            BY <2>1, <2>5, <5>3, <6>1
          <6> QED
            BY <6>1, <6>2
        <5> QED
          BY <2>1, <5>1, <5>2, <5>3
      <4> QED
        BY <2>6, <4>1, <4>2 DEF ToSet
    <3> QED
      BY <3>1, <3>2
  <2> QED
    BY <2>2, <2>5, <2>8, <2>9
<1> QED
  BY <1>1, <1>2

LEMMA AppendKey ==
    ASSUME NEW K, NEW order \in Seq(K), IsInjective(order), NEW key \in K, key \notin ToSet(order)
    PROVE  /\ Append(order, key) \in Seq(K)
           /\ IsInjective(Append(order, key))
           /\ ToSet(Append(order, key)) = ToSet(order) \cup {key}
<1> DEFINE N == Len(order)
           r == Append(order, key)
<1>1. /\ N \in Nat /\ DOMAIN order = 1..N
      /\ r \in Seq(K) /\ Len(r) = N + 1 /\ r[N + 1] = key
      /\ \A n \in 1..N : r[n] = order[n]
  BY AppendProperties, LenProperties
<1>2. DOMAIN r = 1..(N + 1)
  BY <1>1, LenProperties
<1> HIDE DEF N, r
<1>3. \A n \in 1..N : order[n] # key /\ order[n] \in ToSet(order)
  BY <1>1 DEF ToSet
<1>4. IsInjective(r)
  BY <1>1, <1>2, <1>3 DEF IsInjective
<1>5. ToSet(r) = ToSet(order) \cup {key}
  <2>1. \A x \in ToSet(r) : x \in ToSet(order) \cup {key}
    BY <1>1, <1>2, <1>3 DEF ToSet
  <2>2. key \in ToSet(r)
    <3>1. N + 1 \in 1..(N + 1)
      BY <1>1
    <3> QED
      BY <1>1, <1>2, <3>1 DEF ToSet
  <2>3. \A x \in ToSet(order) : x \in ToSet(r)
    <3> SUFFICES ASSUME NEW n \in 1..N PROVE order[n] \in ToSet(r)
      BY <1>1 DEF ToSet
    <3>1. n \in 1..(N + 1) /\ r[n] = order[n]
      BY <1>1
    <3> QED
      BY <1>2, <3>1 DEF ToSet
  <2> QED
    BY <2>1, <2>2, <2>3
<1> QED
  BY <1>1, <1>4, <1>5 DEF r

LEMMA EmptyOK ==
    ASSUME NEW K, NEW V
    PROVE  IsMap(EmptyMap, K, V) /\ Keys(EmptyMap) = {}
<1>1. DOMAIN <<>> = {} /\ ToSet(<<>>) = {} /\ IsInjective(<<>>) /\ <<>> \in Seq(K)
  BY DEF ToSet, IsInjective
<1> QED
  BY <1>1 DEF IsMap, EmptyMap, Keys

LEMMA SetOK ==
    ASSUME NEW K, NEW V, NEW map, IsMap(map, K, V), NEW key \in K, NEW value \in V
    PROVE  IsMap(Set(map, key, value), K, V) /\ Keys(Set(map, key, value)) = Keys(map) \cup {key}
<1> DEFINE new == Set(map, key, value)
<1>1. /\ new.order = IF key \in Keys(map) THEN map.order ELSE Append(map.order, key)
      /\ new.value = [x \in Keys(map) \cup {key} |-> IF x = key THEN value ELSE map.value[x]]
  BY DEF Set
<1> HIDE DEF new
<1>2. Keys(new) = Keys(map) \cup {key}
  BY <1>1 DEF Keys
<1>3. \A x \in Keys(new) : new.value[x] = IF x = key THEN value ELSE map.value[x]
  BY <1>1, <1>2 DEF Keys
<1>4. \A x \in Keys(new) : new.value[x] \in V
  BY <1>2, <1>3 DEF IsMap
<1>5. new.order \in Seq(K) /\ ToSet(new.order) = Keys(new) /\ IsInjective(new.order)
  BY <1>1, <1>2, AppendKey DEF IsMap
<1> QED
  BY <1>2, <1>4, <1>5 DEF IsMap, new

LEMMA DeleteOK ==
    ASSUME NEW K, NEW V, NEW map, IsMap(map, K, V), NEW key
    PROVE  IsMap(Delete(map, key), K, V) /\ Keys(Delete(map, key)) = Keys(map) \ {key}
<1> DEFINE new == Delete(map, key)
<1>1. /\ new.order = Without(map.order, key)
      /\ new.value = [x \in Keys(map) \ {key} |-> map.value[x]]
  BY DEF Delete, Restrict
<1> HIDE DEF new
<1>2. Keys(new) = Keys(map) \ {key}
  BY <1>1 DEF Keys
<1>3. \A x \in Keys(new) : new.value[x] \in V
  BY <1>1, <1>2 DEF IsMap
<1> QED
  BY <1>1, <1>2, <1>3, WithoutOK DEF IsMap, new

LEMMA MoveLastOK ==
    ASSUME NEW K, NEW V, NEW map, IsMap(map, K, V), NEW key \in Keys(map)
    PROVE  /\ IsMap(MoveLast(map, key), K, V)
           /\ Keys(MoveLast(map, key)) = Keys(map)
<1> DEFINE new == MoveLast(map, key)
<1>1. new.order = Append(Without(map.order, key), key) /\ new.value = map.value
  BY DEF MoveLast
<1>2. key \in K
  BY DEF IsMap, ToSet
<1> HIDE DEF new
<1>3. new.order \in Seq(K) /\ IsInjective(new.order) /\ ToSet(new.order) = Keys(map)
  <2> DEFINE rest == Without(map.order, key)
  <2>1. map.order \in Seq(K) /\ IsInjective(map.order) /\ ToSet(map.order) = Keys(map)
    BY DEF IsMap
  <2>2. rest \in Seq(K) /\ IsInjective(rest) /\ ToSet(rest) = Keys(map) \ {key}
    BY <2>1, WithoutOK
  <2> HIDE DEF rest
  <2>3. /\ Append(rest, key) \in Seq(K) /\ IsInjective(Append(rest, key))
        /\ ToSet(Append(rest, key)) = ToSet(rest) \cup {key}
    BY <1>2, <2>2, AppendKey
  <2> QED
    BY <1>1, <2>2, <2>3 DEF rest
<1> QED
  BY <1>1, <1>3 DEF IsMap, Keys, new

-----------------------------------------------------------------------------
\* The types, whatever other nodes answer.  A peer that was never contacted is
\* not reachable; one that has failed once too often is on its way out.
Held == {p \in Peer : p.api = NoApi => ~IsReachable(p)}
Failing == {p \in PeerFields : p.api = NoApi => ~IsReachable(p)}

Sendable == Updates \cup [type : {"Add", "Delete"}, api : Api]

TableTyped(t, V) ==
    /\ t = [peers |-> t.peers, index |-> t.index, telling |-> t.telling, sends |-> t.sends]
    /\ IsMap(t.peers, Host, V)
    /\ t.index \in [DOMAIN t.index -> Host] /\ DOMAIN t.index \subseteq Api
    /\ t.telling \subseteq Keys(t.peers)
    /\ t.sends \in Seq(Sendable)

ChannelsTyped ==
    /\ asking \in Seq(Host) /\ listing \in Seq(Host)
    /\ statusUpdateCh \in Seq(Updates) /\ Len(statusUpdateCh) <= StatusSize
    /\ commandCh \in Seq(Commands) /\ Len(commandCh) <= CommandSize
    /\ subscriberCh \in Seq([type : {"Add", "Delete"}, api : Api])
    /\ http \in {Idle, Waiting} \cup Requests
    /\ phase \in {"running", "closing", "shutdown", "ended"}

PeersTyped ==
    /\ IsMap(peers, Host, Held)
    /\ apiHostIdx \in [DOMAIN apiHostIdx -> Host] /\ DOMAIN apiHostIdx \subseteq Api
    /\ telling \subseteq Keys(peers)
    /\ sending \in Seq(Sendable)

TypeInv == PeersTyped /\ ChannelsTyped /\ HostsOK

LEMMA HeldFailing == Held \subseteq Failing
BY HandlerAssumption DEF Held, Failing, Peer, PeerFields

LEMMA SendableKinds ==
    /\ \A h \in Host : \A s \in Status : Update(h, {s}) \in Updates
    /\ \A h \in Host : Failure(h) \in Updates
    /\ Updates \subseteq Sendable
    /\ \A api \in Api : Signal("Add", api) \in Sendable /\ Signal("Delete", api) \in Sendable
    /\ \A s \in Sendable : s.type = "Update" => s \in Updates
    /\ \A s \in Sendable : s.type # "Update" => s \in [type : {"Add", "Delete"}, api : Api]
<1>1. \A h \in Host : \A s \in Status : Update(h, {s}) \in Updates
  BY DEF Updates
<1>2. \A h \in Host : Failure(h) \in Updates
  BY DEF Updates
<1>3. \A u \in Updates : u.type = "Update"
  BY DEF Updates, Update, Failure
<1>4. \A api \in Api : Signal("Add", api) \in Sendable /\ Signal("Delete", api) \in Sendable
  BY DEF Signal, Sendable
<1>5. \A s \in [type : {"Add", "Delete"}, api : Api] : s.type # "Update"
  OBVIOUS
<1> QED
  BY <1>1, <1>2, <1>3, <1>4, <1>5 DEF Sendable

LEMMA NewPeerHeld == NewPeer \in Held
BY HandlerAssumption DEF NewPeer, Held, Peer, IsReachable

LEMMA WithdrawnTyped ==
    ASSUME NEW peer \in Failing
    PROVE  Withdrawn(peer) \in Seq(Sendable)
<1>1. CASE IsListed(peer)
  <2>1. peer.api \in Api
    BY <1>1 DEF Failing, PeerFields, IsListed
  <2>2. Signal("Delete", peer.api) \in Sendable
    BY <2>1, SendableKinds
  <2> QED
    BY <1>1, <2>2 DEF Withdrawn
<1>2. CASE ~IsListed(peer)
  BY <1>2 DEF Withdrawn
<1> QED
  BY <1>1, <1>2

\* The values of a map after an operation.
LEMMA SetValues ==
    ASSUME NEW map, NEW key, NEW value
    PROVE  /\ Set(map, key, value).value[key] = value
           /\ \A k \in Keys(map) : k # key => Set(map, key, value).value[k] = map.value[k]
BY DEF Set, Keys

LEMMA DeleteValues ==
    ASSUME NEW map, NEW key
    PROVE  \A k \in Keys(map) \ {key} : Delete(map, key).value[k] = map.value[k]
BY DEF Delete, Restrict, Keys

LEMMA DelPeerTyped ==
    ASSUME NEW V, V \subseteq Failing, NEW t, TableTyped(t, V), NEW host
    PROVE  LET left == DelPeer(t, host)
           IN  /\ TableTyped(left, V)
               /\ Keys(left.peers) = Keys(t.peers) \ {host}
               /\ \A h \in Keys(left.peers) : left.peers.value[h] = t.peers.value[h]
<1> DEFINE left == DelPeer(t, host)
           peer == t.peers.value[host]
           map == Delete(t.peers, host)
           index == Restrict(t.index, DOMAIN t.index \ {peer.api})
           sends == t.sends \o Withdrawn(peer)
<1>1. CASE host \notin Keys(t.peers)
  BY <1>1 DEF DelPeer
<1>2. CASE host \in Keys(t.peers)
  <2>1. left = [peers |-> map, index |-> index, telling |-> t.telling \ {host}, sends |-> sends]
    BY <1>2 DEF DelPeer
  <2>2. /\ IsMap(map, Host, V) /\ Keys(map) = Keys(t.peers) \ {host}
        /\ \A h \in Keys(map) : map.value[h] = t.peers.value[h]
    <3> DEFINE m == t.peers
    <3>1. IsMap(m, Host, V)
      BY DEF TableTyped
    <3> HIDE DEF m
    <3>2. IsMap(Delete(m, host), Host, V) /\ Keys(Delete(m, host)) = Keys(m) \ {host}
      BY <3>1, DeleteOK
    <3>3. \A h \in Keys(m) \ {host} : Delete(m, host).value[h] = m.value[h]
      BY DeleteValues
    <3> QED
      BY <3>2, <3>3 DEF m
  <2>3. index \in [DOMAIN index -> Host] /\ DOMAIN index \subseteq Api
    BY DEF Restrict, TableTyped
  <2>4. sends \in Seq(Sendable)
    <3>1. peer \in Failing
      BY <1>2 DEF TableTyped, IsMap
    <3>2. Withdrawn(peer) \in Seq(Sendable)
      BY <3>1, WithdrawnTyped
    <3> QED
      BY <3>2, ConcatProperties DEF TableTyped
  <2> HIDE DEF map, index, sends, left
  <2> QED
    BY <2>1, <2>2, <2>3, <2>4 DEF TableTyped, left
<1> QED
  BY <1>1, <1>2

LEMMA AddPeerTyped ==
    ASSUME NEW t, TableTyped(t, Held), NEW host \in Host
    PROVE  LET added == AddPeer(t, host, NewPeer)
           IN  TableTyped(added, Held) /\ Keys(added.peers) = Keys(t.peers) \cup {host}
<1> DEFINE left == DelPeer(t, host)
           added == AddPeer(t, host, NewPeer)
           map == Set(left.peers, host, NewPeer)
<1>1. TableTyped(left, Held) /\ Keys(left.peers) = Keys(t.peers) \ {host}
  BY HeldFailing, DelPeerTyped
<1>2. added = [left EXCEPT !.peers = map]
  BY DEF AddPeer
<1> HIDE DEF left, added
<1>3. added = [peers |-> map, index |-> left.index, telling |-> left.telling,
               sends |-> left.sends]
  BY <1>1, <1>2 DEF TableTyped
<1>4. IsMap(map, Host, Held) /\ Keys(map) = Keys(left.peers) \cup {host}
  BY <1>1, NewPeerHeld, SetOK DEF TableTyped
<1> HIDE DEF map
<1> QED
  BY <1>1, <1>3, <1>4 DEF TableTyped, added

LEMMA MarkTyped ==
    ASSUME NEW t, TableTyped(t, Held), NEW host
    PROVE  TableTyped(MarkPeerUnreachable(t, host), Held)
<1> DEFINE peer == t.peers.value[host]
           failed == [peer EXCEPT !.retries = @ + 1,
                                  !.status = IF IsReachable(peer) THEN "unreachable" ELSE @]
           map == Set(t.peers, host, failed)
           sends == t.sends \o Withdrawn(peer)
           marked == [t EXCEPT !.peers = map, !.sends = sends]
<1>1. CASE host \notin Keys(t.peers)
  BY <1>1 DEF MarkPeerUnreachable
<1>2. CASE host \in Keys(t.peers)
  <2>1. host \in Host /\ peer \in Held
    BY <1>2 DEF TableTyped, IsMap, ToSet
  <2>2. failed \in Failing /\ (~Exhausted(failed) => failed \in Held)
    <3> HIDE DEF peer
    <3> SUFFICES ASSUME NEW f, f = failed
                 PROVE  f \in Failing /\ (~Exhausted(f) => f \in Held)
      OBVIOUS
    <3>1. /\ f = [api |-> f.api, mode |-> f.mode, status |-> f.status, retries |-> f.retries,
                  discovered |-> f.discovered]
          /\ f.api = peer.api /\ f.mode = peer.mode /\ f.discovered = peer.discovered
          /\ f.retries = peer.retries + 1
          /\ f.status = IF IsReachable(peer) THEN "unreachable" ELSE peer.status
      BY <2>1 DEF Held, Peer
    <3> HIDE DEF failed
    <3>2. f.retries \in Nat /\ (~Exhausted(f) => f.retries \in 0..PeerMaxRetries)
      BY <2>1, <3>1, HandlerAssumption DEF Held, Peer, Exhausted
    <3>3. ~IsReachable(f) /\ f.status \in {"reachable", "unreachable", "unknown"}
      BY <2>1, <3>1 DEF Held, Peer, IsReachable
    <3> QED
      BY <2>1, <3>1, <3>2, <3>3 DEF Held, Failing, Peer, PeerFields
  <2>3. MarkPeerUnreachable(t, host) = IF Exhausted(failed) THEN DelPeer(marked, host) ELSE marked
    BY <1>2 DEF MarkPeerUnreachable
  <2>4. sends \in Seq(Sendable)
    <3>1. Withdrawn(peer) \in Seq(Sendable)
      BY <2>1, HeldFailing, WithdrawnTyped
    <3> QED
      BY <3>1, ConcatProperties DEF TableTyped
  <2> HIDE DEF failed, sends, map, peer
  <2>5. marked = [peers |-> map, index |-> t.index, telling |-> t.telling, sends |-> sends]
    <3> SUFFICES ASSUME NEW m, m = marked
                 PROVE  m = [peers |-> map, index |-> t.index, telling |-> t.telling,
                             sends |-> sends]
      OBVIOUS
    <3> QED
      BY DEF TableTyped
  <2> HIDE DEF marked
  <2>6. ASSUME NEW V, failed \in V, Held \subseteq V
        PROVE  IsMap(map, Host, V) /\ Keys(map) = Keys(t.peers)
    <3>1. IsMap(t.peers, Host, V)
      BY <2>6 DEF TableTyped, IsMap
    <3> DEFINE m == t.peers
               new == Set(m, host, failed)
    <3> HIDE DEF m
    <3>2. IsMap(m, Host, V)
      BY <3>1 DEF m
    <3>3. IsMap(new, Host, V) /\ Keys(new) = Keys(m) \cup {host}
      BY <2>1, <2>6, <3>2, SetOK
    <3> QED
      BY <1>2, <3>3 DEF map, m
  <2>7. ASSUME NEW V, failed \in V, Held \subseteq V PROVE TableTyped(marked, V)
    BY <2>4, <2>5, <2>6, <2>7 DEF TableTyped
  <2>8. CASE ~Exhausted(failed)
    BY <2>2, <2>3, <2>7, <2>8
  <2>9. CASE Exhausted(failed)
    <3> DEFINE left == DelPeer(marked, host)
    <3>1. /\ TableTyped(left, Failing) /\ Keys(left.peers) = Keys(map) \ {host}
          /\ \A h \in Keys(left.peers) : left.peers.value[h] = map.value[h]
      <4>1. marked.peers = map /\ TableTyped(marked, Failing)
        BY <2>2, <2>5, <2>7, HeldFailing
      <4> QED
        BY <4>1, DelPeerTyped
    <3> HIDE DEF left
    <3>2. \A h \in Keys(left.peers) : left.peers.value[h] \in Held
      <4>1. \A h \in Keys(t.peers) : h # host => map.value[h] = t.peers.value[h]
        BY SetValues DEF map
      <4>2. Keys(map) = Keys(t.peers)
        BY <2>2, <2>6, HeldFailing
      <4> QED
        BY <3>1, <4>1, <4>2 DEF TableTyped, IsMap
    <3>3. TableTyped(left, Held)
      BY <3>1, <3>2 DEF TableTyped, IsMap
    <3> QED
      BY <2>3, <2>9, <3>3 DEF left
  <2> QED
    BY <2>8, <2>9
<1> QED
  BY <1>1, <1>2

LEMMA StatusTyped ==
    ASSUME NEW t, TableTyped(t, Held), NEW host, NEW status \in Status
    PROVE  TableTyped(SetPeerStatus(t, host, status), Held)
<1> DEFINE old == t.peers.value[host]
           same == status.host = host /\ status.api = old.api
           kept == IF same THEN t ELSE AddPeer(t, status.host, NewPeer)
           base == IF same THEN old ELSE NewPeer
           peer == [base EXCEPT !.api = status.api, !.mode = status.mode,
                                !.status = "reachable", !.retries = 0]
           found == status.mode = "full" /\ (~same \/ ~IsReachable(old))
           map == Set(kept.peers, status.host, peer)
           index == [a \in DOMAIN kept.index \cup {status.api} |->
                         IF a = status.api THEN status.host ELSE kept.index[a]]
           sends == IF found THEN Append(kept.sends, Signal("Add", status.api)) ELSE kept.sends
           next == [kept EXCEPT !.peers = map, !.index = index, !.sends = sends]
<1>1. CASE host \notin Keys(t.peers)
  BY <1>1 DEF SetPeerStatus
<1>2. CASE host \in Keys(t.peers)
  <2>1. SetPeerStatus(t, host, status) = next
    BY <1>2 DEF SetPeerStatus
  <2>2. status.host \in Host /\ status.api \in Api /\ status.mode \in {"full", "seed", "loadbalance"}
    BY DEF Status
  <2>3. TableTyped(kept, Held)
    BY <2>2, AddPeerTyped
  <2>4. base \in Held
    BY <1>2, NewPeerHeld DEF TableTyped, IsMap
  <2> HIDE DEF base, kept, found
  <2>5. peer \in Held
    <3> SUFFICES ASSUME NEW p, p = peer PROVE p \in Held
      OBVIOUS
    <3>1. /\ p = [api |-> p.api, mode |-> p.mode, status |-> p.status, retries |-> p.retries,
                  discovered |-> p.discovered]
          /\ p.api = status.api /\ p.mode = status.mode /\ p.status = "reachable"
          /\ p.retries = 0 /\ p.discovered = base.discovered
      BY <2>4 DEF Held, Peer
    <3>2. p.api # NoApi /\ 0 \in 0..PeerMaxRetries /\ base.discovered \in BOOLEAN
      BY <2>2, <2>4, <3>1, HandlerAssumption DEF Held, Peer
    <3> HIDE DEF peer
    <3> QED
      BY <2>2, <3>1, <3>2 DEF Held, Peer
  <2> HIDE DEF peer
  <2>6. IsMap(map, Host, Held) /\ Keys(map) = Keys(kept.peers) \cup {status.host}
    BY <2>2, <2>3, <2>5, SetOK DEF TableTyped
  <2>7. index \in [DOMAIN index -> Host] /\ DOMAIN index \subseteq Api
    BY <2>2, <2>3 DEF TableTyped
  <2>8. sends \in Seq(Sendable)
    <3>1. Signal("Add", status.api) \in Sendable
      BY <2>2, SendableKinds
    <3> QED
      BY <2>3, <3>1, AppendProperties DEF TableTyped
  <2> HIDE DEF map, index, sends
  <2>9. next = [peers |-> map, index |-> index, telling |-> kept.telling, sends |-> sends]
    <3> SUFFICES ASSUME NEW n, n = next
                 PROVE  n = [peers |-> map, index |-> index, telling |-> kept.telling,
                             sends |-> sends]
      OBVIOUS
    <3> QED
      BY <2>3 DEF TableTyped
  <2> HIDE DEF next
  <2>10. TableTyped(next, Held)
    BY <2>3, <2>6, <2>7, <2>8, <2>9 DEF TableTyped
  <2> QED
    BY <2>1, <2>10
<1> QED
  BY <1>1, <1>2
LEMMA TableIsTyped ==
    ASSUME PeersTyped
    PROVE  TableTyped(Table, Held) /\ Table.peers = peers /\ Table.index = apiHostIdx
BY DEF Table, TableTyped, PeersTyped

LEMMA BecomesTyped ==
    ASSUME NEW next, TableTyped(next, Held), Becomes(next)
    PROVE  PeersTyped'
BY DEF TableTyped, Becomes, PeersTyped

\* Requests, as HandlerAssumption has them.
LEMMA CommandTypes ==
    ASSUME NEW command \in Commands
    PROVE  /\ command.type = "Announcement" => command.status \in Status
           /\ command.type \in {"PeerList", "Status"} => command \in Requests
BY HandlerAssumption DEF Commands

\* A channel from which the head is taken, and one to which a message is added.
LEMMA TailTyped ==
    ASSUME NEW S, NEW q \in Seq(S), q # <<>>, NEW size, Len(q) <= size, size \in Nat
    PROVE  Head(q) \in S /\ Tail(q) \in Seq(S) /\ Len(Tail(q)) <= size
<1>1. Head(q) \in S /\ Tail(q) \in Seq(S) /\ Len(Tail(q)) = Len(q) - 1 /\ Len(q) \in Nat
  BY HeadTailProperties, LenProperties
<1> QED
  BY <1>1

LEMMA AppendTyped ==
    ASSUME NEW S, NEW q \in Seq(S), NEW e \in S, NEW size, Len(q) < size, size \in Nat
    PROVE  Append(q, e) \in Seq(S) /\ Len(Append(q, e)) <= size
<1>1. Append(q, e) \in Seq(S) /\ Len(Append(q, e)) = Len(q) + 1 /\ Len(q) \in Nat
  BY AppendProperties, LenProperties
<1> QED
  BY <1>1

LEMMA TakeCommandTyped ==
    ASSUME TypeInv, TakeCommand
    PROVE  TypeInv'
<1> DEFINE command == Head(commandCh)
<1>1. command \in Commands /\ commandCh' \in Seq(Commands) /\ Len(commandCh') <= CommandSize
  BY TailTyped, HandlerAssumption DEF TakeCommand, TypeInv, ChannelsTyped
<1>2. HostsOK'
  BY DEF TakeCommand, TypeInv, HostsOK, resolverVars
<1>3. ASSUME PeersTyped', http' \in {Idle, Waiting} \cup Requests,
             phase' \in {"running", "closing", "shutdown", "ended"}
      PROVE  TypeInv'
  BY <1>1, <1>2, <1>3 DEF TakeCommand, TypeInv, ChannelsTyped, requestVars
<1>4. ASSUME UNCHANGED <<indexVars, sending>> PROVE PeersTyped'
  BY <1>4 DEF TypeInv, PeersTyped, indexVars
<1>5. /\ http \in {Idle, Waiting} \cup Requests
      /\ phase \in {"running", "closing", "shutdown", "ended"}
      /\ TableTyped(Table, Held)
  BY TableIsTyped DEF TypeInv, ChannelsTyped
<1>6. CASE AnswerRequest(command)
  BY <1>3, <1>4, <1>5, <1>6 DEF AnswerRequest
<1>7. CASE TakeStop(command)
  BY <1>3, <1>4, <1>5, <1>7 DEF TakeStop
<1>8. CASE TakeUnreachable(command)
  <2>1. PeersTyped'
    <3>1. CASE command.api \in DOMAIN apiHostIdx
      <4>1. TableTyped(MarkPeerUnreachable(Table, apiHostIdx[command.api]), Held)
        BY <1>5, MarkTyped
      <4> QED
        BY <1>8, <3>1, <4>1, BecomesTyped DEF TakeUnreachable
    <3>2. CASE command.api \notin DOMAIN apiHostIdx
      BY <1>4, <1>8, <3>2 DEF TakeUnreachable
    <3> QED
      BY <3>1, <3>2
  <2> QED
    BY <1>3, <1>5, <1>8, <2>1 DEF TakeUnreachable
<1>9. CASE TakeAnnouncement(command)
  <2> DEFINE status == command.status
             host == status.host
             added == IF Known(host) THEN Table ELSE AddPeer(Table, host, NewPeer)
             old == added.peers.value[host]
             known == [old EXCEPT !.discovered = TRUE]
             map == Set(added.peers, host, known)
             sends == <<Update(host, {status})>>
             next == [added EXCEPT !.peers = map, !.sends = sends]
  <2>1. status \in Status /\ host \in Host
    <3>1. command.type = "Announcement"
      BY <1>9 DEF TakeAnnouncement
    <3>2. status \in Status
      BY <1>1, <3>1, CommandTypes
    <3> QED
      BY <3>2 DEF Status
  <2>2. Becomes(next)
    BY <1>9 DEF TakeAnnouncement
  <2>3. sends \in Seq(Sendable)
    <3>1. Update(host, {status}) \in Sendable
      BY <2>1, SendableKinds
    <3> HIDE DEF command
    <3> QED
      BY <3>1
  <2> HIDE DEF sends, status
  <2>4. TableTyped(added, Held) /\ host \in Keys(added.peers)
    <3>1. CASE Known(host)
      BY <1>5, <3>1, TableIsTyped DEF Known, TypeInv
    <3>2. CASE ~Known(host)
      <4> DEFINE new == AddPeer(Table, host, NewPeer)
      <4>1. TableTyped(new, Held) /\ Keys(new.peers) = Keys(Table.peers) \cup {host}
        BY <1>5, <2>1, AddPeerTyped
      <4>2. added = new
        BY <3>2
      <4> HIDE DEF new, added
      <4> QED
        BY <4>1, <4>2
    <3> QED
      BY <3>1, <3>2
  <2> HIDE DEF added
  <2>5. old \in Held
    BY <2>4 DEF TableTyped, IsMap
  <2> HIDE DEF old
  <2>6. known \in Held
    <3> SUFFICES ASSUME NEW k, k = known PROVE k \in Held
      OBVIOUS
    <3>1. /\ k \in Peer /\ k.api = old.api /\ k.status = old.status
      BY <2>5 DEF Held, Peer
    <3> QED
      BY <2>5, <3>1 DEF Held, IsReachable
  <2> HIDE DEF known
  <2>7. IsMap(map, Host, Held) /\ Keys(map) = Keys(added.peers) \cup {host}
    BY <2>1, <2>4, <2>6, SetOK DEF TableTyped
  <2> HIDE DEF map
  <2>8. next = [peers |-> map, index |-> added.index, telling |-> added.telling,
                sends |-> sends]
    <3> SUFFICES ASSUME NEW n, n = next
                 PROVE  n = [peers |-> map, index |-> added.index, telling |-> added.telling,
                             sends |-> sends]
      OBVIOUS
    <3> QED
      BY <2>4 DEF TableTyped
  <2> HIDE DEF next
  <2>9. TableTyped(next, Held)
    BY <2>3, <2>4, <2>7, <2>8 DEF TableTyped
  <2>10. PeersTyped'
    BY <2>2, <2>9, BecomesTyped
  <2> QED
    BY <1>3, <1>5, <1>9, <2>10 DEF TakeAnnouncement
<1> QED
  BY <1>6, <1>7, <1>8, <1>9 DEF TakeCommand

LEMMA TakeResolvedTyped ==
    ASSUME TypeInv, TakeResolved
    PROVE  TypeInv'
<1> DEFINE host == Head(responses)
<1>1. host \in Host /\ responses' \in Seq(Host)
  BY HeadTailProperties DEF TakeResolved, TypeInv, HostsOK
<1>2. HostsOK' /\ ChannelsTyped'
  BY <1>1 DEF TakeResolved, TypeInv, HostsOK, ChannelsTyped, requestVars, channelVars
<1>3. PeersTyped'
  <2>1. CASE Becomes(AddPeer(Table, host, NewPeer))
    <3>1. TableTyped(AddPeer(Table, host, NewPeer), Held)
      BY <1>1, TableIsTyped, AddPeerTyped DEF TypeInv
    <3> QED
      BY <2>1, <3>1, BecomesTyped
  <2>2. CASE UNCHANGED <<indexVars, sending>>
    BY <2>2 DEF TypeInv, PeersTyped, indexVars
  <2> QED
    BY <2>1, <2>2 DEF TakeResolved
<1> QED
  BY <1>2, <1>3 DEF TypeInv

LEMMA TakeUpdateTyped ==
    ASSUME TypeInv, TakeUpdate
    PROVE  TypeInv'
<1> DEFINE update == Head(statusUpdateCh)
<1>1. /\ update \in Updates /\ statusUpdateCh' \in Seq(Updates)
      /\ Len(statusUpdateCh') <= StatusSize
  BY TailTyped, HandlerAssumption DEF TakeUpdate, TypeInv, ChannelsTyped
<1>2. HostsOK' /\ ChannelsTyped'
  BY <1>1 DEF TakeUpdate, TypeInv, HostsOK, ChannelsTyped, requestVars, resolverVars
<1>3. TableTyped(Table, Held)
  BY TableIsTyped DEF TypeInv
<1>4. update.answer \subseteq Status
  <2> HIDE DEF update
  <2> QED
    BY <1>1 DEF Updates, Update, Failure
<1>5. PeersTyped'
  <2>1. CASE Becomes(MarkPeerUnreachable(Table, update.host))
    <3>1. TableTyped(MarkPeerUnreachable(Table, update.host), Held)
      BY <1>3, MarkTyped
    <3> QED
      BY <2>1, <3>1, BecomesTyped
  <2>2. CASE \E s \in update.answer : Becomes(SetPeerStatus(Table, update.host, s))
    <3>1. PICK s \in update.answer : Becomes(SetPeerStatus(Table, update.host, s))
      BY <2>2
    <3>2. s \in Status
      BY <1>4
    <3>3. TableTyped(SetPeerStatus(Table, update.host, s), Held)
      BY <1>3, <3>2, StatusTyped
    <3> QED
      BY <3>1, <3>3, BecomesTyped
  <2> QED
    BY <2>1, <2>2 DEF TakeUpdate
<1> QED
  BY <1>2, <1>5 DEF TypeInv
LEMMA TicksTyped ==
    ASSUME TypeInv, StatusTick \/ ListTick \/ AnnounceTick
    PROVE  TypeInv'
<1>1. peers.order \in Seq(Host) /\ ToSet(peers.order) = Keys(peers) /\ IsMap(peers, Host, Held)
  BY DEF TypeInv, PeersTyped, IsMap
<1>2. ASSUME NEW host \in Host \cap ToSet(peers.order), ToBack(host),
             asking' \in Seq(Host), listing' \in Seq(Host), telling' \subseteq Keys(peers)
      PROVE  TypeInv'
  <2>1. IsMap(peers', Host, Held) /\ Keys(peers') = Keys(peers)
    <3>1. IsMap(MoveLast(peers, host), Host, Held) /\ Keys(MoveLast(peers, host)) = Keys(peers)
      BY <1>1, MoveLastOK
    <3> QED
      BY <1>2, <3>1 DEF ToBack
  <2>2. PeersTyped'
    BY <1>2, <2>1 DEF ToBack, TypeInv, PeersTyped
  <2> QED
    BY <1>2, <2>2 DEF ToBack, TypeInv, ChannelsTyped, HostsOK, channelVars, resolverVars
<1>3. asking \in Seq(Host) /\ listing \in Seq(Host) /\ telling \subseteq Keys(peers)
  BY DEF TypeInv, ChannelsTyped, PeersTyped
<1>4. CASE StatusTick
  <2>1. NextStatusPeer \in Host \cap ToSet(peers.order)
    BY <1>1, <1>4, TickHosts
  <2>2. asking' \in Seq(Host)
    BY <1>3, <1>4, <2>1, AppendProperties DEF StatusTick
  <2> QED
    BY <1>2, <1>3, <1>4, <2>1, <2>2 DEF StatusTick
<1>5. CASE ListTick
  <2> DEFINE host == FirstOf(SeedPeers, ReachablePeers)
  <2>1. host \in Host \cap ToSet(peers.order)
    BY <1>1, <1>5, TickHosts
  <2>2. listing' = Append(listing, host) /\ ToBack(host) /\ UNCHANGED <<asking, telling>>
    BY <1>5 DEF ListTick
  <2> HIDE DEF host
  <2>3. listing' \in Seq(Host)
    BY <1>3, <2>1, <2>2, AppendProperties
  <2> QED
    BY <1>2, <1>3, <2>1, <2>2, <2>3
<1>6. CASE AnnounceTick
  <2> DEFINE host == FirstOf(UndiscoveredPeers, {})
  <2>1. host \in Host \cap ToSet(peers.order)
    BY <1>1, <1>6, TickHosts
  <2>2. telling' = telling \cup {host} /\ ToBack(host) /\ UNCHANGED requestVars
    BY <1>6 DEF AnnounceTick
  <2> HIDE DEF host
  <2> QED
    BY <1>1, <1>2, <1>3, <2>1, <2>2 DEF requestVars
<1> QED
  BY <1>4, <1>5, <1>6

LEMMA SendsTyped ==
    ASSUME TypeInv, SendSignal \/ SendUpdate
    PROVE  TypeInv'
<1>1. sending' \in Seq(Sendable) /\ Head(sending) \in Sendable
  <2>1. sending \in Seq(Sendable) /\ sending # <<>> /\ sending' = Tail(sending)
    BY DEF SendSignal, SendUpdate, TypeInv, PeersTyped
  <2> QED
    BY <2>1, HeadTailProperties
<1>2. PeersTyped' /\ HostsOK'
  BY <1>1 DEF SendSignal, SendUpdate, TypeInv, PeersTyped, HostsOK, indexVars, resolverVars
<1>3. CASE SendSignal
  <2>1. Head(sending) \in [type : {"Add", "Delete"}, api : Api]
    BY <1>1, <1>3, SendableKinds DEF SendSignal
  <2>2. subscriberCh' \in Seq([type : {"Add", "Delete"}, api : Api])
    BY <1>3, <2>1, AppendProperties DEF SendSignal, TypeInv, ChannelsTyped
  <2> QED
    BY <1>2, <1>3, <2>2 DEF SendSignal, TypeInv, ChannelsTyped, requestVars
<1>4. CASE SendUpdate
  <2>1. Head(sending) \in Updates
    BY <1>1, <1>4, SendableKinds DEF SendUpdate
  <2>2. statusUpdateCh' \in Seq(Updates) /\ Len(statusUpdateCh') <= StatusSize
    BY <1>4, <2>1, AppendTyped, HandlerAssumption DEF SendUpdate, TypeInv, ChannelsTyped
  <2> QED
    BY <1>2, <1>4, <2>2 DEF SendUpdate, TypeInv, ChannelsTyped, requestVars
<1> QED
  BY <1>3, <1>4

LEMMA EndTyped ==
    ASSUME TypeInv, StopResolver \/ HttpShutdown
    PROVE  TypeInv'
BY DEF StopResolver, HttpShutdown, CloseResolver, TypeInv, PeersTyped, ChannelsTyped, HostsOK,
       indexVars, requestVars, channelVars, resolverVars

LEMMA AnswersTyped ==
    ASSUME TypeInv, StatusAnswer \/ ListAnswer
    PROVE  TypeInv'
<1>1. PeersTyped'
  BY DEF StatusAnswer, ListAnswer, TypeInv, PeersTyped, indexVars
<1>2. \A q \in Seq(Host) : \A n \in DOMAIN q : q[n] \in Host /\ RemoveAt(q, n) \in Seq(Host)
  BY RemoveSeq, ElementOfSeq, LenProperties
<1>3. CASE StatusAnswer
  <2>1. PICK n \in DOMAIN asking :
            /\ asking' = RemoveAt(asking, n)
            /\ \/ statusUpdateCh' = Append(statusUpdateCh, Failure(asking[n]))
               \/ \E status \in Answers[asking[n]] :
                     statusUpdateCh' = Append(statusUpdateCh, Update(asking[n], {status}))
    BY <1>3 DEF StatusAnswer
  <2>2. asking[n] \in Host /\ asking' \in Seq(Host)
    BY <1>2, <2>1 DEF TypeInv, ChannelsTyped
  <2>3. Answers[asking[n]] \subseteq Status
    BY <2>2, HandlerAssumption
  <2>4. \E u \in Updates : statusUpdateCh' = Append(statusUpdateCh, u)
    BY <2>1, <2>2, <2>3, SendableKinds
  <2>5. statusUpdateCh' \in Seq(Updates) /\ Len(statusUpdateCh') <= StatusSize
    BY <1>3, <2>4, AppendTyped, HandlerAssumption DEF StatusAnswer, TypeInv, ChannelsTyped
  <2> QED
    BY <1>1, <1>3, <2>2, <2>5 DEF StatusAnswer, TypeInv, ChannelsTyped, HostsOK, resolverVars
<1>4. CASE ListAnswer
  <2>1. listing' \in Seq(Host)
    BY <1>2, <1>4 DEF ListAnswer, TypeInv, ChannelsTyped
  <2>2. requests' \in Seq(Host \cup Name)
    <3>1. Mentioned \subseteq Host \cup Name /\ requests \in Seq(Host \cup Name)
      BY HandlerAssumption DEF TypeInv, HostsOK
    <3>2. \A host \in Mentioned : Append(requests, host) \in Seq(Host \cup Name)
      BY <3>1, AppendProperties
    <3> QED
      BY <1>4, <3>1, <3>2 DEF ListAnswer
  <2> QED
    BY <1>1, <1>4, <2>1, <2>2 DEF ListAnswer, TypeInv, ChannelsTyped, HostsOK, channelVars
<1> QED
  BY <1>3, <1>4

LEMMA AnnounceAnswerTyped ==
    ASSUME TypeInv, AnnounceAnswer
    PROVE  TypeInv'
<1>1. PICK host \in telling :
          /\ telling' = telling \ {host}
          /\ \/ UNCHANGED peers
             \/ peers' = [peers EXCEPT !.value[host].discovered = TRUE]
  BY DEF AnnounceAnswer
<1>2. IsMap(peers, Host, Held) /\ host \in Keys(peers)
  BY <1>1 DEF TypeInv, PeersTyped
<1>3. IsMap(peers', Host, Held) /\ Keys(peers') = Keys(peers)
  <2>1. CASE UNCHANGED peers
    BY <1>2, <2>1
  <2>2. CASE peers' = [peers EXCEPT !.value[host].discovered = TRUE]
    <3> DEFINE old == peers.value[host]
               peer == [old EXCEPT !.discovered = TRUE]
    <3>1. old \in Held
      BY <1>2 DEF IsMap
    <3>2. peer \in Held
      <4> HIDE DEF old
      <4> SUFFICES ASSUME NEW k, k = peer PROVE k \in Held
        OBVIOUS
      <4>1. k \in Peer /\ k.api = old.api /\ k.status = old.status
        BY <3>1 DEF Held, Peer
      <4> QED
        BY <3>1, <4>1 DEF Held, IsReachable
    <3>3. /\ peers'.order = peers.order
          /\ peers'.value = [peers.value EXCEPT ![host] = peer]
      BY <2>2
    <3> HIDE DEF peer
    <3>4. Keys(peers') = Keys(peers)
      BY <3>3 DEF Keys
    <3>5. \A h \in Keys(peers') : peers'.value[h] \in Held
      BY <1>2, <3>2, <3>3, <3>4 DEF IsMap, Keys
    <3> QED
      BY <1>2, <3>3, <3>4, <3>5 DEF IsMap
  <2> QED
    BY <1>1, <2>1, <2>2
<1>4. PeersTyped'
  BY <1>1, <1>3 DEF AnnounceAnswer, TypeInv, PeersTyped
<1> QED
  BY <1>4 DEF AnnounceAnswer, TypeInv, ChannelsTyped, HostsOK, requestVars, channelVars,
              resolverVars
LEMMA HttpManagerTyped ==
    ASSUME TypeInv, HttpRequest \/ HttpSend \/ Manager
    PROVE  TypeInv'
<1>1. ASSUME NEW c \in Commands, Len(commandCh) < CommandSize,
             commandCh' = Append(commandCh, c),
             UNCHANGED <<indexVars, requestVars, statusUpdateCh, subscriberCh, sending, phase,
                         resolverVars>>,
             http' \in {Idle, Waiting} \cup Requests
      PROVE  TypeInv'
  <2>1. commandCh' \in Seq(Commands) /\ Len(commandCh') <= CommandSize
    BY <1>1, AppendTyped, HandlerAssumption DEF TypeInv, ChannelsTyped
  <2> QED
    BY <1>1, <2>1 DEF TypeInv, PeersTyped, ChannelsTyped, HostsOK, indexVars, requestVars,
                      resolverVars
<1>2. CASE HttpRequest
  BY <1>2 DEF HttpRequest, TypeInv, PeersTyped, ChannelsTyped, HostsOK, indexVars, requestVars,
              channelVars, resolverVars
<1>3. CASE HttpSend
  <2>1. http \in Commands /\ http' \in {Idle, Waiting} \cup Requests
    BY <1>3 DEF HttpSend, Commands
  <2> QED
    BY <1>1, <1>3, <2>1 DEF HttpSend
<1>4. CASE TakeSignal
  <2>1. subscriberCh' \in Seq([type : {"Add", "Delete"}, api : Api])
    BY <1>4, HeadTailProperties DEF TakeSignal, TypeInv, ChannelsTyped
  <2> QED
    BY <1>4, <2>1 DEF TakeSignal, TypeInv, PeersTyped, ChannelsTyped, HostsOK, indexVars,
                      requestVars, resolverVars
<1>5. ASSUME NEW c \in Commands, ManagerSends(c) PROVE TypeInv'
  <2>1. http' \in {Idle, Waiting} \cup Requests
    BY <1>5 DEF ManagerSends, TypeInv, ChannelsTyped
  <2> QED
    BY <1>1, <1>5, <2>1 DEF ManagerSends
<1>6. CASE Stop
  BY <1>5, <1>6, CommandKinds DEF Stop
<1>7. CASE \E api \in Api : MarkUnreachable(api)
  BY <1>5, <1>7, CommandKinds DEF MarkUnreachable
<1> QED
  BY <1>2, <1>3, <1>4, <1>6, <1>7 DEF Manager

LEMMA ResolveTyped ==
    ASSUME TypeInv, Resolve
    PROVE  TypeInv'
<1>1. HostsOK'
  BY ResolveHosts DEF TypeInv
<1> QED
  BY <1>1 DEF Resolve, TypeInv, PeersTyped, ChannelsTyped, indexVars, requestVars, channelVars

LEMMA InitTyped == Init => TypeInv
<1> SUFFICES ASSUME Init PROVE TypeInv
  OBVIOUS
<1>1. PeersTyped
  <2>1. IsMap(EmptyMap, Host, Held) /\ Keys(EmptyMap) = {}
    BY EmptyOK
  <2> QED
    BY <2>1 DEF Init, PeersTyped
<1>2. ChannelsTyped
  BY HandlerAssumption, EmptySeq DEF Init, ChannelsTyped
<1>3. HostsOK
  BY SeedsQueued DEF Init, ResolverInit, HostsOK
<1> QED
  BY <1>1, <1>2, <1>3 DEF TypeInv

LEMMA StepTyped == TypeInv /\ [Next]_vars => TypeInv'
<1> SUFFICES ASSUME TypeInv, [Next]_vars PROVE TypeInv'
  OBVIOUS
<1>1. CASE UNCHANGED vars
  BY <1>1 DEF vars, indexVars, requestVars, channelVars, resolverVars, TypeInv, PeersTyped,
              ChannelsTyped, HostsOK
<1>2. CASE Routine
  BY <1>2, TakeCommandTyped, TakeResolvedTyped, TakeUpdateTyped, SendsTyped, EndTyped DEF Routine
<1> QED
  BY <1>1, <1>2, TicksTyped, AnswersTyped, AnnounceAnswerTyped, HttpManagerTyped, ResolveTyped
     DEF Next

\* Whatever other nodes answer and announce, and however their answers cross
\* replaced and discarded peers: every peer is in the order of turns exactly
\* once, only known peers are being announced to, a peer that has failed more
\* often than allowed is gone, and no channel takes more than it holds.
THEOREM HandlerTyped == Spec => []TypeOK
<1>1. TypeInv => TypeOK
  BY DEF TypeInv, PeersTyped, ChannelsTyped, HostsOK, IsMap, Held, TypeOK
<1> QED
  BY <1>1, InitTyped, StepTyped, PTL DEF Spec

=============================================================================
