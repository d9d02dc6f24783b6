------------------------- MODULE PeerManagerProofs --------------------------
(***************************************************************************)
(* Proofs about the list of API hosts, for every set of hosts and clients, *)
(* every capacity of the channels and every number of marks.               *)
(***************************************************************************)
EXTENDS PeerManager, SequenceTheorems, TLAPS

-----------------------------------------------------------------------------
\* The ordered map: what its operations do to its keys.
LEMMA WithoutOK ==
    ASSUME NEW K, NEW order \in Seq(K), IsInjective(order), NEW key
    PROVE  /\ Without(order, key) \in Seq(K)
           /\ IsInjective(Without(order, key))
           /\ ToSet(Without(order, key)) = ToSet(order) \ {key}
<1>1. CASE key \notin ToSet(order)
  BY <1>1 DEF Without
<1>2. CASE key \in ToSet(order)
  <2> DEFINE N == Len(order)
             n == CHOOSE m \in DOMAIN order : order[m] = key
             a == SubSeq(order, 1, n - 1)
             b == SubSeq(order, n + 1, N)
             r == a \o b
  <2>1. N \in Nat /\ DOMAIN order = 1..N /\ n \in 1..N /\ order[n] = key
        /\ \A m \in 1..N : order[m] \in K
    BY <1>2, LenProperties, ElementOfSeq DEF ToSet
  <2>2. Without(order, key) = r
    BY <1>2 DEF Without, RemoveAt
  <2> HIDE DEF N, n
  <2>3. /\ a \in Seq(K) /\ Len(a) = n - 1
        /\ \A m \in 1..(n - 1) : a[m] = order[m]
    <3> DEFINE k == n - 1
    <3>1. k \in Nat /\ 1 \in Int /\ \A m \in 1..k : order[m] \in K
      BY <2>1
    <3> HIDE DEF k
    <3>2. /\ SubSeq(order, 1, k) \in Seq(K)
          /\ Len(SubSeq(order, 1, k)) = IF 1 <= k THEN k - 1 + 1 ELSE 0
          /\ \A m \in 1..(k - 1 + 1) : SubSeq(order, 1, k)[m] = order[1 + m - 1]
      BY <3>1, SubSeqProperties
    <3>3. k - 1 + 1 = k /\ \A m \in 1..k : 1 + m - 1 = m
      BY <3>1
    <3>4. Len(SubSeq(order, 1, k)) = k
          /\ \A m \in 1..k : SubSeq(order, 1, k)[m] = order[m]
      BY <3>1, <3>2, <3>3
    <3> QED
      BY <3>2, <3>4 DEF k
  <2>4. /\ b \in Seq(K) /\ Len(b) = N - n
        /\ \A m \in 1..(N - n) : b[m] = order[n + m]
    <3> DEFINE k == n + 1
    <3>1. k \in Int /\ N \in Int /\ k >= 1 /\ k <= N + 1 /\ \A m \in k..N : order[m] \in K
      BY <2>1
    <3>2. N - k + 1 = N - n /\ \A m \in 1..(N - n) : k + m - 1 = n + m
      BY <2>1
    <3> HIDE DEF k
    <3>3. /\ SubSeq(order, k, N) \in Seq(K)
          /\ Len(SubSeq(order, k, N)) = IF k <= N THEN N - k + 1 ELSE 0
          /\ \A m \in 1..(N - k + 1) : SubSeq(order, k, N)[m] = order[k + m - 1]
      BY <3>1, SubSeqProperties
    <3>4. /\ Len(SubSeq(order, k, N)) = N - n
          /\ \A m \in 1..(N - n) : SubSeq(order, k, N)[m] = order[n + m]
      BY <3>1, <3>2, <3>3
    <3> QED
      BY <3>3, <3>4 DEF k
  <2> HIDE DEF a, b
  <2>5. /\ r \in Seq(K) /\ Len(r) = N - 1
        /\ \A m \in 1..(N - 1) : r[m] = IF m < n THEN order[m] ELSE order[m + 1]
    <3>1. r \in Seq(K) /\ Len(r) = Len(a) + Len(b)
          /\ \A m \in 1..(Len(a) + Len(b)) : r[m] = IF m <= Len(a) THEN a[m] ELSE b[m - Len(a)]
      BY <2>3, <2>4, ConcatProperties
    <3> HIDE DEF r
    <3>2. Len(a) + Len(b) = N - 1
      BY <2>1, <2>3, <2>4
    <3>3. ASSUME NEW m \in 1..(N - 1)
          PROVE  r[m] = IF m < n THEN order[m] ELSE order[m + 1]
      <4>1. CASE m < n
        <5>1. m \in 1..(n - 1) /\ m <= Len(a)
          BY <2>1, <2>3, <4>1
        <5> QED
          BY <2>3, <3>1, <3>2, <4>1, <5>1
      <4>2. CASE ~(m < n)
        <5>1. m - Len(a) \in 1..(N - n) /\ n + (m - Len(a)) = m + 1 /\ ~(m <= Len(a))
          BY <2>1, <2>3, <4>2
        <5> QED
          BY <2>4, <3>1, <3>2, <4>2, <5>1
      <4> QED
        BY <4>1, <4>2
    <3> QED
      BY <3>1, <3>2, <3>3
  <2> HIDE DEF r
  <2>6. DOMAIN r = 1..(N - 1)
    BY <2>5, LenProperties
  <2>7. \A m, k \in 1..N : order[m] = order[k] => m = k
    BY <2>1 DEF IsInjective
  <2>8. IsInjective(r)
    <3> SUFFICES ASSUME NEW m \in 1..(N - 1), NEW k \in 1..(N - 1), r[m] = r[k] PROVE m = k
      BY <2>6 DEF IsInjective
    <3> DEFINE i == IF m < n THEN m ELSE m + 1
               j == IF k < n THEN k ELSE k + 1
    <3>1. i \in 1..N /\ j \in 1..N /\ order[i] = order[j]
      BY <2>1, <2>5
    <3>2. i = j
      BY <2>7, <3>1
    <3> QED
      BY <2>1, <3>2
  <2>9. ToSet(r) = ToSet(order) \ {key}
    <3>1. ASSUME NEW x \in ToSet(r) PROVE x \in ToSet(order) \ {key}
      <4>1. PICK m \in 1..(N - 1) : x = r[m]
        BY <2>6 DEF ToSet
      <4> DEFINE i == IF m < n THEN m ELSE m + 1
      <4>2. i \in 1..N /\ x = order[i] /\ i # n
        BY <2>1, <2>5, <4>1
      <4> QED
        BY <2>1, <2>7, <4>2 DEF ToSet
    <3>2. ASSUME NEW x \in ToSet(order), x # key PROVE x \in ToSet(r)
      <4>1. PICK i \in 1..N : x = order[i]
        BY <2>1 DEF ToSet
      <4> DEFINE m == IF i < n THEN i ELSE i - 1
      <4>2. m \in 1..(N - 1) /\ r[m] = order[i]
        <5>1. i # n
          BY <2>1, <3>2, <4>1
        <5>2. CASE i < n
          <6>1. i \in 1..(N - 1)
            BY <2>1, <5>2
          <6> QED
            BY <2>5, <5>2, <6>1
        <5>3. CASE i > n
          <6>1. i - 1 \in 1..(N - 1) /\ ~(i - 1 < n) /\ (i - 1) + 1 = i
            BY <2>1, <5>3
          <6>2. r[i - 1] = order[(i - 1) + 1] /\ m = i - 1
            BY <2>1, <2>5, <5>3, <6>1
          <6> QED
            BY <6>1, <6>2
        <5> QED
          BY <2>1, <5>1, <5>2, <5>3
      <4> QED
        BY <2>6, <4>1, <4>2 DEF ToSet
    <3> QED
      BY <3>1, <3>2
  <2> QED
    BY <2>2, <2>5, <2>8, <2>9
<1> QED
  BY <1>1, <1>2

LEMMA AppendKey ==
    ASSUME NEW K, NEW order \in Seq(K), IsInjective(order), NEW key \in K, key \notin ToSet(order)
    PROVE  /\ Append(order, key) \in Seq(K)
           /\ IsInjective(Append(order, key))
           /\ ToSet(Append(order, key)) = ToSet(order) \cup {key}
<1> DEFINE N == Len(order)
           r == Append(order, key)
<1>1. /\ N \in Nat /\ DOMAIN order = 1..N
      /\ r \in Seq(K) /\ Len(r) = N + 1 /\ r[N + 1] = key
      /\ \A n \in 1..N : r[n] = order[n]
  BY AppendProperties, LenProperties
<1>2. DOMAIN r = 1..(N + 1)
  BY <1>1, LenProperties
<1> HIDE DEF N, r
<1>3. \A n \in 1..N : order[n] # key /\ order[n] \in ToSet(order)
  BY <1>1 DEF ToSet
<1>4. IsInjective(r)
  BY <1>1, <1>2, <1>3 DEF IsInjective
<1>5. ToSet(r) = ToSet(order) \cup {key}
  <2>1. \A x \in ToSet(r) : x \in ToSet(order) \cup {key}
    BY <1>1, <1>2, <1>3 DEF ToSet
  <2>2. key \in ToSet(r)
    <3>1. N + 1 \in 1..(N + 1)
      BY <1>1
    <3> QED
      BY <1>1, <1>2, <3>1 DEF ToSet
  <2>3. \A x \in ToSet(order) : x \in ToSet(r)
    <3> SUFFICES ASSUME NEW n \in 1..N PROVE order[n] \in ToSet(r)
      BY <1>1 DEF ToSet
    <3>1. n \in 1..(N + 1) /\ r[n] = order[n]
      BY <1>1
    <3> QED
      BY <1>2, <3>1 DEF ToSet
  <2> QED
    BY <2>1, <2>2, <2>3
<1> QED
  BY <1>1, <1>4, <1>5 DEF r

LEMMA EmptyOK ==
    ASSUME NEW K, NEW V
    PROVE  IsMap(EmptyMap, K, V) /\ Keys(EmptyMap) = {}
<1>1. DOMAIN <<>> = {} /\ ToSet(<<>>) = {} /\ IsInjective(<<>>) /\ <<>> \in Seq(K)
  BY DEF ToSet, IsInjective
<1> QED
  BY <1>1 DEF IsMap, EmptyMap, Keys

LEMMA SetOK ==
    ASSUME NEW K, NEW V, NEW map, IsMap(map, K, V), NEW key \in K, NEW value \in V
    PROVE  IsMap(Set(map, key, value), K, V) /\ Keys(Set(map, key, value)) = Keys(map) \cup {key}
<1> DEFINE new == Set(map, key, value)
<1>1. /\ new.order = IF key \in Keys(map) THEN map.order ELSE Append(map.order, key)
      /\ new.value = [x \in Keys(map) \cup {key} |-> IF x = key THEN value ELSE map.value[x]]
  BY DEF Set
<1> HIDE DEF new
<1>2. Keys(new) = Keys(map) \cup {key}
  BY <1>1 DEF Keys
<1>3. \A x \in Keys(new) : new.value[x] = IF x = key THEN value ELSE map.value[x]
  BY <1>1, <1>2 DEF Keys
<1>4. \A x \in Keys(new) : new.value[x] \in V
  BY <1>2, <1>3 DEF IsMap
<1>5. new.order \in Seq(K) /\ ToSet(new.order) = Keys(new) /\ IsInjective(new.order)
  BY <1>1, <1>2, AppendKey DEF IsMap
<1> QED
  BY <1>2, <1>4, <1>5 DEF IsMap, new

LEMMA DeleteOK ==
    ASSUME NEW K, NEW V, NEW map, IsMap(map, K, V), NEW key
    PROVE  IsMap(Delete(map, key), K, V) /\ Keys(Delete(map, key)) = Keys(map) \ {key}
<1> DEFINE new == Delete(map, key)
<1>1. /\ new.order = Without(map.order, key)
      /\ new.value = [x \in Keys(map) \ {key} |-> map.value[x]]
  BY DEF Delete, Restrict
<1> HIDE DEF new
<1>2. Keys(new) = Keys(map) \ {key}
  BY <1>1 DEF Keys
<1>3. \A x \in Keys(new) : new.value[x] \in V
  BY <1>1, <1>2 DEF IsMap
<1> QED
  BY <1>1, <1>2, <1>3, WithoutOK DEF IsMap, new

LEMMA MoveLastOK ==
    ASSUME NEW K, NEW V, NEW map, IsMap(map, K, V), NEW key \in Keys(map)
    PROVE  /\ IsMap(MoveLast(map, key), K, V)
           /\ Keys(MoveLast(map, key)) = Keys(map)
<1> DEFINE new == MoveLast(map, key)
<1>1. new.order = Append(Without(map.order, key), key) /\ new.value = map.value
  BY DEF MoveLast
<1>2. key \in K
  BY DEF IsMap, ToSet
<1> HIDE DEF new
<1>3. new.order \in Seq(K) /\ IsInjective(new.order) /\ ToSet(new.order) = Keys(map)
  <2> DEFINE rest == Without(map.order, key)
  <2>1. map.order \in Seq(K) /\ IsInjective(map.order) /\ ToSet(map.order) = Keys(map)
    BY DEF IsMap
  <2>2. rest \in Seq(K) /\ IsInjective(rest) /\ ToSet(rest) = Keys(map) \ {key}
    BY <2>1, WithoutOK
  <2> HIDE DEF rest
  <2>3. /\ Append(rest, key) \in Seq(K) /\ IsInjective(Append(rest, key))
        /\ ToSet(Append(rest, key)) = ToSet(rest) \cup {key}
    BY <1>2, <2>2, AppendKey
  <2> QED
    BY <1>1, <2>2, <2>3 DEF rest
<1> QED
  BY <1>1, <1>3 DEF IsMap, Keys, new

\* The host whose turn it is is a key.
LEMMA HeadKey ==
    ASSUME NEW K, NEW V, NEW map, IsMap(map, K, V), Keys(map) # {}
    PROVE  Head(map.order) \in Keys(map)
<1>1. map.order \in Seq(K) /\ ToSet(map.order) = Keys(map)
  BY DEF IsMap
<1>2. map.order # <<>>
  BY <1>1, EmptyOK DEF EmptyMap, IsMap, Keys
<1>3. 1 \in DOMAIN map.order /\ Head(map.order) = map.order[1]
  BY <1>1, <1>2, EmptySeq, LenProperties
<1> QED
  BY <1>1, <1>3 DEF ToSet

-----------------------------------------------------------------------------
\* Whether a host is on a list after signals, if it was before them or not.
Sent == Signals \cup {Own}

Has(todo, api, has) ==
    \/ \E n \in 1..Len(todo) :
          /\ todo[n] = Add(api)
          /\ \A m \in (n + 1)..Len(todo) : todo[m] # Del(api)
    \/ has /\ \A n \in 1..Len(todo) : todo[n] # Del(api)

LEMMA HasBoolean == \A todo, api, has : Has(todo, api, has) \in BOOLEAN
BY DEF Has

\* Signals of two kinds, for one host or for another.
LEMMA SignalsDiffer ==
    /\ \A a, b : Add(a) # Del(b) /\ Add(a) # Own /\ Del(a) # Own
    /\ \A a, b : Add(a) = Add(b) \/ Del(a) = Del(b) \/ Unreachable(a) = Unreachable(b) => a = b
<1>1. ASSUME NEW a, NEW b PROVE Add(a) # Del(b)
  <2>1. Add(a).type = "Add" /\ Del(b).type = "Delete"
    BY DEF Add, Del
  <2> QED
    BY <2>1
<1>2. ASSUME NEW a PROVE Add(a) # Own /\ Del(a) # Own
  <2>1. Add(a).type = "Add" /\ Del(a).type = "Delete" /\ Own.type = "Own"
    BY DEF Add, Del, Own
  <2> QED
    BY <2>1
<1>3. ASSUME NEW a, NEW b, Add(a) = Add(b) \/ Del(a) = Del(b) \/ Unreachable(a) = Unreachable(b)
      PROVE  a = b
  <2>1. Add(a).api = a /\ Add(b).api = b /\ Del(a).api = a /\ Del(b).api = b
        /\ Unreachable(a).api = a /\ Unreachable(b).api = b
    BY DEF Add, Del, Unreachable
  <2> QED
    BY <1>3, <2>1
<1> QED
  BY <1>1, <1>2, <1>3

LEMMA HasNothing == \A api, has : Has(<<>>, api, has) <=> has
<1>1. Len(<<>>) = 0
  OBVIOUS
<1> QED
  BY <1>1 DEF Has

LEMMA HasOne ==
    ASSUME NEW s, NEW api, NEW has \in BOOLEAN
    PROVE  Has(<<s>>, api, has) <=> s = Add(api) \/ (s # Del(api) /\ has)
<1>1. Len(<<s>>) = 1 /\ <<s>>[1] = s /\ 1 \in 1..1
  OBVIOUS
<1>2. \A n \in 1..1 : n = 1
  OBVIOUS
<1>3. \A m \in (1 + 1)..1 : FALSE
  OBVIOUS
<1> QED
  BY <1>1, <1>2, <1>3 DEF Has

\* Signals after signals.
LEMMA HasConcat ==
    ASSUME NEW p \in Seq(Sent), NEW q \in Seq(Sent), NEW api, NEW has \in BOOLEAN
    PROVE  Has(p \o q, api, has) <=> Has(q, api, Has(p, api, has))
<1> DEFINE N == Len(p)
           M == Len(q)
           r == p \o q
           del == Del(api)
           add == Add(api)
<1>1. /\ N \in Nat /\ M \in Nat /\ Len(r) = N + M
      /\ \A n \in 1..(N + M) : r[n] = IF n <= N THEN p[n] ELSE q[n - N]
  BY ConcatProperties, LenProperties
<1> HIDE DEF N, M, r, del, add
<1>2. /\ \A n \in 1..N : n \in 1..(N + M) /\ r[n] = p[n]
      /\ \A m \in 1..M : N + m \in 1..(N + M) /\ r[N + m] = q[m]
  <2>1. ASSUME NEW n \in 1..N PROVE n \in 1..(N + M) /\ r[n] = p[n]
    BY <1>1
  <2>2. ASSUME NEW m \in 1..M PROVE N + m \in 1..(N + M) /\ r[N + m] = q[m]
    <3>1. N + m \in 1..(N + M) /\ ~(N + m <= N) /\ (N + m) - N = m
      BY <1>1
    <3> QED
      BY <1>1, <3>1
  <2> QED
    BY <2>1, <2>2
<1>3. \A n \in 1..(N + M) : n \in 1..N \/ (n - N \in 1..M /\ N + (n - N) = n)
  BY <1>1
<1>4. ASSUME Has(r, api, has) PROVE Has(q, api, Has(p, api, has))
  <2>1. ASSUME has, \A n \in 1..(N + M) : r[n] # del PROVE Has(q, api, Has(p, api, has))
    <3>1. Has(p, api, has)
      BY <1>2, <2>1 DEF Has, N, del
    <3>2. \A m \in 1..M : q[m] # del
      BY <1>2, <2>1
    <3> QED
      BY <3>1, <3>2 DEF Has, M, del
  <2>2. ASSUME NEW n \in 1..(N + M), r[n] = add, \A m \in (n + 1)..(N + M) : r[m] # del
        PROVE  Has(q, api, Has(p, api, has))
    <3>1. CASE n \in 1..N
      <4>1. p[n] = add
        BY <1>2, <2>2, <3>1
      <4>2. \A m \in (n + 1)..N : p[m] # del
        <5> SUFFICES ASSUME NEW m \in (n + 1)..N PROVE p[m] # del
          OBVIOUS
        <5>1. m \in 1..N /\ m \in (n + 1)..(N + M)
          BY <1>1, <3>1
        <5> QED
          BY <1>2, <2>2, <5>1
      <4>3. \A m \in 1..M : q[m] # del
        <5> SUFFICES ASSUME NEW m \in 1..M PROVE q[m] # del
          OBVIOUS
        <5>1. N + m \in (n + 1)..(N + M)
          BY <1>1, <3>1
        <5> QED
          BY <1>2, <2>2, <5>1
      <4>4. Has(p, api, has)
        BY <3>1, <4>1, <4>2 DEF Has, N, add, del
      <4> QED
        BY <4>3, <4>4 DEF Has, M, del
    <3>2. CASE n - N \in 1..M /\ N + (n - N) = n
      <4>1. q[n - N] = add
        BY <1>2, <2>2, <3>2
      <4>2. \A m \in ((n - N) + 1)..M : q[m] # del
        <5> SUFFICES ASSUME NEW m \in ((n - N) + 1)..M PROVE q[m] # del
          OBVIOUS
        <5>1. m \in 1..M /\ N + m \in (n + 1)..(N + M)
          BY <1>1, <3>2
        <5> QED
          BY <1>2, <2>2, <5>1
      <4> QED
        BY <3>2, <4>1, <4>2 DEF Has, M, add, del
    <3> QED
      BY <1>3, <3>1, <3>2
  <2> QED
    BY <1>1, <1>4, <2>1, <2>2 DEF Has, add, del
<1>5. ASSUME Has(q, api, Has(p, api, has)) PROVE Has(r, api, has)
  <2>1. ASSUME NEW m \in 1..M, q[m] = add, \A k \in (m + 1)..M : q[k] # del
        PROVE  Has(r, api, has)
    <3>1. N + m \in 1..(N + M) /\ r[N + m] = add
      BY <1>2, <2>1
    <3>2. \A k \in ((N + m) + 1)..(N + M) : r[k] # del
      <4> SUFFICES ASSUME NEW k \in ((N + m) + 1)..(N + M) PROVE r[k] # del
        OBVIOUS
      <4>1. k - N \in (m + 1)..M /\ k - N \in 1..M /\ N + (k - N) = k
        BY <1>1
      <4> QED
        BY <1>2, <2>1, <4>1
    <3> QED
      BY <1>1, <3>1, <3>2 DEF Has, add, del
  <2>2. ASSUME Has(p, api, has), \A m \in 1..M : q[m] # del PROVE Has(r, api, has)
    <3>1. ASSUME has, \A n \in 1..N : p[n] # del PROVE Has(r, api, has)
      <4>1. \A n \in 1..(N + M) : r[n] # del
        <5> SUFFICES ASSUME NEW n \in 1..(N + M) PROVE r[n] # del
          OBVIOUS
        <5>1. CASE n \in 1..N
          BY <1>2, <3>1, <5>1
        <5>2. CASE n - N \in 1..M /\ N + (n - N) = n
          BY <1>2, <2>2, <5>2
        <5> QED
          BY <1>3, <5>1, <5>2
      <4> QED
        BY <1>1, <3>1, <4>1 DEF Has, del
    <3>2. ASSUME NEW n \in 1..N, p[n] = add, \A m \in (n + 1)..N : p[m] # del
          PROVE  Has(r, api, has)
      <4>1. n \in 1..(N + M) /\ r[n] = add
        BY <1>2, <3>2
      <4>2. \A k \in (n + 1)..(N + M) : r[k] # del
        <5> SUFFICES ASSUME NEW k \in (n + 1)..(N + M) PROVE r[k] # del
          OBVIOUS
        <5>0. k \in 1..(N + M)
          BY <1>1
        <5>1. CASE k \in 1..N
          <6>1. k \in (n + 1)..N
            BY <5>1
          <6> QED
            BY <1>2, <3>2, <5>1, <6>1
        <5>2. CASE k - N \in 1..M /\ N + (k - N) = k
          BY <1>2, <2>2, <5>2
        <5> QED
          BY <1>3, <5>0, <5>1, <5>2
      <4> QED
        BY <1>1, <4>1, <4>2 DEF Has, add, del
    <3> QED
      BY <2>2, <3>1, <3>2 DEF Has, N, add, del
  <2> QED
    BY <1>5, <2>1, <2>2 DEF Has, M, add, del
<1> QED
  BY <1>4, <1>5 DEF r

-----------------------------------------------------------------------------
\* What the two routines are doing.  A list that is not started is empty; the
\* handler sends to itself alone; it waits for the manager to be started.
PhaseInv ==
    /\ started <=> routine \in {"starting", "select", "stopping"}
    /\ started \/ Keys(peers) = {}
    /\ update # <<>> => routine = "select"
    /\ routine = "none" => listed = {} /\ subscriberCh = <<>> /\ sending = <<>>
    /\ sending \in Seq(Signals) \/ sending = <<Own>>
    /\ waiting <= stops

Inv == TypeOK /\ PhaseInv /\ ListFollows

LEMMA SentSeqs ==
    ASSUME TypeOK
    PROVE  /\ update \in Seq(Sent) /\ subscriberCh \in Seq(Sent) /\ sending \in Seq(Sent)
           /\ Pending \in Seq(Sent)
<1>1. update \in Seq(Sent) /\ subscriberCh \in Seq(Sent) /\ sending \in Seq(Sent)
  <2>1. Seq(Signals) \subseteq Seq(Sent)
    BY SeqMonotonic DEF Sent
  <2> QED
    BY <2>1 DEF TypeOK, Sent
<1> QED
  BY <1>1, ConcatProperties DEF Pending

ExpectedIsHas == \A api : Expected(api) <=> Has(Pending, api, api \in Keys(peers))

LEMMA ExpectedHas == TypeOK => ExpectedIsHas
<1> SUFFICES ASSUME TypeOK, NEW api
             PROVE  Expected(api) <=> Has(Pending, api, api \in Keys(peers))
  BY DEF ExpectedIsHas
<1> DEFINE N == Len(Pending)
<1>1. N \in Nat /\ DOMAIN Pending = 1..N
  BY SentSeqs, LenProperties
<1>2. Del(api) \notin ToSet(Pending) <=> \A n \in 1..N : Pending[n] # Del(api)
  BY <1>1 DEF ToSet
<1> HIDE DEF N
<1>3. ASSUME NEW n \in 1..N, Pending[n] = Add(api)
      PROVE  (\A m \in n..N : Pending[m] # Del(api))
                 <=> (\A m \in (n + 1)..N : Pending[m] # Del(api))
  <2>1. \A m \in n..N : m = n \/ m \in (n + 1)..N
    BY <1>1
  <2>2. \A m \in (n + 1)..N : m \in n..N
    BY <1>1
  <2> QED
    BY <1>3, <2>1, <2>2, SignalsDiffer
<1> QED
  BY <1>1, <1>2, <1>3 DEF Expected, Has, N

LEMMA NextExpectedHas == TypeOK' => ExpectedIsHas'
BY ExpectedHas, PTL

\* Only what a step does to the signals and the lists matters.
LEMMA ListKept ==
    ASSUME TypeOK, TypeOK', ListFollows, UNCHANGED listed, Pending' = Pending,
           started' => started,
           \A api \in Api : api \in Keys(peers)' <=> api \in Keys(peers),
           \A api \in listed : Reported(api) => Reported(api)'
    PROVE  ListFollows'
<1> SUFFICES ASSUME started', NEW api \in Api
             PROVE  /\ Expected(api)' => api \in listed
                    /\ api \in listed => Expected(api)' \/ Reported(api)'
  BY DEF ListFollows
<1>1. Expected(api)' <=> Has(Pending', api, api \in Keys(peers)')
  BY NextExpectedHas DEF ExpectedIsHas
<1> QED
  BY <1>1, ExpectedHas DEF ListFollows, ExpectedIsHas

-----------------------------------------------------------------------------
\* TypeOK, the handler's half and the manager's.
FeedTypeOK ==
    /\ listed \subseteq Api
    /\ commandCh \in Seq(Commands) /\ Len(commandCh) <= CommandSize
    /\ subscriberCh \in Seq(Signals) /\ Len(subscriberCh) <= SubscriberSize
    /\ sending \in Seq(Sent)
    /\ phase \in {"running", "closing", "ended"}

ManagerTypeOK ==
    /\ IsMap(peers, Api, 0..UnreachableMarks)
    /\ DOMAIN clientPeerCache \subseteq Client
    /\ \A client \in DOMAIN clientPeerCache : clientPeerCache[client] \in Api
    /\ started \in BOOLEAN
    /\ lock \in Commands \cup {Free, Leaked}
    /\ routine \in {"none", "starting", "select", "stopping", "ended"}
    /\ update \in Seq(Signals) /\ Len(update) <= 1
    /\ waiting \in 0..StopCalls /\ stops \in 0..StopCalls

LEMMA TypeHalves == TypeOK <=> FeedTypeOK /\ ManagerTypeOK
BY DEF TypeOK, FeedTypeOK, ManagerTypeOK, Sent

LEMMA SmallSeqs ==
    /\ <<>> \in Seq(Signals) /\ <<>> \in Seq(Sent) /\ <<Own>> \in Seq(Sent)
    /\ \A a \in Api : <<Add(a)>> \in Seq(Signals) /\ <<Del(a)>> \in Seq(Signals)
    /\ \A a, b \in Api : <<Del(a), Add(b)>> \in Seq(Signals)
    /\ Seq(Signals) \subseteq Seq(Sent)
<1>1. Own \in Sent /\ \A a \in Api : Add(a) \in Signals /\ Del(a) \in Signals
  BY DEF Sent, Signals, Add, Del
<1>2. Seq(Signals) \subseteq Seq(Sent)
  BY SeqMonotonic DEF Sent
<1> QED
  BY <1>1, <1>2

LEMMA TailShorter ==
    ASSUME NEW S, NEW s \in Seq(S), s # <<>>, NEW n \in Nat, Len(s) <= n
    PROVE  Tail(s) \in Seq(S) /\ Len(Tail(s)) <= n
BY HeadTailProperties, LenProperties

LEMMA AppendLonger ==
    ASSUME NEW S, NEW s \in Seq(S), NEW x \in S, NEW n \in Nat, Len(s) < n
    PROVE  Append(s, x) \in Seq(S) /\ Len(Append(s, x)) <= n
BY AppendProperties, LenProperties

LEMMA PeerChangeTypes ==
    ASSUME FeedTypeOK, PeerChange
    PROVE  FeedTypeOK' /\ sending' \in Seq(Signals)
<1>1. PICK a \in Api, b \in Api : Gain(a) \/ Lose(a) \/ Swap(a, b)
  BY DEF PeerChange
<1>2. listed' \subseteq Api /\ sending' \in Seq(Signals)
  <2>1. CASE Gain(a)
    BY <2>1, SmallSeqs DEF Gain, FeedTypeOK
  <2>2. CASE Lose(a)
    BY <2>2, SmallSeqs DEF Lose, FeedTypeOK
  <2>3. CASE Swap(a, b)
    BY <2>3, SmallSeqs DEF Swap, FeedTypeOK
  <2> QED
    BY <1>1, <2>1, <2>2, <2>3
<1> QED
  BY <1>2, SmallSeqs DEF PeerChange, FeedTypeOK

LEMMA TakeCommandTypes ==
    ASSUME FeedTypeOK, TakeCommand
    PROVE  FeedTypeOK' /\ (sending' \in Seq(Signals) \/ sending' = <<Own>>)
<1>1. commandCh' \in Seq(Commands) /\ Len(commandCh') <= CommandSize
  BY TailShorter, FeedAssumption DEF TakeCommand, FeedTypeOK
<1> DEFINE command == Head(commandCh)
<1>2. /\ command \in Commands /\ sending = <<>> /\ subscriberCh' = subscriberCh
      /\ phase = "running"
  BY HeadTailProperties DEF TakeCommand, FeedTypeOK, Reading
<1>3. CASE command.type = "Unreachable" /\ Lose(command.api) /\ UNCHANGED phase
  <2>1. command.api \in Api
    BY <1>3 DEF Lose, FeedTypeOK
  <2> QED
    BY <1>1, <1>2, <1>3, <2>1, SmallSeqs DEF Lose, FeedTypeOK
<1>4. CASE UNCHANGED <<listed, sending, phase>>
  BY <1>1, <1>2, <1>4, SmallSeqs DEF FeedTypeOK
<1>5. CASE sending' \in {<<>>, <<Own>>} /\ UNCHANGED <<listed, phase>>
  BY <1>1, <1>2, <1>5, SmallSeqs DEF FeedTypeOK
<1>6. CASE phase' = "closing" /\ UNCHANGED <<listed, sending>>
  BY <1>1, <1>2, <1>6, SmallSeqs DEF FeedTypeOK
<1> QED
  BY <1>3, <1>4, <1>5, <1>6 DEF TakeCommand

LEMMA SendSignalTypes ==
    ASSUME FeedTypeOK, SendSignal, sending \in Seq(Signals) \/ sending = <<Own>>
    PROVE  FeedTypeOK' /\ sending' \in Seq(Signals)
<1>1. sending \in Seq(Signals) /\ sending # <<>>
  BY DEF SendSignal
<1>2. Head(sending) \in Signals /\ sending' \in Seq(Signals)
  BY <1>1, HeadTailProperties DEF SendSignal
<1>3. subscriberCh' \in Seq(Signals) /\ Len(subscriberCh') <= SubscriberSize
  BY <1>2, AppendLonger, FeedAssumption DEF SendSignal, FeedTypeOK
<1> QED
  BY <1>2, <1>3, SmallSeqs DEF SendSignal, FeedTypeOK

LEMMA SendOwnTypes ==
    ASSUME FeedTypeOK, SendOwn, sending \in Seq(Signals) \/ sending = <<Own>>
    PROVE  FeedTypeOK' /\ sending = <<Own>> /\ sending' = <<>>
<1>1. ASSUME sending \in Seq(Signals) PROVE FALSE
  <2>1. Head(sending) \in Signals
    BY <1>1, HeadTailProperties DEF SendOwn
  <2>2. Own.type = "Own" /\ \A s \in Signals : s.type # "Own"
    BY DEF Own, Signals
  <2> QED
    BY <2>1, <2>2 DEF SendOwn
<1>2. Tail(<<Own>>) = <<>>
  OBVIOUS
<1> QED
  BY <1>1, <1>2, SmallSeqs DEF SendOwn, FeedTypeOK

LEMMA SendCommandTypes ==
    ASSUME FeedTypeOK, NEW command \in Commands, SendCommand(command)
    PROVE  FeedTypeOK'
<1>1. commandCh' \in Seq(Commands) /\ Len(commandCh') <= CommandSize
  BY AppendLonger, FeedAssumption DEF SendCommand, FeedTypeOK
<1> QED
  BY <1>1 DEF SendCommand, FeedTypeOK

LEMMA TakeSignalTypes ==
    ASSUME FeedTypeOK, TakeSignal
    PROVE  FeedTypeOK' /\ Head(subscriberCh) \in Signals
<1>1. subscriberCh' \in Seq(Signals) /\ Len(subscriberCh') <= SubscriberSize
  BY TailShorter, FeedAssumption DEF TakeSignal, FeedTypeOK
<1> QED
  BY <1>1, HeadTailProperties DEF TakeSignal, FeedTypeOK

-----------------------------------------------------------------------------
\* Each step keeps the invariant.
LEMMA SendsFollow ==
    ASSUME TypeOK, TypeOK', ListFollows, sending = <<>>,
           UNCHANGED <<update, subscriberCh, peers, started, lock>>,
           \A api \in Api : \A has \in BOOLEAN :
               Has(sending', api, has) <=> IF api \in listed <=> api \in listed' THEN has
                                           ELSE api \in listed',
           \A api \in listed \cap listed' : Reported(api) => Reported(api)'
    PROVE  ListFollows'
<1> SUFFICES ASSUME started', NEW api \in Api
             PROVE  /\ Expected(api)' => api \in listed'
                    /\ api \in listed' => Expected(api)' \/ Reported(api)'
  BY DEF ListFollows
<1>1. Pending' = Pending \o sending'
  <2>1. Pending = update \o subscriberCh
    <3>1. update \o subscriberCh \in Seq(Sent)
      BY SentSeqs, ConcatProperties
    <3> QED
      BY <3>1, ConcatEmptySeq DEF Pending
  <2> QED
    BY <2>1 DEF Pending
<1>2. Pending \in Seq(Sent) /\ sending' \in Seq(Sent)
  BY SentSeqs DEF TypeOK, Sent
<1>3. Expected(api) <=> Has(Pending, api, api \in Keys(peers))
  BY ExpectedHas DEF ExpectedIsHas
<1>4. Expected(api)' <=> Has(Pending', api, api \in Keys(peers))
  BY NextExpectedHas DEF ExpectedIsHas
<1> DEFINE key == api \in Keys(peers)
           before == Has(Pending, api, key)
<1>5. before \in BOOLEAN /\ key \in BOOLEAN
  BY HasBoolean
<1>6. Has(Pending', api, key) <=> Has(sending', api, before)
  <2> DEFINE p == Pending
             s == sending'
  <2>1. p \in Seq(Sent) /\ s \in Seq(Sent) /\ key \in BOOLEAN
    BY <1>2, <1>5
  <2> HIDE DEF p, s, key
  <2>2. Has(p \o s, api, key) <=> Has(s, api, Has(p, api, key))
    BY <2>1, HasConcat
  <2> QED
    BY <1>1, <2>2 DEF p, s
<1>7. Has(sending', api, before) <=> IF api \in listed <=> api \in listed' THEN before
                                     ELSE api \in listed'
  BY <1>5
<1>8. /\ before => api \in listed
      /\ api \in listed => before \/ Reported(api)
  BY <1>3 DEF ListFollows
<1> HIDE DEF before
<1> QED
  BY <1>4, <1>6, <1>7, <1>8

\* What a handler's change of its list tells.
LEMMA HasTwo ==
    ASSUME NEW a \in Api, NEW b \in Api, NEW api, NEW has \in BOOLEAN, a # b
    PROVE  Has(<<Del(a), Add(b)>>, api, has) <=> api = b \/ (api # a /\ has)
<1>1. <<Del(a)>> \in Seq(Sent) /\ <<Add(b)>> \in Seq(Sent)
  BY SmallSeqs
<1>2. <<Del(a), Add(b)>> = <<Del(a)>> \o <<Add(b)>>
  OBVIOUS
<1>3. Has(<<Del(a), Add(b)>>, api, has) <=> Has(<<Add(b)>>, api, Has(<<Del(a)>>, api, has))
  <2> DEFINE p == <<Del(a)>>
             s == <<Add(b)>>
  <2> HIDE DEF p, s
  <2>1. Has(p \o s, api, has) <=> Has(s, api, Has(p, api, has))
    BY <1>1, HasConcat DEF p, s
  <2> QED
    BY <1>2, <2>1 DEF p, s
<1> QED
  BY <1>3, HasBoolean, HasOne, SignalsDiffer

LEMMA ChangeFollows ==
    ASSUME TypeOK, TypeOK', ListFollows, sending = <<>>,
           UNCHANGED <<update, subscriberCh, peers, started, lock>>,
           NEW a \in Api, NEW b \in Api, Gain(a) \/ Lose(a) \/ Swap(a, b),
           \A api \in listed \cap listed' : Reported(api) => Reported(api)'
    PROVE  ListFollows'
<1> SUFFICES ASSUME NEW api \in Api, NEW has \in BOOLEAN
             PROVE  Has(sending', api, has) <=> IF api \in listed <=> api \in listed' THEN has
                                                ELSE api \in listed'
  BY SendsFollow
<1>1. CASE Gain(a)
  <2>1. Has(<<Add(a)>>, api, has) <=> api = a \/ has
    BY HasOne, SignalsDiffer
  <2> QED
    BY <1>1, <2>1 DEF Gain
<1>2. CASE Lose(a)
  <2>1. Has(<<Del(a)>>, api, has) <=> api # a /\ has
    BY HasOne, SignalsDiffer
  <2> QED
    BY <1>2, <2>1 DEF Lose
<1>3. CASE Swap(a, b)
  <2>1. a # b
    BY <1>3 DEF Swap
  <2>2. Has(<<Del(a), Add(b)>>, api, has) <=> api = b \/ (api # a /\ has)
    BY <2>1, HasTwo
  <2> QED
    BY <1>3, <2>1, <2>2 DEF Swap
<1> QED
  BY <1>1, <1>2, <1>3

\* A report is lost from the handler's channel only when it is acted upon.
LEMMA TailReports ==
    ASSUME TypeOK, commandCh # <<>>, commandCh' = Tail(commandCh), lock' = lock, NEW api,
           Head(commandCh) # Unreachable(api), Reported(api)
    PROVE  Reported(api)'
<1>1. CASE Unreachable(api) = lock
  BY <1>1 DEF Reported
<1>2. CASE Unreachable(api) \in ToSet(commandCh)
  <2>1. /\ commandCh \in Seq(Commands) /\ Len(commandCh) \in Nat
        /\ DOMAIN commandCh = 1..Len(commandCh)
        /\ DOMAIN Tail(commandCh) = 1..(Len(commandCh) - 1)
        /\ \A n \in 1..(Len(commandCh) - 1) : Tail(commandCh)[n] = commandCh[n + 1]
        /\ Head(commandCh) = commandCh[1]
    BY HeadTailProperties, LenProperties DEF TypeOK
  <2>2. PICK n \in 1..Len(commandCh) : commandCh[n] = Unreachable(api)
    BY <1>2, <2>1 DEF ToSet
  <2>3. n # 1
    BY <2>1, <2>2
  <2>4. n - 1 \in 1..(Len(commandCh) - 1) /\ (n - 1) + 1 = n
    BY <2>1, <2>3
  <2>5. Tail(commandCh)[n - 1] = Unreachable(api)
    BY <2>1, <2>2, <2>4
  <2>6. Unreachable(api) \in ToSet(Tail(commandCh))
    BY <2>1, <2>4, <2>5 DEF ToSet
  <2> QED
    BY <2>6 DEF Reported
<1> QED
  BY <1>1, <1>2 DEF Reported

LEMMA AppendReports ==
    ASSUME TypeOK, NEW command \in Commands, commandCh' = Append(commandCh, command), NEW api
    PROVE  /\ Unreachable(api) = command => Reported(api)'
           /\ Unreachable(api) \in ToSet(commandCh) => Reported(api)'
<1> DEFINE N == Len(commandCh)
<1>1. /\ commandCh \in Seq(Commands) /\ N \in Nat /\ DOMAIN commandCh = 1..N
      /\ DOMAIN Append(commandCh, command) = 1..(N + 1)
      /\ Append(commandCh, command)[N + 1] = command
      /\ \A n \in 1..N : Append(commandCh, command)[n] = commandCh[n]
  BY AppendProperties, LenProperties DEF TypeOK
<1> HIDE DEF N
<1>2. N + 1 \in 1..(N + 1) /\ \A n \in 1..N : n \in 1..(N + 1)
  BY <1>1
<1>3. command \in ToSet(commandCh') /\ ToSet(commandCh) \subseteq ToSet(commandCh')
  BY <1>1, <1>2 DEF ToSet
<1> QED
  BY <1>3 DEF Reported

-----------------------------------------------------------------------------
\* The handler's steps.
LEMMA HandlerInv ==
    ASSUME Inv, HandlerRuns, UNCHANGED managerVars, routine # "none"
    PROVE  Inv'
<1>1. /\ FeedTypeOK /\ ManagerTypeOK /\ ManagerTypeOK'
      /\ UNCHANGED <<peers, clientPeerCache, started, lock, routine, update, waiting, stops>>
  BY TypeHalves DEF Inv, managerVars, ManagerTypeOK
<1>2. ASSUME FeedTypeOK', sending' \in Seq(Signals) \/ sending' = <<Own>>
      PROVE  TypeOK' /\ PhaseInv'
  BY <1>1, <1>2 DEF Inv, PhaseInv, TypeOK, FeedTypeOK, ManagerTypeOK, Sent
<1>3. CASE PeerChange
  <2>1. TypeOK' /\ PhaseInv'
    BY <1>1, <1>2, <1>3, PeerChangeTypes
  <2>2. PICK a \in Api, b \in Api : Gain(a) \/ Lose(a) \/ Swap(a, b)
    BY <1>3 DEF PeerChange
  <2>3. \A api : Reported(api) => Reported(api)'
    BY <1>1, <1>3 DEF PeerChange, Reported
  <2> QED
    BY <1>1, <1>3, <2>1, <2>2, <2>3, ChangeFollows DEF Inv, PeerChange, Reading
<1>4. CASE TakeCommand
  <2>1. TypeOK' /\ PhaseInv'
    BY <1>1, <1>2, <1>4, TakeCommandTypes
  <2>2. /\ sending = <<>> /\ commandCh # <<>> /\ commandCh' = Tail(commandCh)
        /\ subscriberCh' = subscriberCh
    BY <1>4 DEF TakeCommand, Reading
  <2>3. \A api : Head(commandCh) # Unreachable(api) /\ Reported(api) => Reported(api)'
    BY <1>1, <2>2, TailReports DEF Inv
  <2>4. \A api : Head(commandCh) = Unreachable(api)
                    => Head(commandCh).type = "Unreachable" /\ Head(commandCh).api = api
    BY DEF Unreachable
  <2>5. CASE Head(commandCh).type = "Unreachable" /\ Lose(Head(commandCh).api)
    <3> DEFINE a == Head(commandCh).api
    <3>1. a \in Api /\ Lose(a) /\ a \notin listed'
      BY <1>1, <2>5 DEF Lose, FeedTypeOK
    <3>2. \A api \in listed \cap listed' : Reported(api) => Reported(api)'
      BY <2>3, <2>4, <3>1
    <3> QED
      BY <1>1, <2>1, <2>2, <3>1, <3>2, ChangeFollows DEF Inv
  <2>6. CASE listed' = listed /\ sending' \in {<<>>, <<Own>>}
             /\ (Head(commandCh).type = "Unreachable" => Head(commandCh).api \notin listed)
    <3>1. \A api \in listed : Reported(api) => Reported(api)'
      BY <2>3, <2>4, <2>6
    <3>2. \A api, has : has \in BOOLEAN => (Has(sending', api, has) <=> has)
      BY <2>6, HasNothing, HasOne, SignalsDiffer
    <3> QED
      BY <1>1, <2>1, <2>2, <2>6, <3>1, <3>2, SendsFollow DEF Inv
  <2>7. Other.type # "Unreachable" /\ StopHandler.type # "Unreachable"
    BY DEF Other, StopHandler
  <2> QED
    BY <1>4, <2>2, <2>5, <2>6, <2>7 DEF TakeCommand
<1>5. CASE SendSignal
  <2>1. TypeOK' /\ PhaseInv'
    BY <1>1, <1>2, <1>5, SendSignalTypes DEF Inv, PhaseInv
  <2>2. /\ sending # <<>> /\ sending \in Seq(Sent)
        /\ subscriberCh \in Seq(Sent) /\ update \in Seq(Sent)
        /\ subscriberCh' = Append(subscriberCh, Head(sending)) /\ sending' = Tail(sending)
        /\ update' = update
    BY <1>1, <1>5, SentSeqs DEF Inv, SendSignal
  <2>3. Pending' = Pending
    <3> DEFINE u == update
               c == subscriberCh
               s == Head(sending)
               r == Tail(sending)
    <3>1. /\ u \in Seq(Sent) /\ c \in Seq(Sent) /\ s \in Sent /\ r \in Seq(Sent)
          /\ sending = <<s>> \o r
      BY <2>2, HeadTailProperties
    <3>2. Pending = (u \o c) \o sending /\ Pending' = (u \o Append(c, s)) \o r
      BY <2>2 DEF Pending
    <3> HIDE DEF u, c, s, r
    <3>3. u \o Append(c, s) = (u \o c) \o <<s>>
      BY <3>1, AppendIsConcat, ConcatAssociative
    <3>4. ((u \o c) \o <<s>>) \o r = (u \o c) \o (<<s>> \o r)
      BY <3>1, ConcatAssociative, ConcatProperties
    <3> QED
      BY <3>1, <3>2, <3>3, <3>4
  <2>4. listed' = listed /\ commandCh' = commandCh
    BY <1>5 DEF SendSignal
  <2>5. \A api : Reported(api) => Reported(api)'
    BY <1>1, <2>4 DEF Reported
  <2> QED
    BY <1>1, <2>1, <2>3, <2>4, <2>5, ListKept DEF Inv
<1>6. CASE SendOwn
  <2>1. TypeOK' /\ PhaseInv' /\ sending = <<Own>> /\ sending' = <<>>
    BY <1>1, <1>2, <1>6, SendOwnTypes, SmallSeqs DEF Inv, PhaseInv
  <2>2. listed' = listed /\ commandCh' = commandCh /\ subscriberCh' = subscriberCh
    BY <1>6 DEF SendOwn
  <2>3. \A api : Reported(api) => Reported(api)'
    BY <1>1, <2>2 DEF Reported
  <2>4. Pending = Pending' \o <<Own>> /\ Pending' \in Seq(Sent) /\ <<Own>> \in Seq(Sent)
    <3>1. update \o subscriberCh \in Seq(Sent) /\ <<Own>> \in Seq(Sent)
      BY SentSeqs, ConcatProperties, SmallSeqs DEF Inv
    <3>2. Pending' = update \o subscriberCh
      BY <1>1, <2>1, <2>2, <3>1, ConcatEmptySeq DEF Pending
    <3>3. Pending = (update \o subscriberCh) \o <<Own>>
      BY <2>1 DEF Pending
    <3> QED
      BY <3>1, <3>2, <3>3
  <2>5. ASSUME NEW api \in Api
        PROVE  Expected(api)' <=> Expected(api)
    <3> DEFINE key == api \in Keys(peers)
               p == Pending'
               after == Has(p, api, key)
    <3>1. Expected(api) <=> Has(Pending, api, key)
      BY ExpectedHas DEF ExpectedIsHas, Inv
    <3>2. Expected(api)' <=> after
      BY <1>1, <2>1, NextExpectedHas DEF ExpectedIsHas
    <3>3. key \in BOOLEAN /\ after \in BOOLEAN /\ p \in Seq(Sent)
      BY <2>4, HasBoolean
    <3> HIDE DEF key, p
    <3>4. Has(p \o <<Own>>, api, key) <=> Has(<<Own>>, api, after)
      BY <2>4, <3>3, HasConcat
    <3>5. Has(<<Own>>, api, after) <=> after
      BY <3>3, HasOne, SignalsDiffer
    <3> QED
      BY <2>4, <3>1, <3>2, <3>4, <3>5 DEF p
  <2> QED
    BY <1>1, <2>1, <2>2, <2>3, <2>5 DEF Inv, ListFollows
<1>7. CASE End
  <2>1. TypeOK' /\ PhaseInv'
    BY <1>1, <1>2, <1>7 DEF End, FeedTypeOK, Inv, PhaseInv
  <2>2. Pending' = Pending /\ listed' = listed /\ \A api : Reported(api) => Reported(api)'
    BY <1>1, <1>7 DEF End, Pending, Reported
  <2> QED
    BY <1>1, <2>1, <2>2, ListKept DEF Inv
<1>8. CASE SendCommand(Other)
  <2>0. Other \in Commands
    BY DEF Commands
  <2>1. TypeOK' /\ PhaseInv'
    BY <1>1, <1>2, <1>8, <2>0, SendCommandTypes DEF SendCommand, Inv, PhaseInv
  <2>2. Pending' = Pending /\ listed' = listed
    BY <1>1, <1>8 DEF SendCommand, Pending
  <2>3. \A api : Reported(api) => Reported(api)'
    <3>1. commandCh' = Append(commandCh, Other)
      BY <1>8 DEF SendCommand
    <3>2. \A api : Unreachable(api) \in ToSet(commandCh) => Reported(api)'
      BY <2>0, <3>1, AppendReports DEF Inv
    <3>3. \A api : Unreachable(api) = lock => Reported(api)'
      BY <1>1 DEF Reported
    <3> QED
      BY <3>2, <3>3 DEF Reported
  <2> QED
    BY <1>1, <2>1, <2>2, <2>3, ListKept DEF Inv
<1> QED
  BY <1>3, <1>4, <1>5, <1>6, <1>7, <1>8 DEF HandlerRuns, Handler

-----------------------------------------------------------------------------
\* The manager's steps that leave the handler alone.
LEMMA FeedKept ==
    ASSUME Inv, UNCHANGED feedVars, ManagerTypeOK', PhaseInv', update' = update,
           started' => started,
           \A api \in Api : api \in Keys(peers)' <=> api \in Keys(peers),
           lock \in Commands => lock' = lock
    PROVE  Inv'
<1>1. TypeOK'
  BY TypeHalves DEF Inv, feedVars, TypeOK, FeedTypeOK, ManagerTypeOK
<1>2. Pending' = Pending /\ listed' = listed /\ commandCh' = commandCh
  BY DEF feedVars, Pending
<1>3. ASSUME NEW api \in listed, Reported(api) PROVE Reported(api)'
  <2>1. Unreachable(api) \in Commands
    BY DEF Inv, TypeOK, Unreachable, Commands
  <2> QED
    BY <1>2, <1>3, <2>1 DEF Reported
<1> QED
  BY <1>1, <1>2, <1>3, ListKept DEF Inv

LEMMA FreeIsFree == Free \notin Commands /\ Leaked \notin Commands /\ Free # Leaked
<1>1. /\ Free.type = "Free" /\ Leaked.type = "Leaked"
      /\ \A c \in Commands : c.type \in {"Unreachable", "Stop", "Other"}
  BY DEF Free, Leaked, Commands, StopHandler, Other
<1> QED
  BY <1>1

LEMMA StartInv ==
    ASSUME Inv, Start
    PROVE  Inv'
<1>1. /\ routine = "none" /\ routine' = "starting" /\ started'
      /\ UNCHANGED <<peers, clientPeerCache, lock, update, waiting, stops>>
      /\ UNCHANGED <<listed, commandCh, subscriberCh, sending, phase>>
  BY DEF Start, feedVars
<1>2. /\ ~started /\ Keys(peers) = {} /\ update = <<>> /\ listed = {}
      /\ subscriberCh = <<>> /\ sending = <<>>
  BY <1>1 DEF Inv, PhaseInv
<1>3. TypeOK'
  BY <1>1, TypeHalves DEF Inv, TypeOK, FeedTypeOK, ManagerTypeOK, Start
<1>4. PhaseInv'
  BY <1>1, <1>2 DEF Inv, PhaseInv, Keys
<1>5. Pending' = <<>> /\ listed' = {} /\ Keys(peers)' = {}
  BY <1>1, <1>2 DEF Pending, Keys
<1>6. ASSUME NEW api \in Api PROVE ~Expected(api)'
  <2>1. Expected(api)' <=> Has(<<>>, api, api \in Keys(peers)')
    BY <1>3, <1>5, NextExpectedHas DEF ExpectedIsHas
  <2>2. (api \in Keys(peers)') = FALSE
    BY <1>5
  <2>3. Expected(api)' <=> Has(<<>>, api, FALSE)
    BY <2>1, <2>2
  <2> QED
    BY <2>3, HasNothing
<1> QED
  BY <1>3, <1>4, <1>5, <1>6 DEF Inv, ListFollows

LEMMA BeginInv ==
    ASSUME Inv, Begin \/ TakeStop
    PROVE  Inv'
<1>1. /\ UNCHANGED feedVars /\ UNCHANGED <<peers, clientPeerCache, started, lock, update, stops>>
      /\ Keys(peers)' = Keys(peers)
  BY DEF Begin, TakeStop, Keys
<1>2. ManagerTypeOK'
  <2>1. waiting' \in 0..StopCalls
    BY ManagerAssumption DEF Begin, TakeStop, Inv, TypeOK
  <2>2. routine' \in {"select", "stopping"}
    BY DEF Begin, TakeStop
  <2> QED
    BY <1>1, <2>1, <2>2, TypeHalves DEF Inv, ManagerTypeOK
<1>3. PhaseInv'
  <2>1. CASE Begin
    BY <1>1, <2>1 DEF Inv, PhaseInv, Begin, feedVars
  <2>2. CASE TakeStop
    <3>1. /\ routine = "select" /\ routine' = "stopping" /\ update = <<>>
          /\ waiting' <= waiting /\ waiting' \in Int /\ stops' = stops
      BY <2>2, ManagerAssumption DEF TakeStop, Selects, Inv, TypeOK
    <3>2. waiting' <= stops'
      BY <3>1, ManagerAssumption DEF Inv, PhaseInv, TypeOK
    <3> QED
      BY <1>1, <3>1, <3>2 DEF Inv, PhaseInv, feedVars
  <2> QED
    BY <2>1, <2>2
<1> QED
  BY <1>1, <1>2, <1>3, FeedKept

LEMMA StopAllInv ==
    ASSUME Inv, StopAll
    PROVE  Inv'
<1>1. /\ UNCHANGED <<listed, commandCh, subscriberCh, sending, phase>>
      /\ UNCHANGED <<clientPeerCache, update, waiting, stops>>
      /\ started' = FALSE /\ peers' = EmptyMap /\ lock' = StopHandler /\ routine' = "ended"
      /\ routine = "stopping"
  BY DEF StopAll, feedVars
<1>2. IsMap(peers', Api, 0..UnreachableMarks) /\ Keys(peers') = {} /\ lock' \in Commands
  BY <1>1, EmptyOK DEF Commands
<1>3. TypeOK'
  BY <1>1, <1>2, TypeHalves DEF Inv, TypeOK
<1>4. PhaseInv'
  BY <1>1, <1>2 DEF Inv, PhaseInv, Keys
<1> QED
  BY <1>1, <1>3, <1>4 DEF Inv, ListFollows

\* The turn of a host.
LEMMA TurnInv ==
    ASSUME Inv, UNCHANGED feedVars, NextPeer # NoPeer, peers' = MoveLast(peers, NextPeer),
           UNCHANGED <<started, lock, routine, update, waiting, stops>>,
           DOMAIN clientPeerCache' \subseteq Client,
           \A c \in DOMAIN clientPeerCache' : clientPeerCache'[c] \in Api
    PROVE  Inv'
<1>1. /\ IsMap(peers, Api, 0..UnreachableMarks) /\ Keys(peers) # {}
      /\ NextPeer = Head(peers.order)
  BY DEF Inv, TypeOK, NextPeer
<1>2. NextPeer \in Keys(peers)
  BY <1>1, HeadKey
<1>3. IsMap(peers', Api, 0..UnreachableMarks) /\ Keys(peers') = Keys(peers)
  BY <1>1, <1>2, MoveLastOK
<1>4. ManagerTypeOK'
  BY <1>3, TypeHalves DEF Inv, ManagerTypeOK
<1>5. PhaseInv' /\ Keys(peers)' = Keys(peers)
  BY <1>3 DEF Inv, PhaseInv, feedVars, Keys
<1> QED
  BY <1>4, <1>5, FeedKept

LEMMA NextPeerApi ==
    ASSUME Inv, NextPeer # NoPeer
    PROVE  NextPeer \in Keys(peers) /\ NextPeer \in Api
<1>1. /\ IsMap(peers, Api, 0..UnreachableMarks) /\ Keys(peers) # {}
      /\ NextPeer = Head(peers.order)
  BY DEF Inv, TypeOK, NextPeer
<1>2. NextPeer \in Keys(peers)
  BY <1>1, HeadKey
<1>3. Keys(peers) \subseteq Api
  BY <1>1 DEF IsMap, ToSet
<1> QED
  BY <1>2, <1>3

LEMMA CallsInv ==
    ASSUME Inv, GetPeer \/ \E client \in Client : GetPeerPersistent(client) \/ PruneCache(client)
    PROVE  Inv'
<1>0. /\ DOMAIN clientPeerCache \subseteq Client
      /\ \A c \in DOMAIN clientPeerCache : clientPeerCache[c] \in Api
  BY DEF Inv, TypeOK
<1>1. CASE GetPeer
  BY <1>0, <1>1, TurnInv DEF GetPeer
<1>2. ASSUME NEW client \in Client, GetPeerPersistent(client) PROVE Inv'
  <2>1. NextPeer \in Api
    BY <1>2, NextPeerApi DEF GetPeerPersistent
  <2>2. clientPeerCache' = [c \in DOMAIN clientPeerCache \cup {client} |->
                              IF c = client THEN NextPeer ELSE clientPeerCache[c]]
    BY <1>2 DEF GetPeerPersistent
  <2>3. /\ DOMAIN clientPeerCache' \subseteq Client
        /\ \A c \in DOMAIN clientPeerCache' : clientPeerCache'[c] \in Api
    BY <1>0, <2>1, <2>2
  <2> QED
    BY <1>2, <2>3, TurnInv DEF GetPeerPersistent
<1>3. ASSUME NEW client \in Client, PruneCache(client) PROVE Inv'
  <2>1. clientPeerCache' = [c \in DOMAIN clientPeerCache \ {client} |-> clientPeerCache[c]]
    BY <1>3 DEF PruneCache, Restrict
  <2>2. /\ DOMAIN clientPeerCache' \subseteq Client
        /\ \A c \in DOMAIN clientPeerCache' : clientPeerCache'[c] \in Api
    BY <1>0, <2>1
  <2> QED
    BY <1>3, <2>2, TurnInv DEF PruneCache
<1> QED
  BY <1>1, <1>2, <1>3

LEMMA StopInv ==
    ASSUME Inv, Stop
    PROVE  Inv'
<1>1. /\ UNCHANGED feedVars /\ UNCHANGED <<peers, clientPeerCache, started, routine, update>>
      /\ lock = Free /\ stops < StopCalls /\ stops' = stops + 1 /\ lock' \in {Free, Leaked}
      /\ waiting' \in {waiting, waiting + 1} /\ Keys(peers)' = Keys(peers)
  BY DEF Stop, Keys
<1>2. waiting' \in 0..StopCalls /\ stops' \in 0..StopCalls /\ waiting' <= stops'
  BY <1>1, ManagerAssumption DEF Inv, TypeOK, PhaseInv
<1>3. ManagerTypeOK'
  BY <1>1, <1>2, TypeHalves DEF Inv, ManagerTypeOK
<1>4. PhaseInv'
  BY <1>1, <1>2 DEF Inv, PhaseInv, feedVars
<1> QED
  BY <1>1, <1>3, <1>4, FreeIsFree, FeedKept

-----------------------------------------------------------------------------
\* The steps that move signals and reports between the two.
LEMMA TakeUpdateInv ==
    ASSUME Inv, TakeUpdate
    PROVE  Inv'
<1> DEFINE s == Head(subscriberCh)
           r == Tail(subscriberCh)
<1>1. /\ UNCHANGED <<peers, clientPeerCache, started, lock, routine, waiting, stops>>
      /\ UNCHANGED <<listed, commandCh, sending, phase>>
      /\ subscriberCh # <<>> /\ subscriberCh' = r /\ update = <<>> /\ update' = <<s>>
      /\ routine = "select"
  BY DEF TakeUpdate, TakeSignal, Selects
<1>2. FeedTypeOK' /\ s \in Signals
  BY TypeHalves, TakeSignalTypes DEF Inv, TakeUpdate
<1>3. <<s>> \in Seq(Signals) /\ Len(<<s>>) <= 1
  BY <1>2
<1>4. ManagerTypeOK'
  BY <1>1, <1>3, TypeHalves DEF Inv, ManagerTypeOK
<1>5. TypeOK'
  BY <1>2, <1>4, TypeHalves DEF TypeOK, FeedTypeOK, ManagerTypeOK, Sent
<1>6. PhaseInv' /\ Keys(peers)' = Keys(peers)
  BY <1>1 DEF Inv, PhaseInv, Keys
<1>7. Pending' = Pending
  <2>1. subscriberCh \in Seq(Sent) /\ s \in Sent /\ r \in Seq(Sent) /\ subscriberCh = <<s>> \o r
    BY <1>1, SentSeqs, HeadTailProperties DEF Inv
  <2>2. <<>> \o subscriberCh = subscriberCh
    BY <2>1, ConcatEmptySeq
  <2> HIDE DEF s, r
  <2> QED
    BY <1>1, <2>1, <2>2 DEF Pending
<1>8. \A api : Reported(api) => Reported(api)'
  BY <1>1 DEF Reported
<1> QED
  BY <1>1, <1>5, <1>6, <1>7, <1>8, ListKept DEF Inv

LEMMA ApplyInv ==
    ASSUME Inv, Apply
    PROVE  Inv'
<1> DEFINE s == Head(update)
           todo == subscriberCh \o sending
<1>1. /\ UNCHANGED <<clientPeerCache, started, lock, routine, waiting, stops>>
      /\ UNCHANGED <<listed, commandCh, subscriberCh, sending, phase>>
      /\ update # <<>> /\ update' = <<>>
      /\ peers' = IF s.type = "Add" THEN Set(peers, s.api, 0) ELSE Delete(peers, s.api)
  BY DEF Apply, feedVars
<1>2. s \in Signals /\ update = <<s>>
  <2>1. update \in Seq(Signals) /\ Len(update) <= 1
    BY DEF Inv, TypeOK
  <2>2. Len(update) = 1
    <3>1. Len(update) \in Nat /\ Len(update) # 0
      BY <1>1, <2>1, EmptySeq, LenProperties
    <3> QED
      BY <2>1, <3>1
  <2> QED
    BY <1>1, <2>1, <2>2, HeadTailProperties
<1>3. /\ s.api \in Api
      /\ s = IF s.type = "Add" THEN Add(s.api) ELSE Del(s.api)
  BY <1>2 DEF Signals, Add, Del
<1>4. /\ IsMap(peers', Api, 0..UnreachableMarks)
      /\ Keys(peers') = IF s.type = "Add" THEN Keys(peers) \cup {s.api} ELSE Keys(peers) \ {s.api}
  <2> DEFINE V == 0..UnreachableMarks
             a == s.api
  <2>1. IsMap(peers, Api, V) /\ 0 \in V /\ a \in Api
    BY <1>3, ManagerAssumption DEF Inv, TypeOK
  <2> HIDE DEF V, a
  <2>2. IsMap(Set(peers, a, 0), Api, V) /\ Keys(Set(peers, a, 0)) = Keys(peers) \cup {a}
    BY <2>1, SetOK
  <2>3. IsMap(Delete(peers, a), Api, V) /\ Keys(Delete(peers, a)) = Keys(peers) \ {a}
    BY <2>1, DeleteOK
  <2> QED
    BY <1>1, <2>2, <2>3 DEF V, a
<1>5. TypeOK'
  <2>1. <<>> \in Seq(Signals) /\ Len(<<>>) <= 1
    OBVIOUS
  <2> QED
    BY <1>1, <1>4, <2>1, TypeHalves DEF Inv, TypeOK
<1>6. PhaseInv'
  BY <1>1, <1>4 DEF Inv, PhaseInv, Keys
<1>7. /\ todo \in Seq(Sent) /\ <<s>> \in Seq(Sent)
      /\ Pending = <<s>> \o todo /\ Pending' = todo
  <2>1. /\ subscriberCh \in Seq(Sent) /\ sending \in Seq(Sent) /\ <<s>> \in Seq(Sent)
        /\ update \in Seq(Sent)
    BY <1>2, SentSeqs DEF Inv
  <2>2. Pending = (<<s>> \o subscriberCh) \o sending
    BY <1>2 DEF Pending
  <2>3. Pending' = (<<>> \o subscriberCh) \o sending
    BY <1>1 DEF Pending
  <2>4. (<<s>> \o subscriberCh) \o sending = <<s>> \o todo
    BY <2>1, ConcatAssociative
  <2>5. <<>> \o subscriberCh = subscriberCh
    BY <2>1, ConcatEmptySeq
  <2>6. todo \in Seq(Sent)
    BY <2>1, ConcatProperties
  <2> QED
    BY <2>1, <2>2, <2>3, <2>4, <2>5, <2>6
<1>8. ASSUME NEW api \in Api
      PROVE  Expected(api)' <=> Expected(api)
  <2> DEFINE key == api \in Keys(peers)
             after == Has(<<s>>, api, key)
  <2>1. Expected(api) <=> Has(Pending, api, key)
    BY ExpectedHas DEF ExpectedIsHas, Inv
  <2>2. Expected(api)' <=> Has(todo, api, api \in Keys(peers)')
    BY <1>5, <1>7, NextExpectedHas DEF ExpectedIsHas
  <2>3. after \in BOOLEAN /\ key \in BOOLEAN
    BY HasBoolean
  <2>4. after <=> s = Add(api) \/ (s # Del(api) /\ key)
    <3> HIDE DEF key, s
    <3> QED
      BY <2>3, HasOne
  <2>5. (api \in Keys(peers)') = after
    <3>1. CASE s.type = "Add"
      <4>1. s = Add(s.api) /\ Keys(peers)' = Keys(peers) \cup {s.api}
        BY <1>3, <1>4, <3>1 DEF Keys
      <4>2. s # Del(api) /\ (s = Add(api) <=> s.api = api)
        BY <4>1, SignalsDiffer
      <4> QED
        BY <2>3, <2>4, <4>1, <4>2
    <3>2. CASE s.type # "Add"
      <4>1. s = Del(s.api) /\ Keys(peers)' = Keys(peers) \ {s.api}
        BY <1>3, <1>4, <3>2 DEF Keys
      <4>2. s # Add(api) /\ (s = Del(api) <=> s.api = api)
        BY <4>1, SignalsDiffer
      <4> QED
        BY <2>3, <2>4, <4>1, <4>2
    <3> QED
      BY <3>1, <3>2
  <2> DEFINE one == <<s>>
  <2>6. Has(one \o todo, api, key) <=> Has(todo, api, Has(one, api, key))
    <3>1. one \in Seq(Sent) /\ todo \in Seq(Sent)
      BY <1>7
    <3> HIDE DEF one, todo, key
    <3> QED
      BY <2>3, <3>1, HasConcat
  <2> HIDE DEF todo, key
  <2> QED
    BY <1>7, <2>1, <2>2, <2>5, <2>6
<1>9. \A api : Reported(api) => Reported(api)'
  BY <1>1 DEF Reported
<1> QED
  BY <1>1, <1>5, <1>6, <1>8, <1>9 DEF Inv, ListFollows

LEMMA SendHeldInv ==
    ASSUME Inv, SendHeld
    PROVE  Inv'
<1>1. /\ UNCHANGED <<peers, clientPeerCache, started, routine, update, waiting, stops>>
      /\ UNCHANGED <<listed, subscriberCh, sending, phase>>
      /\ commandCh' = Append(commandCh, lock) /\ lock \in Commands /\ lock' = Free
  BY DEF SendHeld, SendCommand
<1>2. FeedTypeOK'
  BY SendCommandTypes, TypeHalves DEF Inv, SendHeld
<1>3. ManagerTypeOK'
  BY <1>1, TypeHalves DEF Inv, ManagerTypeOK
<1>4. TypeOK'
  BY <1>2, <1>3, TypeHalves DEF TypeOK, FeedTypeOK, ManagerTypeOK, Sent
<1>5. PhaseInv' /\ Keys(peers)' = Keys(peers) /\ Pending' = Pending
  BY <1>1 DEF Inv, PhaseInv, Keys, Pending
<1>6. \A api : Reported(api) => Reported(api)'
  <2>1. \A api : Unreachable(api) \in ToSet(commandCh) \/ Unreachable(api) = lock => Reported(api)'
    BY <1>1, AppendReports DEF Inv
  <2> QED
    BY <2>1 DEF Reported
<1> QED
  BY <1>1, <1>4, <1>5, <1>6, ListKept DEF Inv

\* A host with too many marks leaves the list, and is reported.
LEMMA MarkInv ==
    ASSUME Inv, NEW api \in Api, MarkPeerUnreachable(api)
    PROVE  Inv'
<1>1. PICK marks \in 1..peers.value[api] + 1 :
          IF IsUnreachable(marks)
          THEN peers' = Delete(peers, api) /\ lock' = Unreachable(api)
          ELSE peers' = Set(peers, api, marks) /\ UNCHANGED lock
  BY DEF MarkPeerUnreachable
<1>2. /\ lock = Free /\ started /\ api \in Keys(peers)
      /\ UNCHANGED <<listed, commandCh, subscriberCh, sending, phase>>
      /\ UNCHANGED <<clientPeerCache, started, routine, update, waiting, stops>>
  BY DEF MarkPeerUnreachable, feedVars
<1>3. IsMap(peers, Api, 0..UnreachableMarks) /\ peers.value[api] \in 0..UnreachableMarks
  BY <1>2 DEF Inv, TypeOK, IsMap
<1>4. CASE IsUnreachable(marks)
  <2>1. /\ IsMap(peers', Api, 0..UnreachableMarks) /\ Keys(peers') = Keys(peers) \ {api}
        /\ lock' = Unreachable(api) /\ lock' \in Commands
    BY <1>1, <1>3, <1>4, DeleteOK DEF Unreachable, Commands
  <2>2. TypeOK' /\ PhaseInv'
    BY <1>2, <2>1, TypeHalves DEF Inv, TypeOK, PhaseInv, Keys
  <2>3. Pending' = Pending
    BY <1>2 DEF Pending
  <2>4. ASSUME NEW a \in Api, a # api
        PROVE  (Expected(a)' <=> Expected(a)) /\ (Reported(a) => Reported(a)')
    <3>1. Expected(a) <=> Has(Pending, a, a \in Keys(peers))
      BY ExpectedHas DEF ExpectedIsHas, Inv
    <3>2. Expected(a)' <=> Has(Pending, a, a \in Keys(peers)')
      BY <2>2, <2>3, NextExpectedHas DEF ExpectedIsHas
    <3>3. (a \in Keys(peers)') = (a \in Keys(peers))
      BY <2>1, <2>4 DEF Keys
    <3>4. Unreachable(a) # lock
      BY <1>2, FreeIsFree DEF Unreachable, Commands
    <3> QED
      BY <1>2, <3>1, <3>2, <3>3, <3>4 DEF Reported
  <2>5. Reported(api)' /\ (Expected(api)' => Expected(api))
    <3>1. Expected(api) <=> Has(Pending, api, api \in Keys(peers))
      BY ExpectedHas DEF ExpectedIsHas, Inv
    <3>2. Expected(api)' <=> Has(Pending, api, api \in Keys(peers)')
      BY <2>2, <2>3, NextExpectedHas DEF ExpectedIsHas
    <3>3. (api \in Keys(peers)) = TRUE /\ (api \in Keys(peers)') = FALSE
      BY <1>2, <2>1 DEF Keys
    <3>4. Has(Pending, api, FALSE) => Has(Pending, api, TRUE)
      BY DEF Has
    <3> QED
      BY <2>1, <3>1, <3>2, <3>3, <3>4 DEF Reported
  <2> QED
    BY <1>2, <2>2, <2>4, <2>5 DEF Inv, ListFollows
<1>5. CASE ~IsUnreachable(marks)
  <2>1. marks \in 0..UnreachableMarks
    BY <1>3, <1>5, ManagerAssumption DEF IsUnreachable
  <2>2. /\ IsMap(peers', Api, 0..UnreachableMarks) /\ Keys(peers') = Keys(peers)
        /\ lock' = lock
    <3> DEFINE V == 0..UnreachableMarks
    <3>1. IsMap(peers, Api, V) /\ marks \in V
      BY <1>3, <2>1
    <3> HIDE DEF V
    <3>2. /\ IsMap(Set(peers, api, marks), Api, V)
          /\ Keys(Set(peers, api, marks)) = Keys(peers) \cup {api}
      BY <3>1, SetOK
    <3> QED
      BY <1>1, <1>2, <1>5, <3>2 DEF V
  <2>3. ManagerTypeOK' /\ PhaseInv' /\ Keys(peers)' = Keys(peers)
    BY <1>2, <2>2, TypeHalves DEF Inv, ManagerTypeOK, PhaseInv, Keys
  <2> QED
    BY <1>2, <2>2, <2>3, FeedKept DEF feedVars
<1> QED
  BY <1>4, <1>5

LEMMA InvStep == Inv /\ [Next]_vars => Inv'
<1> SUFFICES ASSUME Inv, [Next]_vars PROVE Inv'
  OBVIOUS
<1>1. CASE Start
  BY <1>1, StartInv
<1>2. CASE Begin \/ TakeUpdate \/ Apply \/ TakeStop \/ StopAll
  BY <1>2, BeginInv, TakeUpdateInv, ApplyInv, StopAllInv
<1>3. CASE SendHeld \/ Stop
  BY <1>3, SendHeldInv, StopInv
<1>4. CASE GetPeer \/ \E client \in Client : GetPeerPersistent(client) \/ PruneCache(client)
  BY <1>4, CallsInv
<1>5. CASE \E api \in Api : MarkPeerUnreachable(api)
  BY <1>5, MarkInv
<1>6. CASE routine # "none" /\ HandlerRuns /\ UNCHANGED managerVars
  BY <1>6, HandlerInv
<1>7. CASE UNCHANGED vars
  <2>1. ManagerTypeOK' /\ PhaseInv' /\ Keys(peers)' = Keys(peers)
    BY <1>7, TypeHalves DEF vars, managerVars, feedVars, Inv, ManagerTypeOK, PhaseInv, Keys
  <2> QED
    BY <1>7, <2>1, FeedKept DEF vars, managerVars
<1> QED
  BY <1>1, <1>2, <1>3, <1>4, <1>5, <1>6, <1>7 DEF Next

LEMMA InitInv == Init => Inv
<1> SUFFICES ASSUME Init PROVE Inv
  OBVIOUS
<1>1. /\ listed = {} /\ commandCh = <<>> /\ subscriberCh = <<>> /\ sending = <<>>
      /\ phase = "running" /\ peers = EmptyMap /\ clientPeerCache = <<>> /\ started = FALSE
      /\ lock = Free /\ routine = "none" /\ update = <<>> /\ waiting = 0 /\ stops = 0
  BY DEF Init, FeedInit
<1>2. FeedTypeOK
  <2>1. <<>> \in Seq(Commands) /\ Len(<<>>) = 0
    OBVIOUS
  <2> QED
    BY <1>1, <2>1, SmallSeqs, FeedAssumption DEF FeedTypeOK
<1>3. ManagerTypeOK
  <2>1. DOMAIN clientPeerCache = {} /\ update \in Seq(Signals) /\ Len(update) <= 1
    BY <1>1
  <2>2. IsMap(peers, Api, 0..UnreachableMarks)
    BY <1>1, EmptyOK
  <2>3. 0 \in 0..StopCalls
    BY ManagerAssumption
  <2> QED
    BY <1>1, <2>1, <2>2, <2>3 DEF ManagerTypeOK
<1>4. PhaseInv
  BY <1>1, SmallSeqs, EmptyOK DEF PhaseInv
<1> QED
  BY <1>1, <1>2, <1>3, <1>4, TypeHalves DEF Inv, ListFollows

LEMMA Invariant == Spec => []Inv
BY InitInv, InvStep, PTL DEF Spec

-----------------------------------------------------------------------------
\* Types hold, and with them the bounds of the channels and of the marks.
THEOREM PeersTyped == Spec => []TypeOK
BY Invariant, PTL DEF Inv

\* manager.go: the list becomes the handler's when the signals are applied,
\* but for the hosts that the handler is being told of.
THEOREM PeersListFollows == Spec => []ListFollows
BY Invariant, PTL DEF Inv

\* manager.go, GetPeer and GetPeerPersistent: a client is sent to a host the
\* handler lists, or one whose loss is signalled already.
THEOREM PeersAnswersListed == Spec => []AnswersListed
<1>1. Inv => AnswersListed
  <2> SUFFICES ASSUME Inv, NEW client \in Client, Answer(client) # NoPeer,
                      Del(Answer(client)) \notin ToSet(Pending)
               PROVE  Answer(client) \in listed
    BY DEF AnswersListed
  <2> DEFINE api == Answer(client)
  <2>1. api \in Keys(peers)
    BY NextPeerApi DEF Answer, Remembered
  <2>2. started /\ api \in Api
    BY <2>1 DEF Inv, PhaseInv, TypeOK, IsMap, ToSet
  <2>3. Expected(api)
    BY <2>1 DEF Expected
  <2> QED
    BY <2>2, <2>3 DEF Inv, ListFollows
<1> QED
  BY <1>1, Invariant, PTL

=============================================================================
