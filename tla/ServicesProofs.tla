--------------------------- MODULE ServicesProofs ---------------------------
(***************************************************************************)
(* Proofs about the block manager's feed and the caches that live on it,   *)
(* for every tree of blocks, every channel capacity, every size of the     *)
(* caches and every set of services.                                       *)
(***************************************************************************)
EXTENDS Services, SequenceTheorems, FiniteSetTheorems, WellFoundedInduction, TLAPS

-----------------------------------------------------------------------------
\* Folds over sequences: what FoldLeft and FlattenSeq compute, element by
\* element.

\* Induction with a set in the place of a predicate, which the provers can instantiate.
LEMMA SetInduction ==
    ASSUME NEW G, 0 \in G, \A n \in Nat : n \in G => n + 1 \in G
    PROVE  Nat \subseteq G
<1> SUFFICES ASSUME NEW n0 \in Nat, n0 \notin G PROVE FALSE
  OBVIOUS
<1> DEFINE T == Nat \ G
<1>1. T \in SUBSET Nat /\ n0 \in T
  OBVIOUS
<1>2. PICK n \in T : \A y \in T : ~(<<y, n>> \in OpToRel(<, Nat))
  <2> HIDE DEF T
  <2> QED
    BY <1>1, NatLessThanWellFounded, WFMin
<1>3. n \in Nat /\ n \notin G /\ n # 0
  OBVIOUS
<1>4. n - 1 \in Nat
  BY <1>3
<1>6. n - 1 \notin G
  <2>1. n = (n - 1) + 1
    BY <1>3
  <2> QED
    BY <1>3, <1>4, <2>1
<1>5. <<n - 1, n>> \in OpToRel(<, Nat)
  BY <1>3 DEF OpToRel
<1> QED
  BY <1>2, <1>4, <1>5, <1>6

\* Induction over sequences, with a set in the same place.
LEMMA SeqInduction ==
    ASSUME NEW S, NEW G, << >> \in G,
           \A s \in Seq(S) : \A e \in S : s \in G => Append(s, e) \in G
    PROVE  Seq(S) \subseteq G
<1> DEFINE H == {n \in Nat : \A s \in Seq(S) : Len(s) = n => s \in G}
<1>1. 0 \in H
  BY EmptySeq
<1>2. ASSUME NEW n \in Nat, n \in H PROVE n + 1 \in H
  <2> SUFFICES ASSUME NEW s \in Seq(S), Len(s) = n + 1 PROVE s \in G
    OBVIOUS
  <2>1. PICK r \in Seq(S), e \in S : s = Append(r, e)
    BY SequenceEmptyOrAppend, EmptySeq
  <2>2. Len(r) = n
    BY <2>1, AppendProperties, LenProperties
  <2> QED
    BY <1>2, <2>1, <2>2
<1>3. Nat \subseteq H
  <2> HIDE DEF H
  <2> QED
    BY <1>1, <1>2, SetInduction
<1> QED
  BY <1>3, LenProperties

\* The end of an interval is its maximum.
LEMMA MaxTop ==
    ASSUME NEW n \in Nat, NEW t \in SUBSET (1..n), n \in t
    PROVE  Max(t) = n
<1>1. \A y \in t : n >= y
  OBVIOUS
<1>2. \A x \in t : (\A y \in t : x >= y) => x = n
  <2> SUFFICES ASSUME NEW x \in t, x >= n PROVE x = n
    OBVIOUS
  <2>1. x \in 1..n
    OBVIOUS
  <2> QED
    BY <2>1
<1> QED
  BY <1>1, <1>2 DEF Max

\* A set of some of the first numbers has a maximum.
LEMMA TopExists ==
    ASSUME NEW n \in Nat, NEW t \in SUBSET (1..n), t # {}
    PROVE  Max(t) \in t /\ \A i \in t : i <= Max(t)
<1> DEFINE H == {k \in Nat : \A u \in SUBSET (1..k) : u # {} => Max(u) \in u /\ \A i \in u : i <= Max(u)}
<1>1. 0 \in H
  <2>1. \A u \in SUBSET (1..0) : u = {}
    OBVIOUS
  <2> QED
    BY <2>1
<1>2. ASSUME NEW k \in Nat, k \in H PROVE k + 1 \in H
  <2> SUFFICES ASSUME NEW u \in SUBSET (1..k + 1), u # {}
               PROVE  Max(u) \in u /\ \A i \in u : i <= Max(u)
    OBVIOUS
  <2>1. CASE k + 1 \in u
    BY <2>1, MaxTop
  <2>2. CASE k + 1 \notin u
    <3>1. u \in SUBSET (1..k)
      BY <2>2
    <3> QED
      BY <1>2, <3>1
  <2> QED
    BY <2>1, <2>2
<1>3. Nat \subseteq H
  <2> HIDE DEF H
  <2> QED
    BY <1>1, <1>2, SetInduction
<1> QED
  BY <1>3

\* What a fold over n elements unfolds to: a value for every set of them.
FoldTable(it, V, base, n, step) ==
    /\ it \in [SUBSET (1..n) -> V]
    /\ \A t \in SUBSET (1..n) :
          it[t] = IF t = {} THEN base ELSE step[Max(t)][it[t \ {Max(t)}]]

\* The function that the fold of a sequence of n elements unfolds to exists.
LEMMA FoldExists ==
    ASSUME NEW V, NEW base \in V, NEW n \in Nat, NEW step \in [1..n -> [V -> V]]
    PROVE  \E it : FoldTable(it, V, base, n, step)
<1> DEFINE Folds(it, k) == \A t \in SUBSET (1..k) :
               it[t] = IF t = {} THEN base ELSE step[Max(t)][it[t \ {Max(t)}]]
           Exists(k) == \E it \in [SUBSET (1..k) -> V] : Folds(it, k)
           H == {k \in Nat : k <= n => Exists(k)}
<1>1. 0 \in H
  <2>1. SUBSET (1..0) = {{}}
    OBVIOUS
  <2>2. [t \in SUBSET (1..0) |-> base] \in [SUBSET (1..0) -> V]
    OBVIOUS
  <2>3. Folds([t \in SUBSET (1..0) |-> base], 0)
    BY <2>1
  <2> QED
    BY <2>2, <2>3
<1>2. ASSUME NEW k \in Nat, k \in H PROVE k + 1 \in H
  <2> SUFFICES ASSUME k + 1 <= n PROVE Exists(k + 1)
    <3> HIDE DEF Exists
    <3> QED
      OBVIOUS
  <2>0. k <= n
    OBVIOUS
  <2>1. PICK r \in [SUBSET (1..k) -> V] : Folds(r, k)
    <3>1. Exists(k)
      <4> HIDE DEF Exists
      <4> QED
        BY <1>2, <2>0
    <3> QED
      BY <3>1
  <2> DEFINE it == [t \in SUBSET (1..k + 1) |->
                       IF k + 1 \in t THEN step[k + 1][r[t \ {k + 1}]] ELSE r[t]]
  <2>2. \A t \in SUBSET (1..k + 1) : t \ {k + 1} \in SUBSET (1..k)
    OBVIOUS
  <2>3. it \in [SUBSET (1..k + 1) -> V]
    <3> SUFFICES ASSUME NEW t \in SUBSET (1..k + 1) PROVE it[t] \in V
      OBVIOUS
    <3>1. CASE k + 1 \in t
      <4>1. step[k + 1] \in [V -> V] /\ r[t \ {k + 1}] \in V
        BY <2>2
      <4> QED
        BY <3>1, <4>1
    <3>2. CASE k + 1 \notin t
      <4>1. t \in SUBSET (1..k)
        BY <3>2
      <4> QED
        BY <3>2, <4>1
    <3> QED
      BY <3>1, <3>2
  <2>4. Folds(it, k + 1)
    <3> SUFFICES ASSUME NEW t \in SUBSET (1..k + 1), t # {}
                 PROVE  it[t] = step[Max(t)][it[t \ {Max(t)}]]
      <4>1. it[{}] = r[{}] /\ r[{}] = base
        BY <2>1
      <4> QED
        BY <4>1
    <3>1. CASE k + 1 \in t
      <4>1. Max(t) = k + 1
        BY <3>1, MaxTop
      <4>2. it[t] = step[k + 1][r[t \ {k + 1}]] /\ it[t \ {k + 1}] = r[t \ {k + 1}]
        BY <2>2, <3>1
      <4> QED
        BY <4>1, <4>2
    <3>2. CASE k + 1 \notin t
      <4>1. t \in SUBSET (1..k)
        BY <3>2
      <4>2. r[t] = step[Max(t)][r[t \ {Max(t)}]]
        BY <2>1, <4>1
      <4>3. it[t] = r[t] /\ it[t \ {Max(t)}] = r[t \ {Max(t)}]
        BY <3>2, <4>1
      <4> QED
        BY <4>2, <4>3
    <3> QED
      BY <3>1, <3>2
  <2> HIDE DEF it
  <2> QED
    BY <2>3, <2>4
<1>3. Nat \subseteq H
  <2> HIDE DEF H
  <2> QED
    BY <1>1, <1>2, SetInduction
<1>4. Exists(n)
  <2> HIDE DEF Exists
  <2> QED
    BY <1>3
<1> QED
  BY <1>4 DEF FoldTable

\* The solution of a fold's equation.
LEMMA TotalIs ==
    ASSUME NEW s \in Seq(Int)
    PROVE  \E r : /\ r \in [0..Len(s) -> Int] /\ r[0] = 0
                  /\ \A k \in 1..Len(s) : r[k] = r[k - 1] + s[k]
                  /\ Total(s) = r[Len(s)]
<1> DEFINE n == Len(s)
           Eq(F) == F = [t \in SUBSET DOMAIN s |->
                            IF t = {} THEN 0 ELSE F[t \ {Max(t)}] + s[Max(t)]]
           it == CHOOSE F : Eq(F)
           step == [k \in 1..n |-> [v \in Int |-> v + s[k]]]
<1>1. n \in Nat /\ DOMAIN s = 1..n /\ \A k \in 1..n : s[k] \in Int
  BY LenProperties, ElementOfSeq
<1>2. Total(s) = it[DOMAIN s]
  BY DEF Total, FoldLeft, MapThenFoldSet
<1>3. \E F : Eq(F)
  <2>1. step \in [1..n -> [Int -> Int]]
    BY <1>1
  <2>2. PICK F \in [SUBSET (1..n) -> Int] : \A t \in SUBSET (1..n) :
            F[t] = IF t = {} THEN 0 ELSE step[Max(t)][F[t \ {Max(t)}]]
    <3>1. 0 \in Int /\ n \in Nat
      BY <1>1
    <3> HIDE DEF step, n
    <3>2. \E F : FoldTable(F, Int, 0, n, step)
      BY <2>1, <3>1, FoldExists
    <3> QED
      BY <3>2 DEF FoldTable
  <2>3. ASSUME NEW t \in SUBSET (1..n)
        PROVE  F[t] = IF t = {} THEN 0 ELSE F[t \ {Max(t)}] + s[Max(t)]
    <3>1. CASE t # {}
      <4>1. Max(t) \in 1..n
        BY <1>1, <3>1, TopExists
      <4>2. F[t \ {Max(t)}] \in Int
        BY <2>2
      <4> QED
        BY <2>2, <3>1, <4>1, <4>2
    <3> QED
      BY <2>2, <3>1
  <2> QED
    BY <1>1, <2>2, <2>3
<1>4. Eq(it)
  <2> HIDE DEF Eq
  <2> QED
    BY <1>3
<1> DEFINE r == [k \in 0..n |-> it[1..k]]
<1>5. it[{}] = 0
  <2>1. {} \in SUBSET DOMAIN s
    OBVIOUS
  <2> HIDE DEF it
  <2> QED
    BY <1>4, <2>1
<1>6. ASSUME NEW k \in 1..n PROVE it[1..k] = it[1..k - 1] + s[k]
  <2>1. k \in Nat /\ k >= 1 /\ k <= n
    BY <1>1
  <2>3. 1..k \in SUBSET (1..n) /\ k \in 1..k /\ (1..k) \ {k} = 1..k - 1
    BY <1>1, <2>1
  <2> HIDE DEF n
  <2>2. Max(1..k) = k
    BY <2>1, <2>3, MaxTop
  <2> HIDE DEF it
  <2> QED
    BY <1>1, <1>4, <2>2, <2>3
<1>7. \A k \in 1..n : r[k] = r[k - 1] + s[k]
  <2> HIDE DEF it, n
  <2> QED
    BY <1>1, <1>6
<1>8. r[0] = 0
  <2>1. 1..0 = {}
    OBVIOUS
  <2> HIDE DEF it, n
  <2> QED
    BY <1>1, <1>5, <2>1
<1>9. r \in [0..n -> Int]
  <2> DEFINE H == {k \in Nat : k <= n => r[k] \in Int}
  <2>1. 0 \in H
    BY <1>8
  <2>2. ASSUME NEW k \in Nat, k \in H PROVE k + 1 \in H
    <3> SUFFICES ASSUME k + 1 <= n PROVE r[k + 1] \in Int
      OBVIOUS
    <3>1. k + 1 \in 1..n /\ r[k] \in Int /\ k + 1 - 1 = k
      BY <1>1, <2>2
    <3> HIDE DEF r
    <3> QED
      BY <1>1, <1>7, <3>1
  <2>3. Nat \subseteq H
    <3> HIDE DEF H
    <3> QED
      BY <2>1, <2>2, SetInduction
  <2>4. r = [k \in 0..n |-> r[k]] /\ \A k \in 0..n : k \in Nat /\ k <= n
    BY <1>1
  <2> HIDE DEF r, n
  <2> QED
    BY <2>3, <2>4
<1>10. Total(s) = r[n]
  BY <1>1, <1>2
<1> HIDE DEF r
<1> QED
  BY <1>7, <1>8, <1>9, <1>10

\* The values that a recursion over 1..n goes through.
Run(r, V, base, n, step) ==
    /\ r \in [0..n -> V]
    /\ r[0] = base
    /\ \A k \in 1..n : r[k] = step[k][r[k - 1]]

\* The values that a recursion over 1..n goes through exist.
LEMMA RunExists ==
    ASSUME NEW V, NEW base \in V, NEW n \in Nat, NEW step \in [1..n -> [V -> V]]
    PROVE  \E r : Run(r, V, base, n, step)
<1>1. PICK it : FoldTable(it, V, base, n, step)
  BY FoldExists
<1> DEFINE r == [k \in 0..n |-> it[1..k]]
<1>2. \A k \in 0..n : 1..k \in SUBSET (1..n)
  OBVIOUS
<1>3. r \in [0..n -> V]
  BY <1>1, <1>2 DEF FoldTable
<1>4. r[0] = base
  <2>1. 1..0 = {} /\ {} \in SUBSET (1..n)
    OBVIOUS
  <2>2. it[{}] = base
    BY <1>1, <2>1 DEF FoldTable
  <2> QED
    BY <2>1, <2>2
<1>5. ASSUME NEW k \in 1..n PROVE r[k] = step[k][r[k - 1]]
  <2>1. /\ 1..k \in SUBSET (1..n) /\ 1..k # {} /\ (1..k) \ {k} = 1..(k - 1)
        /\ k \in Nat /\ k - 1 \in 0..n /\ k \in 0..n /\ k \in 1..k
    OBVIOUS
  <2>2. Max(1..k) = k
    BY <2>1, MaxTop
  <2>3. it[1..k] = step[k][it[1..(k - 1)]]
    BY <1>1, <2>1, <2>2 DEF FoldTable
  <2> QED
    BY <2>1, <2>3
<1> HIDE DEF r
<1> QED
  BY <1>3, <1>4, <1>5 DEF Run

\* Two such runs have the same values as long as they take the same steps.
LEMMA RunUnique ==
    ASSUME NEW n \in Nat, NEW p, NEW q, p[0] = q[0],
           \A k \in 1..n : p[k - 1] = q[k - 1] => p[k] = q[k]
    PROVE  p[n] = q[n]
<1> DEFINE H == {k \in Nat : k <= n => p[k] = q[k]}
<1>1. 0 \in H
  OBVIOUS
<1>2. ASSUME NEW k \in Nat, k \in H PROVE k + 1 \in H
  <2> SUFFICES ASSUME k + 1 <= n PROVE p[k + 1] = q[k + 1]
    OBVIOUS
  <2>1. k + 1 \in 1..n /\ (k + 1) - 1 = k /\ p[k] = q[k]
    BY <1>2
  <2> QED
    BY <2>1
<1>3. Nat \subseteq H
  <2> HIDE DEF H
  <2> QED
    BY <1>1, <1>2, SetInduction
<1> QED
  BY <1>3

\* A sum, element by element.
LEMMA TotalEmpty == Total(<<>>) = 0
<1>1. <<>> \in Seq(Int) /\ Len(<<>>) = 0
  OBVIOUS
<1> QED
  BY <1>1, TotalIs

LEMMA TotalAppend ==
    ASSUME NEW s \in Seq(Int), NEW e \in Int
    PROVE  Total(s) \in Int /\ Total(Append(s, e)) = Total(s) + e
<1> DEFINE n == Len(s)
           u == Append(s, e)
<1>1. /\ n \in Nat /\ u \in Seq(Int) /\ Len(u) = n + 1 /\ u[n + 1] = e
      /\ \A k \in 1..n : u[k] = s[k]
  BY LenProperties, AppendProperties
<1>2. PICK p : /\ p \in [0..n -> Int] /\ p[0] = 0
               /\ \A k \in 1..n : p[k] = p[k - 1] + s[k]
               /\ Total(s) = p[n]
  BY TotalIs
<1>3. PICK q : /\ q \in [0..n + 1 -> Int] /\ q[0] = 0
               /\ \A k \in 1..n + 1 : q[k] = q[k - 1] + u[k]
               /\ Total(u) = q[n + 1]
  <2> HIDE DEF u
  <2> QED
    BY <1>1, TotalIs
<1> HIDE DEF n, u
<1>4. q[n] = p[n]
  <2>1. ASSUME NEW k \in 1..n, q[k - 1] = p[k - 1] PROVE q[k] = p[k]
    <3>1. k \in 1..n + 1 /\ u[k] = s[k]
      BY <1>1
    <3> QED
      BY <1>2, <1>3, <2>1, <3>1
  <2>2. q[0] = p[0] /\ n \in Nat
    BY <1>1, <1>2, <1>3
  <2> QED
    BY <2>1, <2>2, RunUnique
<1>5. q[n + 1] = q[(n + 1) - 1] + u[n + 1] /\ (n + 1) - 1 = n /\ n \in 0..n
  <2>1. n + 1 \in 1..n + 1 /\ (n + 1) - 1 = n /\ n \in 0..n
    BY <1>1
  <2> QED
    BY <1>3, <2>1
<1> QED
  BY <1>1, <1>2, <1>3, <1>4, <1>5 DEF u

\* FlattenSeq is a run: it joins one sequence after the other.
LEMMA FlattenIs ==
    ASSUME NEW X, NEW s \in Seq(Seq(X))
    PROVE  \E r : /\ r \in [0..Len(s) -> Seq(X)] /\ r[0] = <<>>
                  /\ \A k \in 1..Len(s) : r[k] = r[k - 1] \o s[k]
                  /\ FlattenSeq(s) = r[Len(s)]
<1> DEFINE n == Len(s)
           Eq(F) == F = [i \in 1..n |-> IF i = 1 THEN s[i] ELSE F[i - 1] \o s[i]]
           it == CHOOSE F : Eq(F)
           step == [k \in 1..n |-> [v \in Seq(X) |-> v \o s[k]]]
<1>1. n \in Nat /\ \A k \in 1..n : s[k] \in Seq(X)
  BY LenProperties, ElementOfSeq
<1>2. FlattenSeq(s) = IF n = 0 THEN s ELSE it[n]
  BY DEF FlattenSeq
<1>3. PICK r \in [0..n -> Seq(X)] :
          r[0] = <<>> /\ \A k \in 1..n : r[k] = step[k][r[k - 1]]
  <2>1. step \in [1..n -> [Seq(X) -> Seq(X)]]
    BY <1>1, ConcatProperties
  <2>2. <<>> \in Seq(X) /\ n \in Nat
    BY <1>1
  <2> HIDE DEF step, n
  <2>3. \E r : Run(r, Seq(X), <<>>, n, step)
    BY <2>1, <2>2, RunExists
  <2> QED
    BY <2>3 DEF Run
<1>4. \A k \in 1..n : r[k] = r[k - 1] \o s[k] /\ r[k - 1] \in Seq(X)
  <2> SUFFICES ASSUME NEW k \in 1..n PROVE r[k] = r[k - 1] \o s[k] /\ r[k - 1] \in Seq(X)
    OBVIOUS
  <2>1. k - 1 \in 0..n
    BY <1>1
  <2>2. r[k - 1] \in Seq(X)
    BY <1>3, <2>1
  <2> QED
    BY <1>3, <2>2
<1> HIDE DEF step
<1>5. CASE n = 0
  <2>1. s = <<>>
    BY <1>5, EmptySeq
  <2> QED
    BY <1>2, <1>3, <1>4, <1>5, <2>1
<1>6. CASE n # 0
  <2> DEFINE f == [i \in 1..n |-> r[i]]
  <2>1. Eq(f)
    <3> SUFFICES ASSUME NEW i \in 1..n PROVE r[i] = IF i = 1 THEN s[i] ELSE f[i - 1] \o s[i]
      OBVIOUS
    <3>1. CASE i = 1
      <4>1. r[1] = <<>> \o s[1] /\ s[1] \in Seq(X)
        <5>1. 1 \in 1..n /\ 1 - 1 = 0
          BY <3>1
        <5> QED
          BY <1>1, <1>3, <1>4, <5>1
      <4> QED
        BY <3>1, <4>1, ConcatEmptySeq
    <3>2. CASE i # 1
      <4>1. i - 1 \in 1..n
        BY <1>1, <3>2
      <4> QED
        BY <1>4, <3>2, <4>1
    <3> QED
      BY <3>1, <3>2
  <2>2. Eq(it)
    <3> HIDE DEF Eq
    <3> QED
      BY <2>1
  <2>3. \A k \in 1..n : it[k] = IF k = 1 THEN s[k] ELSE it[k - 1] \o s[k]
    <3> HIDE DEF it, n
    <3> QED
      BY <2>2
  <2> HIDE DEF Eq, it
  <2> DEFINE p == [k \in 0..n |-> IF k = 0 THEN <<>> ELSE it[k]]
  <2>4. p[0] = r[0]
    BY <1>1, <1>3
  <2>5. ASSUME NEW k \in 1..n, p[k - 1] = r[k - 1] PROVE p[k] = r[k]
    <3>1. CASE k = 1
      <4>1. r[1] = <<>> \o s[1] /\ s[1] \in Seq(X) /\ it[1] = s[1]
        <5>1. 1 \in 1..n /\ 1 - 1 = 0
          BY <3>1
        <5> QED
          BY <1>1, <1>3, <1>4, <2>3, <5>1
      <4> QED
        BY <3>1, <4>1, ConcatEmptySeq
    <3>2. CASE k # 1
      <4>1. k - 1 \in 1..n /\ p[k - 1] = it[k - 1] /\ p[k] = it[k]
        BY <1>1, <3>2
      <4>2. it[k] = it[k - 1] \o s[k]
        BY <2>3, <3>2
      <4>3. r[k] = r[k - 1] \o s[k]
        BY <1>4
      <4> HIDE DEF p, it, f
      <4> QED
        BY <2>5, <4>1, <4>2, <4>3
    <3> QED
      BY <3>1, <3>2
  <2>6. p[n] = r[n]
    <3> HIDE DEF p
    <3> QED
      BY <1>1, <2>4, <2>5, RunUnique
  <2>7. p[n] = it[n]
    BY <1>1, <1>6
  <2> QED
    BY <1>2, <1>3, <1>4, <1>6, <2>6, <2>7
<1> QED
  BY <1>5, <1>6

\* Flattening, element by element.
LEMMA FlattenEmpty == FlattenSeq(<<>>) = <<>>
BY DEF FlattenSeq

LEMMA FlattenAppend ==
    ASSUME NEW X, NEW s \in Seq(Seq(X)), NEW e \in Seq(X)
    PROVE  FlattenSeq(s) \in Seq(X) /\ FlattenSeq(Append(s, e)) = FlattenSeq(s) \o e
<1> DEFINE n == Len(s)
           u == Append(s, e)
<1>1. /\ n \in Nat /\ u \in Seq(Seq(X)) /\ Len(u) = n + 1 /\ u[n + 1] = e
      /\ \A k \in 1..n : u[k] = s[k]
  BY LenProperties, AppendProperties
<1>2. PICK p : /\ p \in [0..n -> Seq(X)] /\ p[0] = <<>>
               /\ \A k \in 1..n : p[k] = p[k - 1] \o s[k]
               /\ FlattenSeq(s) = p[n]
  BY FlattenIs
<1>3. PICK q : /\ q \in [0..n + 1 -> Seq(X)] /\ q[0] = <<>>
               /\ \A k \in 1..n + 1 : q[k] = q[k - 1] \o u[k]
               /\ FlattenSeq(u) = q[n + 1]
  <2> HIDE DEF u
  <2>1. \E q : /\ q \in [0..Len(u) -> Seq(X)] /\ q[0] = <<>>
               /\ \A k \in 1..Len(u) : q[k] = q[k - 1] \o u[k]
               /\ FlattenSeq(u) = q[Len(u)]
    BY <1>1, FlattenIs
  <2> QED
    BY <1>1, <2>1
<1> HIDE DEF n, u
<1>4. q[n] = p[n]
  <2>1. ASSUME NEW k \in 1..n, q[k - 1] = p[k - 1] PROVE q[k] = p[k]
    <3>1. k \in 1..n + 1 /\ u[k] = s[k]
      BY <1>1
    <3> QED
      BY <1>2, <1>3, <2>1, <3>1
  <2>2. q[0] = p[0] /\ n \in Nat
    BY <1>1, <1>2, <1>3
  <2> QED
    BY <2>1, <2>2, RunUnique
<1>5. q[n + 1] = q[(n + 1) - 1] \o u[n + 1] /\ (n + 1) - 1 = n /\ n \in 0..n
  <2>1. n + 1 \in 1..n + 1 /\ (n + 1) - 1 = n /\ n \in 0..n
    BY <1>1
  <2> QED
    BY <1>3, <2>1
<1> QED
  BY <1>1, <1>2, <1>3, <1>4, <1>5 DEF u

\* The sequences, and the numbers, of the elements of a sequence, one after
\* the other.
MapOver(g, w) == [n \in DOMAIN w |-> g[w[n]]]
FlatOver(g, w) == FlattenSeq(MapOver(g, w))
SumOver(d, w) == Total(MapOver(d, w))

\* A name for a set of functions, for the provers to find the lemmas by.
Maps(B, Y) == [B -> Y]

LEMMA MapsValue ==
    ASSUME NEW B, NEW Y, NEW g \in Maps(B, Y), NEW b \in B
    PROVE  g[b] \in Y
BY DEF Maps

\* Mapping a sequence, element by element.
LEMMA MapAppend ==
    ASSUME NEW B, NEW Y, NEW g \in Maps(B, Y), NEW w \in Seq(B), NEW b \in B
    PROVE  /\ MapOver(g, w) \in Seq(Y)
           /\ MapOver(g, Append(w, b)) = Append(MapOver(g, w), g[b])
<1> DEFINE m == [n \in DOMAIN w |-> g[w[n]]]
           u == Append(w, b)
           v == [n \in DOMAIN u |-> g[u[n]]]
           x == Append(m, g[b])
<1>1. /\ Len(w) \in Nat /\ DOMAIN w = 1..Len(w) /\ \A n \in 1..Len(w) : w[n] \in B
      /\ u \in Seq(B) /\ Len(u) = Len(w) + 1 /\ u[Len(w) + 1] = b
      /\ \A n \in 1..Len(w) : u[n] = w[n]
  BY LenProperties, ElementOfSeq, AppendProperties
<1>2. m \in Seq(Y) /\ Len(m) = Len(w) /\ g[b] \in Y
  BY <1>1 DEF Maps
<1>3. DOMAIN u = 1..Len(w) + 1 /\ \A n \in DOMAIN u : u[n] \in B
  BY <1>1, LenProperties, ElementOfSeq
<1>4. /\ x \in Seq(Y) /\ Len(x) = Len(w) + 1 /\ x[Len(w) + 1] = g[b]
      /\ \A n \in 1..Len(w) : x[n] = m[n]
  <2> HIDE DEF m
  <2> QED
    BY <1>2, AppendProperties
<1>5. v \in Seq(Y) /\ Len(v) = Len(w) + 1
  <2> HIDE DEF u
  <2> QED
    BY <1>1, <1>3 DEF Maps
<1>6. ASSUME NEW n \in 1..Len(w) + 1 PROVE v[n] = x[n]
  <2>1. CASE n = Len(w) + 1
    <3> HIDE DEF u, x, m
    <3> QED
      BY <1>1, <1>3, <1>4, <2>1
  <2>2. CASE n \in 1..Len(w)
    <3>1. m[n] = g[w[n]]
      BY <1>1, <2>2
    <3> HIDE DEF u, x, m
    <3> QED
      BY <1>1, <1>3, <1>4, <2>2, <3>1
  <2> QED
    BY <1>1, <2>1, <2>2
<1>7. v = x
  <2> HIDE DEF v, x
  <2> QED
    BY <1>4, <1>5, <1>6, SeqEqual
<1> QED
  BY <1>2, <1>7 DEF MapOver

\* The two folds over a mapped sequence, element by element.
LEMMA FlatAppend ==
    ASSUME NEW B, NEW X, NEW g \in Maps(B, Seq(X)), NEW w \in Seq(B), NEW b \in B
    PROVE  FlatOver(g, w) \in Seq(X) /\ FlatOver(g, Append(w, b)) = FlatOver(g, w) \o g[b]
<1> DEFINE m == MapOver(g, w)
<1>1. m \in Seq(Seq(X)) /\ g[b] \in Seq(X)
  BY MapAppend, MapsValue
<1>2. FlatOver(g, Append(w, b)) = FlattenSeq(Append(m, g[b]))
  <2>1. MapOver(g, Append(w, b)) = Append(MapOver(g, w), g[b])
    BY MapAppend
  <2> QED
    BY <2>1 DEF FlatOver
<1>3. FlatOver(g, w) = FlattenSeq(m)
  BY DEF FlatOver
<1> HIDE DEF m
<1> QED
  BY <1>1, <1>2, <1>3, FlattenAppend

LEMMA SumAppend ==
    ASSUME NEW B, NEW d \in Maps(B, Int), NEW w \in Seq(B), NEW b \in B
    PROVE  SumOver(d, w) \in Int /\ SumOver(d, Append(w, b)) = SumOver(d, w) + d[b]
<1> DEFINE m == MapOver(d, w)
<1>1. m \in Seq(Int) /\ d[b] \in Int
  BY MapAppend, MapsValue
<1>2. SumOver(d, Append(w, b)) = Total(Append(m, d[b]))
  <2>1. MapOver(d, Append(w, b)) = Append(MapOver(d, w), d[b])
    BY MapAppend
  <2> QED
    BY <2>1 DEF SumOver
<1>3. SumOver(d, w) = Total(m)
  BY DEF SumOver
<1> HIDE DEF m
<1> QED
  BY <1>1, <1>2, <1>3, TotalAppend

LEMMA OverEmpty ==
    ASSUME NEW g
    PROVE  FlatOver(g, <<>>) = <<>> /\ SumOver(g, <<>>) = 0
<1>1. [n \in DOMAIN <<>> |-> g[<<>>[n]]] = <<>>
  OBVIOUS
<1> QED
  BY <1>1, FlattenEmpty, TotalEmpty DEF FlatOver, SumOver, MapOver

\* What the two folds are of.
LEMMA FlatType ==
    ASSUME NEW B, NEW X, NEW g \in Maps(B, Seq(X)), NEW w \in Seq(B)
    PROVE  FlatOver(g, w) \in Seq(X)
<1>1. CASE w = <<>>
  BY <1>1, OverEmpty, EmptySeq
<1>2. CASE w # <<>>
  <2>1. w[1] \in B
    BY <1>2, EmptySeq, ElementOfSeq
  <2> QED
    BY <2>1, FlatAppend
<1> QED
  BY <1>1, <1>2

LEMMA SumType ==
    ASSUME NEW B, NEW d \in Maps(B, Int), NEW w \in Seq(B)
    PROVE  SumOver(d, w) \in Int
<1>1. CASE w = <<>>
  BY <1>1, OverEmpty
<1>2. CASE w # <<>>
  <2>1. w[1] \in B
    BY <1>2, EmptySeq, ElementOfSeq
  <2> QED
    BY <2>1, SumAppend
<1> QED
  BY <1>1, <1>2

\* Over one element, and over two sequences joined.
LEMMA OverOne ==
    ASSUME NEW B, NEW b \in B
    PROVE  /\ \A X : \A g \in Maps(B, Seq(X)) : FlatOver(g, <<b>>) = g[b]
           /\ \A d \in Maps(B, Int) : SumOver(d, <<b>>) = d[b]
<1> DEFINE e == <<>>
<1>1. <<b>> = Append(e, b) /\ e \in Seq(B)
  OBVIOUS
<1>2. \A g : FlatOver(g, e) = e /\ SumOver(g, e) = 0
  BY OverEmpty
<1>3. \A X : \A s \in Seq(X) : e \o s = s
  BY ConcatEmptySeq
<1> HIDE DEF e
<1>4. ASSUME NEW X, NEW g \in Maps(B, Seq(X)) PROVE FlatOver(g, <<b>>) = g[b]
  <2>1. FlatOver(g, Append(e, b)) = FlatOver(g, e) \o g[b] /\ g[b] \in Seq(X)
    BY <1>1, FlatAppend, MapsValue
  <2> QED
    BY <1>1, <1>2, <1>3, <2>1
<1>5. ASSUME NEW d \in Maps(B, Int) PROVE SumOver(d, <<b>>) = d[b]
  <2>1. SumOver(d, Append(e, b)) = SumOver(d, e) + d[b] /\ d[b] \in Int
    BY <1>1, SumAppend, MapsValue
  <2>2. SumOver(d, e) = 0
    BY <1>2
  <2>3. SumOver(d, Append(e, b)) = d[b]
    BY <2>1, <2>2
  <2> QED
    BY <1>1, <2>3
<1> QED
  BY <1>4, <1>5

LEMMA FlatConcat ==
    ASSUME NEW B, NEW X, NEW g \in Maps(B, Seq(X)), NEW w \in Seq(B), NEW v \in Seq(B)
    PROVE  FlatOver(g, w \o v) = FlatOver(g, w) \o FlatOver(g, v)
<1> DEFINE Splits(u) == FlatOver(g, w \o u) = FlatOver(g, w) \o FlatOver(g, u)
           G == {u \in Seq(B) : Splits(u)}
<1>1. Splits(<<>>)
  BY FlatType, OverEmpty, ConcatEmptySeq
<1>2. ASSUME NEW u \in Seq(B), NEW b \in B, Splits(u) PROVE Splits(Append(u, b))
  <2>1. /\ w \o Append(u, b) = Append(w \o u, b) /\ w \o u \in Seq(B)
        /\ Append(u, b) \in Seq(B)
    OBVIOUS
  <2>2. FlatOver(g, Append(w \o u, b)) = FlatOver(g, w \o u) \o g[b]
    <3> DEFINE y == w \o u
    <3>1. y \in Seq(B)
      BY <2>1
    <3> HIDE DEF y
    <3>2. FlatOver(g, Append(y, b)) = FlatOver(g, y) \o g[b]
      BY <3>1, FlatAppend
    <3> QED
      BY <3>2 DEF y
  <2>3. FlatOver(g, Append(u, b)) = FlatOver(g, u) \o g[b]
    BY FlatAppend
  <2>4. FlatOver(g, w) \in Seq(X) /\ FlatOver(g, u) \in Seq(X) /\ g[b] \in Seq(X)
    BY FlatType, MapsValue
  <2>5. (FlatOver(g, w) \o FlatOver(g, u)) \o g[b] = FlatOver(g, w) \o (FlatOver(g, u) \o g[b])
    <3> DEFINE x == FlatOver(g, w)
               y == FlatOver(g, u)
               z == g[b]
    <3> HIDE DEF x, y, z
    <3>1. x \in Seq(X) /\ y \in Seq(X) /\ z \in Seq(X)
      BY <2>4 DEF x, y, z
    <3>2. (x \o y) \o z = x \o (y \o z)
      BY <3>1, ConcatAssociative
    <3> QED
      BY <3>2 DEF x, y, z
  <2> QED
    BY <1>2, <2>1, <2>2, <2>3, <2>5
<1>3. Seq(B) \subseteq G
  <2>1. <<>> \in G /\ \A u \in Seq(B) : \A b \in B : u \in G => Append(u, b) \in G
    <3> HIDE DEF Splits
    <3> QED
      BY <1>1, <1>2, AppendProperties, EmptySeq
  <2> HIDE DEF G
  <2> QED
    BY <2>1, SeqInduction
<1> QED
  BY <1>3

LEMMA SumConcat ==
    ASSUME NEW B, NEW d \in Maps(B, Int), NEW w \in Seq(B), NEW v \in Seq(B)
    PROVE  SumOver(d, w \o v) = SumOver(d, w) + SumOver(d, v)
<1> DEFINE Splits(u) == SumOver(d, w \o u) = SumOver(d, w) + SumOver(d, u)
           G == {u \in Seq(B) : Splits(u)}
<1>1. Splits(<<>>)
  BY SumType, OverEmpty, ConcatEmptySeq
<1>2. ASSUME NEW u \in Seq(B), NEW b \in B, Splits(u) PROVE Splits(Append(u, b))
  <2>1. /\ w \o Append(u, b) = Append(w \o u, b) /\ w \o u \in Seq(B)
        /\ Append(u, b) \in Seq(B)
    OBVIOUS
  <2>2. SumOver(d, Append(w \o u, b)) = SumOver(d, w \o u) + d[b]
    BY <2>1, SumAppend
  <2>3. SumOver(d, Append(u, b)) = SumOver(d, u) + d[b]
    BY SumAppend
  <2>4. SumOver(d, w) \in Int /\ SumOver(d, u) \in Int /\ d[b] \in Int
    BY SumType, MapsValue
  <2> QED
    BY <1>2, <2>1, <2>2, <2>3, <2>4
<1>3. Seq(B) \subseteq G
  <2>1. <<>> \in G /\ \A u \in Seq(B) : \A b \in B : u \in G => Append(u, b) \in G
    <3> HIDE DEF Splits
    <3> QED
      BY <1>1, <1>2, AppendProperties, EmptySeq
  <2> HIDE DEF G
  <2> QED
    BY <2>1, SeqInduction
<1> QED
  BY <1>3

\* Over the elements of the elements.
LEMMA FlatFlat ==
    ASSUME NEW B, NEW C, NEW X, NEW g \in Maps(B, Seq(C)), NEW h \in Maps(C, Seq(X)),
           NEW k \in Maps(B, Seq(X)), \A b \in B : k[b] = FlatOver(h, g[b]),
           NEW w \in Seq(B)
    PROVE  FlatOver(h, FlatOver(g, w)) = FlatOver(k, w)
<1> DEFINE Same(u) == FlatOver(h, FlatOver(g, u)) = FlatOver(k, u)
           G == {u \in Seq(B) : Same(u)}
<1>1. Same(<<>>)
  BY OverEmpty
<1>2. ASSUME NEW u \in Seq(B), NEW b \in B, Same(u) PROVE Same(Append(u, b))
  <2>1. FlatOver(g, u) \in Seq(C) /\ FlatOver(g, Append(u, b)) = FlatOver(g, u) \o g[b]
    BY FlatAppend
  <2>2. FlatOver(h, FlatOver(g, u) \o g[b]) = FlatOver(h, FlatOver(g, u)) \o FlatOver(h, g[b])
    BY <2>1, FlatConcat, MapsValue
  <2>3. FlatOver(k, Append(u, b)) = FlatOver(k, u) \o k[b]
    BY FlatAppend
  <2> QED
    BY <1>2, <2>1, <2>2, <2>3
<1>3. Seq(B) \subseteq G
  <2>1. <<>> \in G /\ \A u \in Seq(B) : \A b \in B : u \in G => Append(u, b) \in G
    <3> HIDE DEF Same
    <3> QED
      BY <1>1, <1>2, AppendProperties, EmptySeq
  <2> HIDE DEF G
  <2> QED
    BY <2>1, SeqInduction
<1> QED
  BY <1>3

\* The first and the last of a sequence.
LEMMA Ends ==
    ASSUME NEW B, NEW w \in Seq(B), w # <<>>
    PROVE  /\ Head(w) \in B /\ Tail(w) \in Seq(B) /\ w = <<Head(w)>> \o Tail(w)
           /\ Last(w) \in B /\ Front(w) \in Seq(B) /\ w = Front(w) \o <<Last(w)>>
<1>1. /\ Len(w) \in Nat \ {0} /\ \A n \in 1..Len(w) : w[n] \in B
  BY EmptySeq, ElementOfSeq
<1>2. /\ Head(w) \in B /\ Tail(w) \in Seq(B) /\ Len(Tail(w)) = Len(w) - 1 /\ Head(w) = w[1]
      /\ \A i \in 1..Len(w) - 1 : Tail(w)[i] = w[i + 1]
  BY HeadTailProperties
<1>3. w = <<Head(w)>> \o Tail(w)
  <2> DEFINE h == <<Head(w)>>
             t == Tail(w)
  <2>1. h \in Seq(B) /\ Len(h) = 1 /\ h[1] = w[1] /\ t \in Seq(B)
    BY <1>2
  <2>2. /\ h \o t \in Seq(B) /\ Len(h \o t) = 1 + Len(t)
        /\ \A i \in 1..1 + Len(t) : (h \o t)[i] = IF i <= 1 THEN h[i] ELSE t[i - 1]
    <3> HIDE DEF h, t
    <3>1. /\ h \o t \in Seq(B) /\ Len(h \o t) = Len(h) + Len(t)
          /\ \A i \in 1..Len(h) + Len(t) :
                (h \o t)[i] = IF i <= Len(h) THEN h[i] ELSE t[i - Len(h)]
      BY <2>1, ConcatProperties
    <3> QED
      BY <2>1, <3>1
  <2> HIDE DEF h
  <2>3. \A i \in 1..Len(w) : w[i] = (h \o t)[i]
    BY <1>1, <1>2, <2>1, <2>2
  <2> QED
    BY <1>1, <1>2, <2>2, <2>3, SeqEqual DEF h
<1>4. /\ Last(w) = w[Len(w)] /\ Last(w) \in B
      /\ Front(w) \in Seq(B) /\ Len(Front(w)) = Len(w) - 1
      /\ \A i \in 1..Len(w) - 1 : Front(w)[i] = w[i]
  <2>1. \A i \in 1..Len(w) - 1 : w[i] \in B
    BY <1>1
  <2>2. /\ SubSeq(w, 1, Len(w) - 1) \in Seq(B)
        /\ Len(SubSeq(w, 1, Len(w) - 1)) = IF 1 <= Len(w) - 1 THEN (Len(w) - 1) - 1 + 1 ELSE 0
        /\ \A i \in 1..(Len(w) - 1) - 1 + 1 : SubSeq(w, 1, Len(w) - 1)[i] = w[1 + i - 1]
    <3> DEFINE m == Len(w) - 1
    <3>1. m \in Int /\ 1 \in Int /\ \A i \in 1..m : w[i] \in B
      BY <1>1, <2>1
    <3> HIDE DEF m
    <3>2. /\ SubSeq(w, 1, m) \in Seq(B)
          /\ Len(SubSeq(w, 1, m)) = IF 1 <= m THEN m - 1 + 1 ELSE 0
          /\ \A i \in 1..m - 1 + 1 : SubSeq(w, 1, m)[i] = w[1 + i - 1]
      BY <3>1, SubSeqProperties
    <3> QED
      BY <3>2 DEF m
  <2>3. Last(w) = w[Len(w)] /\ Last(w) \in B
    BY <1>1 DEF Last
  <2>4. Front(w) = SubSeq(w, 1, Len(w) - 1)
    BY DEF Front
  <2> DEFINE x == SubSeq(w, 1, Len(w) - 1)
  <2>5. /\ x \in Seq(B)
        /\ Len(x) = IF 1 <= Len(w) - 1 THEN (Len(w) - 1) - 1 + 1 ELSE 0
        /\ \A i \in 1..(Len(w) - 1) - 1 + 1 : x[i] = w[1 + i - 1]
    BY <2>2
  <2> HIDE DEF x
  <2>6. Len(x) = Len(w) - 1 /\ \A i \in 1..Len(w) - 1 : x[i] = w[i]
    <3> DEFINE n == Len(w)
    <3>1. n \in Nat \ {0}
      BY <1>1
    <3>2. Len(x) = IF 1 <= n - 1 THEN (n - 1) - 1 + 1 ELSE 0
      BY <2>5
    <3>3. \A i \in 1..(n - 1) - 1 + 1 : x[i] = w[1 + i - 1]
      BY <2>5
    <3> HIDE DEF n
    <3>4. Len(x) = n - 1
      BY <3>1, <3>2
    <3>5. ASSUME NEW i \in 1..n - 1 PROVE x[i] = w[i]
      <4>1. i \in 1..(n - 1) - 1 + 1 /\ 1 + i - 1 = i
        BY <3>1
      <4> QED
        BY <3>3, <4>1
    <3> QED
      BY <3>4, <3>5 DEF n
  <2>7. Front(w) = x
    BY <2>4 DEF x
  <2> QED
    BY <2>3, <2>5, <2>6, <2>7
<1>5. w = Front(w) \o <<Last(w)>>
  <2> DEFINE f == Front(w)
             l == <<Last(w)>>
  <2>1. l \in Seq(B) /\ Len(l) = 1 /\ l[1] = w[Len(w)] /\ f \in Seq(B)
    BY <1>4
  <2>2. /\ f \o l \in Seq(B) /\ Len(f \o l) = Len(f) + 1
        /\ \A i \in 1..Len(f) + 1 : (f \o l)[i] = IF i <= Len(f) THEN f[i] ELSE l[i - Len(f)]
    <3> HIDE DEF f, l
    <3>1. /\ f \o l \in Seq(B) /\ Len(f \o l) = Len(f) + Len(l)
          /\ \A i \in 1..Len(f) + Len(l) :
                (f \o l)[i] = IF i <= Len(f) THEN f[i] ELSE l[i - Len(f)]
      BY <2>1, ConcatProperties
    <3> QED
      BY <2>1, <3>1
  <2> HIDE DEF l
  <2>3. \A i \in 1..Len(w) : w[i] = (f \o l)[i]
    BY <1>1, <1>4, <2>1, <2>2
  <2> QED
    BY <1>1, <1>4, <2>2, <2>3, SeqEqual DEF l
<1> QED
  BY <1>2, <1>3, <1>4, <1>5

\* Joining from the front is joining from the back.
LEMMA FlatCons ==
    ASSUME NEW B, NEW X, NEW g \in Maps(B, Seq(X)), NEW b \in B, NEW w \in Seq(B)
    PROVE  FlatOver(g, Cons(b, w)) = g[b] \o FlatOver(g, w)
<1> DEFINE y == <<b>>
<1>1. y \in Seq(B) /\ FlatOver(g, y) = g[b]
  BY OverOne
<1>2. y \in Seq(B)
  BY <1>1
<1> HIDE DEF y
<1>3. FlatOver(g, y \o w) = FlatOver(g, y) \o FlatOver(g, w)
  BY <1>2, FlatConcat
<1>4. Cons(b, w) = y \o w
  BY DEF Cons, y
<1> QED
  BY <1>1, <1>3, <1>4

LEMMA FlatEnds ==
    ASSUME NEW B, NEW X, NEW g \in Maps(B, Seq(X)), NEW w \in Seq(B), w # <<>>
    PROVE  /\ FlatOver(g, w) = g[Head(w)] \o FlatOver(g, Tail(w))
           /\ FlatOver(g, w) = FlatOver(g, Front(w)) \o g[Last(w)]
<1>1. /\ Head(w) \in B /\ Tail(w) \in Seq(B) /\ w = <<Head(w)>> \o Tail(w)
      /\ Last(w) \in B /\ Front(w) \in Seq(B) /\ w = Front(w) \o <<Last(w)>>
  BY Ends
<1>2. FlatOver(g, Cons(Head(w), Tail(w))) = g[Head(w)] \o FlatOver(g, Tail(w))
  BY <1>1, FlatCons
<1>3. FlatOver(g, Append(Front(w), Last(w))) = FlatOver(g, Front(w)) \o g[Last(w)]
  BY <1>1, FlatAppend
<1>4. Append(Front(w), Last(w)) = Front(w) \o <<Last(w)>>
  BY <1>1, AppendIsConcat
<1>5. Cons(Head(w), Tail(w)) = <<Head(w)>> \o Tail(w)
  BY DEF Cons
<1> QED
  BY <1>1, <1>2, <1>3, <1>4, <1>5

-----------------------------------------------------------------------------
\* What a queue gains at either end.

\* A sequence without repetition, in two parts.
LEMMA InjConcat ==
    ASSUME NEW S, NEW s \in Seq(S), NEW t \in Seq(S)
    PROVE  IsInjective(s \o t)
               <=> IsInjective(s) /\ IsInjective(t) /\ Range(s) \cap Range(t) = {}
<1> DEFINE u == s \o t
           m == Len(s)
           n == Len(t)
<1>1. /\ u \in Seq(S) /\ Len(u) = m + n /\ m \in Nat /\ n \in Nat
      /\ DOMAIN u = 1..m + n /\ DOMAIN s = 1..m /\ DOMAIN t = 1..n
      /\ \A i \in 1..m + n : u[i] = IF i <= m THEN s[i] ELSE t[i - m]
  BY ConcatProperties, LenProperties
<1> HIDE DEF u, m, n
<1>2. /\ \A i \in 1..m : i \in DOMAIN u /\ u[i] = s[i]
      /\ \A i \in 1..n : m + i \in DOMAIN u /\ u[m + i] = t[i]
  <2>1. \A i \in 1..m : i \in DOMAIN u /\ u[i] = s[i]
    BY <1>1
  <2>2. ASSUME NEW i \in 1..n PROVE m + i \in DOMAIN u /\ u[m + i] = t[i]
    <3>1. m + i \in 1..m + n /\ ~(m + i <= m) /\ (m + i) - m = i
      BY <1>1
    <3> QED
      BY <1>1, <3>1
  <2> QED
    BY <2>1, <2>2
<1>3. \A i \in DOMAIN u : i \in 1..m \/ (i - m \in 1..n /\ u[i] = t[i - m] /\ ~(i \in 1..m))
  BY <1>1
<1>4. ASSUME IsInjective(u)
      PROVE  IsInjective(s) /\ IsInjective(t) /\ Range(s) \cap Range(t) = {}
  <2>1. \A i, j \in DOMAIN u : u[i] = u[j] => i = j
    BY <1>4 DEF IsInjective
  <2>2. IsInjective(s)
    BY <1>1, <1>2, <2>1 DEF IsInjective
  <2>3. IsInjective(t)
    <3> SUFFICES ASSUME NEW i \in 1..n, NEW j \in 1..n, t[i] = t[j] PROVE i = j
      BY <1>1 DEF IsInjective
    <3>1. m + i = m + j
      BY <1>2, <2>1
    <3> QED
      BY <1>1, <3>1
  <2>4. ASSUME NEW i \in 1..m, NEW j \in 1..n PROVE s[i] # t[j]
    <3>1. i # m + j
      BY <1>1
    <3> QED
      BY <1>2, <2>1, <3>1
  <2>5. Range(s) \cap Range(t) = {}
    BY <1>1, <2>4 DEF Range
  <2> QED
    BY <2>2, <2>3, <2>5
<1>5. ASSUME IsInjective(s), IsInjective(t), Range(s) \cap Range(t) = {}
      PROVE  IsInjective(u)
  <2>1. \A i \in 1..m, j \in 1..n : s[i] # t[j]
    BY <1>1, <1>5 DEF Range
  <2>2. \A i, j \in 1..m : s[i] = s[j] => i = j
    BY <1>1, <1>5 DEF IsInjective
  <2>3. \A i, j \in 1..n : t[i] = t[j] => i = j
    BY <1>1, <1>5 DEF IsInjective
  <2> SUFFICES ASSUME NEW i \in DOMAIN u, NEW j \in DOMAIN u, u[i] = u[j] PROVE i = j
    BY DEF IsInjective
  <2>4. CASE i \in 1..m /\ j \in 1..m
    BY <1>2, <2>2, <2>4
  <2>5. CASE i \notin 1..m /\ j \notin 1..m
    <3>1. i - m = j - m
      BY <1>3, <2>3, <2>5
    <3> QED
      BY <1>1, <3>1
  <2>6. CASE i \in 1..m /\ j \notin 1..m
    BY <1>2, <1>3, <2>1, <2>6
  <2>7. CASE i \notin 1..m /\ j \in 1..m
    BY <1>2, <1>3, <2>1, <2>7
  <2> QED
    BY <2>4, <2>5, <2>6, <2>7
<1> QED
  BY <1>4, <1>5 DEF u

\* The sequence of one element.
LEMMA OneOnly ==
    ASSUME NEW S, NEW e \in S
    PROVE  <<e>> \in Seq(S) /\ IsInjective(<<e>>) /\ Range(<<e>>) = {e}
<1>1. DOMAIN <<e>> = {1} /\ <<e>>[1] = e
  OBVIOUS
<1> QED
  BY <1>1 DEF IsInjective, Range

\* It has as many elements as it is long.
LEMMA InjectiveSize ==
    ASSUME NEW S, NEW s \in Seq(S), IsInjective(s)
    PROVE  Cardinality(Range(s)) = Len(s)
<1> DEFINE n == Len(s)
<1>1. n \in Nat /\ DOMAIN s = 1..n
  BY LenProperties
<1>2. IsFiniteSet(1..n) /\ Cardinality(1..n) = n
  <2>1. Cardinality(1..n) = IF 1 > n THEN 0 ELSE n - 1 + 1
    BY <1>1, FS_Interval
  <2> QED
    BY <1>1, <2>1, FS_Interval
<1>3. s \in [1..n -> Range(s)] /\ \A x \in Range(s) : \E i \in 1..n : s[i] = x
  <2>1. s = [i \in 1..n |-> s[i]]
    BY <1>1, LenProperties
  <2>2. \A i \in 1..n : s[i] \in Range(s)
    BY <1>1 DEF Range
  <2>3. \A x \in Range(s) : \E i \in 1..n : s[i] = x
    BY <1>1 DEF Range
  <2> QED
    BY <2>1, <2>2, <2>3
<1>4. ExistsBijection(1..n, Range(s))
  <2>1. s \in Injection(1..n, Range(s))
    BY <1>3 DEF Injection
  <2>2. s \in Surjection(1..n, Range(s))
    BY <1>3 DEF Surjection
  <2> QED
    BY <2>1, <2>2 DEF ExistsBijection, Bijection
<1> HIDE DEF n
<1>5. Cardinality(Range(s)) = Cardinality(1..n)
  BY <1>2, <1>4, FS_Bijection
<1> QED
  BY <1>2, <1>5 DEF n

\* v is w with b at one of its ends.
Grown(B, w, b, v) ==
    /\ w \in Seq(B) /\ b \in B /\ v \in Seq(B)
    /\ v = w \o <<b>> \/ v = <<b>> \o w

\* A queue grows by a push, and shrinks by a pop of either end.
LEMMA GrownPush ==
    ASSUME NEW B, NEW w \in Seq(B), NEW b \in B
    PROVE  Grown(B, w, b, Append(w, b)) /\ Grown(B, w, b, <<b>> \o w)
<1>1. <<b>> \in Seq(B)
  BY OneOnly
<1>2. Append(w, b) = w \o <<b>> /\ Append(w, b) \in Seq(B)
  BY AppendIsConcat, AppendProperties
<1>3. <<b>> \o w \in Seq(B)
  <2> DEFINE y == <<b>>
  <2> HIDE DEF y
  <2>1. y \in Seq(B)
    BY <1>1 DEF y
  <2>2. y \o w \in Seq(B)
    BY <2>1, ConcatProperties
  <2> QED
    BY <2>2 DEF y
<1> QED
  BY <1>2, <1>3 DEF Grown

LEMMA GrownPop ==
    ASSUME NEW B, NEW w \in Seq(B), w # <<>>
    PROVE  Grown(B, Front(w), Last(w), w) /\ Grown(B, Tail(w), Head(w), w)
BY Ends DEF Grown

\* What a sum, a list and its length gain when a queue grows.
LEMMA GrownSum ==
    ASSUME NEW B, NEW w, NEW b, NEW v, Grown(B, w, b, v), NEW d \in Maps(B, Int)
    PROVE  SumOver(d, w) \in Int /\ d[b] \in Int /\ SumOver(d, v) = SumOver(d, w) + d[b]
<1> DEFINE y == <<b>>
<1>1. /\ w \in Seq(B) /\ b \in B /\ y \in Seq(B) /\ SumOver(d, y) = d[b]
      /\ v = w \o y \/ v = y \o w
  BY OneOnly, OverOne DEF Grown
<1> HIDE DEF y
<1>2. SumOver(d, w) \in Int /\ d[b] \in Int
  BY <1>1, SumType, MapsValue
<1>3. SumOver(d, w \o y) = SumOver(d, w) + SumOver(d, y)
  BY <1>1, SumConcat
<1>4. SumOver(d, y \o w) = SumOver(d, y) + SumOver(d, w)
  BY <1>1, SumConcat
<1>5. SumOver(d, v) = SumOver(d, w \o y) \/ SumOver(d, v) = SumOver(d, y \o w)
  BY <1>1
<1>6. SumOver(d, y) = d[b]
  BY <1>1
<1> QED
  BY <1>2, <1>3, <1>4, <1>5, <1>6

\* The parts of the elements of the new sequence are those of the old one with
\* those of the new element before or after them.
LEMMA GrownFlat ==
    ASSUME NEW B, NEW w, NEW b, NEW v, Grown(B, w, b, v),
           NEW X, NEW g \in Maps(B, Seq(X))
    PROVE  /\ FlatOver(g, w) \in Seq(X) /\ g[b] \in Seq(X) /\ FlatOver(g, v) \in Seq(X)
           /\ \/ FlatOver(g, v) = FlatOver(g, w) \o g[b]
              \/ FlatOver(g, v) = g[b] \o FlatOver(g, w)
<1>1. w \in Seq(B) /\ b \in B /\ v \in Seq(B)
  BY DEF Grown
<1>2. FlatOver(g, w) \in Seq(X) /\ g[b] \in Seq(X) /\ FlatOver(g, v) \in Seq(X)
  BY <1>1, FlatType, MapsValue
<1>3. CASE v = w \o <<b>>
  <2>1. v = Append(w, b)
    BY <1>1, <1>3, AppendIsConcat
  <2>2. FlatOver(g, Append(w, b)) = FlatOver(g, w) \o g[b]
    BY <1>1, FlatAppend
  <2> QED
    BY <1>2, <2>1, <2>2
<1>4. CASE v = <<b>> \o w
  <2>1. v = Cons(b, w)
    BY <1>4 DEF Cons
  <2>2. FlatOver(g, Cons(b, w)) = g[b] \o FlatOver(g, w)
    BY <1>1, FlatCons
  <2> QED
    BY <1>2, <2>1, <2>2
<1> QED
  BY <1>3, <1>4 DEF Grown

LEMMA GrownLen ==
    ASSUME NEW B, NEW w, NEW b, NEW v, Grown(B, w, b, v),
           NEW X, NEW g \in Maps(B, Seq(X))
    PROVE  /\ Len(FlatOver(g, w)) \in Nat /\ Len(g[b]) \in Nat
           /\ Len(FlatOver(g, v)) = Len(FlatOver(g, w)) + Len(g[b])
<1> DEFINE p == FlatOver(g, w)
           q == g[b]
           r == FlatOver(g, v)
<1>1. p \in Seq(X) /\ q \in Seq(X) /\ (r = p \o q \/ r = q \o p)
  BY GrownFlat
<1> HIDE DEF p, q, r
<1>2. Len(p) \in Nat /\ Len(q) \in Nat
  BY <1>1, LenProperties
<1>3. Len(p \o q) = Len(p) + Len(q) /\ Len(q \o p) = Len(q) + Len(p)
  BY <1>1, ConcatProperties
<1>4. Len(r) = Len(p) + Len(q)
  BY <1>1, <1>2, <1>3
<1> QED
  BY <1>2, <1>4 DEF p, q, r

\* What has no repetition, and which elements it has.
LEMMA JoinedElements ==
    ASSUME NEW X, NEW p \in Seq(X), NEW q \in Seq(X), NEW r, r = p \o q \/ r = q \o p
    PROVE  /\ Range(r) = Range(p) \cup Range(q)
           /\ IsInjective(r)
                  <=> IsInjective(p) /\ IsInjective(q) /\ Range(p) \cap Range(q) = {}
<1>1. /\ Range(p \o q) = Range(p) \cup Range(q)
      /\ Range(q \o p) = Range(q) \cup Range(p)
  BY RangeConcatenation
<1>2. IsInjective(p \o q) <=> IsInjective(p) /\ IsInjective(q) /\ Range(p) \cap Range(q) = {}
  BY InjConcat
<1>3. IsInjective(q \o p) <=> IsInjective(q) /\ IsInjective(p) /\ Range(q) \cap Range(p) = {}
  BY InjConcat
<1> QED
  BY <1>1, <1>2, <1>3

LEMMA GrownElements ==
    ASSUME NEW B, NEW w, NEW b, NEW v, Grown(B, w, b, v)
    PROVE  /\ Range(v) = Range(w) \cup {b}
           /\ IsInjective(v) <=> IsInjective(w) /\ b \notin Range(w)
<1> DEFINE y == <<b>>
<1>1. w \in Seq(B) /\ y \in Seq(B) /\ (v = w \o y \/ v = y \o w)
  BY OneOnly DEF Grown
<1>2. IsInjective(y) /\ Range(y) = {b}
  <2>1. b \in B
    BY DEF Grown
  <2> QED
    BY <2>1, OneOnly
<1> HIDE DEF y
<1>3. /\ Range(v) = Range(w) \cup Range(y)
      /\ IsInjective(v) <=> IsInjective(w) /\ IsInjective(y) /\ Range(w) \cap Range(y) = {}
  BY <1>1, JoinedElements
<1> QED
  BY <1>2, <1>3

LEMMA GrownParts ==
    ASSUME NEW B, NEW w, NEW b, NEW v, Grown(B, w, b, v),
           NEW X, NEW g \in Maps(B, Seq(X)), IsInjective(g[b])
    PROVE  /\ Range(FlatOver(g, v)) = Range(FlatOver(g, w)) \cup Range(g[b])
           /\ IsInjective(FlatOver(g, v))
                  <=> IsInjective(FlatOver(g, w)) /\ Range(FlatOver(g, w)) \cap Range(g[b]) = {}
<1> DEFINE p == FlatOver(g, w)
           q == g[b]
           r == FlatOver(g, v)
<1>1. p \in Seq(X) /\ q \in Seq(X) /\ (r = p \o q \/ r = q \o p) /\ IsInjective(q)
  BY GrownFlat
<1> HIDE DEF p, q, r
<1>2. /\ Range(r) = Range(p) \cup Range(q)
      /\ IsInjective(r)
             <=> IsInjective(p) /\ IsInjective(q) /\ Range(p) \cap Range(q) = {}
  BY <1>1, JoinedElements
<1> QED
  BY <1>1, <1>2 DEF p, q, r

-----------------------------------------------------------------------------
\* The queue of blocks that the recent transactions keep, and its indexes.

\* The two names that the library has for the elements of a sequence.
LEMMA ToSetIs == \A s : ToSet(s) = Range(s)
BY DEF ToSet, Range

\* The transactions of a block that touch an address, and what they change.
Entries(a) == [tx \in TxHash |-> EntryOf(tx, a)]
Hits(a) == [b \in Block |-> Touching(b, a)]
Changes(a) == [tx \in TxHash |-> ChangeOf(tx, a)]
Gains(a) == [b \in Block |-> DeltaOf(b, a)]

\* Each is a function of blocks, which the folds map over a queue.
LEMMA TxsOfMap ==
    /\ TxsOf \in Maps(Block, Seq(TxHash))
    /\ \A b \in Block : TxsOf[b] \in Seq(TxHash) /\ IsInjective(TxsOf[b])
BY BlockQueueAssumption DEF Maps, IsInjective

LEMMA HitsMap ==
    ASSUME NEW a \in Address
    PROVE  /\ Entries(a) \in Maps(TxHash, Seq(TxHash))
           /\ Hits(a) \in Maps(Block, Seq(TxHash))
           /\ \A b \in Block : Hits(a)[b] = FlatOver(Entries(a), TxsOf[b])
<1> DEFINE e == Entries(a)
           h == Hits(a)
<1>1. Entries(a) \in Maps(TxHash, Seq(TxHash))
  BY DEF Maps, Entries, EntryOf
<1>2. \A tx \in TxHash : e[tx] = EntryOf(tx, a)
  BY DEF Entries
<1>3. ASSUME NEW b \in Block PROVE h[b] = FlatOver(e, TxsOf[b])
  <2> DEFINE s == TxsOf[b]
  <2>1. s \in Seq(TxHash) /\ \A n \in DOMAIN s : s[n] \in TxHash
    BY TxsOfMap, LenProperties, ElementOfSeq
  <2> HIDE DEF s
  <2>2. [n \in DOMAIN s |-> EntryOf(s[n], a)] = MapOver(e, s)
    <3> HIDE DEF e
    <3> QED
      BY <1>2, <2>1 DEF MapOver
  <2> USE DEF s
  <2>3. h[b] = FlattenSeq([n \in DOMAIN TxsOf[b] |-> EntryOf(TxsOf[b][n], a)])
    BY DEF Hits, Touching
  <2> HIDE DEF e, h
  <2> QED
    BY <2>2, <2>3 DEF FlatOver
<1>4. h \in Maps(Block, Seq(TxHash))
  <2>1. \A b \in Block : h[b] \in Seq(TxHash)
    <3> HIDE DEF e, h
    <3>1. e \in Maps(TxHash, Seq(TxHash))
      BY <1>1 DEF e
    <3>2. \A b \in Block : FlatOver(e, TxsOf[b]) \in Seq(TxHash)
      BY <3>1, TxsOfMap, FlatType
    <3> QED
      BY <1>3, <3>2
  <2> QED
    BY <2>1 DEF Hits, Maps
<1> QED
  BY <1>1, <1>3, <1>4

LEMMA GainsMap ==
    ASSUME NEW a \in Address
    PROVE  Gains(a) \in Maps(Block, Int)
<1> DEFINE c == Changes(a)
<1>1. c \in Maps(TxHash, Int)
  BY BlockQueueAssumption DEF Maps, Changes, ChangeOf
<1>2. \A tx \in TxHash : c[tx] = ChangeOf(tx, a)
  BY DEF Changes
<1> HIDE DEF c
<1>3. ASSUME NEW b \in Block PROVE DeltaOf(b, a) \in Int
  <2> DEFINE s == TxsOf[b]
  <2>1. s \in Seq(TxHash) /\ \A n \in DOMAIN s : s[n] \in TxHash
    BY TxsOfMap, LenProperties, ElementOfSeq
  <2> HIDE DEF s
  <2>2. [n \in DOMAIN s |-> ChangeOf(s[n], a)] = MapOver(c, s)
    BY <1>2, <2>1 DEF MapOver
  <2>3. SumOver(c, s) \in Int
    BY <1>1, <2>1, SumType
  <2>4. DeltaOf(b, a) = Total([n \in DOMAIN s |-> ChangeOf(s[n], a)])
    BY DEF DeltaOf, s
  <2> QED
    BY <2>2, <2>3, <2>4 DEF SumOver
<1> QED
  BY <1>3 DEF Gains, Maps

\* The entries of an address, from the transactions and from the blocks.
LEMMA EntriesOfTxs ==
    ASSUME NEW a \in Address, NEW w \in Seq(Block)
    PROVE  FlattenSeq(
               [n \in DOMAIN FlatOver(TxsOf, w) |->
                   EntryOf(FlatOver(TxsOf, w)[n], a)])
           = FlatOver(Hits(a), w)
<1> DEFINE txs == FlatOver(TxsOf, w)
           e == Entries(a)
           h == Hits(a)
<1>1. /\ e \in Maps(TxHash, Seq(TxHash))
      /\ h \in Maps(Block, Seq(TxHash))
      /\ \A b \in Block : h[b] = FlatOver(e, TxsOf[b])
  BY HitsMap
<1>2. txs \in Seq(TxHash)
  BY TxsOfMap, FlatType
<1>3. \A tx \in TxHash : e[tx] = EntryOf(tx, a)
  BY DEF Entries
<1> HIDE DEF e, h
<1>4. FlatOver(e, FlatOver(TxsOf, w)) = FlatOver(h, w)
  BY <1>1, TxsOfMap, FlatFlat
<1> HIDE DEF txs
<1>5. [n \in DOMAIN txs |-> EntryOf(txs[n], a)] = MapOver(e, txs)
  <2>1. \A n \in DOMAIN txs : txs[n] \in TxHash
    BY <1>2, LenProperties, ElementOfSeq
  <2> QED
    BY <1>3, <2>1 DEF MapOver
<1>6. FlattenSeq([n \in DOMAIN txs |-> EntryOf(txs[n], a)]) = FlatOver(e, txs)
  BY <1>5 DEF FlatOver
<1> QED
  BY <1>4, <1>6 DEF txs, h

\* The three indexes of a queue of blocks.
BalancesOf(w, balance) ==
    /\ balance \in [Address -> Int]
    /\ \A a \in Address : balance[a] = SumOver(Gains(a), w)

CountsOf(w, entries) ==
    /\ entries \in [Address -> Seq(TxHash)]
    /\ \A a \in Address : Len(entries[a]) = Len(FlatOver(Hits(a), w))

IndexOf(w, index) ==
    /\ IsInjective(FlatOver(TxsOf, w))
    /\ DOMAIN index = Range(FlatOver(TxsOf, w))
    /\ \A tx \in DOMAIN index : index[tx] \in Range(w) /\ tx \in Range(TxsOf[index[tx]])

\* Pushing or popping one block keeps the sums of the balances.
LEMMA BalancesGrow ==
    ASSUME NEW w, NEW b, NEW v, Grown(Block, w, b, v), NEW balance
    PROVE  /\ BalancesOf(w, balance) => BalancesOf(v, BalanceWith(balance, b))
           /\ BalancesOf(v, balance) => BalancesOf(w, BalanceWithout(balance, b))
<1>1. b \in Block
  BY DEF Grown
<1>2. ASSUME NEW a \in Address
      PROVE  /\ SumOver(Gains(a), w) \in Int /\ DeltaOf(b, a) \in Int
             /\ SumOver(Gains(a), v) = SumOver(Gains(a), w) + DeltaOf(b, a)
  <2>1. Gains(a)[b] = DeltaOf(b, a)
    BY <1>1 DEF Gains
  <2>2. /\ SumOver(Gains(a), w) \in Int /\ Gains(a)[b] \in Int
        /\ SumOver(Gains(a), v) = SumOver(Gains(a), w) + Gains(a)[b]
    BY GainsMap, GrownSum
  <2> QED
    BY <2>1, <2>2
<1>3. ASSUME BalancesOf(w, balance)
      PROVE  BalancesOf(v, BalanceWith(balance, b))
  BY <1>2, <1>3 DEF BalancesOf, BalanceWith
<1>4. ASSUME BalancesOf(v, balance)
      PROVE  BalancesOf(w, BalanceWithout(balance, b))
  BY <1>2, <1>4 DEF BalancesOf, BalanceWithout
<1> QED
  BY <1>3, <1>4

\* What a pop takes from the front of a sequence of entries.
LEMMA Dropped ==
    ASSUME NEW X, NEW s \in Seq(X), NEW k \in 0..Len(s)
    PROVE  /\ SubSeq(s, k + 1, Len(s)) \in Seq(X)
           /\ Len(SubSeq(s, k + 1, Len(s))) = Len(s) - k
           /\ \A i \in 1..Len(s) - k : SubSeq(s, k + 1, Len(s))[i] = s[k + i]
<1> DEFINE m == k + 1
           n == Len(s)
           x == SubSeq(s, m, n)
<1>1. n \in Nat /\ m \in Int /\ \A i \in m..n : s[i] \in X
  BY LenProperties, ElementOfSeq
<1>2. k \in 0..n
  OBVIOUS
<1> HIDE DEF n
<1>3. m - 1 = k /\ k \in Int
  BY <1>1, <1>2
<1> HIDE DEF m
<1>4. /\ x \in Seq(X) /\ Len(x) = IF m <= n THEN n - m + 1 ELSE 0
      /\ \A i \in 1..n - m + 1 : x[i] = s[m + i - 1]
  BY <1>1, SubSeqProperties
<1> HIDE DEF x
<1>5. m \in 1..n + 1 /\ n - m + 1 = n - k
  BY <1>1, <1>2, <1>3
<1>6. Len(x) = n - k
  BY <1>1, <1>4, <1>5
<1>7. ASSUME NEW i \in 1..n - k PROVE x[i] = s[k + i]
  <2>1. m + i - 1 = k + i
    BY <1>1, <1>3
  <2> QED
    BY <1>4, <1>5, <2>1
<1>8. x \in Seq(X)
  BY <1>4
<1> QED
  BY <1>6, <1>7, <1>8 DEF x, m, n

\* It keeps the number of entries of every address.
LEMMA CountsGrow ==
    ASSUME NEW w, NEW b, NEW v, Grown(Block, w, b, v), NEW entries
    PROVE  /\ CountsOf(w, entries) => CountsOf(v, EntriesWith(entries, b))
           /\ CountsOf(v, entries) => CountsOf(w, EntriesWithout(entries, b))
<1>1. b \in Block
  BY DEF Grown
<1>2. ASSUME NEW a \in Address
      PROVE  /\ Touching(b, a) \in Seq(TxHash)
             /\ Len(FlatOver(Hits(a), w)) \in Nat /\ Len(Touching(b, a)) \in Nat
             /\ Len(FlatOver(Hits(a), v))
                    = Len(FlatOver(Hits(a), w)) + Len(Touching(b, a))
  <2>1. Hits(a)[b] = Touching(b, a)
    BY <1>1 DEF Hits
  <2>2. Hits(a) \in Maps(Block, Seq(TxHash))
    BY HitsMap
  <2>3. /\ Len(FlatOver(Hits(a), w)) \in Nat /\ Len(Hits(a)[b]) \in Nat
        /\ Len(FlatOver(Hits(a), v)) = Len(FlatOver(Hits(a), w)) + Len(Hits(a)[b])
    BY <2>2, GrownLen
  <2>4. Hits(a)[b] \in Seq(TxHash)
    BY <1>1, <2>2, MapsValue
  <2> QED
    BY <2>1, <2>3, <2>4
<1>3. ASSUME CountsOf(w, entries)
      PROVE  CountsOf(v, EntriesWith(entries, b))
  <2>1. ASSUME NEW a \in Address
        PROVE  /\ entries[a] \o Touching(b, a) \in Seq(TxHash)
               /\ Len(entries[a] \o Touching(b, a)) = Len(FlatOver(Hits(a), v))
    <3> DEFINE x == entries[a]
               y == Touching(b, a)
    <3>1. x \in Seq(TxHash) /\ y \in Seq(TxHash) /\ Len(x) = Len(FlatOver(Hits(a), w))
      BY <1>2, <1>3 DEF CountsOf
    <3>2. Len(FlatOver(Hits(a), v)) = Len(FlatOver(Hits(a), w)) + Len(y)
      BY <1>2
    <3> HIDE DEF x, y
    <3>3. x \o y \in Seq(TxHash) /\ Len(x \o y) = Len(x) + Len(y)
      BY <3>1, ConcatProperties
    <3>4. Len(x \o y) = Len(FlatOver(Hits(a), v))
      BY <3>1, <3>2, <3>3
    <3> QED
      BY <3>3, <3>4 DEF x, y
  <2> DEFINE f == EntriesWith(entries, b)
  <2>2. f = [a \in Address |-> entries[a] \o Touching(b, a)]
    BY DEF EntriesWith
  <2> HIDE DEF f
  <2>3. f \in [Address -> Seq(TxHash)]
    BY <2>1, <2>2
  <2>4. \A a \in Address : f[a] = entries[a] \o Touching(b, a)
    BY <2>2
  <2>5. \A a \in Address : Len(f[a]) = Len(FlatOver(Hits(a), v))
    BY <2>1, <2>4
  <2> QED
    BY <2>3, <2>5 DEF CountsOf, f
<1>4. ASSUME CountsOf(v, entries)
      PROVE  CountsOf(w, EntriesWithout(entries, b))
  <2> DEFINE cut(a) == SubSeq(entries[a], Len(Touching(b, a)) + 1, Len(entries[a]))
  <2>1. ASSUME NEW a \in Address
        PROVE  cut(a) \in Seq(TxHash) /\ Len(cut(a)) = Len(FlatOver(Hits(a), w))
    <3> DEFINE s == entries[a]
               k == Len(Touching(b, a))
    <3>1. s \in Seq(TxHash) /\ Len(s) = Len(FlatOver(Hits(a), v))
      BY <1>4 DEF CountsOf
    <3>2. /\ k \in Nat /\ Len(FlatOver(Hits(a), w)) \in Nat
          /\ Len(FlatOver(Hits(a), v)) = Len(FlatOver(Hits(a), w)) + k
      BY <1>2
    <3> HIDE DEF s, k
    <3>3. k \in 0..Len(s)
      BY <3>1, <3>2
    <3>4. /\ SubSeq(s, k + 1, Len(s)) \in Seq(TxHash)
          /\ Len(SubSeq(s, k + 1, Len(s))) = Len(s) - k
      BY <3>1, <3>3, Dropped
    <3>5. Len(s) - k = Len(FlatOver(Hits(a), w))
      BY <3>1, <3>2
    <3> QED
      BY <3>4, <3>5 DEF s, k
  <2> DEFINE f == EntriesWithout(entries, b)
  <2>2. f = [a \in Address |-> cut(a)]
    BY DEF EntriesWithout
  <2> HIDE DEF f, cut
  <2>3. f \in [Address -> Seq(TxHash)]
    BY <2>1, <2>2
  <2>4. \A a \in Address : f[a] = cut(a)
    BY <2>2
  <2>5. \A a \in Address : Len(f[a]) = Len(FlatOver(Hits(a), w))
    BY <2>1, <2>4
  <2> QED
    BY <2>3, <2>5 DEF CountsOf, f
<1> QED
  BY <1>3, <1>4

\* It keeps the index of transactions, when no other block has one of its own.
LEMMA IndexGrows ==
    ASSUME NEW w, NEW b, NEW v, Grown(Block, w, b, v), NEW index
    PROVE  /\ IndexOf(w, index) /\ Range(TxsOf[b]) \cap DOMAIN index = {}
                  => IndexOf(v, IndexWith(index, b))
           /\ IndexOf(v, index) => IndexOf(w, IndexWithout(index, b))
<1> DEFINE old == FlatOver(TxsOf, w)
           new == FlatOver(TxsOf, v)
           txs == TxsOf[b]
<1>1. /\ Range(new) = Range(old) \cup Range(txs)
      /\ IsInjective(new) <=> IsInjective(old) /\ Range(old) \cap Range(txs) = {}
      /\ Range(v) = Range(w) \cup {b}
  <2>1. b \in Block /\ IsInjective(TxsOf[b])
    BY TxsOfMap DEF Grown
  <2> QED
    BY <2>1, TxsOfMap, GrownParts, GrownElements
<1> HIDE DEF old, new
<1>2. ASSUME IsInjective(old), DOMAIN index = Range(old), Range(txs) \cap DOMAIN index = {},
             \A tx \in DOMAIN index : index[tx] \in Range(w) /\ tx \in Range(TxsOf[index[tx]])
      PROVE  /\ IsInjective(new)
             /\ DOMAIN IndexWith(index, b) = Range(new)
             /\ \A tx \in DOMAIN IndexWith(index, b) :
                   /\ IndexWith(index, b)[tx] \in Range(v)
                   /\ tx \in Range(TxsOf[IndexWith(index, b)[tx]])
  <2> DEFINE f == IndexWith(index, b)
  <2>1. f = [tx \in DOMAIN index \cup Range(txs) |-> IF tx \in Range(txs) THEN b ELSE index[tx]]
    BY ToSetIs DEF IndexWith
  <2> HIDE DEF f
  <2>2. IsInjective(new) /\ DOMAIN f = Range(new)
    BY <1>1, <1>2, <2>1
  <2>3. ASSUME NEW tx \in DOMAIN f PROVE f[tx] \in Range(v) /\ tx \in Range(TxsOf[f[tx]])
    <3>1. CASE tx \in Range(txs)
      <4>1. f[tx] = b
        BY <2>1, <3>1
      <4> QED
        BY <1>1, <3>1, <4>1
    <3>2. CASE tx \notin Range(txs)
      <4>1. tx \in DOMAIN index /\ f[tx] = index[tx]
        BY <2>1, <3>2
      <4> QED
        BY <1>1, <1>2, <4>1
    <3> QED
      BY <3>1, <3>2
  <2> QED
    BY <2>2, <2>3 DEF f
<1>3. ASSUME IsInjective(new), DOMAIN index = Range(new),
             \A tx \in DOMAIN index : index[tx] \in Range(v) /\ tx \in Range(TxsOf[index[tx]])
      PROVE  /\ IsInjective(old)
             /\ DOMAIN IndexWithout(index, b) = Range(old)
             /\ \A tx \in DOMAIN IndexWithout(index, b) :
                   /\ IndexWithout(index, b)[tx] \in Range(w)
                   /\ tx \in Range(TxsOf[IndexWithout(index, b)[tx]])
  <2> DEFINE f == IndexWithout(index, b)
  <2>1. f = [tx \in DOMAIN index \ Range(txs) |-> index[tx]]
    BY ToSetIs DEF IndexWithout, Restrict
  <2> HIDE DEF f
  <2>2. IsInjective(old) /\ DOMAIN f = Range(old)
    BY <1>1, <1>3, <2>1
  <2>3. ASSUME NEW tx \in DOMAIN f PROVE f[tx] \in Range(w) /\ tx \in Range(TxsOf[f[tx]])
    <3>1. tx \in DOMAIN index /\ f[tx] = index[tx] /\ tx \notin Range(txs)
      BY <2>1
    <3>2. index[tx] # b /\ index[tx] \in Range(v) /\ tx \in Range(TxsOf[index[tx]])
      BY <1>3, <3>1
    <3> QED
      BY <1>1, <3>1, <3>2
  <2> QED
    BY <2>2, <2>3 DEF f
<1>4. ASSUME IndexOf(w, index), Range(TxsOf[b]) \cap DOMAIN index = {}
      PROVE  IndexOf(v, IndexWith(index, b))
  BY <1>2, <1>4 DEF IndexOf, old, new
<1>5. ASSUME IndexOf(v, index)
      PROVE  IndexOf(w, IndexWithout(index, b))
  BY <1>3, <1>5 DEF IndexOf, old, new
<1> QED
  BY <1>4, <1>5

\* What holds of a queue with its three indexes, whatever was done to it.
Indexed(w, balance, entries, index) ==
    /\ w \in Seq(Block) /\ IsInjective(w)
    /\ BalancesOf(w, balance)
    /\ CountsOf(w, entries)
    /\ IndexOf(w, index)

\* A block that is not in it enters, or one leaves, at either end.
LEMMA IndexedGrows ==
    ASSUME NEW w, NEW b, NEW v, Grown(Block, w, b, v), NEW balance, NEW entries, NEW index
    PROVE  /\ Indexed(w, balance, entries, index) /\ b \notin Range(w)
                 /\ Range(TxsOf[b]) \cap DOMAIN index = {}
              => Indexed(v, BalanceWith(balance, b), EntriesWith(entries, b), IndexWith(index, b))
           /\ Indexed(v, balance, entries, index)
              => Indexed(w, BalanceWithout(balance, b), EntriesWithout(entries, b),
                         IndexWithout(index, b))
<1>1. /\ w \in Seq(Block) /\ v \in Seq(Block)
      /\ IsInjective(v) <=> IsInjective(w) /\ b \notin Range(w)
  BY GrownElements DEF Grown
<1> QED
  BY <1>1, BalancesGrow, CountsGrow, IndexGrows DEF Indexed

\* The inductive invariant of the queue.
QueueInv == Indexed(blocks, addrBalance, addrTx, txIndex)

LEMMA QueueInitInv == QueueInit => QueueInv
<1> SUFFICES ASSUME QueueInit PROVE QueueInv
  OBVIOUS
<1>1. /\ blocks = <<>> /\ addrBalance = [a \in Address |-> 0]
      /\ addrTx = [a \in Address |-> <<>>] /\ txIndex = << >>
  BY DEF QueueInit
<1>2. blocks \in Seq(Block) /\ IsInjective(blocks)
  BY <1>1 DEF IsInjective
<1>3. BalancesOf(blocks, addrBalance)
  BY <1>1, OverEmpty DEF BalancesOf
<1>4. CountsOf(blocks, addrTx)
  BY <1>1, OverEmpty DEF CountsOf
<1>5. IndexOf(blocks, txIndex)
  <2>1. FlatOver(TxsOf, blocks) = <<>>
    BY <1>1, OverEmpty
  <2>2. IsInjective(<<>>) /\ Range(<<>>) = {} /\ DOMAIN txIndex = {}
    BY <1>1 DEF IsInjective, Range
  <2> QED
    BY <2>1, <2>2 DEF IndexOf
<1> QED
  BY <1>2, <1>3, <1>4, <1>5 DEF QueueInv, Indexed

LEMMA QueueStepInv == QueueInv /\ [QueueNext]_queueVars => QueueInv'
<1> SUFFICES ASSUME QueueInv, [QueueNext]_queueVars PROVE QueueInv'
  OBVIOUS
<1>1. ASSUME NEW b \in Block, PushBack(b) \/ PushFront(b)
      PROVE  QueueInv'
  <2>1. Grown(Block, blocks, b, blocks')
    BY <1>1, GrownPush DEF QueueInv, Indexed, PushBack, PushFront
  <2>2. b \notin Range(blocks) /\ Range(TxsOf[b]) \cap DOMAIN txIndex = {}
    BY <1>1, ToSetIs DEF PushBack, PushFront, Extends
  <2>3. /\ addrTx' = EntriesWith(addrTx, b)
        /\ addrBalance' = BalanceWith(addrBalance, b)
        /\ txIndex' = IndexWith(txIndex, b)
    BY <1>1 DEF PushBack, PushFront, AddAddresses, AddTxIndex
  <2> QED
    BY <2>1, <2>2, <2>3, IndexedGrows DEF QueueInv
<1>2. ASSUME NEW b, Grown(Block, blocks', b, blocks), DelAddresses(b), DelTxIndex(b)
      PROVE  QueueInv'
  <2>1. /\ addrTx' = EntriesWithout(addrTx, b)
        /\ addrBalance' = BalanceWithout(addrBalance, b)
        /\ txIndex' = IndexWithout(txIndex, b)
    BY <1>2 DEF DelAddresses, DelTxIndex
  <2> QED
    BY <1>2, <2>1, IndexedGrows DEF QueueInv
<1>3. CASE PopBack
  <2>1. Grown(Block, blocks', Last(blocks), blocks)
    BY <1>3, GrownPop DEF QueueInv, Indexed, PopBack
  <2>2. DelAddresses(Last(blocks)) /\ DelTxIndex(Last(blocks))
    BY <1>3 DEF PopBack
  <2> QED
    BY <1>2, <2>1, <2>2
<1>4. CASE PopFront
  <2>1. Grown(Block, blocks', Head(blocks), blocks)
    BY <1>4, GrownPop DEF QueueInv, Indexed, PopFront
  <2> QED
    BY <1>2, <1>4, <2>1 DEF PopFront
<1>5. CASE UNCHANGED queueVars
  BY <1>5 DEF queueVars, QueueInv
<1> QED
  BY <1>1, <1>3, <1>4, <1>5 DEF QueueNext

LEMMA QueueInvariant == QueueSpec => []QueueInv
BY QueueInitInv, QueueStepInv, PTL DEF QueueSpec

\* It is what the specification says of the indexes.
LEMMA QueueIndexed == QueueInv => IndexesAgree
<1> SUFFICES ASSUME QueueInv PROVE IndexesAgree
  OBVIOUS
<1>1. AllTxs = FlatOver(TxsOf, blocks)
  BY DEF AllTxs, FlatOver, MapOver
<1>2. FlatOver(TxsOf, blocks) \in Seq(TxHash)
  BY TxsOfMap, FlatType DEF QueueInv, Indexed
<1>3. QueueTypeOK
  <2>1. Cardinality(DOMAIN txIndex) = Len(FlatOver(TxsOf, blocks))
    BY <1>2, InjectiveSize DEF QueueInv, Indexed, IndexOf
  <2>2. TxCount = Len(AllTxs)
    BY <1>1, <2>1, ToSetIs DEF TxCount
  <2> QED
    BY <2>2 DEF QueueTypeOK, QueueInv, Indexed, BalancesOf, CountsOf
<1>4. BalanceIndexed
  <2> SUFFICES ASSUME NEW a \in Address
               PROVE  addrBalance[a] = Total(
                          [n \in DOMAIN blocks |-> DeltaOf(blocks[n], a)])
    BY DEF BalanceIndexed
  <2>1. \A n \in DOMAIN blocks : blocks[n] \in Block
    BY LenProperties, ElementOfSeq DEF QueueInv, Indexed
  <2>2. [n \in DOMAIN blocks |-> DeltaOf(blocks[n], a)] = MapOver(Gains(a), blocks)
    BY <2>1 DEF MapOver, Gains
  <2>3. addrBalance[a] = Total(MapOver(Gains(a), blocks))
    BY DEF QueueInv, Indexed, BalancesOf, SumOver
  <2> QED
    BY <2>2, <2>3
<1>5. TxIndexed
  BY <1>1, ToSetIs DEF TxIndexed, QueueInv, Indexed, IndexOf
<1>6. EntriesCounted
  <2> SUFFICES ASSUME NEW a \in Address
               PROVE  Len(addrTx[a]) = Len(TxsTouching(a))
    BY DEF EntriesCounted
  <2>1. TxsTouching(a) = FlatOver(Hits(a), blocks)
    BY <1>1, EntriesOfTxs DEF TxsTouching, QueueInv, Indexed
  <2> QED
    BY <2>1 DEF QueueInv, Indexed, CountsOf
<1> QED
  BY <1>3, <1>4, <1>5, <1>6 DEF IndexesAgree

\* block_queue.go: however blocks come and go at both ends, the deltas and the
\* transactions are those of the blocks that are left, and delAddress finds as
\* many entries to remove as there are transactions of the address.
THEOREM BlockQueueIndexes == QueueSpec => []IndexesAgree
BY QueueInvariant, QueueIndexed, PTL

\* The entries a block makes are those of the block.
LEMMA TouchingIs ==
    ASSUME NEW a \in Address
    PROVE  /\ blocks \in Seq(Block) => TxsTouching(a) = FlatOver(Hits(a), blocks)
           /\ blocks' \in Seq(Block)
                  => TxsTouching(a)' = FlatOver(Hits(a), blocks')
<1>1. /\ AllTxs = FlatOver(TxsOf, blocks)
      /\ AllTxs' = FlatOver(TxsOf, blocks')
  BY DEF AllTxs, FlatOver, MapOver
<1>2. blocks \in Seq(Block) => TxsTouching(a) = FlatOver(Hits(a), blocks)
  BY <1>1, EntriesOfTxs DEF TxsTouching
<1>3. blocks' \in Seq(Block) => TxsTouching(a)' = FlatOver(Hits(a), blocks')
  BY <1>1, EntriesOfTxs DEF TxsTouching
<1> QED
  BY <1>2, <1>3

\* What a pop at the front leaves of the entries of the first block and others.
LEMMA DropFirst ==
    ASSUME NEW X, NEW p \in Seq(X), NEW q \in Seq(X)
    PROVE  SubSeq(p \o q, Len(p) + 1, Len(p \o q)) = q
<1> DEFINE s == p \o q
           k == Len(p)
<1>1. /\ s \in Seq(X) /\ Len(s) = k + Len(q) /\ k \in Nat /\ Len(q) \in Nat
      /\ \A i \in 1..k + Len(q) : s[i] = IF i <= k THEN p[i] ELSE q[i - k]
  BY ConcatProperties, LenProperties
<1> HIDE DEF s, k
<1>2. k \in 0..Len(s) /\ Len(s) - k = Len(q)
  BY <1>1
<1> DEFINE x == SubSeq(s, k + 1, Len(s))
<1>3. x \in Seq(X) /\ Len(x) = Len(s) - k /\ \A i \in 1..Len(s) - k : x[i] = s[k + i]
  BY <1>1, <1>2, Dropped
<1> HIDE DEF x
<1>4. ASSUME NEW i \in 1..Len(q) PROVE x[i] = q[i]
  <2>1. k + i \in 1..k + Len(q) /\ ~(k + i <= k) /\ (k + i) - k = i
    BY <1>1
  <2> QED
    BY <1>1, <1>2, <1>3, <2>1
<1>5. x = q
  BY <1>2, <1>3, <1>4, SeqEqual
<1> QED
  BY <1>5 DEF x, s, k

\* One step of the queue's history, as FifoKeepsOrder states it.
KeepsOrder ==
    (\A a \in Address : GetTx(a) = TxsTouching(a))
       /\ ((\E b \in Block : PushBack(b)) \/ PopFront)
    => \A a \in Address : (GetTx(a) = TxsTouching(a))'

\* block_queue.go: as long as blocks enter at the back and leave at the front,
\* the entries of an address stay its transactions in the order of the chain.
THEOREM BlockQueueOrder == QueueSpec => FifoKeepsOrder
<1>1. QueueInv /\ QueueInv' => KeepsOrder
  <2> SUFFICES ASSUME QueueInv, QueueInv',
                      \A a \in Address : GetTx(a) = TxsTouching(a),
                      (\E b \in Block : PushBack(b)) \/ PopFront,
                      NEW a \in Address
               PROVE  (GetTx(a) = TxsTouching(a))'
    BY DEF KeepsOrder
  <2>1. blocks \in Seq(Block) /\ blocks' \in Seq(Block)
    BY DEF QueueInv, Indexed
  <2> DEFINE h == Hits(a)
  <2>2. /\ addrTx[a] = FlatOver(h, blocks)
        /\ TxsTouching(a)' = FlatOver(h, blocks')
    BY <2>1, TouchingIs DEF GetTx
  <2>3. h \in Maps(Block, Seq(TxHash)) /\ \A b \in Block : h[b] = Touching(b, a)
    BY HitsMap DEF Hits
  <2> HIDE DEF h
  <2>4. CASE \E b \in Block : PushBack(b)
    <3>1. PICK b \in Block : blocks' = Append(blocks, b)
                             /\ addrTx' = EntriesWith(addrTx, b)
      BY <2>4 DEF PushBack, AddAddresses
    <3>2. FlatOver(h, blocks') = FlatOver(h, blocks) \o h[b]
      BY <2>1, <2>3, <3>1, FlatAppend
    <3>3. addrTx'[a] = addrTx[a] \o Touching(b, a)
      BY <3>1 DEF EntriesWith
    <3> QED
      BY <2>2, <2>3, <3>2, <3>3 DEF GetTx
  <2>5. CASE PopFront
    <3>1. /\ blocks # <<>> /\ blocks' = Tail(blocks)
          /\ addrTx' = EntriesWithout(addrTx, Head(blocks))
      BY <2>5 DEF PopFront, DelAddresses
    <3> DEFINE t == Tail(blocks)
               p == h[Head(blocks)]
               q == FlatOver(h, t)
    <3>2. FlatOver(h, blocks) = p \o q
      BY <2>1, <2>3, <3>1, FlatEnds
    <3>3. p \in Seq(TxHash) /\ q \in Seq(TxHash) /\ p = Touching(Head(blocks), a)
      <4>1. Head(blocks) \in Block /\ t \in Seq(Block)
        BY <2>1, <3>1, Ends
      <4> HIDE DEF t
      <4>2. q \in Seq(TxHash)
        BY <2>3, <4>1, FlatType
      <4> QED
        BY <2>3, <4>1, <4>2, MapsValue
    <3>4. addrTx'[a] = SubSeq(addrTx[a], Len(p) + 1, Len(addrTx[a]))
      BY <3>1, <3>3 DEF EntriesWithout
    <3>5. q = FlatOver(h, blocks')
      BY <3>1
    <3> HIDE DEF p, q
    <3>6. SubSeq(p \o q, Len(p) + 1, Len(p \o q)) = q
      BY <3>3, DropFirst
    <3> QED
      BY <2>2, <3>2, <3>4, <3>5, <3>6 DEF GetTx
  <2> QED
    BY <2>4, <2>5
<1>2. QueueInv /\ QueueInv' /\ [QueueNext]_queueVars
         => [KeepsOrder]_queueVars
  BY <1>1
<1>3. QueueSpec => [][KeepsOrder]_queueVars
  BY <1>2, QueueInvariant, PTL DEF QueueSpec
<1> QED
  BY <1>3 DEF KeepsOrder, FifoKeepsOrder

-----------------------------------------------------------------------------
\* The tree of blocks and the ledger.

\* A path has a block of every height between two of its blocks: the lowest
\* block for which it had not would have a parent for which it has not.
LEMMA PathClimbs ==
    \A p \in Point : \A q \in Path[p] :
        HeightOf[q] < HeightOf[p] => \E r \in Path[p] : HeightOf[r] = HeightOf[q] + 1
<1> DEFINE Climbed(p) == \A q \in Path[p] :
                             HeightOf[q] < HeightOf[p]
                                => \E r \in Path[p] : HeightOf[r] = HeightOf[q] + 1
           T == {HeightOf[p] : p \in {b \in Point : ~Climbed(b)}}
<1> SUFFICES ASSUME NEW p0 \in Point, ~Climbed(p0) PROVE FALSE
  OBVIOUS
<1>1. Climbed(ZeroHash)
  BY PathAssumption, TreeAssumption
<1>2. \A b \in Point : ~Climbed(b) => b \in Block /\ HeightOf[b] \in Nat
  BY <1>1, TreeAssumption DEF Point
<1>3. T \in SUBSET Nat /\ HeightOf[p0] \in T
  BY <1>2
<1>4. PICK h \in T : \A y \in T : ~(<<y, h>> \in OpToRel(<, Nat))
  <2> HIDE DEF T
  <2> QED
    BY <1>3, NatLessThanWellFounded, WFMin
<1>5. PICK b \in Point : ~Climbed(b) /\ HeightOf[b] = h
  BY <1>4
<1> DEFINE parent == PrevBlock[b]
<1>6. /\ b \in Block /\ parent \in Point
      /\ HeightOf[b] = HeightOf[parent] + 1 /\ HeightOf[parent] \in Int
      /\ Path[b] = Path[parent] \cup {b} /\ HeightOf[b] \in Nat
  BY <1>2, <1>5, TreeAssumption, PathAssumption
<1>7. Climbed(parent)
  <2> SUFFICES ASSUME ~Climbed(parent) PROVE FALSE
    OBVIOUS
  <2>1. HeightOf[parent] \in T /\ HeightOf[parent] \in Nat
    BY <1>2, <1>6
  <2>2. <<HeightOf[parent], h>> \in OpToRel(<, Nat)
    BY <1>5, <1>6, <2>1 DEF OpToRel
  <2> HIDE DEF T
  <2> QED
    BY <1>4, <2>1, <2>2
<1>8. Climbed(b)
  <2> SUFFICES ASSUME NEW q \in Path[b], HeightOf[q] < HeightOf[b]
               PROVE  \E r \in Path[b] : HeightOf[r] = HeightOf[q] + 1
    OBVIOUS
  <2>1. q \in Path[parent] /\ HeightOf[q] \in Int
    BY <1>6, PathAssumption, TreeAssumption
  <2>2. CASE HeightOf[q] < HeightOf[parent]
    BY <1>6, <1>7, <2>1, <2>2
  <2>3. CASE HeightOf[q] = HeightOf[parent]
    BY <1>6, <2>3
  <2> QED
    BY <1>6, <2>1, <2>2, <2>3
<1> QED
  BY <1>5, <1>8

\* A block changes every balance by what its outputs hold less what its found
\* inputs held, which is the delta addrBalance and updateBalance apply.
LEMMA BlockBalance ==
    ASSUME NEW b \in Block, NEW F \in SUBSET Ins[b], NEW a \in Address,
           Ins[b] \cap Storable \subseteq F
    PROVE  BalanceOf(UtxoAt[b], a) =
               BalanceOf(UtxoAt[PrevBlock[b]], a) + BalanceOf(Outs[b], a) - BalanceOf(F, a)
<1> DEFINE U == UtxoAt[PrevBlock[b]]
           C == Outs[b] \cap Storable
           S == Ins[b] \cap Storable
           X == U \cup C
<1>1. PrevBlock[b] \in Point
  BY TreeAssumption
<1>2. /\ Outs[b] \subseteq TxOutId
      /\ Ins[b] \subseteq TxOutId
      /\ Storable \subseteq TxOutId
      /\ U \subseteq Storable
      /\ F \subseteq TxOutId
  BY <1>1, OutputAssumption, UtxoAssumption
<1>3. U \cap C = {}
  <2>1. U \subseteq KnownAt[PrevBlock[b]]
    BY <1>1, KnownAssumption
  <2>2. Outs[b] \cap KnownAt[PrevBlock[b]] = {}
    BY FreshOutputs
  <2> QED
    BY <2>1, <2>2
<1>4. BalanceOf(X, a) = BalanceOf(U, a) + BalanceOf(C, a)
  <2>1. U \in SUBSET TxOutId /\ C \in SUBSET (TxOutId \ U)
    BY <1>2, <1>3
  <2> QED
    BY <2>1, BalanceAssumption
<1>5. BalanceOf(X, a) = BalanceOf(UtxoAt[b], a) + BalanceOf(S, a)
  <2>1. S \subseteq X
    BY ValidSpends
  <2>2. UtxoAt[b] = X \ S
    <3>1. UtxoAt[b] = X \ Ins[b]
      BY UtxoAssumption
    <3> QED
      BY <3>1, <1>2
  <2>3. UtxoAt[b] \in SUBSET TxOutId /\ S \in SUBSET (TxOutId \ UtxoAt[b])
    BY <2>1, <2>2, <1>2
  <2>4. X = UtxoAt[b] \cup S
    BY <2>1, <2>2
  <2> QED
    BY <2>3, <2>4, BalanceAssumption
<1>6. BalanceOf(Outs[b], a) = BalanceOf(C, a)
  BY <1>2, BalanceAssumption
<1>7. BalanceOf(F, a) = BalanceOf(S, a)
  <2>1. F \cap Storable = S
    OBVIOUS
  <2> QED
    BY <2>1, <1>2, BalanceAssumption
<1>8. /\ BalanceOf(X, a) \in Int /\ BalanceOf(U, a) \in Int
      /\ BalanceOf(C, a) \in Int /\ BalanceOf(S, a) \in Int
      /\ BalanceOf(UtxoAt[b], a) \in Int
  <2>1. /\ X \in SUBSET TxOutId /\ U \in SUBSET TxOutId /\ C \in SUBSET TxOutId
        /\ S \in SUBSET TxOutId /\ UtxoAt[b] \in SUBSET TxOutId
    BY <1>2, UtxoAssumption
  <2> QED
    BY <2>1, BalanceAssumption
<1> QED
  BY <1>4, <1>5, <1>6, <1>7, <1>8

-----------------------------------------------------------------------------
\* Updates that lead from one block to another, one after the other; a commit
\* leads nowhere.
Follows(u, from) ==
    CASE u.class = "NEWBLOCK" -> PrevBlock[u.block] = from
      [] u.class = "BACKTRACK" -> u.block = from
      [] OTHER -> TRUE

Leads(todo, from, to) ==
    \E trail \in [0..Len(todo) -> Point] :
        /\ trail[0] = from
        /\ trail[Len(todo)] = to
        /\ \A n \in 1..Len(todo) :
              Follows(todo[n], trail[n - 1]) /\ trail[n] = After(todo[n], trail[n - 1])

LEMMA AfterPoint ==
    ASSUME NEW u \in Updates, NEW p \in Point
    PROVE  After(u, p) \in Point
BY TreeAssumption DEF Updates, After, Point

LEMMA LeadsNowhere ==
    ASSUME NEW p \in Point
    PROVE  Leads(<<>>, p, p)
<1> DEFINE t == [n \in 0..0 |-> p]
<1>1. Len(<<>>) = 0 /\ t \in [0..0 -> Point] /\ t[0] = p
  OBVIOUS
<1> HIDE DEF t
<1>2. \A n \in 1..Len(<<>>) : FALSE
  OBVIOUS
<1> QED
  BY <1>1, <1>2 DEF Leads

LEMMA LeadsAppend ==
    ASSUME NEW todo \in Seq(Updates), NEW from, NEW to, Leads(todo, from, to),
           NEW u \in Updates, Follows(u, to)
    PROVE  Leads(Append(todo, u), from, After(u, to))
<1> DEFINE N == Len(todo)
           r == Append(todo, u)
<1>1. PICK trail \in [0..N -> Point] :
          /\ trail[0] = from
          /\ trail[N] = to
          /\ \A n \in 1..N :
                Follows(todo[n], trail[n - 1]) /\ trail[n] = After(todo[n], trail[n - 1])
  BY DEF Leads
<1>2. /\ N \in Nat /\ Len(r) = N + 1 /\ r[N + 1] = u
      /\ \A n \in 1..N : r[n] = todo[n]
  BY AppendProperties, LenProperties
<1>3. to \in Point /\ After(u, to) \in Point
  BY <1>1, <1>2, AfterPoint
<1> HIDE DEF N, r
<1> DEFINE t == [n \in 0..(N + 1) |-> IF n = N + 1 THEN After(u, to) ELSE trail[n]]
<1>4. /\ t \in [0..Len(r) -> Point]
      /\ t[0] = from /\ t[Len(r)] = After(u, to) /\ t[N] = to
      /\ \A n \in 0..N : t[n] = trail[n]
  BY <1>1, <1>2, <1>3
<1> HIDE DEF t
<1>5. ASSUME NEW n \in 1..Len(r)
      PROVE  Follows(r[n], t[n - 1]) /\ t[n] = After(r[n], t[n - 1])
  <2>1. CASE n = N + 1
    BY <1>2, <1>4, <2>1
  <2>2. CASE n \in 1..N
    <3>1. n - 1 \in 0..N /\ n \in 0..N
      BY <1>2, <2>2
    <3> QED
      BY <1>1, <1>2, <1>4, <2>2, <3>1
  <2> QED
    BY <1>2, <2>1, <2>2
<1> QED
  BY <1>4, <1>5 DEF Leads, r

LEMMA LeadsTail ==
    ASSUME NEW todo \in Seq(Updates), todo # <<>>, NEW from, NEW to, Leads(todo, from, to)
    PROVE  /\ Follows(Head(todo), from)
           /\ Leads(Tail(todo), After(Head(todo), from), to)
<1> DEFINE N == Len(todo)
           r == Tail(todo)
<1>1. PICK trail \in [0..N -> Point] :
          /\ trail[0] = from
          /\ trail[N] = to
          /\ \A n \in 1..N :
                Follows(todo[n], trail[n - 1]) /\ trail[n] = After(todo[n], trail[n - 1])
  BY DEF Leads
<1>2. /\ N \in Nat \ {0} /\ Len(r) = N - 1 /\ Head(todo) = todo[1]
      /\ \A n \in 1..(N - 1) : r[n] = todo[n + 1]
  BY HeadTailProperties, LenProperties, EmptySeq
<1> HIDE DEF N, r
<1> DEFINE t == [n \in 0..(N - 1) |-> trail[n + 1]]
<1>3. 1 \in 1..N /\ \A n \in 0..(N - 1) : n + 1 \in 0..N
  BY <1>2
<1>4. Follows(Head(todo), from) /\ trail[1] = After(Head(todo), from)
  BY <1>1, <1>2, <1>3
<1>5. /\ t \in [0..Len(r) -> Point]
      /\ t[0] = After(Head(todo), from) /\ t[Len(r)] = to
      /\ \A n \in 0..(N - 1) : t[n] = trail[n + 1]
  BY <1>1, <1>2, <1>3, <1>4
<1> HIDE DEF t
<1>6. ASSUME NEW n \in 1..Len(r)
      PROVE  Follows(r[n], t[n - 1]) /\ t[n] = After(r[n], t[n - 1])
  <2>1. /\ n - 1 \in 0..(N - 1) /\ n \in 0..(N - 1) /\ n + 1 \in 1..N
        /\ (n - 1) + 1 = n /\ (n + 1) - 1 = n
    BY <1>2
  <2>2. t[n - 1] = trail[n] /\ t[n] = trail[n + 1] /\ r[n] = todo[n + 1]
    BY <1>2, <1>5, <2>1
  <2>3. Follows(todo[n + 1], trail[n]) /\ trail[n + 1] = After(todo[n + 1], trail[n])
    BY <1>1, <2>1
  <2> QED
    BY <2>2, <2>3
<1> QED
  BY <1>4, <1>5, <1>6 DEF Leads, r

\* A single update, or one with the announcement of a commit.
LEMMA LeadsAnnounced ==
    ASSUME NEW p \in Point, NEW u \in Updates, Follows(u, p)
    PROVE  /\ <<u>> \in Seq(Updates)
           /\ Leads(<<u>>, p, After(u, p))
           /\ <<u, Update("COMMIT", ZeroHash)>> \in Seq(Updates)
           /\ Leads(<<u, Update("COMMIT", ZeroHash)>>, p, After(u, p))
<1> DEFINE c == Update("COMMIT", ZeroHash)
<1>1. c \in Updates /\ \A q : Follows(c, q) /\ After(c, q) = q
  BY DEF Update, Updates, Follows, After
<1>2. Leads(<<u>>, p, After(u, p)) /\ <<u>> \in Seq(Updates)
  <2>1. <<u>> = Append(<<>>, u) /\ <<>> \in Seq(Updates)
    OBVIOUS
  <2>2. Leads(Append(<<>>, u), p, After(u, p))
    BY <2>1, LeadsNowhere, LeadsAppend
  <2> QED
    BY <2>1, <2>2
<1> HIDE DEF c
<1>3. <<u, c>> = Append(<<u>>, c)
  OBVIOUS
<1>4. Leads(Append(<<u>>, c), p, After(c, After(u, p)))
  BY <1>1, <1>2, LeadsAppend
<1>5. After(c, After(u, p)) = After(u, p) /\ <<u, c>> \in Seq(Updates)
  BY <1>1
<1>6. Leads(<<u, c>>, p, After(u, p))
  BY <1>3, <1>4, <1>5
<1> USE DEF c
<1> QED
  BY <1>2, <1>5, <1>6

-----------------------------------------------------------------------------
FeedTypeInv ==
    /\ tip \in Point
    /\ floor \in Path[tip]
    /\ scheduled \in BOOLEAN
    /\ subscribers \subseteq Client
    /\ outgoing \in Seq(Updates)
    /\ unsent \subseteq subscribers
    /\ unsent = {} <=> outgoing = <<>>
    /\ channel \in [Client -> Seq(Updates)]
    /\ clientTip \in [Client -> Point]

\* What the manager has still to send to a subscriber.
Rest(c) == IF outgoing = <<>> \/ c \in unsent THEN outgoing ELSE Tail(outgoing)

\* The updates in a subscriber's channel, and those still to be sent to it,
\* lead from the block it has reached to the manager's.
FeedLeads ==
    \A c \in subscribers : \E mid \in Point :
        Leads(channel[c], clientTip[c], mid) /\ Leads(Rest(c), mid, tip)

FeedInv == FeedTypeInv /\ FeedLeads

\* All of the updates are to be sent to each of the subscribers.
LEMMA SignalRest ==
    ASSUME FeedTypeInv, NEW updates \in Seq(Updates), Signal(updates)
    PROVE  /\ outgoing' \in Seq(Updates)
           /\ unsent' \subseteq subscribers'
           /\ unsent' = {} <=> outgoing' = <<>>
           /\ \A c \in subscribers : Rest(c)' = updates
           /\ UNCHANGED <<subscribers, channel, clientTip>>
BY DEF Signal, Rest

\* A send moves the first of the updates from what is to be sent to one
\* subscriber to that one's channel, and changes nothing for the others.
LEMMA SendRest ==
    ASSUME FeedTypeInv, NEW c \in Client, Send(c)
    PROVE  /\ outgoing # <<>> /\ c \in subscribers
           /\ outgoing' \in Seq(Updates)
           /\ unsent' \subseteq subscribers
           /\ unsent' = {} <=> outgoing' = <<>>
           /\ Rest(c) = outgoing /\ Rest(c)' = Tail(outgoing)
           /\ \A d \in subscribers \ {c} : Rest(d)' = Rest(d) /\ channel'[d] = channel[d]
           /\ channel' = [channel EXCEPT ![c] = Append(@, Head(outgoing))]
           /\ UNCHANGED <<tip, floor, scheduled, announced, subscribers, clientTip>>
<1> DEFINE rest == unsent \ {c}
<1>1. /\ c \in unsent /\ c \in subscribers /\ outgoing # <<>>
      /\ outgoing \in Seq(Updates) /\ unsent \subseteq subscribers
  BY DEF FeedTypeInv, Send
<1>2. /\ outgoing' = IF rest = {} THEN Tail(outgoing) ELSE outgoing
      /\ unsent' = IF rest = {} /\ Len(outgoing) > 1 THEN subscribers ELSE rest
      /\ channel' = [channel EXCEPT ![c] = Append(@, Head(outgoing))]
      /\ UNCHANGED <<tip, floor, scheduled, announced, subscribers, clientTip>>
  BY DEF Send, managerVars
<1>3. /\ Tail(outgoing) \in Seq(Updates)
      /\ Len(outgoing) \in Nat \ {0}
      /\ Tail(outgoing) = <<>> <=> Len(outgoing) = 1
  <2>1. Tail(outgoing) \in Seq(Updates) /\ Len(Tail(outgoing)) = Len(outgoing) - 1
    BY <1>1, HeadTailProperties
  <2>2. Len(outgoing) \in Nat \ {0}
    BY <1>1, LenProperties, EmptySeq
  <2>3. Tail(outgoing) = <<>> <=> Len(Tail(outgoing)) = 0
    BY <2>1, EmptySeq
  <2> QED
    BY <2>1, <2>2, <2>3
<1>4. outgoing' \in Seq(Updates) /\ unsent' \subseteq subscribers
  BY <1>1, <1>2, <1>3
<1>5. unsent' = {} <=> outgoing' = <<>>
  BY <1>1, <1>2, <1>3
<1>6. Rest(c) = outgoing /\ Rest(c)' = Tail(outgoing)
  BY <1>1, <1>2, <1>3, <1>5 DEF Rest
<1>7. \A d \in subscribers \ {c} : Rest(d)' = Rest(d)
  BY <1>1, <1>2, <1>3, <1>5 DEF Rest
<1>8. \A d \in subscribers \ {c} : channel'[d] = channel[d]
  BY <1>2 DEF FeedTypeInv
<1> QED
  BY <1>1, <1>2, <1>4, <1>5, <1>6, <1>7, <1>8

LEMMA AnnounceFeed ==
    ASSUME FeedInv, InSelect, NEW u \in Updates, Follows(u, tip), tip' = After(u, tip),
           floor' \in Path[tip'], Announce(u)
    PROVE  FeedInv'
<1>1. PICK updates \in Seq(Updates) : Signal(updates) /\ Leads(updates, tip, tip')
                                      /\ scheduled' \in BOOLEAN
  BY LeadsAnnounced DEF Announce, FeedInv, FeedTypeInv
<1>2. FeedTypeInv'
  BY <1>1, SignalRest, AfterPoint DEF FeedInv, FeedTypeInv
<1>3. ASSUME NEW c \in subscribers
      PROVE  Leads(channel[c], clientTip[c], tip) /\ Leads(Rest(c)', tip, tip')
  <2>1. PICK mid \in Point : Leads(channel[c], clientTip[c], mid) /\ Leads(Rest(c), mid, tip)
    BY DEF FeedInv, FeedLeads
  <2>2. mid = tip
    BY <2>1 DEF InSelect, Rest, Leads
  <2> QED
    BY <1>1, <2>1, <2>2, SignalRest DEF FeedInv
<1>4. FeedLeads'
  BY <1>1, <1>3, SignalRest DEF FeedInv, FeedTypeInv, FeedLeads
<1> QED
  BY <1>2, <1>4 DEF FeedInv

LEMMA ExtendFeed ==
    ASSUME FeedInv, Extend
    PROVE  FeedInv'
<1>1. PICK b \in Block :
          /\ PrevBlock[b] = tip
          /\ tip' = b
          /\ floor' = IF HeightOf[b] - HeightOf[floor] > Confirmations
                      THEN CHOOSE p \in Path[b] : HeightOf[p] = HeightOf[floor] + 1
                      ELSE floor
          /\ Announce(Update("NEWBLOCK", b))
  BY DEF Extend
<1> DEFINE u == Update("NEWBLOCK", b)
<1>2. u \in Updates /\ Follows(u, tip) /\ tip' = After(u, tip)
  BY <1>1 DEF Update, Updates, Follows, After
<1>3. floor' \in Path[b]
  <2>1. floor \in Path[b] /\ b \in Point /\ floor \in Point
    BY <1>1, PathAssumption DEF FeedInv, FeedTypeInv, Point
  <2>2. HeightOf[b] \in Int /\ HeightOf[floor] \in Int
    BY <2>1, TreeAssumption
  <2>3. CASE HeightOf[b] - HeightOf[floor] > Confirmations
    <3>1. HeightOf[floor] < HeightOf[b]
      BY <2>2, <2>3, FeedAssumption
    <3>2. \E p \in Path[b] : HeightOf[p] = HeightOf[floor] + 1
      BY <2>1, <3>1, PathClimbs
    <3> QED
      BY <1>1, <2>3, <3>2
  <2> QED
    BY <1>1, <2>1, <2>3
<1> QED
  BY <1>1, <1>2, <1>3, AnnounceFeed DEF Extend

LEMMA RetractFeed ==
    ASSUME FeedInv, Retract
    PROVE  FeedInv'
<1> DEFINE u == Update("BACKTRACK", tip)
<1>1. tip # floor /\ tip' = PrevBlock[tip] /\ floor' = floor /\ Announce(u)
  BY DEF Retract
<1>2. tip \in Block /\ floor \in Path[tip]
  BY <1>1, PathAssumption DEF FeedInv, FeedTypeInv, Point
<1>3. floor' \in Path[tip']
  BY <1>1, <1>2, PathAssumption
<1>4. u \in Updates /\ Follows(u, tip) /\ tip' = After(u, tip)
  BY <1>1, <1>2 DEF Update, Updates, Follows, After
<1> QED
  BY <1>1, <1>3, <1>4, AnnounceFeed DEF Retract

LEMMA CommitFeed ==
    ASSUME FeedInv, Commit
    PROVE  FeedInv'
<1> DEFINE d == Update("COMMIT_DONE", ZeroHash)
<1>1. d \in Updates /\ \A p : Follows(d, p) /\ After(d, p) = p
  BY DEF Update, Updates, Follows, After
<1>2. tip \in Point
  BY DEF FeedInv, FeedTypeInv
<1>3. <<d>> \in Seq(Updates) /\ Leads(<<d>>, tip, tip)
  BY <1>1, <1>2, LeadsAnnounced
<1>4. <<>> \in Seq(Updates) /\ Leads(<<>>, tip, tip)
  BY <1>2, LeadsNowhere
<1>5. PICK updates \in Seq(Updates) : Signal(updates) /\ Leads(updates, tip, tip)
  BY <1>3, <1>4 DEF Commit
<1>6. FeedTypeInv'
  BY <1>5, SignalRest DEF FeedInv, FeedTypeInv, Commit
<1>7. ASSUME NEW c \in subscribers
      PROVE  Leads(channel[c], clientTip[c], tip) /\ Leads(Rest(c)', tip, tip')
  <2>1. PICK mid \in Point : Leads(channel[c], clientTip[c], mid) /\ Leads(Rest(c), mid, tip)
    BY DEF FeedInv, FeedLeads
  <2>2. mid = tip
    BY <2>1 DEF Commit, InSelect, Rest, Leads
  <2> QED
    BY <1>5, <2>1, <2>2, SignalRest DEF FeedInv, Commit
<1>8. FeedLeads'
  BY <1>2, <1>5, <1>7, SignalRest DEF FeedInv, FeedLeads, Commit
<1> QED
  BY <1>6, <1>8 DEF FeedInv

LEMMA SendFeed ==
    ASSUME FeedInv, NEW c \in Client, Send(c)
    PROVE  FeedInv'
<1>1. Head(outgoing) \in Updates /\ outgoing \in Seq(Updates) /\ outgoing # <<>>
  BY SendRest, HeadTailProperties DEF FeedInv, FeedTypeInv
<1>2. FeedTypeInv'
  <2>1. channel' \in [Client -> Seq(Updates)]
    <3>1. /\ channel \in [Client -> Seq(Updates)]
          /\ channel' = [channel EXCEPT ![c] = Append(@, Head(outgoing))]
      BY SendRest DEF FeedInv, FeedTypeInv
    <3>2. Append(channel[c], Head(outgoing)) \in Seq(Updates)
      BY <1>1, <3>1, AppendProperties
    <3> QED
      BY <3>1, <3>2
  <2> QED
    BY <2>1, SendRest DEF FeedInv, FeedTypeInv
<1>3. ASSUME NEW d \in subscribers
      PROVE  \E mid \in Point : Leads(channel'[d], clientTip[d], mid) /\ Leads(Rest(d)', mid, tip)
  <2>1. PICK mid \in Point : Leads(channel[d], clientTip[d], mid) /\ Leads(Rest(d), mid, tip)
    BY DEF FeedInv, FeedLeads
  <2>2. CASE d # c
    BY <2>1, <2>2, SendRest DEF FeedInv
  <2>3. CASE d = c
    <3>1. /\ Follows(Head(outgoing), mid)
          /\ Leads(Tail(outgoing), After(Head(outgoing), mid), tip)
      BY <1>1, <2>1, <2>3, SendRest, LeadsTail DEF FeedInv
    <3>2. channel[c] \in Seq(Updates) /\ channel'[c] = Append(channel[c], Head(outgoing))
      BY SendRest DEF FeedInv, FeedTypeInv
    <3>3. Leads(channel'[c], clientTip[c], After(Head(outgoing), mid))
      BY <1>1, <2>1, <2>3, <3>1, <3>2, LeadsAppend
    <3> QED
      BY <1>1, <2>3, <3>1, <3>3, SendRest, AfterPoint DEF FeedInv
  <2> QED
    BY <2>2, <2>3
<1>4. FeedLeads'
  BY <1>3, SendRest DEF FeedInv, FeedLeads
<1> QED
  BY <1>2, <1>4 DEF FeedInv

LEMMA TakeFeed ==
    ASSUME FeedInv, NEW c, NEW u, Take(c, u)
    PROVE  /\ FeedInv'
           /\ u \in Updates /\ c \in Client
           /\ c \in subscribers => Follows(u, clientTip[c])
           /\ clientTip'[c] = After(u, clientTip[c])
           /\ \A d \in Client \ {c} : clientTip'[d] = clientTip[d] /\ channel'[d] = channel[d]
<1>1. /\ c \in Client /\ channel[c] # <<>> /\ u = Head(channel[c])
      /\ channel' = [channel EXCEPT ![c] = Tail(@)]
      /\ clientTip' = [clientTip EXCEPT ![c] = After(u, @)]
      /\ UNCHANGED <<tip, floor, scheduled, announced, subscribers, outgoing, unsent>>
  BY DEF Take, managerVars
<1>2. /\ channel \in [Client -> Seq(Updates)] /\ clientTip \in [Client -> Point]
      /\ channel[c] \in Seq(Updates) /\ clientTip[c] \in Point
  BY <1>1 DEF FeedInv, FeedTypeInv
<1>3. u \in Updates /\ Tail(channel[c]) \in Seq(Updates)
  BY <1>1, <1>2, HeadTailProperties
<1>4. After(u, clientTip[c]) \in Point
  BY <1>2, <1>3, AfterPoint
<1>5. /\ clientTip'[c] = After(u, clientTip[c]) /\ channel'[c] = Tail(channel[c])
      /\ \A d \in Client \ {c} : clientTip'[d] = clientTip[d] /\ channel'[d] = channel[d]
  BY <1>1, <1>2
<1>6. FeedTypeInv'
  BY <1>1, <1>2, <1>3, <1>4 DEF FeedInv, FeedTypeInv
<1>7. \A d : Rest(d)' = Rest(d)
  BY <1>1 DEF Rest
<1>8. ASSUME NEW d \in subscribers
      PROVE  \E mid \in Point : Leads(channel'[d], clientTip'[d], mid) /\ Leads(Rest(d), mid, tip)
  <2>1. PICK mid \in Point : Leads(channel[d], clientTip[d], mid) /\ Leads(Rest(d), mid, tip)
    BY DEF FeedInv, FeedLeads
  <2>2. CASE d # c
    BY <1>5, <2>1, <2>2 DEF FeedInv, FeedTypeInv
  <2>3. CASE d = c
    BY <1>1, <1>2, <1>5, <2>1, <2>3, LeadsTail
  <2> QED
    BY <2>2, <2>3
<1>9. FeedLeads'
  BY <1>1, <1>7, <1>8 DEF FeedLeads
<1>10. c \in subscribers => Follows(u, clientTip[c])
  BY <1>1, <1>2, LeadsTail DEF FeedInv, FeedLeads
<1> QED
  BY <1>1, <1>3, <1>5, <1>6, <1>9, <1>10 DEF FeedInv

LEMMA UnsubscribedFeed ==
    ASSUME FeedInv, NEW c, Unsubscribed(c)
    PROVE  FeedInv'
BY DEF Unsubscribed, InSelect, managerVars, FeedInv, FeedTypeInv, FeedLeads, Rest

LEMMA ManagerFeedInv ==
    ASSUME FeedInv, Manager
    PROVE  FeedInv'
BY ExtendFeed, RetractFeed, CommitFeed, SendFeed DEF Manager, Sending

LEMMA StutterFeed ==
    ASSUME FeedInv, UNCHANGED feedVars
    PROVE  FeedInv'
BY DEF feedVars, managerVars, FeedInv, FeedTypeInv, FeedLeads, Rest

LEMMA InitFeed == FeedInit => FeedInv
<1> SUFFICES ASSUME FeedInit PROVE FeedInv
  OBVIOUS
<1>1. FeedTypeInv
  <2>1. tip \in Point /\ floor \in Path[tip] /\ scheduled \in BOOLEAN
    BY DEF FeedInit
  <2>2. channel = [c \in Client |-> <<>>] /\ clientTip = [c \in Client |-> tip]
    BY DEF FeedInit
  <2>3. channel \in [Client -> Seq(Updates)] /\ clientTip \in [Client -> Point]
    BY <2>1, <2>2
  <2>4. outgoing = <<>> /\ unsent = {} /\ subscribers = Client
    BY DEF FeedInit
  <2> QED
    BY <2>1, <2>3, <2>4 DEF FeedTypeInv
<1>2. FeedLeads
  BY <1>1, LeadsNowhere DEF FeedInit, FeedTypeInv, FeedLeads, Rest
<1> QED
  BY <1>1, <1>2 DEF FeedInv

-----------------------------------------------------------------------------
\* The services see the feed the manager writes.
LEMMA BalanceFeed ==
    /\ Balance!Updates = Updates
    /\ Balance!InSelect <=> InSelect
    /\ \A c, u : Balance!Take(c, u) <=> Take(c, u)
    /\ Balance!feedVars = feedVars
BY DEF Balance!Updates, Updates, Balance!InSelect, InSelect, Balance!Take, Take,
       Balance!After, After, Balance!managerVars, managerVars, Balance!feedVars, feedVars

LEMMA RecentFeed ==
    /\ Recent!Updates = Updates
    /\ \A c, u : Recent!Take(c, u) <=> Take(c, u)
    /\ Recent!feedVars = feedVars
BY DEF Recent!Updates, Updates, Recent!Take, Take,
       Recent!After, After, Recent!managerVars, managerVars, Recent!feedVars, feedVars

LEMMA HeightFeed ==
    /\ Height!Updates = Updates
    /\ \A c, u : Height!Take(c, u) <=> Take(c, u)
    /\ \A c : Height!Unsubscribed(c) <=> Unsubscribed(c)
    /\ Height!feedVars = feedVars
BY DEF Height!Updates, Updates, Height!InSelect, InSelect, Height!Take, Take,
       Height!Unsubscribed, Unsubscribed,
       Height!After, After, Height!managerVars, managerVars, Height!feedVars, feedVars

LEMMA Names ==
    /\ Balance!Me = "balance" /\ Recent!Me = "recent_tx" /\ Height!Me = "height"
BY DEF Balance!Me, Recent!Me, Height!Me

LEMMA ManagerTips == Manager => UNCHANGED <<clientTip, subscribers>>
BY DEF Manager, Extend, Retract, Commit, Announce, Signal, Sending, Send

\* A service's step leaves the feed as it is, or takes an update, or is the
\* end of the height cache's subscription.
LEMMA BalanceTakes ==
    ASSUME BalanceStep
    PROVE  UNCHANGED feedVars \/ \E u \in Updates : Take("balance", u)
BY BalanceFeed, Names
DEF BalanceStep, Balance!Next, Balance!TakeUpdate, Balance!Miss, Balance!Answer, Balance!Stop,
    feedVars, managerVars, Balance!feedVars, Balance!managerVars

LEMMA RecentTakes ==
    ASSUME RecentStep
    PROVE  UNCHANGED feedVars \/ \E u \in Updates : Take("recent_tx", u)
BY RecentFeed, Names DEF RecentStep, Recent!Next, Recent!TakeUpdate, Recent!Stop,
    feedVars, managerVars, Recent!feedVars, Recent!managerVars

LEMMA HeightTakes ==
    ASSUME HeightStep
    PROVE  \/ UNCHANGED feedVars
           \/ \E u \in Updates : Take("height", u)
           \/ Unsubscribed("height")
BY HeightFeed, Names
DEF HeightStep, Height!Next, Height!TakeUpdate, Height!Stop, Height!Unsubscribe,
    feedVars, managerVars, Height!feedVars, Height!managerVars

\* What one service does to the feed is nothing to the others.
LEMMA OtherTips ==
    ASSUME FeedInv, NEW me \in Client, NEW c,
           UNCHANGED feedVars \/ (\E u \in Updates : Take(c, u)) \/ Unsubscribed(c), c # me
    PROVE  /\ clientTip'[me] = clientTip[me] /\ channel'[me] = channel[me]
           /\ me \in subscribers' <=> me \in subscribers
           /\ UNCHANGED <<announced, outgoing, unsent>>
<1>1. CASE UNCHANGED feedVars
  BY <1>1 DEF feedVars, managerVars
<1>2. CASE \E u \in Updates : Take(c, u)
  BY <1>2, TakeFeed DEF Take, managerVars
<1>3. CASE Unsubscribed(c)
  BY <1>3 DEF Unsubscribed, managerVars
<1> QED
  BY <1>1, <1>2, <1>3

LEMMA FeedStep ==
    ASSUME FeedInv, [Next]_vars
    PROVE  FeedInv'
<1>1. CASE Manager
  BY <1>1, ManagerFeedInv
<1>2. CASE BalanceStep \/ RecentStep \/ HeightStep
  BY <1>2, BalanceTakes, RecentTakes, HeightTakes, TakeFeed, UnsubscribedFeed, StutterFeed
<1>3. CASE UNCHANGED vars
  BY <1>3, StutterFeed DEF vars
<1> QED
  BY <1>1, <1>2, <1>3 DEF Next

-----------------------------------------------------------------------------
HeightInv ==
    /\ heard \in BOOLEAN
    /\ Height!Me \notin Client => ~heard
    /\ HeightFollows

LEMMA HeightKept ==
    ASSUME HeightInv, UNCHANGED heightVars,
           Height!Me \in Client => clientTip'[Height!Me] = clientTip[Height!Me]
    PROVE  HeightInv'
BY DEF HeightInv, heightVars, HeightFollows, Height!HeightFollows

LEMMA HeightInvStep ==
    ASSUME FeedInv, HeightInv, [Next]_vars
    PROVE  HeightInv'
<1>1. CASE Manager /\ UNCHANGED serviceVars
  BY <1>1, ManagerTips, HeightKept DEF serviceVars
<1>2. CASE BalanceStep
  BY <1>2, BalanceTakes, OtherTips, HeightKept, Names DEF BalanceStep
<1>3. CASE RecentStep
  BY <1>3, RecentTakes, OtherTips, HeightKept, Names DEF RecentStep
<1>4. CASE HeightStep
  <2> DEFINE me == Height!Me
  <2>1. me \in Client
    BY <1>4 DEF HeightStep
  <2>2. CASE Height!TakeUpdate
    <3>1. PICK u \in Updates :
              /\ Take(me, u)
              /\ height' = Height!HeightAfter(u)
              /\ heard' = (heard \/ u.class \in {"NEWBLOCK", "BACKTRACK"})
      BY <2>2, HeightFeed DEF Height!TakeUpdate
    <3>2. clientTip'[me] = After(u, clientTip[me])
      BY <3>1, TakeFeed
    <3>3. CASE u.class = "NEWBLOCK"
      <4>1. height' = HeightOf[clientTip'[me]] /\ heard'
        BY <3>1, <3>2, <3>3 DEF Height!HeightAfter, After
      <4> QED
        BY <2>1, <4>1 DEF HeightInv, HeightFollows, Height!HeightFollows
    <3>4. CASE u.class = "BACKTRACK"
      <4>1. u.block \in Block
        BY <3>4 DEF Updates
      <4>2. HeightOf[u.block] - 1 = HeightOf[PrevBlock[u.block]]
        BY <4>1, TreeAssumption
      <4>3. height' = HeightOf[clientTip'[me]] /\ heard'
        BY <3>1, <3>2, <3>4, <4>2 DEF Height!HeightAfter, After
      <4> QED
        BY <2>1, <4>3 DEF HeightInv, HeightFollows, Height!HeightFollows
    <3>5. CASE u.class \notin {"NEWBLOCK", "BACKTRACK"}
      <4>1. height' = height /\ clientTip'[me] = clientTip[me] /\ heard' = heard
        BY <3>1, <3>2, <3>5 DEF Height!HeightAfter, After, HeightInv
      <4> QED
        BY <4>1 DEF HeightInv, HeightFollows, Height!HeightFollows
    <3> QED
      BY <3>3, <3>4, <3>5
  <2>3. CASE Height!Stop \/ Height!Unsubscribe
    <3>1. UNCHANGED <<height, heard, clientTip>>
      BY <2>3, HeightFeed
      DEF Height!Stop, Height!Unsubscribe, Unsubscribed, Height!feedVars
    <3> QED
      BY <3>1 DEF HeightInv, HeightFollows, Height!HeightFollows
  <2> QED
    BY <1>4, <2>2, <2>3 DEF HeightStep, Height!Next
<1>5. CASE UNCHANGED vars
  BY <1>5, HeightKept DEF vars, feedVars, serviceVars
<1> QED
  BY <1>1, <1>2, <1>3, <1>4, <1>5 DEF Next
-----------------------------------------------------------------------------
\* A chain of at most Size blocks that ends with p, or none.
Window(w, p) ==
    /\ w \in Seq(Block)
    /\ Len(w) <= Size
    /\ w # <<>> =>
        /\ Last(w) = p
        /\ \A n \in 2..Len(w) : PrevBlock[w[n]] = w[n - 1]

LEMMA PushWindow ==
    ASSUME NEW w, NEW p, Window(w, p), NEW b \in Block, PrevBlock[b] = p
    PROVE  Window(IF Recent!OverSize(Append(w, b)) THEN Tail(Append(w, b)) ELSE Append(w, b), b)
<1> DEFINE r == Append(w, b)
           t == Tail(r)
<1>1. w \in Seq(Block) /\ Len(w) \in Nat /\ (w = <<>> <=> Len(w) = 0)
  BY LenProperties, EmptySeq DEF Window
<1>2. /\ r \in Seq(Block) /\ Len(r) = Len(w) + 1 /\ r[Len(r)] = b
      /\ \A n \in 1..Len(w) : r[n] = w[n]
  BY <1>1, AppendProperties
<1>3. Size \in Nat \ {0}
  BY ServicesAssumption
<1> HIDE DEF r
<1>4. \A n \in 2..Len(r) : PrevBlock[r[n]] = r[n - 1]
  <2> SUFFICES ASSUME NEW n \in 2..Len(r) PROVE PrevBlock[r[n]] = r[n - 1]
    OBVIOUS
  <2>1. w # <<>> /\ n - 1 \in 1..Len(w)
    BY <1>1, <1>2
  <2>2. CASE n = Len(r)
    BY <1>1, <1>2, <2>1, <2>2 DEF Window, Last
  <2>3. CASE n \in 2..Len(w)
    BY <1>1, <1>2, <2>1, <2>3 DEF Window
  <2> QED
    BY <1>1, <1>2, <2>2, <2>3
<1>5. CASE ~(Len(r) > Size)
  <2>1. Window(r, b)
    BY <1>1, <1>2, <1>3, <1>4, <1>5 DEF Window, Last
  <2> QED
    BY <1>5, <2>1 DEF Recent!OverSize, r
<1>6. CASE Len(r) > Size
  <2>1. /\ t \in Seq(Block) /\ Len(t) = Len(w)
        /\ \A n \in 1..Len(t) : t[n] = r[n + 1]
    BY <1>1, <1>2, HeadTailProperties, EmptySeq
  <2>2. Len(w) >= 1
    BY <1>1, <1>2, <1>3, <1>6
  <2>3. \A n \in 2..Len(t) : PrevBlock[t[n]] = t[n - 1]
    <3> SUFFICES ASSUME NEW n \in 2..Len(t) PROVE PrevBlock[t[n]] = t[n - 1]
      OBVIOUS
    <3>1. n + 1 \in 2..Len(r) /\ (n - 1) + 1 = n /\ (n + 1) - 1 = n
          /\ n \in 1..Len(t) /\ n - 1 \in 1..Len(t)
      BY <1>1, <1>2, <2>1
    <3> QED
      BY <1>4, <2>1, <3>1
  <2>4. t[Len(t)] = b
    BY <1>1, <1>2, <2>1, <2>2
  <2> HIDE DEF t
  <2>5. Window(t, b)
    BY <2>1, <2>3, <2>4 DEF Window, Last
  <2> USE DEF t
  <2> QED
    BY <1>6, <2>5 DEF Recent!OverSize, r
<1> QED
  BY <1>5, <1>6

LEMMA PopWindow ==
    ASSUME NEW w, NEW p, Window(w, p), w # <<>>
    PROVE  Window(Front(w), PrevBlock[p])
<1> DEFINE f == SubSeq(w, 1, Len(w) - 1)
<1>1. w \in Seq(Block) /\ Len(w) \in Nat \ {0} /\ Size \in Nat
  BY LenProperties, EmptySeq, ServicesAssumption DEF Window
<1>2. /\ f \in Seq(Block) /\ Len(f) = Len(w) - 1
      /\ \A n \in 1..Len(f) : f[n] = w[n]
  <2> DEFINE k == Len(w) - 1
  <2>1. k \in Nat /\ \A n \in 1..k : w[n] \in Block
    BY <1>1, ElementOfSeq
  <2> HIDE DEF k
  <2> DEFINE g == SubSeq(w, 1, k)
  <2>2. /\ g \in Seq(Block)
        /\ Len(g) = IF 1 <= k THEN k - 1 + 1 ELSE 0
        /\ \A n \in 1..(k - 1 + 1) : g[n] = w[1 + n - 1]
    BY <2>1, SubSeqProperties
  <2> HIDE DEF g
  <2>3. Len(g) = k /\ k - 1 + 1 = k /\ \A n \in 1..k : 1 + n - 1 = n
    BY <2>1, <2>2
  <2>4. Len(g) = k /\ \A n \in 1..Len(g) : g[n] = w[n]
    BY <2>2, <2>3
  <2> QED
    BY <2>2, <2>4 DEF g, k
<1> HIDE DEF f
<1>3. f # <<>> => Len(f) >= 1
  BY <1>1, <1>2, EmptySeq
<1>4. ASSUME f # <<>>
      PROVE  Last(f) = PrevBlock[p] /\ \A n \in 2..Len(f) : PrevBlock[f[n]] = f[n - 1]
  <2>1. f[Len(f)] = w[Len(w) - 1] /\ Len(w) \in 2..Len(w)
    BY <1>1, <1>2, <1>3, <1>4
  <2>2. PrevBlock[w[Len(w)]] = w[Len(w) - 1] /\ w[Len(w)] = p
    BY <2>1 DEF Window, Last
  <2>3. \A n \in 2..Len(f) : PrevBlock[w[n]] = w[n - 1]
    BY <1>1, <1>2 DEF Window
  <2>4. \A n \in 2..Len(f) : f[n] = w[n] /\ f[n - 1] = w[n - 1]
    BY <1>1, <1>2
  <2> QED
    BY <2>1, <2>2, <2>3, <2>4 DEF Last
<1>5. Len(f) <= Size
  BY <1>1, <1>2 DEF Window
<1>6. Window(f, PrevBlock[p])
  BY <1>2, <1>4, <1>5 DEF Window
<1> QED
  BY <1>6 DEF Front, f

\* The routine stays subscribed, and its window follows what it has taken.
WindowInv ==
    IF Recent!Me \in Client
    THEN Recent!Me \in subscribers /\ Window(blocks, clientTip[Recent!Me])
    ELSE blocks = <<>>

LEMMA WindowKept ==
    ASSUME WindowInv, UNCHANGED recentVars,
           Recent!Me \in Client => /\ clientTip'[Recent!Me] = clientTip[Recent!Me]
                                   /\ Recent!Me \in subscribers' <=> Recent!Me \in subscribers
    PROVE  WindowInv'
BY DEF WindowInv, recentVars, queueVars, Window

LEMMA WindowTakes ==
    ASSUME FeedInv, WindowInv, Recent!Me \in Client, Recent!TakeUpdate
    PROVE  WindowInv'
<1> DEFINE me == Recent!Me
<1>1. PICK u \in Updates :
          /\ Take(me, u)
          /\ u.class = "NEWBLOCK" => Recent!NewBlock(u.block)
          /\ u.class = "BACKTRACK" => Recent!Backtrack
          /\ u.class \notin {"NEWBLOCK", "BACKTRACK"} => UNCHANGED blocks
  BY RecentFeed DEF Recent!TakeUpdate, Recent!queueVars
<1>2. me \in subscribers /\ Window(blocks, clientTip[me])
  BY DEF WindowInv
<1>3. /\ clientTip'[me] = After(u, clientTip[me]) /\ Follows(u, clientTip[me])
      /\ me \in subscribers'
  BY <1>1, <1>2, TakeFeed DEF Take
<1>4. Window(blocks', clientTip'[me])
  <2>1. CASE u.class = "NEWBLOCK"
    <3>1. u.block \in Block /\ PrevBlock[u.block] = clientTip[me] /\ clientTip'[me] = u.block
      BY <1>3, <2>1 DEF Updates, Follows, After
    <3>2. blocks' = IF Recent!OverSize(Append(blocks, u.block))
                    THEN Tail(Append(blocks, u.block)) ELSE Append(blocks, u.block)
      BY <1>1, <2>1 DEF Recent!NewBlock
    <3> QED
      BY <1>2, <3>1, <3>2, PushWindow
  <2>2. CASE u.class = "BACKTRACK"
    <3>1. u.block \in Block /\ u.block = clientTip[me]
          /\ clientTip'[me] = PrevBlock[clientTip[me]]
      BY <1>3, <2>2 DEF Updates, Follows, After
    <3>2. CASE blocks = <<>>
      <4>1. blocks' = <<>>
        BY <1>1, <2>2, <3>2 DEF Recent!Backtrack, Recent!queueVars
      <4>2. Len(<<>>) <= Size
        BY ServicesAssumption
      <4> QED
        BY <4>1, <4>2 DEF Window
    <3>3. CASE blocks # <<>>
      <4>1. blocks' = Front(blocks)
        BY <1>1, <2>2, <3>3 DEF Recent!Backtrack, Recent!PopBack, Recent!Front, Front
      <4> QED
        BY <1>2, <3>1, <3>3, <4>1, PopWindow
    <3> QED
      BY <3>2, <3>3
  <2>3. CASE u.class \notin {"NEWBLOCK", "BACKTRACK"}
    BY <1>1, <1>2, <1>3, <2>3 DEF After
  <2> QED
    BY <2>1, <2>2, <2>3
<1> QED
  BY <1>3, <1>4 DEF WindowInv

LEMMA WindowInvStep ==
    ASSUME FeedInv, WindowInv, [Next]_vars
    PROVE  WindowInv'
<1>1. CASE Manager /\ UNCHANGED serviceVars
  BY <1>1, ManagerTips, WindowKept DEF serviceVars
<1>2. CASE BalanceStep
  BY <1>2, BalanceTakes, OtherTips, WindowKept, Names DEF BalanceStep
<1>3. CASE HeightStep
  BY <1>3, HeightTakes, OtherTips, WindowKept, Names DEF HeightStep
<1>4. CASE RecentStep
  <2>1. CASE Recent!TakeUpdate
    BY <1>4, <2>1, WindowTakes DEF RecentStep
  <2>2. CASE Recent!Stop
    <3>1. UNCHANGED <<blocks, clientTip, subscribers>>
      BY <2>2 DEF Recent!Stop, Recent!feedVars, Recent!queueVars
    <3> QED
      BY <3>1 DEF WindowInv, Window
  <2> QED
    BY <1>4, <2>1, <2>2 DEF RecentStep, Recent!Next
<1>5. CASE UNCHANGED vars
  BY <1>5, WindowKept DEF vars, feedVars, serviceVars
<1> QED
  BY <1>1, <1>2, <1>3, <1>4, <1>5 DEF Next

-----------------------------------------------------------------------------
\* The proxy mode after one update and after many: on when a commit was
\* announced and no end of a commit followed.
ModeWith(u, mode) ==
    u.class = "COMMIT" \/ (u.class # "COMMIT_DONE" /\ mode)

On(todo, mode) ==
    \/ \E n \in 1..Len(todo) :
          /\ todo[n].class = "COMMIT"
          /\ \A k \in (n + 1)..Len(todo) : todo[k].class # "COMMIT_DONE"
    \/ mode /\ \A n \in 1..Len(todo) : todo[n].class # "COMMIT_DONE"

LEMMA OnAppend ==
    ASSUME NEW todo \in Seq(Updates), NEW u \in Updates, NEW mode \in BOOLEAN
    PROVE  On(Append(todo, u), mode) <=> ModeWith(u, On(todo, mode))
<1> DEFINE N == Len(todo)
           r == Append(todo, u)
<1>1. /\ N \in Nat /\ Len(r) = N + 1 /\ r[N + 1] = u
      /\ \A n \in 1..N : r[n] = todo[n]
  BY AppendProperties, LenProperties
<1> HIDE DEF N, r
<1>2. CASE u.class = "COMMIT"
  BY <1>1, <1>2 DEF On, ModeWith, N, r
<1>3. CASE u.class = "COMMIT_DONE"
  <2>1. ~On(r, mode)
    <3> SUFFICES ASSUME On(r, mode) PROVE FALSE
      OBVIOUS
    <3>1. r[N + 1].class = "COMMIT_DONE" /\ N + 1 \in 1..Len(r)
      BY <1>1, <1>3
    <3>2. PICK n \in 1..Len(r) :
              /\ r[n].class = "COMMIT"
              /\ \A k \in (n + 1)..Len(r) : r[k].class # "COMMIT_DONE"
      BY <3>1 DEF On
    <3>3. n # N + 1
      BY <1>3, <3>1, <3>2
    <3> QED
      BY <1>1, <3>1, <3>2, <3>3
  <2> QED
    BY <1>3, <2>1 DEF ModeWith, r
<1>4. CASE u.class \notin {"COMMIT", "COMMIT_DONE"}
  <2>1. ASSUME On(todo, mode) PROVE On(r, mode)
    <3>1. CASE mode /\ \A n \in 1..N : todo[n].class # "COMMIT_DONE"
      BY <1>1, <1>4, <3>1 DEF On
    <3>2. ASSUME NEW n \in 1..N, todo[n].class = "COMMIT",
                 \A k \in (n + 1)..N : todo[k].class # "COMMIT_DONE"
          PROVE  On(r, mode)
      <4>1. n \in 1..Len(r) /\ r[n].class = "COMMIT"
        BY <1>1, <3>2
      <4>2. \A k \in (n + 1)..Len(r) : r[k].class # "COMMIT_DONE"
        BY <1>1, <1>4, <3>2
      <4> QED
        BY <4>1, <4>2 DEF On
    <3> QED
      BY <2>1, <3>1, <3>2 DEF On, N
  <2>2. ASSUME On(r, mode) PROVE On(todo, mode)
    <3>1. CASE mode /\ \A n \in 1..Len(r) : r[n].class # "COMMIT_DONE"
      BY <1>1, <3>1 DEF On, N
    <3>2. ASSUME NEW n \in 1..Len(r), r[n].class = "COMMIT",
                 \A k \in (n + 1)..Len(r) : r[k].class # "COMMIT_DONE"
          PROVE  On(todo, mode)
      <4>1. n \in 1..N /\ todo[n].class = "COMMIT"
        BY <1>1, <1>4, <3>2
      <4>2. \A k \in (n + 1)..N : todo[k].class # "COMMIT_DONE"
        BY <1>1, <3>2
      <4> QED
        BY <4>1, <4>2 DEF On, N
    <3> QED
      BY <2>2, <3>1, <3>2 DEF On
  <2> QED
    BY <1>4, <2>1, <2>2 DEF ModeWith, r
<1> QED
  BY <1>2, <1>3, <1>4

LEMMA OnTail ==
    ASSUME NEW todo \in Seq(Updates), todo # <<>>, NEW mode \in BOOLEAN
    PROVE  On(todo, mode) <=> On(Tail(todo), ModeWith(Head(todo), mode))
<1> DEFINE N == Len(todo)
           r == Tail(todo)
           m == ModeWith(Head(todo), mode)
<1>1. /\ N \in Nat \ {0} /\ Len(r) = N - 1 /\ Head(todo) = todo[1]
      /\ \A n \in 1..(N - 1) : r[n] = todo[n + 1]
  BY HeadTailProperties, LenProperties, EmptySeq
<1>2. \A n \in 2..N : n - 1 \in 1..(N - 1) /\ r[n - 1] = todo[n]
  BY <1>1
<1>3. 1 \in 1..N /\ \A n \in 2..N : n \in 1..N
  BY <1>1
<1> HIDE DEF N, r
<1>4. ASSUME On(todo, mode) PROVE On(r, m)
  <2>1. CASE mode /\ \A n \in 1..N : todo[n].class # "COMMIT_DONE"
    <3>1. \A n \in 1..Len(r) : r[n].class # "COMMIT_DONE"
      BY <1>1, <2>1
    <3>2. todo[1].class # "COMMIT_DONE"
      BY <1>3, <2>1
    <3> QED
      BY <1>1, <2>1, <3>1, <3>2 DEF On, ModeWith
  <2>2. ASSUME NEW n \in 1..N, todo[n].class = "COMMIT",
               \A k \in (n + 1)..N : todo[k].class # "COMMIT_DONE"
        PROVE  On(r, m)
    <3>1. \A k \in n..Len(r) : r[k].class # "COMMIT_DONE"
      <4> SUFFICES ASSUME NEW k \in n..Len(r) PROVE r[k].class # "COMMIT_DONE"
        OBVIOUS
      <4>1. k + 1 \in (n + 1)..N /\ k \in 1..(N - 1)
        BY <1>1
      <4> QED
        BY <1>1, <2>2, <4>1
    <3>2. CASE n = 1
      BY <1>1, <2>2, <3>1, <3>2 DEF On, ModeWith
    <3>3. CASE n # 1
      <4>1. n - 1 \in 1..Len(r) /\ r[n - 1].class = "COMMIT" /\ (n - 1) + 1 = n
        BY <1>1, <1>2, <2>2, <3>3
      <4> QED
        BY <3>1, <4>1 DEF On
    <3> QED
      BY <3>2, <3>3
  <2> QED
    BY <1>4, <2>1, <2>2 DEF On, N
<1>5. ASSUME On(r, m) PROVE On(todo, mode)
  <2>1. CASE m /\ \A n \in 1..Len(r) : r[n].class # "COMMIT_DONE"
    <3>1. \A n \in 2..N : todo[n].class # "COMMIT_DONE"
      BY <1>1, <1>2, <2>1
    <3>2. CASE todo[1].class = "COMMIT"
      BY <1>1, <1>3, <3>1, <3>2 DEF On, N
    <3>3. CASE todo[1].class # "COMMIT" /\ todo[1].class # "COMMIT_DONE" /\ mode
      <4>1. \A n \in 1..N : todo[n].class # "COMMIT_DONE"
        BY <1>1, <3>1, <3>3
      <4> QED
        BY <3>3, <4>1 DEF On, N
    <3> QED
      BY <1>1, <2>1, <3>2, <3>3 DEF ModeWith
  <2>2. ASSUME NEW n \in 1..Len(r), r[n].class = "COMMIT",
               \A k \in (n + 1)..Len(r) : r[k].class # "COMMIT_DONE"
        PROVE  On(todo, mode)
    <3>1. n + 1 \in 1..N /\ todo[n + 1].class = "COMMIT"
      BY <1>1, <2>2
    <3>2. \A k \in (n + 1 + 1)..N : todo[k].class # "COMMIT_DONE"
      <4> SUFFICES ASSUME NEW k \in (n + 1 + 1)..N PROVE todo[k].class # "COMMIT_DONE"
        OBVIOUS
      <4>1. k - 1 \in (n + 1)..Len(r) /\ k \in 2..N
        BY <1>1
      <4> QED
        BY <1>2, <2>2, <4>1
    <3> QED
      BY <3>1, <3>2 DEF On, N
  <2> QED
    BY <1>5, <2>1, <2>2 DEF On
<1> QED
  BY <1>4, <1>5 DEF r

LEMMA OnEmpty == \A mode : On(<<>>, mode) <=> mode
<1>1. Len(<<>>) = 0
  OBVIOUS
<1> QED
  BY <1>1 DEF On

-----------------------------------------------------------------------------
\* The cache's mode after all that it has not taken is on exactly when a commit
\* was announced and is not reported done.
ModeInv ==
    /\ proxyMode \in BOOLEAN
    /\ Balance!Me \in Client =>
          /\ Balance!Me \in subscribers
          /\ announced <=> On(Rest(Balance!Me), On(channel[Balance!Me], proxyMode))

LEMMA OnBoolean ==
    ASSUME NEW todo, NEW mode
    PROVE  On(todo, mode) \in BOOLEAN
BY DEF On

LEMMA SelectRest == InSelect => \A c : Rest(c) = <<>>
BY DEF InSelect, Rest

\* What the manager sends leads to the mode that its announcements ask for.
LEMMA SignalMode ==
    ASSUME FeedInv, ModeInv, InSelect, Balance!Me \in Client, UNCHANGED proxyMode,
           NEW updates \in Seq(Updates), Signal(updates),
           announced' <=> On(updates, On(channel[Balance!Me], proxyMode))
    PROVE  ModeInv'
<1>1. /\ Balance!Me \in subscribers' /\ Rest(Balance!Me)' = updates
      /\ channel' = channel
  BY SignalRest DEF FeedInv, ModeInv
<1> QED
  BY <1>1 DEF ModeInv

LEMMA AnnounceMode ==
    ASSUME FeedInv, ModeInv, InSelect, Balance!Me \in Client, UNCHANGED proxyMode,
           NEW u \in Updates, u.class \notin {"COMMIT", "COMMIT_DONE"}, Announce(u)
    PROVE  ModeInv'
<1> DEFINE mode == On(channel[Balance!Me], proxyMode)
           c == Update("COMMIT", ZeroHash)
<1>1. announced <=> mode
  BY SelectRest, OnEmpty DEF ModeInv
<1>2. mode \in BOOLEAN /\ c \in Updates /\ c.class = "COMMIT"
  BY OnBoolean DEF Update, Updates
<1> HIDE DEF mode, c
<1>3. <<u>> \in Seq(Updates) /\ (On(<<u>>, mode) <=> mode)
  <2>1. <<>> \in Seq(Updates) /\ <<u>> = Append(<<>>, u)
    OBVIOUS
  <2>2. On(<<u>>, mode) <=> ModeWith(u, On(<<>>, mode))
    BY <1>2, <2>1, OnAppend
  <2> QED
    BY <2>1, <2>2, OnEmpty DEF ModeWith
<1>4. <<u, c>> \in Seq(Updates) /\ On(<<u, c>>, mode)
  <2>1. <<u, c>> = Append(<<u>>, c) /\ <<u, c>> \in Seq(Updates)
    BY <1>2
  <2>2. \A todo \in Seq(Updates) : On(Append(todo, c), mode)
    <3> SUFFICES ASSUME NEW todo \in Seq(Updates) PROVE On(Append(todo, c), mode)
      OBVIOUS
    <3>1. On(Append(todo, c), mode) <=> ModeWith(c, On(todo, mode))
      BY <1>2, OnAppend
    <3> QED
      BY <1>2, <3>1 DEF ModeWith
  <2>3. On(Append(<<u>>, c), mode)
    BY <1>3, <2>2
  <2> QED
    BY <2>1, <2>3
<1>5. CASE Signal(<<u>>) /\ UNCHANGED announced
  BY <1>1, <1>3, <1>5, SignalMode DEF mode
<1>6. CASE Signal(<<u, c>>) /\ announced' = TRUE
  BY <1>4, <1>6, SignalMode DEF mode
<1> QED
  BY <1>5, <1>6 DEF Announce, c

LEMMA SendMode ==
    ASSUME FeedInv, ModeInv, UNCHANGED proxyMode, NEW c \in Client, Send(c)
    PROVE  ModeInv'
<1> DEFINE me == Balance!Me
<1> SUFFICES ASSUME me \in Client PROVE ModeInv'
  BY DEF ModeInv
<1>1. me \in subscribers /\ me \in subscribers' /\ announced' = announced
  BY SendRest DEF ModeInv, FeedInv
<1>2. CASE c # me
  BY <1>1, <1>2, SendRest DEF ModeInv, FeedInv
<1>3. CASE c = me
  <2>1. /\ outgoing \in Seq(Updates) /\ outgoing # <<>> /\ Head(outgoing) \in Updates
        /\ channel[me] \in Seq(Updates)
        /\ channel'[me] = Append(channel[me], Head(outgoing))
        /\ Rest(me) = outgoing /\ Rest(me)' = Tail(outgoing)
    BY <1>3, SendRest, HeadTailProperties DEF FeedInv, FeedTypeInv
  <2> DEFINE mode == On(channel[me], proxyMode)
  <2>2. On(channel'[me], proxyMode) <=> ModeWith(Head(outgoing), mode)
    BY <2>1, OnAppend DEF ModeInv
  <2>3. On(outgoing, mode) <=> On(Tail(outgoing), ModeWith(Head(outgoing), mode))
    BY <2>1, OnBoolean, OnTail
  <2>4. On(channel'[me], proxyMode) = ModeWith(Head(outgoing), mode)
    BY <2>2, OnBoolean DEF ModeWith
  <2> QED
    BY <1>1, <2>1, <2>3, <2>4 DEF ModeInv
<1> QED
  BY <1>2, <1>3

LEMMA ManagerMode ==
    ASSUME FeedInv, ModeInv, Manager, UNCHANGED proxyMode
    PROVE  ModeInv'
<1> SUFFICES ASSUME Balance!Me \in Client PROVE ModeInv'
  BY DEF ModeInv
<1>1. CASE Extend
  <2>1. PICK b \in Block : Announce(Update("NEWBLOCK", b))
    BY <1>1 DEF Extend
  <2>2. Update("NEWBLOCK", b) \in Updates /\ Update("NEWBLOCK", b).class = "NEWBLOCK"
    BY DEF Update, Updates
  <2> QED
    BY <1>1, <2>1, <2>2, AnnounceMode DEF Extend
<1>2. CASE Retract
  <2>1. Announce(Update("BACKTRACK", tip)) /\ tip \in Block
    BY <1>2, PathAssumption DEF Retract, FeedInv, FeedTypeInv, Point
  <2>2. Update("BACKTRACK", tip) \in Updates /\ Update("BACKTRACK", tip).class = "BACKTRACK"
    BY <2>1 DEF Update, Updates
  <2> QED
    BY <1>2, <2>1, <2>2, AnnounceMode DEF Retract
<1>3. CASE Commit
  <2> DEFINE d == Update("COMMIT_DONE", ZeroHash)
             mode == On(channel[Balance!Me], proxyMode)
  <2>1. d \in Updates /\ d.class = "COMMIT_DONE" /\ mode \in BOOLEAN
    BY OnBoolean DEF Update, Updates
  <2> HIDE DEF d, mode
  <2>2. InSelect /\ (announced <=> mode)
    BY <1>3, SelectRest, OnEmpty DEF Commit, ModeInv, mode
  <2>3. <<>> \in Seq(Updates) /\ (On(<<>>, mode) <=> mode)
    BY OnEmpty
  <2>4. <<d>> \in Seq(Updates) /\ ~On(<<d>>, mode)
    <3>1. <<>> \in Seq(Updates) /\ <<d>> = Append(<<>>, d)
      OBVIOUS
    <3>2. On(<<d>>, mode) <=> ModeWith(d, On(<<>>, mode))
      BY <2>1, <3>1, OnAppend
    <3> QED
      BY <2>1, <3>2 DEF ModeWith
  <2>5. CASE Signal(<<>>) /\ UNCHANGED announced
    BY <2>2, <2>3, <2>5, SignalMode DEF mode
  <2>6. CASE Signal(<<d>>) /\ announced' = FALSE
    BY <2>2, <2>4, <2>6, SignalMode DEF mode
  <2> QED
    BY <1>3, <2>5, <2>6 DEF Commit, d
<1>4. CASE Sending
  BY <1>4, SendMode DEF Sending
<1> QED
  BY <1>1, <1>2, <1>3, <1>4 DEF Manager

LEMMA TakeMode ==
    ASSUME FeedInv, ModeInv, Balance!Me \in Client, NEW u, Take(Balance!Me, u),
           proxyMode' = Balance!ModeAfter(u)
    PROVE  ModeInv'
<1> DEFINE me == Balance!Me
<1>1. /\ channel[me] # <<>> /\ u = Head(channel[me]) /\ u \in Updates
      /\ channel[me] \in Seq(Updates) /\ channel'[me] = Tail(channel[me])
      /\ UNCHANGED <<announced, subscribers, outgoing, unsent>>
  BY TakeFeed DEF Take, managerVars, FeedInv, FeedTypeInv
<1>2. Rest(me)' = Rest(me)
  BY <1>1 DEF Rest
<1>3. proxyMode' = ModeWith(u, proxyMode) /\ proxyMode' \in BOOLEAN
  BY DEF ModeInv, Balance!ModeAfter, ModeWith
<1>4. On(channel[me], proxyMode) <=> On(Tail(channel[me]), ModeWith(u, proxyMode))
  BY <1>1, OnTail DEF ModeInv
<1>5. On(channel[me], proxyMode) = On(channel'[me], proxyMode')
  BY <1>1, <1>3, <1>4, OnBoolean
<1> QED
  BY <1>1, <1>2, <1>3, <1>5 DEF ModeInv

LEMMA ModeKept ==
    ASSUME FeedInv, ModeInv, UNCHANGED proxyMode, NEW c, c # Balance!Me,
           UNCHANGED feedVars \/ (\E u \in Updates : Take(c, u)) \/ Unsubscribed(c)
    PROVE  ModeInv'
<1> SUFFICES ASSUME Balance!Me \in Client PROVE ModeInv'
  BY DEF ModeInv
<1>1. /\ channel'[Balance!Me] = channel[Balance!Me]
      /\ Balance!Me \in subscribers' <=> Balance!Me \in subscribers
      /\ UNCHANGED <<announced, outgoing, unsent>>
  BY OtherTips
<1> QED
  BY <1>1 DEF ModeInv, Rest

LEMMA ModeInvStep ==
    ASSUME FeedInv, ModeInv, [Next]_vars
    PROVE  ModeInv'
<1>1. CASE Manager /\ UNCHANGED serviceVars
  BY <1>1, ManagerMode DEF serviceVars, balanceVars
<1>2. CASE RecentStep
  BY <1>2, RecentTakes, ModeKept, Names DEF RecentStep, balanceVars
<1>3. CASE HeightStep
  BY <1>3, HeightTakes, ModeKept, Names DEF HeightStep, balanceVars
<1>4. CASE BalanceStep
  <2>1. CASE Balance!TakeUpdate
    BY <1>4, <2>1, BalanceFeed, TakeMode DEF BalanceStep, Balance!TakeUpdate
  <2>2. CASE (\E a \in Address : Balance!Miss(a)) \/ Balance!Answer \/ Balance!Stop
    <3>1. UNCHANGED <<proxyMode, channel, announced, subscribers, outgoing, unsent>>
      BY <2>2 DEF Balance!Miss, Balance!Answer, Balance!Stop, Balance!feedVars, Balance!managerVars
    <3> QED
      BY <3>1 DEF ModeInv, Rest
  <2> QED
    BY <1>4, <2>1, <2>2 DEF BalanceStep, Balance!Next
<1>5. CASE UNCHANGED vars
  BY <1>5 DEF vars, feedVars, managerVars, serviceVars, balanceVars, ModeInv, Rest
<1> QED
  BY <1>1, <1>2, <1>3, <1>4, <1>5 DEF Next

-----------------------------------------------------------------------------
\* The cache holds numbers, for addresses, and not the one it asks for.
BalanceInv ==
    /\ DOMAIN cache \subseteq Address
    /\ \A a \in DOMAIN cache : cache[a] \in Int
    /\ asking \in Address \cup {Nobody}
    /\ asking \notin DOMAIN cache
    /\ Balance!Me \notin Client => DOMAIN cache = {}

\* One step of the balance cache's history, as BalanceDrift states it.
Drift ==
    \A a \in DOMAIN cache' :
        cache'[a] - BalanceOf(UtxoAt[clientTip'[Balance!Me]], a) =
            IF a \in DOMAIN cache THEN cache[a] - BalanceOf(UtxoAt[clientTip[Balance!Me]], a)
            ELSE BalanceOf(UtxoAt[tip], a) - BalanceOf(UtxoAt[clientTip[Balance!Me]], a)

LEMMA BalancesInt ==
    /\ \A p \in Point : \A a \in Address : BalanceOf(UtxoAt[p], a) \in Int
    /\ \A b \in Block : \A a \in Address : Balance!BlockDelta(b, a) \in Int
<1>1. \A p \in Point : UtxoAt[p] \in SUBSET TxOutId
  BY UtxoAssumption, OutputAssumption
<1>2. \A b \in Block : Outs[b] \in SUBSET TxOutId /\ Ins[b] \in SUBSET TxOutId
  BY OutputAssumption
<1>3. \A S \in SUBSET TxOutId : \A a \in Address : BalanceOf(S, a) \in Int
  BY BalanceAssumption
<1> QED
  BY <1>1, <1>2, <1>3 DEF Balance!BlockDelta

\* What a block adds to a balance is what the cache adds to it.
LEMMA DeltaIsBlocks ==
    ASSUME NEW b \in Block, NEW a \in Address
    PROVE  BalanceOf(UtxoAt[b], a) =
               BalanceOf(UtxoAt[PrevBlock[b]], a) + Balance!BlockDelta(b, a)
<1>1. BalanceOf(UtxoAt[b], a) =
          BalanceOf(UtxoAt[PrevBlock[b]], a) + BalanceOf(Outs[b], a) - BalanceOf(Ins[b], a)
  <2>1. Ins[b] \in SUBSET Ins[b] /\ Ins[b] \cap Storable \subseteq Ins[b]
    OBVIOUS
  <2> QED
    BY <2>1, BlockBalance
<1>2. /\ BalanceOf(UtxoAt[PrevBlock[b]], a) \in Int
      /\ BalanceOf(Outs[b], a) \in Int /\ BalanceOf(Ins[b], a) \in Int
  <2>1. Outs[b] \in SUBSET TxOutId /\ Ins[b] \in SUBSET TxOutId /\ PrevBlock[b] \in Point
    BY OutputAssumption, TreeAssumption
  <2> QED
    BY <2>1, BalancesInt, BalanceAssumption
<1> QED
  BY <1>1, <1>2 DEF Balance!BlockDelta

\* An update moves the balances as it moves the chain.
LEMMA TakeDrifts ==
    ASSUME FeedInv, BalanceInv, ModeInv, Balance!Me \in Client, Balance!TakeUpdate
    PROVE  BalanceInv' /\ Drift
<1> DEFINE me == Balance!Me
<1>1. PICK u \in Updates : Take(me, u) /\ cache' = Balance!Updated(u)
  BY BalanceFeed DEF Balance!TakeUpdate
<1>2. asking' = asking
  BY DEF Balance!TakeUpdate
<1>3. /\ clientTip'[me] = After(u, clientTip[me]) /\ Follows(u, clientTip[me])
      /\ clientTip[me] \in Point
  BY <1>1, TakeFeed DEF ModeInv, FeedInv, FeedTypeInv
<1>4. DOMAIN cache' = DOMAIN cache
  BY <1>1 DEF Balance!Updated
<1>5. ASSUME NEW a \in DOMAIN cache
      PROVE  /\ cache'[a] \in Int
             /\ cache'[a] - BalanceOf(UtxoAt[clientTip'[me]], a)
                    = cache[a] - BalanceOf(UtxoAt[clientTip[me]], a)
  <2>1. a \in Address /\ cache[a] \in Int /\ BalanceOf(UtxoAt[clientTip[me]], a) \in Int
    BY <1>3, BalancesInt DEF BalanceInv
  <2>2. cache'[a] = CASE u.class = "NEWBLOCK" -> cache[a] + Balance!BlockDelta(u.block, a)
                      [] u.class = "BACKTRACK" -> cache[a] - Balance!BlockDelta(u.block, a)
                      [] OTHER -> cache[a]
    BY <1>1 DEF Balance!Updated
  <2>3. CASE u.class = "NEWBLOCK"
    <3>1. /\ u.block \in Block /\ PrevBlock[u.block] = clientTip[me]
          /\ clientTip'[me] = u.block
      BY <1>3, <2>3 DEF Updates, Follows, After
    <3>2. cache'[a] = cache[a] + Balance!BlockDelta(u.block, a)
      BY <2>2, <2>3
    <3> QED
      BY <2>1, <3>1, <3>2, DeltaIsBlocks, BalancesInt
  <2>4. CASE u.class = "BACKTRACK"
    <3>1. /\ u.block \in Block /\ u.block = clientTip[me]
          /\ clientTip'[me] = PrevBlock[u.block] /\ PrevBlock[u.block] \in Point
      BY <1>3, <2>4, TreeAssumption DEF Updates, Follows, After
    <3>2. cache'[a] = cache[a] - Balance!BlockDelta(u.block, a)
      BY <2>2, <2>4
    <3>3. BalanceOf(UtxoAt[PrevBlock[u.block]], a) \in Int
      BY <2>1, <3>1, BalancesInt
    <3> QED
      BY <2>1, <3>1, <3>2, <3>3, DeltaIsBlocks, BalancesInt
  <2>5. CASE u.class \notin {"NEWBLOCK", "BACKTRACK"}
    <3>1. clientTip'[me] = clientTip[me]
      BY <1>3, <2>5 DEF After
    <3>2. cache'[a] = cache[a]
      BY <2>2, <2>5
    <3> QED
      BY <2>1, <3>1, <3>2
  <2> QED
    BY <2>3, <2>4, <2>5
<1>6. BalanceInv'
  BY <1>2, <1>4, <1>5 DEF BalanceInv
<1>7. Drift
  BY <1>4, <1>5 DEF Drift
<1> QED
  BY <1>6, <1>7

\* An answer is the manager's own, for an address that the cache has not.
LEMMA AnswerDrifts ==
    ASSUME FeedInv, BalanceInv, Balance!Me \in Client, Balance!Answer
    PROVE  BalanceInv' /\ Drift
<1> DEFINE value == BalanceOf(UtxoAt[tip], asking)
<1>1. /\ asking \in Address /\ asking \notin DOMAIN cache
      /\ cache' \in Balance!Stored(asking, value)
      /\ asking' = Nobody /\ clientTip' = clientTip
  BY DEF Balance!Answer, BalanceInv, Balance!feedVars
<1>2. value \in Int
  BY <1>1, BalancesInt DEF FeedInv, FeedTypeInv
<1>3. PICK D \in SUBSET DOMAIN cache :
          cache' = [x \in D \cup {asking} |-> IF x = asking THEN value ELSE cache[x]]
  <2>1. \E room \in SUBSET SUBSET DOMAIN cache :
           cache' \in {[x \in E \cup {asking} |-> IF x = asking THEN value ELSE cache[x]]
                           : E \in room}
    BY <1>1 DEF Balance!Stored
  <2> QED
    BY <2>1
<1> HIDE DEF value
<1>4. /\ DOMAIN cache' = D \cup {asking} /\ cache'[asking] = value
      /\ \A a \in D : cache'[a] = cache[a]
  BY <1>1, <1>3
<1>5. DOMAIN cache' \subseteq Address /\ \A a \in DOMAIN cache' : cache'[a] \in Int
  BY <1>1, <1>2, <1>4 DEF BalanceInv
<1>6. BalanceInv'
  BY <1>1, <1>5, ServicesAssumption DEF BalanceInv
<1>7. Drift
  <2> SUFFICES ASSUME NEW a \in DOMAIN cache'
               PROVE  cache'[a] = IF a \in DOMAIN cache THEN cache[a]
                                  ELSE BalanceOf(UtxoAt[tip], a)
    BY <1>1 DEF Drift
  <2> QED
    BY <1>1, <1>4 DEF value
<1> QED
  BY <1>6, <1>7

LEMMA BalanceKept ==
    ASSUME BalanceInv, UNCHANGED cache, asking' = asking \/ asking' \in Address \ DOMAIN cache,
           Balance!Me \in Client => clientTip'[Balance!Me] = clientTip[Balance!Me]
    PROVE  BalanceInv' /\ Drift
BY DEF BalanceInv, Drift

LEMMA BalanceInvStep ==
    ASSUME FeedInv, BalanceInv, ModeInv, [Next]_vars
    PROVE  BalanceInv' /\ Drift
<1>1. CASE Manager /\ UNCHANGED serviceVars
  BY <1>1, ManagerTips, BalanceKept DEF serviceVars, balanceVars
<1>2. CASE RecentStep
  BY <1>2, RecentTakes, OtherTips, BalanceKept, Names DEF RecentStep, balanceVars
<1>3. CASE HeightStep
  BY <1>3, HeightTakes, OtherTips, BalanceKept, Names DEF HeightStep, balanceVars
<1>4. CASE BalanceStep
  <2>1. CASE Balance!TakeUpdate
    BY <1>4, <2>1, TakeDrifts DEF BalanceStep
  <2>2. CASE Balance!Answer
    BY <1>4, <2>2, AnswerDrifts DEF BalanceStep
  <2>3. CASE (\E a \in Address : Balance!Miss(a)) \/ Balance!Stop
    <3>1. UNCHANGED <<cache, clientTip>>
      BY <2>3 DEF Balance!Miss, Balance!Stop, Balance!feedVars
    <3>2. asking' = asking \/ asking' \in Address \ DOMAIN cache
      BY <2>3 DEF Balance!Miss, Balance!Stop
    <3> QED
      BY <3>1, <3>2, BalanceKept
  <2> QED
    BY <1>4, <2>1, <2>2, <2>3 DEF BalanceStep, Balance!Next
<1>5. CASE UNCHANGED vars
  BY <1>5, BalanceKept DEF vars, feedVars, serviceVars, balanceVars
<1> QED
  BY <1>1, <1>2, <1>3, <1>4, <1>5 DEF Next

-----------------------------------------------------------------------------
Inv == FeedInv /\ HeightInv /\ WindowInv /\ ModeInv /\ BalanceInv

LEMMA InitInv == Init => Inv
<1> SUFFICES ASSUME Init PROVE Inv
  OBVIOUS
<1>1. FeedInv /\ subscribers = Client
  BY InitFeed DEF Init, FeedInit
<1>2. HeightInv
  BY DEF Init, Height!Init, HeightInv, HeightFollows, Height!HeightFollows
<1>3. WindowInv
  <2>1. blocks = <<>> /\ <<>> \in Seq(Block) /\ Len(<<>>) <= Size
    BY ServicesAssumption DEF Init, Recent!Init, Recent!QueueInit
  <2> QED
    BY <1>1, <2>1 DEF WindowInv, Window
<1>4. ModeInv
  <2>1. outgoing = <<>> /\ channel = [c \in Client |-> <<>>] /\ subscribers = Client
    BY DEF Init, FeedInit
  <2>2. announced = FALSE /\ proxyMode = FALSE
    BY DEF Init, FeedInit, Balance!Init
  <2>3. \A c \in Client : Rest(c) = <<>> /\ channel[c] = <<>>
    BY <2>1 DEF Rest
  <2>4. Balance!Me \in Client
            => ~On(Rest(Balance!Me), On(channel[Balance!Me], proxyMode))
    BY <2>2, <2>3, OnEmpty
  <2> QED
    BY <2>1, <2>2, <2>4 DEF ModeInv
<1>5. BalanceInv
  <2>1. cache = << >> /\ asking = Nobody /\ DOMAIN << >> = {}
    BY DEF Init, Balance!Init
  <2> QED
    BY <2>1 DEF BalanceInv
<1> QED
  BY <1>1, <1>2, <1>3, <1>4, <1>5 DEF Inv

LEMMA InvStep == Inv /\ [Next]_vars => Inv' /\ Drift
BY FeedStep, HeightInvStep, WindowInvStep, ModeInvStep, BalanceInvStep DEF Inv

LEMMA Invariant == Spec => []Inv
BY InitInv, InvStep, PTL DEF Spec

\* height.go: the height that the API answers with is that of the block the
\* updates taken so far lead to, and zero before the first one.
THEOREM ServicesHeight == Spec => []HeightFollows
BY Invariant, PTL DEF Inv, HeightInv

\* recent_tx.go: the window has at most Size blocks and is a piece of the
\* manager's chain that ends with the block the updates lead to.
THEOREM ServicesWindow == Spec => []WindowFollows
<1>1. Inv => WindowFollows
  <2> SUFFICES ASSUME Inv PROVE WindowFollows
    OBVIOUS
  <2>1. CASE Recent!Me \in Client
    BY <2>1 DEF Inv, WindowInv, Window, WindowFollows, Recent!WindowFollows, Recent!Last, Last
  <2>2. CASE Recent!Me \notin Client
    <3>1. blocks = <<>> /\ Len(<<>>) <= Size
      BY <2>2, ServicesAssumption DEF Inv, WindowInv
    <3> QED
      BY <3>1 DEF WindowFollows, Recent!WindowFollows
  <2> QED
    BY <2>1, <2>2
<1> QED
  BY <1>1, Invariant, PTL

\* balance.go, where the balance service runs: when it has taken all updates,
\* it is in proxy mode exactly if a commit was announced and not reported done.
THEOREM ServicesProxyMode ==
    ASSUME Balance!Me \in Client
    PROVE  Spec => []ProxyWhileAnnounced
<1>1. Inv => ProxyWhileAnnounced
  <2> SUFFICES ASSUME Inv, channel[Balance!Me] = <<>>, outgoing = <<>>
               PROVE  proxyMode <=> announced
    BY DEF ProxyWhileAnnounced, Balance!ProxyWhileAnnounced
  <2>1. announced <=> On(<<>>, On(<<>>, proxyMode))
    BY DEF Inv, ModeInv, Rest
  <2> QED
    BY <2>1, OnEmpty
<1> QED
  BY <1>1, Invariant, PTL

\* cache.go: however often blocks come and go, a cached balance stays off by
\* what was in the channel when it was fetched, and by nothing else.
THEOREM ServicesBalanceDrift == Spec => BalanceDrift
<1>1. Inv /\ [Next]_vars
         => [Drift]_<<Balance!feedVars, Balance!cacheVars>>
  BY InvStep
<1>2. Spec => [][Drift]_<<Balance!feedVars, Balance!cacheVars>>
  BY <1>1, Invariant, PTL DEF Spec
<1> QED
  BY <1>2 DEF Drift, BalanceDrift, Balance!BalanceDrift

-----------------------------------------------------------------------------
\* The entries of the newest blocks, which a backtrack can lose.

\* The first elements of two sequences joined are those of the first one.
LEMMA DropSome ==
    ASSUME NEW X, NEW p \in Seq(X), NEW q \in Seq(X), NEW k \in 0..Len(p)
    PROVE  SubSeq(p \o q, k + 1, Len(p \o q)) = SubSeq(p, k + 1, Len(p)) \o q
<1> DEFINE s == p \o q
           n == Len(p)
           y == SubSeq(p, k + 1, n)
           z == y \o q
<1>1. /\ s \in Seq(X) /\ Len(s) = n + Len(q) /\ n \in Nat /\ Len(q) \in Nat /\ k \in 0..n
      /\ \A i \in 1..n + Len(q) : s[i] = IF i <= n THEN p[i] ELSE q[i - n]
  BY ConcatProperties, LenProperties
<1>2. y \in Seq(X) /\ Len(y) = n - k /\ \A i \in 1..n - k : y[i] = p[k + i]
  BY Dropped
<1> HIDE DEF s, n, y
<1>3. /\ z \in Seq(X) /\ Len(z) = Len(y) + Len(q)
      /\ \A i \in 1..Len(y) + Len(q) : z[i] = IF i <= Len(y) THEN y[i] ELSE q[i - Len(y)]
  BY <1>2, ConcatProperties
<1>4. k \in 0..Len(s)
  BY <1>1
<1> DEFINE x == SubSeq(s, k + 1, Len(s))
<1>5. x \in Seq(X) /\ Len(x) = Len(s) - k /\ \A i \in 1..Len(s) - k : x[i] = s[k + i]
  BY <1>1, <1>4, Dropped
<1> HIDE DEF x, z
<1>6. Len(x) = Len(z)
  BY <1>1, <1>2, <1>3, <1>5
<1>7. ASSUME NEW i \in 1..Len(x) PROVE x[i] = z[i]
  <2>1. i \in 1..Len(s) - k /\ k + i \in 1..n + Len(q) /\ i \in 1..Len(y) + Len(q)
    BY <1>1, <1>2, <1>5
  <2>2. CASE i <= n - k
    <3>1. i \in 1..n - k /\ k + i <= n /\ i <= Len(y)
      BY <1>1, <1>2, <2>1, <2>2
    <3> QED
      BY <1>1, <1>2, <1>3, <1>5, <2>1, <3>1
  <2>3. CASE ~(i <= n - k)
    <3>1. ~(k + i <= n) /\ ~(i <= Len(y)) /\ (k + i) - n = i - Len(y)
      BY <1>1, <1>2, <2>1, <2>3
    <3> QED
      BY <1>1, <1>3, <1>5, <2>1, <3>1
  <2> QED
    BY <2>2, <2>3
<1>8. x = z
  BY <1>3, <1>5, <1>6, <1>7, SeqEqual
<1> QED
  BY <1>8 DEF x, z, y, n, s

\* Two sequences joined, when the first one loses its head.
LEMMA HeadTailConcat ==
    ASSUME NEW X, NEW p \in Seq(X), NEW q \in Seq(X), p # <<>>
    PROVE  Head(p \o q) = Head(p) /\ Tail(p \o q) = Tail(p) \o q
<1> DEFINE s == p \o q
           n == Len(p)
           y == Tail(p)
           z == y \o q
           x == Tail(s)
<1>1. /\ s \in Seq(X) /\ Len(s) = n + Len(q) /\ n \in Nat \ {0} /\ Len(q) \in Nat
      /\ \A i \in 1..n + Len(q) : s[i] = IF i <= n THEN p[i] ELSE q[i - n]
  BY ConcatProperties, LenProperties, EmptySeq
<1>2. y \in Seq(X) /\ Len(y) = n - 1 /\ \A i \in 1..Len(y) : y[i] = p[i + 1]
  BY HeadTailProperties
<1> HIDE DEF s, n, y
<1>3. /\ z \in Seq(X) /\ Len(z) = Len(y) + Len(q)
      /\ \A i \in 1..Len(y) + Len(q) : z[i] = IF i <= Len(y) THEN y[i] ELSE q[i - Len(y)]
  BY <1>2, ConcatProperties
<1>4. s # <<>>
  BY <1>1, EmptySeq
<1>5. x \in Seq(X) /\ Len(x) = Len(s) - 1 /\ \A i \in 1..Len(x) : x[i] = s[i + 1]
  BY <1>1, <1>4, HeadTailProperties
<1>6. Head(s) = Head(p)
  <2>1. s[1] = p[1]
    BY <1>1
  <2> QED
    BY <2>1
<1> HIDE DEF x, z
<1>7. Len(x) = Len(z)
  BY <1>1, <1>2, <1>3, <1>5
<1>8. ASSUME NEW i \in 1..Len(x) PROVE x[i] = z[i]
  <2>1. i + 1 \in 1..n + Len(q) /\ i \in 1..Len(y) + Len(q)
    BY <1>1, <1>2, <1>5
  <2>2. CASE i <= n - 1
    <3>1. i \in 1..Len(y) /\ i + 1 <= n /\ i <= Len(y)
      BY <1>1, <1>2, <2>1, <2>2
    <3> QED
      BY <1>1, <1>2, <1>3, <1>5, <2>1, <3>1
  <2>3. CASE ~(i <= n - 1)
    <3>1. ~(i + 1 <= n) /\ ~(i <= Len(y)) /\ (i + 1) - n = i - Len(y)
      BY <1>1, <1>2, <2>1, <2>3
    <3> QED
      BY <1>1, <1>3, <1>5, <2>1, <3>1
  <2> QED
    BY <2>2, <2>3
<1>9. x = z
  BY <1>3, <1>5, <1>7, <1>8, SeqEqual
<1> QED
  BY <1>6, <1>9 DEF x, z, y, s

\* The entries of an address, where p is what the older blocks of the window
\* have of it, and q what the newer ones have: as many as are due, and the last
\* of them right.
Split(s, p, q) == \E old \in Seq(TxHash) : Len(old) = Len(p) /\ s = old \o q

\* The window and the entries, where the last n blocks are the newer ones.
EntriesOf(w, entries, n) ==
    /\ entries \in [Address -> Seq(TxHash)]
    /\ \E o, m \in Seq(Block) :
          /\ w = o \o m /\ Len(m) = n
          /\ \A a \in Address :
                Split(entries[a], FlatOver(Hits(a), o), FlatOver(Hits(a), m))

\* When all of them are older ones nothing but their number is known.
LEMMA EntriesCount ==
    ASSUME NEW w, NEW entries
    PROVE  /\ \A n : EntriesOf(w, entries, n) => w \in Seq(Block) /\ CountsOf(w, entries)
           /\ w \in Seq(Block) /\ CountsOf(w, entries) => EntriesOf(w, entries, 0)
<1>1. ASSUME NEW n, EntriesOf(w, entries, n) PROVE w \in Seq(Block) /\ CountsOf(w, entries)
  <2>1. PICK o \in Seq(Block), m \in Seq(Block) :
            /\ w = o \o m /\ Len(m) = n
            /\ \A a \in Address :
                  Split(entries[a], FlatOver(Hits(a), o), FlatOver(Hits(a), m))
    BY <1>1 DEF EntriesOf
  <2>2. w \in Seq(Block)
    BY <2>1, ConcatProperties
  <2>3. ASSUME NEW a \in Address PROVE Len(entries[a]) = Len(FlatOver(Hits(a), w))
    <3> DEFINE h == Hits(a)
               p == FlatOver(h, o)
               q == FlatOver(h, m)
    <3>1. h \in Maps(Block, Seq(TxHash))
      BY HitsMap
    <3>2. Split(entries[a], p, q)
      BY <2>1
    <3> HIDE DEF h
    <3>3. FlatOver(h, o \o m) = p \o q /\ p \in Seq(TxHash) /\ q \in Seq(TxHash)
      BY <3>1, FlatConcat, FlatType
    <3> HIDE DEF p, q
    <3>4. PICK old \in Seq(TxHash) : Len(old) = Len(p) /\ entries[a] = old \o q
      BY <3>2 DEF Split
    <3>5. Len(old \o q) = Len(old) + Len(q) /\ Len(p \o q) = Len(p) + Len(q)
      BY <3>3, ConcatProperties
    <3>6. Len(entries[a]) = Len(p \o q)
      BY <3>4, <3>5
    <3> QED
      BY <2>1, <3>3, <3>6 DEF h
  <2> QED
    BY <1>1, <2>2, <2>3 DEF EntriesOf, CountsOf
<1>2. ASSUME w \in Seq(Block), CountsOf(w, entries) PROVE EntriesOf(w, entries, 0)
  <2> DEFINE e == <<>>
  <2>1. e \in Seq(Block) /\ Len(e) = 0 /\ w = w \o e
    BY <1>2, ConcatEmptySeq, EmptySeq
  <2>2. ASSUME NEW a \in Address
        PROVE  Split(entries[a], FlatOver(Hits(a), w), FlatOver(Hits(a), e))
    <3>1. FlatOver(Hits(a), e) = <<>>
      BY OverEmpty
    <3>2. entries[a] \in Seq(TxHash) /\ Len(entries[a]) = Len(FlatOver(Hits(a), w))
      BY <1>2 DEF CountsOf
    <3>3. entries[a] = entries[a] \o <<>>
      BY <3>2, ConcatEmptySeq
    <3> QED
      BY <3>1, <3>2, <3>3 DEF Split
  <2> HIDE DEF e
  <2> QED
    BY <1>2, <2>1, <2>2 DEF EntriesOf, CountsOf
<1> QED
  BY <1>1, <1>2

\* A new block is one more of the newer ones.
LEMMA EntriesPush ==
    ASSUME NEW w, NEW entries, NEW n \in Nat, EntriesOf(w, entries, n), NEW b \in Block
    PROVE  EntriesOf(Append(w, b), EntriesWith(entries, b), n + 1)
<1> DEFINE f == EntriesWith(entries, b)
<1>1. PICK o \in Seq(Block), m \in Seq(Block) :
          /\ w = o \o m /\ Len(m) = n
          /\ \A a \in Address :
                Split(entries[a], FlatOver(Hits(a), o), FlatOver(Hits(a), m))
  BY DEF EntriesOf
<1> DEFINE r == Append(m, b)
<1>2. r \in Seq(Block) /\ Len(r) = n + 1 /\ Append(w, b) = o \o r
  <2>1. r \in Seq(Block) /\ Len(r) = Len(m) + 1
    BY AppendProperties
  <2>2. Append(o \o m, b) = o \o Append(m, b)
    OBVIOUS
  <2> QED
    BY <1>1, <2>1, <2>2
<1>3. f \in [Address -> Seq(TxHash)]
  <2>1. CountsOf(w, entries) /\ w \in Seq(Block)
    BY EntriesCount
  <2>2. Grown(Block, w, b, Append(w, b))
    BY <2>1, GrownPush
  <2>3. CountsOf(Append(w, b), f)
    BY <2>1, <2>2, CountsGrow
  <2> QED
    BY <2>3 DEF CountsOf
<1>4. ASSUME NEW a \in Address
      PROVE  Split(f[a], FlatOver(Hits(a), o), FlatOver(Hits(a), r))
  <2> DEFINE h == Hits(a)
             q == FlatOver(h, m)
             t == h[b]
  <2>1. h \in Maps(Block, Seq(TxHash)) /\ h[b] = Touching(b, a)
    BY HitsMap DEF Hits
  <2>2. PICK old \in Seq(TxHash) : Len(old) = Len(FlatOver(h, o)) /\ entries[a] = old \o q
    BY <1>1 DEF Split
  <2> HIDE DEF h
  <2>3. FlatOver(h, r) = q \o t /\ q \in Seq(TxHash) /\ t \in Seq(TxHash)
    <3>1. FlatOver(h, m) \in Seq(TxHash) /\ FlatOver(h, Append(m, b)) = FlatOver(h, m) \o h[b]
      <4>1. h \in Maps(Block, Seq(TxHash)) /\ m \in Seq(Block) /\ b \in Block
        BY <2>1
      <4>2. FlatOver(h, m) \in Seq(TxHash)
        BY <4>1, FlatType
      <4>3. FlatOver(h, Append(m, b)) = FlatOver(h, m) \o h[b]
        BY <4>1, FlatAppend
      <4> QED
        BY <4>2, <4>3
    <3>2. h[b] \in Seq(TxHash)
      BY <2>1, MapsValue
    <3> QED
      BY <3>1, <3>2
  <2>4. f[a] = entries[a] \o t
    BY <2>1 DEF EntriesWith
  <2> HIDE DEF q, t, f, r
  <2>5. (old \o q) \o t = old \o (q \o t)
    <3>1. old \in Seq(TxHash) /\ q \in Seq(TxHash) /\ t \in Seq(TxHash)
      BY <2>2, <2>3
    <3> QED
      BY <3>1, ConcatAssociative, SMTT(60)
  <2>6. f[a] = old \o FlatOver(h, r)
    BY <2>2, <2>3, <2>4, <2>5
  <2> QED
    BY <2>2, <2>6 DEF Split, h
<1> HIDE DEF f, r
<1>5. EntriesOf(Append(w, b), f, n + 1)
  BY <1>2, <1>3, <1>4 DEF EntriesOf
<1> QED
  BY <1>5 DEF f

\* One taken off the front is the first of the older ones, if there are any.
LEMMA EntriesPop ==
    ASSUME NEW w, NEW entries, NEW n \in Nat, EntriesOf(w, entries, n), w # <<>>
    PROVE  EntriesOf(Tail(w), EntriesWithout(entries, Head(w)),
                     IF n = Len(w) THEN n - 1 ELSE n)
<1> DEFINE f == EntriesWithout(entries, Head(w))
           b == Head(w)
<1>1. PICK o \in Seq(Block), m \in Seq(Block) :
          /\ w = o \o m /\ Len(m) = n
          /\ \A a \in Address :
                Split(entries[a], FlatOver(Hits(a), o), FlatOver(Hits(a), m))
  BY DEF EntriesOf
<1>2. CountsOf(w, entries) /\ w \in Seq(Block)
  BY EntriesCount
<1>3. f \in [Address -> Seq(TxHash)]
  <2>1. Grown(Block, Tail(w), b, w)
    BY <1>2, GrownPop
  <2>2. CountsOf(Tail(w), f)
    BY <1>2, <2>1, CountsGrow
  <2> QED
    BY <2>2 DEF CountsOf
<1>4. ASSUME NEW a \in Address
      PROVE  f[a] = SubSeq(entries[a], Len(Hits(a)[b]) + 1, Len(entries[a]))
  <2>1. b \in Block
    BY <1>2, Ends
  <2>2. Hits(a)[b] = Touching(b, a)
    BY <2>1 DEF Hits
  <2> QED
    BY <2>2 DEF EntriesWithout
<1> HIDE DEF f, b
<1>5. CASE o = <<>>
  <2>1. w = m
    BY <1>1, <1>5, ConcatEmptySeq
  <2>2. b \in Block /\ Tail(w) \in Seq(Block) /\ Len(Tail(w)) = n - 1 /\ b = Head(m)
    BY <1>1, <1>2, <2>1, HeadTailProperties DEF b
  <2>3. ASSUME NEW a \in Address
        PROVE  Split(f[a], FlatOver(Hits(a), o), FlatOver(Hits(a), Tail(w)))
    <3> DEFINE h == Hits(a)
               p == h[b]
               q == FlatOver(h, Tail(w))
    <3>1. h \in Maps(Block, Seq(TxHash))
      BY HitsMap
    <3>2. FlatOver(h, o) = <<>>
      BY <1>5, OverEmpty
    <3>3. PICK old \in Seq(TxHash) :
              Len(old) = Len(FlatOver(h, o)) /\ entries[a] = old \o FlatOver(h, m)
      BY <1>1 DEF Split
    <3>4. old = <<>>
      BY <3>2, <3>3, EmptySeq
    <3> HIDE DEF h
    <3>5. FlatOver(h, m) = h[Head(m)] \o FlatOver(h, Tail(m))
      BY <2>1, <3>1, FlatEnds
    <3>6. p \in Seq(TxHash)
      BY <2>2, <3>1, MapsValue
    <3>7. q \in Seq(TxHash)
      BY <2>2, <3>1, FlatType
    <3>8. FlatOver(h, m) = p \o q
      BY <2>1, <2>2, <3>5
    <3>9. f[a] = SubSeq(entries[a], Len(p) + 1, Len(entries[a]))
      BY <1>4 DEF h
    <3> HIDE DEF p, q
    <3>10. p \o q \in Seq(TxHash)
      BY <3>6, <3>7, ConcatProperties
    <3> DEFINE x == p \o q
    <3>11. entries[a] = x
      <4>1. x \in Seq(TxHash) /\ entries[a] = old \o x
        BY <3>3, <3>8, <3>10
      <4> HIDE DEF x
      <4> QED
        BY <3>4, <4>1, ConcatEmptySeq
    <3>12. SubSeq(x, Len(p) + 1, Len(x)) = q
      BY <3>6, <3>7, DropFirst
    <3> HIDE DEF x
    <3>13. f[a] = q
      BY <3>9, <3>11, <3>12
    <3>14. <<>> \in Seq(TxHash) /\ Len(<<>>) = Len(FlatOver(h, o)) /\ q = <<>> \o q
      BY <3>2, <3>7, ConcatEmptySeq, EmptySeq
    <3>15. Split(f[a], FlatOver(h, o), q)
      BY <3>13, <3>14 DEF Split
    <3> QED
      BY <3>15 DEF h, q
  <2>4. Tail(w) = o \o Tail(w)
    BY <1>5, <2>2, ConcatEmptySeq
  <2>5. EntriesOf(Tail(w), f, n - 1)
    BY <1>3, <2>2, <2>3, <2>4 DEF EntriesOf
  <2>6. n = Len(w)
    BY <1>1, <2>1
  <2> QED
    BY <2>5, <2>6 DEF f, b
<1>6. CASE o # <<>>
  <2> DEFINE t == Tail(o)
  <2>1. /\ Head(o) \in Block /\ t \in Seq(Block) /\ Len(o) \in Nat \ {0}
    BY <1>6, HeadTailProperties, EmptySeq
  <2>2. b = Head(o) /\ Tail(w) = t \o m
    <3>1. Head(o \o m) = Head(o) /\ Tail(o \o m) = Tail(o) \o m
      BY <1>6, HeadTailConcat
    <3> QED
      BY <1>1, <3>1 DEF b
  <2>3. n # Len(w)
    <3>1. Len(w) = Len(o) + Len(m)
      BY <1>1, ConcatProperties
    <3> QED
      BY <1>1, <2>1, <3>1
  <2>4. ASSUME NEW a \in Address
        PROVE  Split(f[a], FlatOver(Hits(a), t), FlatOver(Hits(a), m))
    <3> DEFINE h == Hits(a)
               k == Len(h[b])
               q == FlatOver(h, m)
    <3>1. h \in Maps(Block, Seq(TxHash))
      BY HitsMap
    <3>2. PICK old \in Seq(TxHash) : Len(old) = Len(FlatOver(h, o)) /\ entries[a] = old \o q
      BY <1>1 DEF Split
    <3>3. f[a] = SubSeq(entries[a], k + 1, Len(entries[a]))
      BY <1>4
    <3> HIDE DEF h
    <3>4. Grown(Block, t, b, o)
      BY <1>6, <2>2, GrownPop
    <3>5. /\ Len(FlatOver(h, t)) \in Nat /\ k \in Nat
          /\ Len(FlatOver(h, o)) = Len(FlatOver(h, t)) + k
      BY <3>1, <3>4, GrownLen
    <3>6. q \in Seq(TxHash)
      BY <3>1, FlatType
    <3> HIDE DEF q, k, t
    <3>7. k \in 0..Len(old) /\ Len(old) - k = Len(FlatOver(h, t))
      BY <3>2, <3>5
    <3> DEFINE rest == SubSeq(old, k + 1, Len(old))
    <3>8. rest \in Seq(TxHash) /\ Len(rest) = Len(FlatOver(h, t))
      BY <3>7, Dropped
    <3>9. SubSeq(old \o q, k + 1, Len(old \o q)) = rest \o q
      BY <3>6, <3>7, DropSome
    <3>10. f[a] = rest \o q
      BY <3>2, <3>3, <3>9
    <3> HIDE DEF rest
    <3>11. Split(f[a], FlatOver(h, t), q)
      BY <3>8, <3>10 DEF Split
    <3> QED
      BY <3>11 DEF h, q
  <2> HIDE DEF t
  <2>5. EntriesOf(Tail(w), f, n)
    BY <1>1, <1>3, <2>1, <2>2, <2>4 DEF EntriesOf
  <2> QED
    BY <2>3, <2>5 DEF f, b
<1> QED
  BY <1>5, <1>6

\* What the service does to its queue is what the queue's own operators say.
LEMMA RecentNames ==
    /\ \A s : Recent!FlattenSeq(s) = FlattenSeq(s)
    /\ \A b, a : Recent!Touching(b, a) = Touching(b, a)
    /\ \A e, b : /\ Recent!EntriesWith(e, b) = EntriesWith(e, b)
                 /\ Recent!EntriesWithout(e, b) = EntriesWithout(e, b)
    /\ \A s : Recent!Front(s) = Front(s) /\ Recent!Last(s) = Last(s)
<1>1. \A s : Recent!FlattenSeq(s) = FlattenSeq(s)
  BY DEF Recent!FlattenSeq, FlattenSeq
<1>2. \A b, a : Recent!Touching(b, a) = Touching(b, a)
  BY <1>1 DEF Recent!Touching, Touching, Recent!EntryOf, EntryOf
<1>3. \A e, b : /\ Recent!EntriesWith(e, b) = EntriesWith(e, b)
               /\ Recent!EntriesWithout(e, b) = EntriesWithout(e, b)
  BY <1>2 DEF Recent!EntriesWith, EntriesWith, Recent!EntriesWithout, EntriesWithout
<1>4. \A s : Recent!Front(s) = Front(s) /\ Recent!Last(s) = Last(s)
  BY DEF Recent!Front, Front, Recent!Last, Last
<1> QED
  BY <1>1, <1>2, <1>3, <1>4

\* The newest n blocks of a queue are at most all of them.
LEMMA EntriesFit ==
    ASSUME NEW w, NEW entries, NEW n, EntriesOf(w, entries, n)
    PROVE  n \in 0..Len(w) /\ Len(w) \in Nat
<1>1. PICK o \in Seq(Block), m \in Seq(Block) : w = o \o m /\ Len(m) = n
  BY DEF EntriesOf
<1>2. Len(o \o m) = Len(o) + Len(m) /\ Len(o) \in Nat /\ Len(m) \in Nat
  BY ConcatProperties, LenProperties
<1>3. Len(w) = Len(o) + n /\ Len(o) \in Nat /\ n \in Nat
  BY <1>1, <1>2
<1> QED
  BY <1>3

\* The blocks pushed since the last backtrack have their entries, at the end.
EntriesInv ==
    /\ fresh \in 0..Size
    /\ EntriesOf(blocks, addrTx, fresh)

\* What the recent transactions do to their queue keeps it.
LEMMA EntriesKept ==
    ASSUME EntriesInv, UNCHANGED <<blocks, addrTx, fresh>>
    PROVE  EntriesInv'
BY DEF EntriesInv

LEMMA NewBlockEntries ==
    ASSUME EntriesInv, Len(blocks) <= Size, NEW b \in Block, Recent!NewBlock(b),
           fresh' = IF fresh < Size THEN fresh + 1 ELSE fresh
    PROVE  EntriesInv'
<1> DEFINE w == Append(blocks, b)
           e == EntriesWith(addrTx, b)
           n == fresh + 1
<1>1. /\ fresh \in 0..Size /\ fresh \in 0..Len(blocks) /\ Len(blocks) \in Nat /\ Size \in Nat
      /\ EntriesOf(blocks, addrTx, fresh) /\ blocks \in Seq(Block)
  BY ServicesAssumption, EntriesFit, EntriesCount DEF EntriesInv
<1>2. EntriesOf(w, e, n)
  <2>1. fresh \in Nat
    BY <1>1
  <2> QED
    BY <1>1, <2>1, EntriesPush
<1>3. Len(w) = Len(blocks) + 1 /\ w # <<>>
  BY <1>1, AppendProperties
<1>4. n \in Nat
  BY <1>1
<1>5. /\ Len(w) > Size => /\ blocks' = Tail(w)
                          /\ addrTx' = EntriesWithout(e, Head(w))
      /\ ~(Len(w) > Size) => blocks' = w /\ addrTx' = e
  BY RecentNames DEF Recent!NewBlock, Recent!OverSize
<1> HIDE DEF w, e
<1>6. CASE Len(w) > Size
  <2>1. EntriesOf(blocks', addrTx', IF n = Len(w) THEN n - 1 ELSE n)
    <3> HIDE DEF n
    <3> QED
      BY <1>2, <1>3, <1>4, <1>5, <1>6, EntriesPop
  <2>2. (IF n = Len(w) THEN n - 1 ELSE n) = fresh' /\ fresh' \in 0..Size
    BY <1>1, <1>3, <1>6
  <2> QED
    BY <2>1, <2>2 DEF EntriesInv
<1>7. CASE ~(Len(w) > Size)
  <2>1. EntriesOf(blocks', addrTx', n)
    BY <1>2, <1>5, <1>7
  <2>2. n = fresh' /\ fresh' \in 0..Size
    BY <1>1, <1>3, <1>7
  <2> QED
    BY <2>1, <2>2 DEF EntriesInv
<1> QED
  BY <1>6, <1>7

LEMMA BacktrackEntries ==
    ASSUME EntriesInv, Recent!Backtrack, fresh' = 0
    PROVE  EntriesInv'
<1>1. blocks \in Seq(Block) /\ CountsOf(blocks, addrTx) /\ Size \in Nat
  BY ServicesAssumption, EntriesCount DEF EntriesInv
<1>2. CASE blocks = <<>>
  <2>1. blocks' = blocks /\ addrTx' = addrTx
    BY <1>2 DEF Recent!Backtrack, Recent!queueVars
  <2> QED
    BY <1>1, <2>1, EntriesCount DEF EntriesInv
<1>3. CASE blocks # <<>>
  <2>1. blocks' = Front(blocks) /\ addrTx' = EntriesWithout(addrTx, Last(blocks))
    BY <1>3, RecentNames
    DEF Recent!Backtrack, Recent!PopBack, Recent!DelAddresses
  <2>2. Grown(Block, Front(blocks), Last(blocks), blocks)
    BY <1>1, <1>3, GrownPop
  <2>3. blocks' \in Seq(Block) /\ CountsOf(blocks', addrTx')
    BY <1>1, <2>1, <2>2, CountsGrow DEF Grown
  <2> QED
    BY <1>1, <2>3, EntriesCount DEF EntriesInv
<1> QED
  BY <1>2, <1>3

LEMMA EntriesInvStep ==
    ASSUME WindowInv, EntriesInv, [Next]_vars
    PROVE  EntriesInv'
<1>1. CASE (Manager /\ UNCHANGED serviceVars) \/ BalanceStep \/ HeightStep \/ UNCHANGED vars
  BY <1>1, EntriesKept DEF BalanceStep, HeightStep, serviceVars, recentVars, queueVars, vars
<1>2. CASE RecentStep
  <2>1. CASE Recent!TakeUpdate
    <3>1. PICK u \in Updates :
              CASE u.class = "NEWBLOCK" ->
                      /\ Recent!NewBlock(u.block)
                      /\ fresh' = IF fresh < Size THEN fresh + 1 ELSE fresh
                [] u.class = "BACKTRACK" -> Recent!Backtrack /\ fresh' = 0
                [] OTHER -> UNCHANGED <<Recent!queueVars, fresh>>
      BY <2>1, RecentFeed DEF Recent!TakeUpdate
    <3>2. CASE u.class = "NEWBLOCK"
      <4>1. u.block \in Block
        BY <3>2 DEF Updates
      <4>2. Recent!NewBlock(u.block) /\ fresh' = IF fresh < Size THEN fresh + 1 ELSE fresh
        BY <3>1, <3>2
      <4>3. Len(blocks) <= Size
        BY <1>2 DEF RecentStep, WindowInv, Window
      <4> QED
        BY <4>1, <4>2, <4>3, NewBlockEntries
    <3>3. CASE u.class = "BACKTRACK"
      <4>1. Recent!Backtrack /\ fresh' = 0
        BY <3>1, <3>3
      <4> QED
        BY <4>1, BacktrackEntries
    <3>4. CASE u.class \notin {"NEWBLOCK", "BACKTRACK"}
      BY <3>1, <3>4, EntriesKept DEF Recent!queueVars
    <3> QED
      BY <3>2, <3>3, <3>4
  <2>2. CASE Recent!Stop
    BY <2>2, EntriesKept DEF Recent!Stop, Recent!queueVars
  <2> QED
    BY <1>2, <2>1, <2>2 DEF RecentStep, Recent!Next
<1> QED
  BY <1>1, <1>2 DEF Next

LEMMA EntriesInit == Init => EntriesInv
<1> SUFFICES ASSUME Init PROVE EntriesInv
  OBVIOUS
<1>1. blocks = <<>> /\ addrTx = [a \in Address |-> <<>>] /\ fresh = 0 /\ Size \in Nat
  BY ServicesAssumption DEF Init, Recent!Init, Recent!QueueInit
<1>2. blocks \in Seq(Block) /\ CountsOf(blocks, addrTx)
  BY <1>1, OverEmpty DEF CountsOf
<1>3. EntriesOf(blocks, addrTx, 0)
  BY <1>2, EntriesCount
<1>4. fresh = 0 /\ 0 \in 0..Size
  BY <1>1
<1> QED
  BY <1>3, <1>4 DEF EntriesInv

\* A sequence ends with the second of its two parts.
LEMMA EndsWith ==
    ASSUME NEW X, NEW p \in Seq(X), NEW q \in Seq(X)
    PROVE  Recent!IsSuffix(q, p \o q)
<1> DEFINE s == p \o q
           n == Len(q)
           m == Len(s)
           x == [i \in 1..n |-> q[(n - i) + 1]]
           y == [i \in 1..m |-> s[(m - i) + 1]]
<1>1. /\ s \in Seq(X) /\ Len(p) \in Nat /\ n \in Nat /\ m = Len(p) + n
      /\ \A i \in 1..m : s[i] = IF i <= Len(p) THEN p[i] ELSE q[i - Len(p)]
  BY ConcatProperties, LenProperties
<1>2. /\ \A i \in 1..n : q[i] \in X
      /\ \A i \in 1..m : s[i] \in X
  BY <1>1, ElementOfSeq
<1> HIDE DEF s, n, m
<1>3. \A i \in 1..n : x[i] = y[i] /\ x[i] \in X /\ y[i] \in X
  <2> SUFFICES ASSUME NEW i \in 1..n PROVE x[i] = y[i] /\ x[i] \in X
    OBVIOUS
  <2>1. /\ i \in 1..m /\ (m - i) + 1 \in 1..m /\ (n - i) + 1 \in 1..n
        /\ ~((m - i) + 1 <= Len(p)) /\ ((m - i) + 1) - Len(p) = (n - i) + 1
    BY <1>1
  <2> QED
    BY <1>1, <1>2, <2>1
<1>4. Len(x) = n /\ Len(y) = m /\ n <= m
  BY <1>1
<1> HIDE DEF x, y
<1>5. SubSeq(x, 1, n) = SubSeq(y, 1, n)
  <2> DEFINE f == SubSeq(x, 1, n)
             g == SubSeq(y, 1, n)
  <2>1. /\ f \in Seq(X) /\ Len(f) = IF 1 <= n THEN n - 1 + 1 ELSE 0
        /\ \A i \in 1..n - 1 + 1 : f[i] = x[1 + i - 1]
    BY <1>1, <1>3, SubSeqProperties
  <2>2. /\ g \in Seq(X) /\ Len(g) = IF 1 <= n THEN n - 1 + 1 ELSE 0
        /\ \A i \in 1..n - 1 + 1 : g[i] = y[1 + i - 1]
    BY <1>1, <1>3, SubSeqProperties
  <2> HIDE DEF f, g
  <2>3. Len(f) = n /\ Len(g) = n
    BY <1>1, <2>1, <2>2
  <2>4. ASSUME NEW i \in 1..n PROVE f[i] = g[i]
    <3>1. i \in 1..n - 1 + 1 /\ 1 + i - 1 = i
      BY <1>1
    <3> QED
      BY <1>3, <2>1, <2>2, <3>1
  <2>5. f = g
    BY <2>1, <2>2, <2>3, <2>4, SeqEqual
  <2> QED
    BY <2>5 DEF f, g
<1>6. Recent!Reverse(q) = x /\ Recent!Reverse(s) = y
  BY DEF Recent!Reverse, x, y, n, m
<1>7. Recent!IsPrefix(x, y)
  BY <1>4, <1>5 DEF Recent!IsPrefix
<1> QED
  BY <1>6, <1>7 DEF Recent!IsSuffix, s

\* recent_tx.go: the entries of the blocks pushed since the last backtrack are
\* right, and are the last ones an address has.
THEOREM ServicesNewEntries == Spec => []NewEntriesRight
<1>1. EntriesInv => NewEntriesRight
  <2> SUFFICES ASSUME EntriesInv, NEW a \in Address
               PROVE  Recent!IsSuffix(Recent!TouchingOf(Recent!Newest(fresh), a), addrTx[a])
    BY DEF NewEntriesRight, Recent!NewEntriesRight
  <2> DEFINE h == Hits(a)
  <2>1. PICK o \in Seq(Block), m \in Seq(Block) :
            /\ blocks = o \o m /\ Len(m) = fresh
            /\ Split(addrTx[a], FlatOver(h, o), FlatOver(h, m))
    BY DEF EntriesInv, EntriesOf
  <2>2. Recent!Newest(fresh) = m
    <3> DEFINE w == o \o m
    <3>1. Len(w) = Len(o) + Len(m) /\ Len(o) \in Nat /\ Len(m) \in Nat
      BY ConcatProperties, LenProperties
    <3>2. SubSeq(w, Len(o) + 1, Len(w)) = m
      BY DropFirst
    <3> HIDE DEF w
    <3>3. Len(w) - fresh + 1 = Len(o) + 1
      BY <2>1, <3>1
    <3>4. Recent!Newest(fresh) = SubSeq(w, Len(w) - fresh + 1, Len(w))
      BY <2>1 DEF Recent!Newest, w
    <3> QED
      BY <3>2, <3>3, <3>4
  <2>3. Recent!TouchingOf(m, a) = FlatOver(h, m)
    <3>1. \A n \in DOMAIN m : m[n] \in Block
      BY LenProperties, ElementOfSeq
    <3>2. [n \in DOMAIN m |-> Touching(m[n], a)] = MapOver(h, m)
      BY <3>1 DEF MapOver, Hits
    <3> HIDE DEF h
    <3> QED
      BY <3>2, RecentNames DEF Recent!TouchingOf, FlatOver
  <2>4. h \in Maps(Block, Seq(TxHash))
    BY HitsMap
  <2> HIDE DEF h
  <2> DEFINE q == FlatOver(h, m)
  <2>5. q \in Seq(TxHash)
    BY <2>4, FlatType
  <2>6. PICK old \in Seq(TxHash) : addrTx[a] = old \o q
    BY <2>1 DEF Split
  <2> HIDE DEF q
  <2>7. Recent!IsSuffix(q, old \o q)
    BY <2>5, EndsWith
  <2> QED
    BY <2>2, <2>3, <2>6, <2>7 DEF q
<1>2. Inv /\ EntriesInv /\ [Next]_vars => EntriesInv'
  BY EntriesInvStep DEF Inv
<1>3. Spec => []EntriesInv
  BY <1>2, EntriesInit, Invariant, PTL DEF Spec
<1> QED
  BY <1>1, <1>3, PTL

-----------------------------------------------------------------------------
\* The indexes of the window.

\* The blocks of a window are on the path of the last of them, and below it.
LEMMA WindowPath ==
    ASSUME NEW w, NEW p, Window(w, p), NEW c \in Range(w)
    PROVE  c \in Block /\ c \in Path[p] /\ HeightOf[c] <= HeightOf[p]
<1> DEFINE Up(n) == \A i \in 1..n : w[i] \in Path[w[n]] /\ HeightOf[w[i]] <= HeightOf[w[n]]
           G == {n \in Nat : n + 1 \in 1..Len(w) => Up(n + 1)}
<1>1. /\ w \in Seq(Block) /\ Len(w) \in Nat /\ w # <<>>
      /\ \A n \in 1..Len(w) : w[n] \in Block
  BY LenProperties, ElementOfSeq DEF Window, Range
<1>2. /\ w[Len(w)] = p
      /\ \A n \in 2..Len(w) : PrevBlock[w[n]] = w[n - 1]
  BY <1>1 DEF Window, Last
<1>3. 0 \in G
  <2>1. 1 \in 1..Len(w) => w[1] \in Path[w[1]] /\ HeightOf[w[1]] <= HeightOf[w[1]]
    BY <1>1, TreeAssumption, PathAssumption
  <2> QED
    BY <2>1
<1>4. ASSUME NEW n \in Nat, n \in G PROVE n + 1 \in G
  <2> SUFFICES ASSUME n + 2 \in 1..Len(w) PROVE Up(n + 2)
    BY <1>4
  <2>1. Up(n + 1) /\ n + 1 \in 1..Len(w) /\ n + 2 \in 2..Len(w)
    BY <1>1, <1>4
  <2>2. w[n + 2] \in Block /\ w[n + 1] \in Block /\ PrevBlock[w[n + 2]] = w[n + 1]
    BY <1>1, <1>2, <2>1
  <2>3. /\ Path[w[n + 2]] = Path[w[n + 1]] \cup {w[n + 2]}
        /\ HeightOf[w[n + 2]] = HeightOf[w[n + 1]] + 1
        /\ HeightOf[w[n + 1]] \in Nat
    BY <2>2, TreeAssumption, PathAssumption
  <2> SUFFICES ASSUME NEW i \in 1..n + 2
               PROVE  w[i] \in Path[w[n + 2]] /\ HeightOf[w[i]] <= HeightOf[w[n + 2]]
    OBVIOUS
  <2>4. CASE i = n + 2
    BY <2>3, <2>4
  <2>5. CASE i \in 1..n + 1
    <3>1. i \in 1..Len(w)
      BY <1>1, <2>1, <2>5
    <3>2. HeightOf[w[i]] \in Nat
      BY <1>1, <3>1, TreeAssumption
    <3> QED
      BY <2>1, <2>3, <2>5, <3>2
  <2> QED
    BY <2>4, <2>5
<1>5. Nat \subseteq G
  <2> HIDE DEF G
  <2> QED
    BY <1>3, <1>4, SetInduction
<1>6. Up(Len(w))
  <2>1. Len(w) - 1 \in Nat /\ (Len(w) - 1) + 1 = Len(w) /\ Len(w) \in 1..Len(w)
    BY <1>1, EmptySeq
  <2> HIDE DEF Up
  <2> QED
    BY <1>5, <2>1
<1>7. PICK i \in 1..Len(w) : c = w[i]
  BY <1>1, LenProperties DEF Range
<1> QED
  BY <1>1, <1>2, <1>6, <1>7

\* A block above the window is not in it, nor are its transactions.
LEMMA NextIsNew ==
    ASSUME NEW w, NEW p, Window(w, p), NEW b \in Block, PrevBlock[b] = p,
           NEW index, IndexOf(w, index)
    PROVE  b \notin Range(w) /\ Range(TxsOf[b]) \cap DOMAIN index = {}
<1>1. b \notin Range(w)
  <2>1. HeightOf[b] \in Nat /\ HeightOf[b] = HeightOf[p] + 1 /\ HeightOf[p] \in Int
    BY TreeAssumption
  <2> QED
    BY <2>1, WindowPath
<1>2. ASSUME NEW tx \in DOMAIN index PROVE tx \notin Range(TxsOf[b])
  <2>1. index[tx] \in Range(w) /\ tx \in Range(TxsOf[index[tx]])
    BY DEF IndexOf
  <2>2. index[tx] \in Path[PrevBlock[b]] \cap Block
    BY <2>1, WindowPath
  <2> QED
    BY <2>1, <2>2, ChainTxsAssumption, ToSetIs
<1> QED
  BY <1>1, <1>2

\* The other names of the queue's operators in the service.
LEMMA IndexNames ==
    /\ \A v, b : /\ Recent!BalanceWith(v, b) = BalanceWith(v, b)
                 /\ Recent!BalanceWithout(v, b) = BalanceWithout(v, b)
    /\ \A v, b : /\ Recent!IndexWith(v, b) = IndexWith(v, b)
                 /\ Recent!IndexWithout(v, b) = IndexWithout(v, b)
<1>1. \A s : Recent!Total(s) = Total(s)
  BY DEF Recent!Total, Total, Recent!FoldLeft, FoldLeft, Recent!MapThenFoldSet, MapThenFoldSet,
         Recent!Max, Max
<1>2. \A b, a : Recent!DeltaOf(b, a) = DeltaOf(b, a)
  BY <1>1 DEF Recent!DeltaOf, DeltaOf, Recent!ChangeOf, ChangeOf
<1>3. \A v, b : /\ Recent!BalanceWith(v, b) = BalanceWith(v, b)
                /\ Recent!BalanceWithout(v, b) = BalanceWithout(v, b)
  BY <1>2 DEF Recent!BalanceWith, BalanceWith, Recent!BalanceWithout, BalanceWithout
<1>4. \A v, b : /\ Recent!IndexWith(v, b) = IndexWith(v, b)
                /\ Recent!IndexWithout(v, b) = IndexWithout(v, b)
  BY DEF Recent!IndexWith, IndexWith, Recent!IndexWithout, IndexWithout,
         Recent!ToSet, ToSet, Recent!Restrict, Restrict
<1> QED
  BY <1>3, <1>4

LEMMA NewBlockIndexed ==
    ASSUME QueueInv, NEW p, Window(blocks, p), NEW b \in Block, PrevBlock[b] = p,
           Recent!NewBlock(b)
    PROVE  QueueInv'
<1> DEFINE w == Append(blocks, b)
           v == BalanceWith(addrBalance, b)
           e == EntriesWith(addrTx, b)
           x == IndexWith(txIndex, b)
<1>1. Indexed(w, v, e, x)
  <2>1. Grown(Block, blocks, b, w)
    BY GrownPush DEF QueueInv, Indexed
  <2>2. b \notin Range(blocks) /\ Range(TxsOf[b]) \cap DOMAIN txIndex = {}
    BY NextIsNew DEF QueueInv, Indexed
  <2> QED
    BY <2>1, <2>2, IndexedGrows DEF QueueInv
<1>2. w # <<>> /\ w \in Seq(Block)
  BY <1>1, AppendProperties, EmptySeq DEF Indexed, QueueInv
<1>3. IF Recent!OverSize(w)
      THEN /\ blocks' = Tail(w)
           /\ addrBalance' = BalanceWithout(v, Head(w))
           /\ addrTx' = EntriesWithout(e, Head(w))
           /\ txIndex' = IndexWithout(x, Head(w))
      ELSE blocks' = w /\ addrBalance' = v /\ addrTx' = e /\ txIndex' = x
  BY RecentNames, IndexNames DEF Recent!NewBlock
<1> HIDE DEF w, v, e, x
<1>4. CASE Recent!OverSize(w)
  <2>1. Grown(Block, Tail(w), Head(w), w)
    BY <1>2, GrownPop
  <2> QED
    BY <1>1, <1>3, <1>4, <2>1, IndexedGrows DEF QueueInv
<1>5. CASE ~Recent!OverSize(w)
  BY <1>1, <1>3, <1>5 DEF QueueInv
<1> QED
  BY <1>4, <1>5

LEMMA BacktrackIndexed ==
    ASSUME QueueInv, Recent!Backtrack
    PROVE  QueueInv'
<1>1. CASE blocks = <<>>
  BY <1>1 DEF Recent!Backtrack, Recent!queueVars, QueueInv
<1>2. CASE blocks # <<>>
  <2> DEFINE b == Last(blocks)
  <2>1. /\ blocks' = Front(blocks)
        /\ addrBalance' = BalanceWithout(addrBalance, b)
        /\ addrTx' = EntriesWithout(addrTx, b)
        /\ txIndex' = IndexWithout(txIndex, b)
    BY <1>2, RecentNames, IndexNames
    DEF Recent!Backtrack, Recent!PopBack, Recent!DelAddresses, Recent!DelTxIndex
  <2>2. Grown(Block, Front(blocks), b, blocks)
    BY <1>2, GrownPop DEF QueueInv, Indexed
  <2> HIDE DEF b
  <2> QED
    BY <2>1, <2>2, IndexedGrows DEF QueueInv
<1> QED
  BY <1>1, <1>2

LEMMA QueueKept ==
    ASSUME QueueInv, UNCHANGED queueVars
    PROVE  QueueInv'
BY DEF QueueInv, queueVars

LEMMA TakeIndexed ==
    ASSUME FeedInv, WindowInv, QueueInv, Recent!Me \in Client, Recent!TakeUpdate
    PROVE  QueueInv'
<1> DEFINE me == Recent!Me
<1>1. PICK u \in Updates :
          /\ Take(me, u)
          /\ u.class = "NEWBLOCK" => Recent!NewBlock(u.block)
          /\ u.class = "BACKTRACK" => Recent!Backtrack
          /\ u.class \notin {"NEWBLOCK", "BACKTRACK"} => UNCHANGED Recent!queueVars
  BY RecentFeed DEF Recent!TakeUpdate
<1>2. me \in subscribers /\ Window(blocks, clientTip[me])
  BY DEF WindowInv
<1>3. Follows(u, clientTip[me])
  BY <1>1, <1>2, TakeFeed DEF Take
<1>4. CASE u.class = "NEWBLOCK"
  <2>1. u.block \in Block /\ PrevBlock[u.block] = clientTip[me]
    BY <1>3, <1>4 DEF Updates, Follows
  <2> QED
    BY <1>1, <1>2, <1>4, <2>1, NewBlockIndexed
<1>5. CASE u.class = "BACKTRACK"
  BY <1>1, <1>5, BacktrackIndexed
<1>6. CASE u.class \notin {"NEWBLOCK", "BACKTRACK"}
  BY <1>1, <1>6, QueueKept DEF Recent!queueVars, queueVars
<1> QED
  BY <1>4, <1>5, <1>6

LEMMA IndexedStep ==
    ASSUME FeedInv, WindowInv, QueueInv, [Next]_vars
    PROVE  QueueInv'
<1>1. CASE (Manager /\ UNCHANGED serviceVars) \/ BalanceStep \/ HeightStep \/ UNCHANGED vars
  BY <1>1, QueueKept DEF BalanceStep, HeightStep, serviceVars, recentVars, vars
<1>2. CASE RecentStep
  <2>1. CASE Recent!TakeUpdate
    BY <1>2, <2>1, TakeIndexed DEF RecentStep
  <2>2. CASE Recent!Stop
    BY <2>2, QueueKept DEF Recent!Stop, Recent!queueVars, queueVars
  <2> QED
    BY <1>2, <2>1, <2>2 DEF RecentStep, Recent!Next
<1> QED
  BY <1>1, <1>2 DEF Next

\* recent_tx.go: through every update of the manager the balances and the index of
\* transactions are those of the blocks in the window, and an address has as many
\* entries as they give it.
THEOREM ServicesIndexes == Spec => []IndexesAgree
<1>1. Init => QueueInv
  <2> SUFFICES ASSUME Init PROVE QueueInv
    OBVIOUS
  <2>1. QueueInit
    BY DEF Init, Recent!Init, Recent!QueueInit, QueueInit
  <2> QED
    BY <2>1, QueueInitInv
<1>2. Inv /\ QueueInv /\ [Next]_vars => QueueInv'
  BY IndexedStep DEF Inv
<1>3. Spec => []QueueInv
  BY <1>1, <1>2, Invariant, PTL DEF Spec
<1> QED
  BY <1>3, QueueIndexed, PTL

=============================================================================
