---------------------------- MODULE DequeProofs ----------------------------
(***************************************************************************)
(* The ring buffer of Deque is a sequence with two ends, whatever it holds *)
(* and however often it grows and shrinks.                                 *)
(***************************************************************************)
EXTENDS Deque, FiniteSetTheorems, SequenceTheorems, TLAPS

Value == Elem \cup {Nil}

\* The slot of the element that i others are in front of.
Slot(n, f, i) == IF f + i < n THEN f + i ELSE f + i - n

\* A queue of l elements in a slice r of n slots, from slot f: it ends at b,
\* and the slots that it does not take are empty.
Ring(n, r, f, b, l) ==
    /\ n \in Nat /\ n >= 2
    /\ r \in [0..n - 1 -> Value]
    /\ f \in 0..n - 1
    /\ l \in 0..n
    /\ b = IF l = n THEN f ELSE Slot(n, f, l)
    /\ \A i \in l..n - 1 : r[Slot(n, f, i)] = Nil

View(n, r, f, l) == [i \in 1..l |-> r[Slot(n, f, i - 1)]]

\* The slice s is r with v in one slot.
Put(n, r, s, slot, v) ==
    /\ s \in [0..n - 1 -> Value]
    /\ \A i \in 0..n - 1 : s[i] = IF i = slot THEN v ELSE r[i]

\* The four ways in which a sequence changes.
AddedFront(s, v) == <<v>> \o s
AddedBack(s, v) == Append(s, v)
LessFront(s) == Tail(s)
LessBack(s) == SubSeq(s, 1, Len(s) - 1)

Inv == \E n \in Nat : Ring(n, rep, front, back, length)

-----------------------------------------------------------------------------
LEMMA ModSmall ==
    ASSUME NEW n \in Nat \ {0}, NEW i \in 0..n - 1
    PROVE  i % n = i
OBVIOUS

LEMMA ModOver ==
    ASSUME NEW n \in Nat \ {0}, NEW i \in n..2 * n - 1
    PROVE  i % n = i - n
OBVIOUS

LEMMA ModUnder ==
    ASSUME NEW n \in Nat \ {0}
    PROVE  (-1) % n = n - 1
OBVIOUS

LEMMA Half ==
    ASSUME NEW n \in Nat, NEW l \in Nat, 1 < l, l < n \div 4
    PROVE  n \div 2 \in Nat /\ l < n \div 2 /\ n \div 2 >= 2
OBVIOUS

\* Indexes that wrap by the slice's length are the slots.
LEMMA Wraps ==
    ASSUME NEW n \in Nat \ {0}, NEW f \in 0..n - 1, NEW i \in 0..n - 1
    PROVE  /\ (f + i) % n = Slot(n, f, i)
           /\ Slot(n, f, i) \in 0..n - 1
<1>1. CASE f + i < n
  BY <1>1, ModSmall DEF Slot
<1>2. CASE f + i >= n
  <2>1. (f + i) % n = f + i - n
    BY <1>2, ModOver, f + i \in n..2 * n - 1
  <2> QED
    BY <1>2, <2>1 DEF Slot
<1> QED
  BY <1>1, <1>2

LEMMA Before ==
    ASSUME NEW n \in Nat, n >= 2, NEW f \in 0..n - 1
    PROVE  (f - 1) % n = IF f = 0 THEN n - 1 ELSE f - 1
<1>1. CASE f = 0
  <2>1. f - 1 = -1 /\ n \in Nat \ {0}
    BY <1>1
  <2> QED
    BY <1>1, <2>1, ModUnder
<1>2. CASE f # 0
  <2>1. f - 1 \in 0..n - 1 /\ n \in Nat \ {0}
    BY <1>2
  <2> QED
    BY <1>2, <2>1, ModSmall
<1> QED
  BY <1>1, <1>2

LEMMA SliceSize ==
    ASSUME NEW n \in Nat, NEW r \in [0..n - 1 -> Value]
    PROVE  Cardinality(DOMAIN r) = n
<1>1. Cardinality(0..n - 1) = (n - 1) - 0 + 1
  BY FS_Interval
<1> QED
  BY <1>1

\* What a queue holds, as a sequence.
LEMMA ViewSeq ==
    ASSUME NEW n, NEW r, NEW f, NEW b, NEW l, Ring(n, r, f, b, l)
    PROVE  /\ View(n, r, f, l) \in Seq(Value)
           /\ Len(View(n, r, f, l)) = l
           /\ \A i \in 1..l : View(n, r, f, l)[i] = r[Slot(n, f, i - 1)]
<1> DEFINE elem(i) == r[Slot(n, f, i - 1)]
<1>1. l \in Nat
  BY DEF Ring
<1>2. \A i \in 1..l : elem(i) \in Value
  BY DEF Ring, Slot
<1> HIDE DEF elem
<1>3. [i \in 1..l |-> elem(i)] \in Seq(Value)
  BY <1>1, <1>2, IsASeq
<1>4. Len([i \in 1..l |-> elem(i)]) = l
  BY <1>1
<1> QED
  BY <1>1, <1>3, <1>4 DEF View, elem

-----------------------------------------------------------------------------
\* resize copies every element to the start of the new slice, in order, with
\* one copy or with two.
LEMMA ResizedOK ==
    ASSUME NEW n, NEW r, NEW f, NEW b, NEW l, Ring(n, r, f, b, l),
           NEW m \in Nat, m >= 2, l < m
    PROVE  LET q == [rep |-> r, front |-> f, back |-> b, length |-> l]
               s == Resized(q, m)
           IN  /\ s = [rep |-> s.rep, front |-> 0, back |-> l, length |-> l]
               /\ Ring(m, s.rep, 0, l, l)
               /\ View(m, s.rep, 0, l) = View(n, r, f, l)
<1> DEFINE q == [rep |-> r, front |-> f, back |-> b, length |-> l]
           new(i) == IF i < l THEN r[Slot(n, f, i)] ELSE Nil
           copied == [i \in 0..m - 1 |-> new(i)]
<1>1. Cardinality(DOMAIN r) = n
  BY SliceSize DEF Ring
<1>2. n \in Nat /\ n >= 2 /\ f \in 0..n - 1 /\ l \in 0..n
      /\ b = IF l = n THEN f ELSE Slot(n, f, l)
  BY DEF Ring
<1>3. Resized(q, m) = [rep |-> copied, front |-> 0, back |-> l, length |-> l]
  <2> DEFINE one(i) == IF i < b - f THEN r[f + i] ELSE Nil
             two(i) == IF i < n - f THEN r[f + i]
                       ELSE IF i - (n - f) < b THEN r[i - (n - f)] ELSE Nil
  <2>1. ASSUME NEW i \in 0..m - 1
        PROVE  new(i) = IF f < b THEN one(i) ELSE two(i)
    <3>1. CASE f + l < n /\ l # 0
      BY <1>2, <3>1 DEF Slot
    <3>2. CASE f + l >= n
      BY <1>2, <3>2 DEF Slot
    <3>3. CASE l = 0
      <4>1. b = f
        BY <1>2, <3>3 DEF Slot
      <4>2. ASSUME i < n PROVE r[Slot(n, f, i)] = Nil
        BY <3>3, <4>2 DEF Ring
      <4>3. CASE i < n - f
        BY <4>1, <4>2, <4>3, <1>2, <3>3 DEF Slot
      <4>4. CASE i >= n - f /\ i - (n - f) < f
        BY <4>1, <4>2, <4>4, <1>2, <3>3 DEF Slot
      <4> QED
        BY <4>1, <4>3, <4>4, <1>2, <3>3
    <3> QED
      BY <1>2, <3>1, <3>2, <3>3
  <2>2. [i \in 0..m - 1 |-> IF f < b THEN one(i) ELSE two(i)] = copied
    BY <2>1
  <2>3. q.rep = r /\ q.front = f /\ q.back = b /\ q.length = l
    OBVIOUS
  <2> HIDE DEF q, copied
  <2>4. Resized(q, m) = [q EXCEPT !.rep = copied, !.front = 0, !.back = l]
    BY <1>1, <2>2, <2>3 DEF Resized
  <2> QED
    BY <2>4 DEF q
<1>4. copied \in [0..m - 1 -> Value]
  <2>1. \A i \in 0..l - 1 : r[Slot(n, f, i)] \in Value
    BY DEF Ring, Slot
  <2> QED
    BY <1>2, <2>1 DEF Value
<1>5. Ring(m, copied, 0, l, l)
  BY <1>2, <1>4 DEF Ring, Slot
<1>6. View(m, copied, 0, l) = View(n, r, f, l)
  BY <1>2 DEF View, Slot
<1> HIDE DEF copied, q
<1> QED
  BY <1>3, <1>5, <1>6 DEF q

-----------------------------------------------------------------------------
\* A push at the front uses the empty slot before the first element.
LEMMA PushFrontOK ==
    ASSUME NEW n, NEW r, NEW f, NEW b, NEW l, Ring(n, r, f, b, l), l < n,
           NEW v \in Value, NEW slot, slot = (f - 1) % n,
           NEW s, Put(n, r, s, slot, v)
    PROVE  /\ Ring(n, s, slot, b, l + 1)
           /\ View(n, s, slot, l + 1) = AddedFront(View(n, r, f, l), v)
<1>1. n \in Nat /\ n >= 2 /\ f \in 0..n - 1 /\ l \in 0..n - 1
      /\ b = Slot(n, f, l) /\ r \in [0..n - 1 -> Value]
  BY DEF Ring
<1>2. slot = IF f = 0 THEN n - 1 ELSE f - 1
  BY <1>1, Before
<1>3. slot \in 0..n - 1
  BY <1>1, <1>2
<1>4. Slot(n, slot, 0) = slot
  BY <1>1, <1>3 DEF Slot
<1>5. \A i \in 1..n - 1 : Slot(n, slot, i) = Slot(n, f, i - 1)
  BY <1>1, <1>2 DEF Slot
<1>6. \A i \in 0..n - 2 : Slot(n, f, i) # slot /\ Slot(n, f, i) \in 0..n - 1
  BY <1>1, <1>2 DEF Slot
<1>7. s \in [0..n - 1 -> Value] /\ s[slot] = v
  BY <1>3 DEF Put
<1>8. \A i \in 0..n - 2 : s[Slot(n, f, i)] = r[Slot(n, f, i)]
  BY <1>1, <1>6 DEF Put
<1>9. Ring(n, s, slot, b, l + 1)
  <2>1. b = IF l + 1 = n THEN slot ELSE Slot(n, slot, l + 1)
    BY <1>1, <1>2 DEF Slot
  <2>2. ASSUME NEW i \in l + 1..n - 1 PROVE s[Slot(n, slot, i)] = Nil
    <3>1. i \in 1..n - 1 /\ i - 1 \in l..n - 1 /\ i - 1 \in 0..n - 2
      BY <1>1
    <3>2. Slot(n, slot, i) = Slot(n, f, i - 1)
      BY <3>1, <1>5
    <3>3. r[Slot(n, f, i - 1)] = Nil
      BY <3>1 DEF Ring
    <3> QED
      BY <3>1, <3>2, <3>3, <1>8
  <2>3. l + 1 \in 0..n
    BY <1>1
  <2> QED
    BY <2>1, <2>2, <2>3, <1>1, <1>3, <1>7 DEF Ring
<1>10. View(n, s, slot, l + 1) = <<v>> \o View(n, r, f, l)
  <2> DEFINE old == View(n, r, f, l)
             new == View(n, s, slot, l + 1)
  <2>1. new \in Seq(Value) /\ Len(new) = l + 1
        /\ \A i \in 1..l + 1 : new[i] = s[Slot(n, slot, i - 1)]
    BY <1>9, ViewSeq
  <2>2. old \in Seq(Value) /\ Len(old) = l
        /\ \A i \in 1..l : old[i] = r[Slot(n, f, i - 1)]
    BY ViewSeq
  <2> HIDE DEF old, new
  <2>3. /\ <<v>> \o old \in Seq(Value)
        /\ Len(<<v>> \o old) = 1 + l
        /\ \A i \in 1..1 + l : (<<v>> \o old)[i] = IF i <= 1 THEN v ELSE old[i - 1]
    <3>1. <<v>> \in Seq(Value) /\ Len(<<v>>) = 1 /\ <<v>>[1] = v
      OBVIOUS
    <3> QED
      BY <3>1, <2>2, ConcatProperties
  <2>4. ASSUME NEW i \in 1..l + 1 PROVE new[i] = (<<v>> \o old)[i]
    <3>1. CASE i = 1
      <4>1. 1 \in 1..l + 1 /\ 1 \in 1..1 + l /\ 1 - 1 = 0
        BY <1>1
      <4>2. new[1] = s[Slot(n, slot, 0)]
        BY <2>1, <4>1
      <4>3. (<<v>> \o old)[1] = v
        BY <2>3, <4>1
      <4> QED
        BY <3>1, <4>2, <4>3, <1>4, <1>7
    <3>2. CASE i > 1
      <4>1. i - 1 \in 1..l /\ i - 2 \in 0..n - 2 /\ i - 1 \in 1..n - 1 /\ (i - 1) - 1 = i - 2
        BY <3>2, <1>1
      <4>2. new[i] = s[Slot(n, f, i - 2)]
        BY <4>1, <2>1, <1>5
      <4>3. (<<v>> \o old)[i] = r[Slot(n, f, i - 2)]
        BY <4>1, <2>2, <2>3, <3>2, <1>1
      <4> QED
        BY <4>1, <4>2, <4>3, <1>8
    <3>3. i = 1 \/ i > 1
      BY <1>1
    <3> QED
      BY <3>1, <3>2, <3>3
  <2>5. Len(new) = Len(<<v>> \o old)
    BY <2>1, <2>3, <1>1
  <2>6. new = <<v>> \o old
    BY <2>1, <2>3, <2>4, <2>5, SeqEqual
  <2> QED
    BY <2>6 DEF old, new
<1> QED
  BY <1>9, <1>10 DEF AddedFront

\* A push at the back uses the empty slot after the last element.
LEMMA PushBackOK ==
    ASSUME NEW n, NEW r, NEW f, NEW b, NEW l, Ring(n, r, f, b, l), l < n,
           NEW v \in Value, NEW s, Put(n, r, s, b, v)
    PROVE  /\ Ring(n, s, f, (b + 1) % n, l + 1)
           /\ View(n, s, f, l + 1) = AddedBack(View(n, r, f, l), v)
<1>1. n \in Nat /\ n >= 2 /\ f \in 0..n - 1 /\ l \in 0..n - 1
      /\ b = Slot(n, f, l) /\ r \in [0..n - 1 -> Value]
  BY DEF Ring
<1>2. b \in 0..n - 1
  BY <1>1 DEF Slot
<1>3. (b + 1) % n = Slot(n, b, 1)
  BY <1>1, <1>2, Wraps
<1>4. Slot(n, b, 1) = IF l + 1 = n THEN f ELSE Slot(n, f, l + 1)
  BY <1>1 DEF Slot
<1>5. \A i \in 0..n - 1 : Slot(n, f, i) \in 0..n - 1 /\ (i # l => Slot(n, f, i) # b)
  BY <1>1 DEF Slot
<1>6. s \in [0..n - 1 -> Value] /\ s[b] = v
  BY <1>2 DEF Put
<1>7. \A i \in 0..n - 1 : i # l => s[Slot(n, f, i)] = r[Slot(n, f, i)]
  BY <1>1, <1>5 DEF Put
<1>8. Ring(n, s, f, (b + 1) % n, l + 1)
  <2>1. ASSUME NEW i \in l + 1..n - 1 PROVE s[Slot(n, f, i)] = Nil
    <3>1. i \in 0..n - 1 /\ i # l /\ i \in l..n - 1
      BY <1>1
    <3> QED
      BY <3>1, <1>7 DEF Ring
  <2>2. l + 1 \in 0..n
    BY <1>1
  <2> QED
    BY <2>1, <2>2, <1>1, <1>3, <1>4, <1>6 DEF Ring
<1>9. View(n, s, f, l + 1) = Append(View(n, r, f, l), v)
  <2> DEFINE old == View(n, r, f, l)
             new == View(n, s, f, l + 1)
  <2>1. new \in Seq(Value) /\ Len(new) = l + 1
        /\ \A i \in 1..l + 1 : new[i] = s[Slot(n, f, i - 1)]
    BY <1>8, ViewSeq
  <2>2. old \in Seq(Value) /\ Len(old) = l
        /\ \A i \in 1..l : old[i] = r[Slot(n, f, i - 1)]
    BY ViewSeq
  <2> HIDE DEF old, new
  <2>3. /\ Append(old, v) \in Seq(Value)
        /\ Len(Append(old, v)) = l + 1
        /\ \A i \in 1..l + 1 : Append(old, v)[i] = IF i = l + 1 THEN v ELSE old[i]
    BY <2>2, <1>1
  <2>4. ASSUME NEW i \in 1..l + 1 PROVE new[i] = Append(old, v)[i]
    <3>1. CASE i = l + 1
      <4>1. i - 1 = l
        BY <3>1, <1>1
      <4> QED
        BY <3>1, <4>1, <2>1, <2>3, <1>1, <1>6
    <3>2. CASE i # l + 1
      <4>1. i \in 1..l /\ i - 1 \in 0..n - 1 /\ i - 1 # l
        BY <3>2, <1>1
      <4> QED
        <5>1. new[i] = s[Slot(n, f, i - 1)]
          BY <2>1
        <5>2. Append(old, v)[i] = r[Slot(n, f, i - 1)]
          BY <3>2, <4>1, <2>2, <2>3
        <5> QED
          BY <4>1, <5>1, <5>2, <1>7
    <3> QED
      BY <3>1, <3>2
  <2>5. new = Append(old, v)
    BY <2>1, <2>3, <2>4, SeqEqual
  <2> QED
    BY <2>5 DEF old, new
<1> QED
  BY <1>8, <1>9 DEF AddedBack

\* A pop empties the slot it reads: at the front...
LEMMA PopFrontOK ==
    ASSUME NEW n, NEW r, NEW f, NEW b, NEW l, Ring(n, r, f, b, l), l > 0,
           NEW s, Put(n, r, s, f, Nil)
    PROVE  /\ Ring(n, s, (f + 1) % n, b, l - 1)
           /\ View(n, s, (f + 1) % n, l - 1) = LessFront(View(n, r, f, l))
           /\ View(n, r, f, l) # <<>>
<1> DEFINE g == Slot(n, f, 1)
<1>1. n \in Nat /\ n >= 2 /\ f \in 0..n - 1 /\ l \in 1..n
      /\ b = (IF l = n THEN f ELSE Slot(n, f, l)) /\ r \in [0..n - 1 -> Value]
  BY DEF Ring
<1>2. (f + 1) % n = g /\ g \in 0..n - 1
  <2>1. n \in Nat \ {0} /\ 1 \in 0..n - 1
    BY <1>1
  <2> QED
    BY <1>1, <2>1, Wraps
<1>3. Slot(n, f, 0) = f /\ Slot(n, g, n - 1) = f
  BY <1>1 DEF Slot
<1>4. \A i \in 0..n - 2 : Slot(n, g, i) = Slot(n, f, i + 1)
  BY <1>1 DEF Slot
<1>5. \A i \in 1..n - 1 : Slot(n, f, i) \in 0..n - 1 /\ Slot(n, f, i) # f
  BY <1>1 DEF Slot
<1>6. s \in [0..n - 1 -> Value] /\ s[f] = Nil
  BY <1>1 DEF Put
<1>7. \A i \in 1..n - 1 : s[Slot(n, f, i)] = r[Slot(n, f, i)]
  BY <1>1, <1>5 DEF Put
<1>8. b = IF l - 1 = n THEN g ELSE Slot(n, g, l - 1)
  BY <1>1 DEF Slot
<1> HIDE DEF g
<1>9. Ring(n, s, g, b, l - 1)
  <2>1. ASSUME NEW i \in l - 1..n - 1 PROVE s[Slot(n, g, i)] = Nil
    <3>1. CASE i = n - 1
      BY <3>1, <1>3, <1>6
    <3>2. CASE i # n - 1
      <4>1. i \in 0..n - 2 /\ i + 1 \in 1..n - 1 /\ i + 1 \in l..n - 1
        BY <3>2, <1>1
      <4>2. r[Slot(n, f, i + 1)] = Nil
        BY <4>1 DEF Ring
      <4> QED
        BY <4>1, <4>2, <1>4, <1>7
    <3> QED
      BY <3>1, <3>2
  <2>2. l - 1 \in 0..n
    BY <1>1
  <2> QED
    BY <2>1, <2>2, <1>1, <1>2, <1>6, <1>8 DEF Ring
<1>10. View(n, s, g, l - 1) = Tail(View(n, r, f, l)) /\ View(n, r, f, l) # <<>>
  <2> DEFINE old == View(n, r, f, l)
             new == View(n, s, g, l - 1)
  <2>1. new \in Seq(Value) /\ Len(new) = l - 1
        /\ \A i \in 1..l - 1 : new[i] = s[Slot(n, g, i - 1)]
    BY <1>9, ViewSeq
  <2>2. old \in Seq(Value) /\ Len(old) = l
        /\ \A i \in 1..l : old[i] = r[Slot(n, f, i - 1)]
    BY ViewSeq
  <2> HIDE DEF old, new
  <2>3. old # <<>>
    BY <2>2, <1>1
  <2>4. Tail(old) \in Seq(Value) /\ Len(Tail(old)) = l - 1
        /\ \A i \in 1..l - 1 : Tail(old)[i] = old[i + 1]
    BY <2>2, <2>3, HeadTailProperties
  <2>5. ASSUME NEW i \in 1..l - 1 PROVE new[i] = Tail(old)[i]
    <3>1. i - 1 \in 0..n - 2 /\ i + 1 \in 1..l /\ (i - 1) + 1 = i /\ (i + 1) - 1 = i
          /\ i \in 1..n - 1
      BY <1>1
    <3>2. new[i] = s[Slot(n, f, i)]
      BY <3>1, <2>1, <1>4
    <3>3. Tail(old)[i] = r[Slot(n, f, i)]
      BY <3>1, <2>2, <2>4
    <3> QED
      BY <3>1, <3>2, <3>3, <1>7
  <2>6. new = Tail(old)
    BY <2>1, <2>4, <2>5, SeqEqual
  <2> QED
    BY <2>3, <2>6 DEF old, new
<1> QED
  BY <1>2, <1>9, <1>10 DEF LessFront

\* ...and at the back.
LEMMA PopBackOK ==
    ASSUME NEW n, NEW r, NEW f, NEW b, NEW l, Ring(n, r, f, b, l), l > 0,
           NEW slot, slot = (b - 1) % n, NEW s, Put(n, r, s, slot, Nil)
    PROVE  /\ Ring(n, s, f, slot, l - 1)
           /\ View(n, s, f, l - 1) = LessBack(View(n, r, f, l))
           /\ View(n, r, f, l) # <<>>
<1>1. n \in Nat /\ n >= 2 /\ f \in 0..n - 1 /\ l \in 1..n
      /\ b = (IF l = n THEN f ELSE Slot(n, f, l)) /\ r \in [0..n - 1 -> Value]
  BY DEF Ring
<1>2. b \in 0..n - 1
  BY <1>1 DEF Slot
<1>3. slot = IF b = 0 THEN n - 1 ELSE b - 1
  BY <1>1, <1>2, Before
<1>4. slot = Slot(n, f, l - 1) /\ slot \in 0..n - 1
  BY <1>1, <1>3 DEF Slot
<1>5. \A i \in 0..n - 1 : Slot(n, f, i) \in 0..n - 1 /\ (i # l - 1 => Slot(n, f, i) # slot)
  BY <1>1, <1>4 DEF Slot
<1>6. s \in [0..n - 1 -> Value] /\ s[slot] = Nil
  BY <1>4 DEF Put
<1>7. \A i \in 0..n - 1 : i # l - 1 => s[Slot(n, f, i)] = r[Slot(n, f, i)]
  BY <1>1, <1>5 DEF Put
<1>8. Ring(n, s, f, slot, l - 1)
  <2>1. ASSUME NEW i \in l - 1..n - 1 PROVE s[Slot(n, f, i)] = Nil
    <3>1. CASE i = l - 1
      BY <3>1, <1>4, <1>6
    <3>2. CASE i # l - 1
      <4>1. i \in 0..n - 1 /\ i \in l..n - 1
        BY <3>2, <1>1
      <4> QED
        BY <4>1, <3>2, <1>7 DEF Ring
    <3> QED
      BY <3>1, <3>2
  <2>2. l - 1 \in 0..n /\ l - 1 # n
    BY <1>1
  <2> QED
    BY <2>1, <2>2, <1>1, <1>4, <1>6 DEF Ring
<1>9. View(n, s, f, l - 1) = SubSeq(View(n, r, f, l), 1, l - 1)
      /\ View(n, r, f, l) # <<>> /\ Len(View(n, r, f, l)) = l
  <2> DEFINE old == View(n, r, f, l)
             new == View(n, s, f, l - 1)
             k == l - 1
  <2>1. new \in Seq(Value) /\ Len(new) = l - 1
        /\ \A i \in 1..l - 1 : new[i] = s[Slot(n, f, i - 1)]
    BY <1>8, ViewSeq
  <2>2. old \in Seq(Value) /\ Len(old) = l
        /\ \A i \in 1..l : old[i] = r[Slot(n, f, i - 1)]
    BY ViewSeq
  <2>3. k \in Nat /\ k \in Int /\ l = k + 1 /\ \A i \in 1..k : i \in 1..l
    BY <1>1
  <2> HIDE DEF old, new, k
  <2>4. \A i \in 1..k : old[i] \in Value
    BY <2>2, <2>3, ElementOfSeq
  <2>5. SubSeq(old, 1, k) \in Seq(Value) /\ Len(SubSeq(old, 1, k)) = k
        /\ \A i \in 1..k : SubSeq(old, 1, k)[i] = old[i]
    <3>1. /\ SubSeq(old, 1, k) \in Seq(Value)
          /\ Len(SubSeq(old, 1, k)) = IF 1 <= k THEN k - 1 + 1 ELSE 0
          /\ \A i \in 1..k - 1 + 1 : SubSeq(old, 1, k)[i] = old[1 + i - 1]
      BY <2>3, <2>4, SubSeqProperties
    <3> QED
      BY <3>1, <2>3
  <2>6. Len(new) = k
    BY <2>1 DEF k
  <2>7. ASSUME NEW i \in 1..k PROVE new[i] = SubSeq(old, 1, k)[i]
    <3>1. i - 1 \in 0..n - 1 /\ i - 1 # l - 1 /\ i \in 1..l - 1 /\ i \in 1..l
      BY <2>3, <1>1
    <3>2. new[i] = s[Slot(n, f, i - 1)]
      BY <3>1, <2>1
    <3>3. SubSeq(old, 1, k)[i] = r[Slot(n, f, i - 1)]
      BY <3>1, <2>2, <2>5
    <3> QED
      BY <3>1, <3>2, <3>3, <1>7
  <2>8. new = SubSeq(old, 1, k)
    BY <2>1, <2>5, <2>6, <2>7, SeqEqual
  <2>9. old # <<>>
    BY <2>2, <1>1
  <2> QED
    BY <2>2, <2>8, <2>9 DEF old, new, k
<1> QED
  BY <1>8, <1>9 DEF LessBack

-----------------------------------------------------------------------------
\* The module's own Wrap and Contents, for a ring of n slots.
HasContents ==
    \A n \in Nat : Ring(n, rep, front, back, length)
                     => Size = n /\ Contents = View(n, rep, front, length)

LEMMA ContentsView == HasContents
<1> SUFFICES ASSUME NEW n \in Nat, Ring(n, rep, front, back, length)
             PROVE  Size = n /\ Contents = View(n, rep, front, length)
  BY DEF HasContents
<1>1. Size = n
  BY SliceSize DEF Size, Ring
<1>2. n \in Nat \ {0} /\ front \in 0..n - 1 /\ length \in 0..n /\ front \in Int
  BY DEF Ring
<1>3. ASSUME NEW i \in 1..length
      PROVE  Wrap(front + i - 1) = Slot(n, front, i - 1)
  <2>1. i - 1 \in 0..n - 1 /\ front + i - 1 = front + (i - 1)
    BY <1>2
  <2>2. (front + (i - 1)) % n = Slot(n, front, i - 1)
    BY <1>2, <2>1, Wraps
  <2> QED
    BY <1>1, <2>1, <2>2 DEF Wrap
<1> QED
  BY <1>1, <1>3 DEF Contents, View

LEMMA InitInv == Init => Inv /\ Sequence!Init
<1> SUFFICES ASSUME Init
             PROVE  Inv /\ Sequence!Init
  OBVIOUS
<1>1. Ring(InitialSize, rep, 0, 0, 0)
  BY DequeAssumption DEF Init, Ring, Slot, Value
<1>2. Inv
  BY <1>1, DequeAssumption DEF Init, Inv, Ring
<1>3. Contents = <<>>
  BY DEF Init, Contents
<1> QED
  BY <1>2, <1>3 DEF Sequence!Init

\* After lazyGrow the queue is as before, with room for one more.
LEMMA GrownOK ==
    ASSUME Inv
    PROVE  \E n, r, f, b :
               /\ Grown = [rep |-> r, front |-> f, back |-> b, length |-> length]
               /\ Ring(n, r, f, b, length)
               /\ length < n
               /\ Cardinality(DOMAIN r) = n
               /\ View(n, r, f, length) = Contents
<1>1. PICK n \in Nat : Ring(n, rep, front, back, length)
  BY DEF Inv
<1>2. Size = n /\ Contents = View(n, rep, front, length)
  BY <1>1, ContentsView DEF HasContents
<1>3. n >= 2 /\ length \in 0..n
  BY <1>1 DEF Ring
<1>4. CASE length = n
  <2> DEFINE s == Resized(Queue, 2 * n)
  <2>1. 2 * n \in Nat /\ 2 * n >= 2 /\ length < 2 * n
    BY <1>3, <1>4
  <2>2. /\ s = [rep |-> s.rep, front |-> 0, back |-> length, length |-> length]
        /\ Ring(2 * n, s.rep, 0, length, length)
        /\ View(2 * n, s.rep, 0, length) = View(n, rep, front, length)
    BY <1>1, <2>1, ResizedOK DEF Queue
  <2>3. Grown = s
    BY <1>2, <1>4 DEF Grown
  <2>4. Cardinality(DOMAIN s.rep) = 2 * n
    BY <2>1, <2>2, SliceSize DEF Ring
  <2> HIDE DEF s
  <2> QED
    BY <1>2, <2>1, <2>2, <2>3, <2>4
<1>5. CASE length # n
  <2>1. Grown = [rep |-> rep, front |-> front, back |-> back, length |-> length]
    BY <1>2, <1>5 DEF Grown, Queue
  <2>2. length < n /\ Cardinality(DOMAIN rep) = n
    BY <1>2, <1>3, <1>5 DEF Size
  <2> QED
    BY <1>1, <1>2, <2>1, <2>2
<1> QED
  BY <1>4, <1>5

\* lazyShrink leaves the elements as they are.
LEMMA ShrunkOK ==
    ASSUME NEW n, NEW r, NEW f, NEW b, NEW l, Ring(n, r, f, b, l), Size = n,
           Becomes(Shrunk([rep |-> r, front |-> f, back |-> b, length |-> l]))
    PROVE  Inv' /\ Contents' = View(n, r, f, l)
<1> DEFINE q == [rep |-> r, front |-> f, back |-> b, length |-> l]
<1>1. n \in Nat /\ l \in Nat
  BY DEF Ring
<1>2. \E m \in Nat : Ring(m, rep', front', back', length')
                     /\ View(m, rep', front', length') = View(n, r, f, l)
  <2>1. CASE 1 < l /\ l < n \div 4
    <3> DEFINE m == n \div 2
               s == Resized(q, m)
    <3>1. m \in Nat /\ m >= 2 /\ l < m
      BY <1>1, <2>1, Half
    <3>2. /\ s = [rep |-> s.rep, front |-> 0, back |-> l, length |-> l]
          /\ Ring(m, s.rep, 0, l, l)
          /\ View(m, s.rep, 0, l) = View(n, r, f, l)
      BY <3>1, ResizedOK
    <3>3. Shrunk(q) = s
      BY <2>1 DEF Shrunk
    <3> HIDE DEF s, m
    <3>4. rep' = s.rep /\ front' = 0 /\ back' = l /\ length' = l
      BY <3>2, <3>3 DEF Becomes
    <3> QED
      BY <3>1, <3>2, <3>4
  <2>2. CASE ~(1 < l /\ l < n \div 4)
    <3>1. Shrunk(q) = q
      BY <2>2 DEF Shrunk
    <3>2. rep' = r /\ front' = f /\ back' = b /\ length' = l
      BY <3>1 DEF Becomes
    <3> QED
      BY <1>1, <3>2
  <2> QED
    BY <2>1, <2>2
<1>3. PICK m \in Nat : Ring(m, rep', front', back', length')
                       /\ View(m, rep', front', length') = View(n, r, f, l)
  BY <1>2
<1>4. HasContents'
  BY ContentsView, PTL
<1> QED
  BY <1>3, <1>4 DEF Inv, HasContents

-----------------------------------------------------------------------------
\* A state with a ring for its variables is one of the invariant's.
LEMMA Arrives ==
    ASSUME NEW n, NEW r, NEW f, NEW b, NEW l, Ring(n, r, f, b, l),
           rep' = r, front' = f, back' = b, length' = l
    PROVE  Inv' /\ Contents' = View(n, r, f, l)
<1>1. HasContents'
  BY ContentsView, PTL
<1>2. n \in Nat
  BY DEF Ring
<1> QED
  BY <1>1, <1>2 DEF Inv, HasContents

LEMMA PushFrontStep ==
    ASSUME Inv, NEW v \in Elem, PushFront(v)
    PROVE  Inv' /\ Contents' = AddedFront(Contents, v)
<1>1. PICK n, r, f, b :
          /\ Grown = [rep |-> r, front |-> f, back |-> b, length |-> length]
          /\ Ring(n, r, f, b, length)
          /\ length < n
          /\ Cardinality(DOMAIN r) = n
          /\ View(n, r, f, length) = Contents
  BY GrownOK
<1> DEFINE slot == (f - 1) % n
           s == [r EXCEPT ![slot] = v]
<1>2. v \in Value /\ slot = (f - 1) % n /\ Put(n, r, s, slot, v)
  BY <1>1 DEF Value, Put, Ring
<1>3. Becomes([rep |-> s, front |-> slot, back |-> b, length |-> length + 1])
  BY <1>1 DEF PushFront
<1> HIDE DEF slot, s
<1>4. rep' = s /\ front' = slot /\ back' = b /\ length' = length + 1
  BY <1>3 DEF Becomes
<1>5. Ring(n, s, slot, b, length + 1)
      /\ View(n, s, slot, length + 1) = AddedFront(Contents, v)
  BY <1>1, <1>2, PushFrontOK
<1> QED
  BY <1>4, <1>5, Arrives

LEMMA PushBackStep ==
    ASSUME Inv, NEW v \in Elem, PushBack(v)
    PROVE  Inv' /\ Contents' = AddedBack(Contents, v)
<1>1. PICK n, r, f, b :
          /\ Grown = [rep |-> r, front |-> f, back |-> b, length |-> length]
          /\ Ring(n, r, f, b, length)
          /\ length < n
          /\ Cardinality(DOMAIN r) = n
          /\ View(n, r, f, length) = Contents
  BY GrownOK
<1> DEFINE after == (b + 1) % n
           s == [r EXCEPT ![b] = v]
<1>2. v \in Value /\ after = (b + 1) % n /\ Put(n, r, s, b, v)
  BY <1>1 DEF Value, Put, Ring
<1>3. Becomes([rep |-> s, front |-> f, back |-> after, length |-> length + 1])
  BY <1>1 DEF PushBack
<1> HIDE DEF after, s
<1>4. rep' = s /\ front' = f /\ back' = after /\ length' = length + 1
  BY <1>3 DEF Becomes
<1>5. Ring(n, s, f, after, length + 1)
      /\ View(n, s, f, length + 1) = AddedBack(Contents, v)
  BY <1>1, <1>2, PushBackOK
<1> QED
  BY <1>4, <1>5, Arrives

LEMMA PopFrontStep ==
    ASSUME Inv, PopFront
    PROVE  Inv' /\ Contents # <<>> /\ Contents' = LessFront(Contents)
<1>1. PICK n \in Nat : Ring(n, rep, front, back, length)
  BY DEF Inv
<1>2. Size = n /\ Contents = View(n, rep, front, length)
  BY <1>1, ContentsView DEF HasContents
<1> DEFINE r == [rep EXCEPT ![front] = Nil]
           f == (front + 1) % n
           l == length - 1
<1>3. Becomes(Shrunk([rep |-> r, front |-> f, back |-> back, length |-> l]))
  BY <1>2 DEF PopFront, Inc, Wrap
<1>4. f = (front + 1) % n /\ Put(n, rep, r, front, Nil) /\ length > 0
  BY <1>1 DEF PopFront, Put, Ring, Value
<1> HIDE DEF r, f
<1>5. Ring(n, r, f, back, l) /\ View(n, r, f, l) = LessFront(Contents) /\ Contents # <<>>
  BY <1>1, <1>2, <1>4, PopFrontOK
<1> HIDE DEF l
<1> QED
  BY <1>2, <1>3, <1>5, ShrunkOK

LEMMA PopBackStep ==
    ASSUME Inv, PopBack
    PROVE  Inv' /\ Contents # <<>> /\ Contents' = LessBack(Contents)
<1>1. PICK n \in Nat : Ring(n, rep, front, back, length)
  BY DEF Inv
<1>2. Size = n /\ Contents = View(n, rep, front, length)
  BY <1>1, ContentsView DEF HasContents
<1> DEFINE b == (back - 1) % n
           r == [rep EXCEPT ![b] = Nil]
           l == length - 1
<1>3. Becomes(Shrunk([rep |-> r, front |-> front, back |-> b, length |-> l]))
  BY <1>2 DEF PopBack, Dec, Wrap
<1>4. b = (back - 1) % n /\ Put(n, rep, r, b, Nil) /\ length > 0
  BY <1>1 DEF PopBack, Put, Ring, Value
<1> HIDE DEF r, b
<1>5. Ring(n, r, front, b, l) /\ View(n, r, front, l) = LessBack(Contents) /\ Contents # <<>>
  BY <1>1, <1>2, <1>4, PopBackOK
<1> HIDE DEF l
<1> QED
  BY <1>2, <1>3, <1>5, ShrunkOK

-----------------------------------------------------------------------------
LEMMA Step ==
    ASSUME Inv, [Next]_vars
    PROVE  Inv' /\ [Sequence!Next]_Contents
<1>1. CASE \E v \in Elem : PushFront(v)
  BY <1>1, PushFrontStep DEF AddedFront, Sequence!Next, Sequence!PushFront
<1>2. CASE \E v \in Elem : PushBack(v)
  BY <1>2, PushBackStep DEF AddedBack, Sequence!Next, Sequence!PushBack
<1>3. CASE PopFront
  BY <1>3, PopFrontStep DEF LessFront, Sequence!Next, Sequence!PopFront
<1>4. CASE PopBack
  BY <1>4, PopBackStep DEF LessBack, Sequence!Front, Sequence!Next, Sequence!PopBack
<1>5. CASE UNCHANGED vars
  BY <1>5 DEF vars, Inv, Contents, Wrap, Size
<1> QED
  BY <1>1, <1>2, <1>3, <1>4, <1>5 DEF Next

\* queue.go: through every wrap, growth and shrinking the queue is a sequence
\* with two ends, for any initial size, and for any number of elements.
THEOREM DequeIsSequence == Spec => ImplementsSequence
BY InitInv, Step, PTL DEF Spec, ImplementsSequence, Sequence!Spec

\* queue.go: "unused slots are nil", so Front and Back answer nil exactly when
\* there is no element, and else the first and the last one.
EndsRight ==
    IF length = 0
    THEN FrontElem = Nil /\ BackElem = Nil
    ELSE FrontElem = Contents[1] /\ BackElem = Contents[length]

THEOREM DequeEndsRight == Spec => []EndsRight
<1>1. Inv => EndsRight
  <2> SUFFICES ASSUME NEW n \in Nat, Ring(n, rep, front, back, length)
               PROVE  EndsRight
    BY DEF Inv
  <2>1. Size = n /\ Contents = View(n, rep, front, length)
    BY ContentsView DEF HasContents
  <2>2. n >= 2 /\ front \in 0..n - 1 /\ length \in 0..n
        /\ back = IF length = n THEN front ELSE Slot(n, front, length)
    BY DEF Ring
  <2>3. back \in 0..n - 1
    BY <2>2 DEF Slot
  <2>4. BackElem = rep[IF back = 0 THEN n - 1 ELSE back - 1]
    BY <2>1, <2>2, <2>3, Before DEF BackElem, Dec, Wrap
  <2>5. FrontElem = rep[Slot(n, front, 0)]
    BY <2>2 DEF FrontElem, Slot
  <2>6. CASE length = 0
    <3>1. BackElem = rep[Slot(n, front, n - 1)]
      BY <2>2, <2>4, <2>6 DEF Slot
    <3>2. \A i \in 0..n - 1 : rep[Slot(n, front, i)] = Nil
      BY <2>6 DEF Ring
    <3>3. 0 \in 0..n - 1 /\ n - 1 \in 0..n - 1
      BY <2>2
    <3> QED
      BY <2>5, <2>6, <3>1, <3>2, <3>3 DEF EndsRight
  <2>7. CASE length # 0
    <3>1. BackElem = rep[Slot(n, front, length - 1)]
      BY <2>2, <2>4, <2>7 DEF Slot
    <3>2. 1 \in 1..length /\ length \in 1..length /\ 1 - 1 = 0
      BY <2>2, <2>7
    <3>3. Contents[1] = rep[Slot(n, front, 0)]
          /\ Contents[length] = rep[Slot(n, front, length - 1)]
      BY <2>1, <3>2, ViewSeq
    <3> QED
      BY <2>5, <2>7, <3>1, <3>3 DEF EndsRight
  <2> QED
    BY <2>6, <2>7
<1> QED
  BY <1>1, InitInv, Step, PTL DEF Spec
=============================================================================
