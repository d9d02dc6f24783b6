------------------------------- MODULE Deque -------------------------------
(***************************************************************************)
(* primitives/queue/queue.go: a double-ended queue in a slice used as a    *)
(* ring, which doubles when it is full and halves when it is sparse.       *)
(* Indexes wrap by a mask, the slice's length being a power of two.        *)
(***************************************************************************)
EXTENDS Integers, Sequences, FiniteSets

CONSTANTS
    Elem,
    Nil,            \* what an unused slot holds
    InitialSize,
    MaxLength       \* bound of the model: elements in the queue

ASSUME DequeAssumption ==
    /\ Nil \notin Elem
    /\ InitialSize \in {2, 4, 8, 16, 32, 64}  \* a power of two
    /\ MaxLength \in Nat

VARIABLES
    rep,            \* the slice, from 0
    front,          \* index of the first element
    back,           \* index after the last one
    length

vars == <<rep, front, back, length>>

Size == Cardinality(DOMAIN rep)

Wrap(i) == i % Size
Inc(i) == Wrap(i + 1)
Dec(i) == Wrap(i - 1)

\* The elements, front to back, as an Iterator returns them.
Contents == [i \in 1..length |-> rep[Wrap(front + i - 1)]]

FrontElem == rep[front]
BackElem == rep[Dec(back)]

-----------------------------------------------------------------------------
Init ==
    /\ rep = [i \in 0..InitialSize - 1 |-> Nil]
    /\ front = 0 /\ back = 0 /\ length = 0

\* resize: one copy, or two when the elements are wrapped around.
ResizedMutant(q, size) ==                    \* the wrapped part is not copied
    [q EXCEPT !.rep = [i \in 0..size - 1 |->
                 IF q.front + i \in DOMAIN q.rep /\ i < q.length THEN q.rep[q.front + i] ELSE Nil],
              !.front = 0, !.back = q.length]
Resized(q, size) ==
    LET cap == Cardinality(DOMAIN q.rep)
        adjusted(i) ==
            IF q.front < q.back
            THEN IF i < q.back - q.front THEN q.rep[q.front + i] ELSE Nil
            ELSE IF i < cap - q.front THEN q.rep[q.front + i]
                 ELSE IF i - (cap - q.front) < q.back THEN q.rep[i - (cap - q.front)] ELSE Nil
    IN  [q EXCEPT !.rep = [i \in 0..size - 1 |-> adjusted(i)],
                  !.front = 0, !.back = q.length]

Queue == [rep |-> rep, front |-> front, back |-> back, length |-> length]

Becomes(q) ==
    /\ rep' = q.rep
    /\ front' = q.front
    /\ back' = q.back
    /\ length' = q.length

\* lazyGrow, before a push, and lazyShrink, after a pop.
Grown == IF length = Size THEN Resized(Queue, 2 * Size) ELSE Queue
Shrunk(q) ==
    IF 1 < q.length /\ q.length < Size \div 4 THEN Resized(q, Size \div 2) ELSE q

PushFront(v) ==
    /\ length < MaxLength
    /\ LET q == Grown
           slot == (q.front - 1) % Cardinality(DOMAIN q.rep)
       IN  Becomes([rep |-> [q.rep EXCEPT ![slot] = v], front |-> slot,
                    back |-> q.back, length |-> q.length + 1])

PushBack(v) ==
    /\ length < MaxLength
    /\ LET q == Grown
       IN  Becomes([rep |-> [q.rep EXCEPT ![q.back] = v], front |-> q.front,
                    back |-> (q.back + 1) % Cardinality(DOMAIN q.rep),
                    length |-> q.length + 1])

PopFront ==
    /\ length > 0
    /\ Becomes(Shrunk([rep |-> [rep EXCEPT ![front] = Nil], front |-> Inc(front),
                       back |-> back, length |-> length - 1]))

PopBack ==
    /\ length > 0
    /\ Becomes(Shrunk([rep |-> [rep EXCEPT ![Dec(back)] = Nil], front |-> front,
                       back |-> Dec(back), length |-> length - 1]))

Next ==
    \/ \E v \in Elem : PushFront(v) \/ PushBack(v)
    \/ PopFront
    \/ PopBack

Spec == Init /\ [][Next]_vars

-----------------------------------------------------------------------------
Sequence == INSTANCE SeqDeque WITH items <- Contents

\* Through wrapping, growing and shrinking the ring is a double-ended queue.
ImplementsSequence == Sequence!Spec

=============================================================================
