--------------------------- MODULE CrawlerProofs ----------------------------
(***************************************************************************)
(* Proofs about the crawler and its fetcher, for every tree of blocks,     *)
(* every buffer size, every set of subscribers and every channel capacity. *)
(***************************************************************************)
EXTENDS Crawler, SequenceTheorems, WellFoundedInduction, TLAPS

\* Every set of heights has a lowest: what stands for induction on a height.
LEMMA LowestExists ==
    ASSUME NEW T \in SUBSET Nat, T # {}
    PROVE  \E x \in T : \A y \in T : ~(y < x)
<1>1. PICK x \in T : \A y \in T : ~(<<y, x>> \in OpToRel(<, Nat))
  BY NatLessThanWellFounded, WFMin
<1>2. ASSUME NEW y \in T, y < x PROVE FALSE
  <2>1. <<y, x>> \in Nat \X Nat
    OBVIOUS
  <2>2. <<y, x>> \in OpToRel(<, Nat)
    BY <1>2, <2>1 DEF OpToRel
  <2> QED
    BY <1>1, <1>2, <2>2
<1> QED
  BY <1>2

\* No block lies on a path above the path's end.
LEMMA PathHeights ==
    \A p \in Point : \A q \in Path[p] : HeightOf[q] <= HeightOf[p]
<1> DEFINE Bad == {p \in Point : \E q \in Path[p] : ~(HeightOf[q] <= HeightOf[p])}
           T == {HeightOf[p] : p \in Bad}
<1> SUFFICES ASSUME Bad # {} PROVE FALSE
  OBVIOUS
<1>1. ZeroHash \notin Bad
  BY TreeAssumption, PathAssumption
<1>2. T \in SUBSET Nat /\ T # {}
  BY <1>1, TreeAssumption DEF Point
<1> HIDE DEF T
<1>3. PICK h \in T : \A y \in T : ~(y < h)
  BY <1>2, LowestExists
<1> USE DEF T
<1>4. PICK b \in Bad : HeightOf[b] = h
  BY <1>3
<1>5. b \in Block /\ PrevBlock[b] \in Point /\ HeightOf[b] = HeightOf[PrevBlock[b]] + 1
  BY <1>1, <1>4, TreeAssumption DEF Point
<1>6. HeightOf[b] \in Nat /\ HeightOf[PrevBlock[b]] \in Int
  BY <1>5, TreeAssumption
<1>7. PrevBlock[b] \notin Bad
  <2> SUFFICES ASSUME PrevBlock[b] \in Bad PROVE FALSE
    OBVIOUS
  <2>1. HeightOf[PrevBlock[b]] \in T
    OBVIOUS
  <2>2. ~(HeightOf[PrevBlock[b]] < h)
    <3> HIDE DEF T
    <3> QED
      BY <1>3, <2>1
  <2> QED
    BY <1>3, <1>4, <2>2, <1>5, <1>6
<1>8. \A q \in Path[PrevBlock[b]] : HeightOf[q] <= HeightOf[PrevBlock[b]]
  BY <1>5, <1>7
<1>9. \A q \in Path[b] : HeightOf[q] <= HeightOf[b]
  <2>1. Path[b] = Path[PrevBlock[b]] \cup {b}
    BY <1>5, PathAssumption
  <2>2. \A q \in Path[PrevBlock[b]] : HeightOf[q] \in Int
    BY <1>5, PathAssumption, TreeAssumption
  <2> QED
    BY <1>5, <1>6, <1>8, <2>1, <2>2
<1> QED
  BY <1>4, <1>9

\* The end of a path is the only block of its height on it.
LEMMA EndOfPath ==
    ASSUME NEW p \in Point, NEW q \in Path[p], HeightOf[q] = HeightOf[p]
    PROVE  q = p
<1>1. CASE p = ZeroHash
  BY <1>1, PathAssumption
<1>2. CASE p \in Block
  <2>1. Path[p] = Path[PrevBlock[p]] \cup {p} /\ PrevBlock[p] \in Point
    BY <1>2, PathAssumption, TreeAssumption
  <2>2. HeightOf[p] = HeightOf[PrevBlock[p]] + 1 /\ HeightOf[PrevBlock[p]] \in Int
    BY <1>2, <2>1, TreeAssumption
  <2>3. CASE q \in Path[PrevBlock[p]]
    <3>1. HeightOf[q] <= HeightOf[PrevBlock[p]]
      BY <2>1, <2>3, PathHeights
    <3> QED
      BY <2>2, <3>1
  <2> QED
    BY <2>1, <2>3
<1> QED
  BY <1>1, <1>2 DEF Point

\* The parent is the only block of a path one below its end.
LEMMA ParentOnPath ==
    ASSUME NEW b \in Block, NEW q \in Path[b], HeightOf[q] = HeightOf[b] - 1
    PROVE  q = PrevBlock[b]
<1>1. PrevBlock[b] \in Point /\ Path[b] = Path[PrevBlock[b]] \cup {b}
  BY PathAssumption, TreeAssumption
<1>2. HeightOf[b] = HeightOf[PrevBlock[b]] + 1 /\ HeightOf[PrevBlock[b]] \in Int
  BY <1>1, TreeAssumption
<1>3. q \in Path[PrevBlock[b]]
  BY <1>1, <1>2
<1>4. HeightOf[q] = HeightOf[PrevBlock[b]]
  BY <1>2
<1> QED
  BY <1>1, <1>3, <1>4, EndOfPath

-----------------------------------------------------------------------------
\* A chain of blocks, the newest at the back; all but the first are blocks.
Chain(q) ==
    /\ q \in Seq(Point)
    /\ Len(q) \in 1..BlockQueueSize
    /\ \A n \in 2..Len(q) : q[n] \in Block /\ PrevBlock[q[n]] = q[n - 1]

\* A block that extends the last one is pushed, the first one dropped when
\* there are too many.
LEMMA PushChain ==
    ASSUME NEW q, Chain(q), NEW b \in Block, PrevBlock[b] = Last(q)
    PROVE  Chain(Trimmed(Append(q, b))) /\ Last(Trimmed(Append(q, b))) = b
<1> DEFINE r == Append(q, b)
           t == Tail(r)
<1>1. q \in Seq(Point) /\ b \in Point /\ Len(q) \in Nat \ {0}
  BY DEF Chain, Point
<1>2. /\ r \in Seq(Point) /\ Len(r) = Len(q) + 1 /\ r[Len(r)] = b
      /\ \A n \in 1..Len(q) : r[n] = q[n]
  BY <1>1, AppendProperties
<1>3. \A n \in 2..Len(r) : r[n] \in Block /\ PrevBlock[r[n]] = r[n - 1]
  BY <1>1, <1>2 DEF Chain, Last
<1>4. CASE Len(r) <= BlockQueueSize
  <2>1. Trimmed(r) = r
    BY <1>4, <1>1, <1>2, CrawlerAssumption DEF Trimmed
  <2> QED
    BY <1>1, <1>2, <1>3, <1>4, <2>1 DEF Chain, Last
<1>5. CASE Len(r) > BlockQueueSize
  <2>1. Trimmed(r) = t
    BY <1>5 DEF Trimmed
  <2>2. r # <<>>
    BY <1>1, <1>2
  <2>3. /\ t \in Seq(Point) /\ Len(t) = Len(q)
        /\ \A n \in 1..Len(t) : t[n] = r[n + 1]
    BY <1>1, <1>2, <2>2, HeadTailProperties
  <2>4. \A n \in 2..Len(t) : t[n] \in Block /\ PrevBlock[t[n]] = t[n - 1]
    BY <1>1, <1>2, <1>3, <2>3
  <2>5. t[Len(t)] = b
    BY <1>1, <1>2, <2>3
  <2> HIDE DEF t
  <2>6. Chain(t) /\ Last(t) = b
    BY <2>3, <2>4, <2>5 DEF Chain, Last
  <2> QED
    BY <2>1, <2>6
<1> QED
  BY <1>1, <1>2, <1>4, <1>5, CrawlerAssumption

\* The last block of a chain is taken back and its parent is left.
LEMMA PopChain ==
    ASSUME NEW q, Chain(q), Len(q) >= 2
    PROVE  /\ Chain(Front(q))
           /\ Last(q) \in Block
           /\ Last(Front(q)) = PrevBlock[Last(q)]
<1> DEFINE f == SubSeq(q, 1, Len(q) - 1)
<1>1. q \in Seq(Point) /\ Len(q) \in Nat \ {0, 1}
  BY DEF Chain
<1>2. /\ f \in Seq(Point) /\ Len(f) = Len(q) - 1
      /\ \A n \in 1..Len(f) : f[n] = q[n]
  BY <1>1
<1>3. q[Len(q)] \in Block /\ PrevBlock[q[Len(q)]] = q[Len(q) - 1]
  BY <1>1 DEF Chain
<1>4. f[Len(f)] = q[Len(q) - 1]
  BY <1>1, <1>2
<1>5. \A n \in 2..Len(f) : f[n] \in Block /\ PrevBlock[f[n]] = f[n - 1]
  BY <1>1, <1>2 DEF Chain
<1>6. Len(f) \in 1..BlockQueueSize
  BY <1>1, <1>2, CrawlerAssumption DEF Chain
<1> HIDE DEF f
<1>7. Front(q) = f
  BY DEF Front, f
<1> QED
  BY <1>2, <1>3, <1>4, <1>5, <1>6, <1>7 DEF Chain, Last

-----------------------------------------------------------------------------
\* Updates that lead block by block from one point to another.
Leads(todo, from, to) ==
    /\ \A n \in DOMAIN todo :
          Before(todo[n]) = IF n = 1 THEN from ELSE After(todo[n - 1])
    /\ to = IF todo = <<>> THEN from ELSE After(Last(todo))

SentUpdate == [class : {"NEWBLOCK", "BACKTRACK"}, hash : Block]

LEMMA LeadsAppend ==
    ASSUME NEW todo \in Seq(SentUpdate), NEW from, NEW u \in SentUpdate,
           Leads(todo, from, Before(u))
    PROVE  Leads(Append(todo, u), from, After(u))
<1> DEFINE r == Append(todo, u)
<1>1. /\ r \in Seq(SentUpdate) /\ Len(r) = Len(todo) + 1 /\ r[Len(r)] = u
      /\ r # <<>> /\ Len(todo) \in Nat /\ DOMAIN r = 1..Len(r) /\ DOMAIN todo = 1..Len(todo)
      /\ \A n \in 1..Len(todo) : r[n] = todo[n]
  BY AppendProperties
<1>2. todo = <<>> <=> Len(todo) = 0
  BY EmptySeq
<1> HIDE DEF r
<1>3. ASSUME NEW n \in 1..Len(r)
      PROVE  Before(r[n]) = IF n = 1 THEN from ELSE After(r[n - 1])
  <2>1. CASE n = Len(r)
    BY <1>1, <1>2, <2>1 DEF Leads, Last
  <2>2. CASE n \in 1..Len(todo)
    BY <1>1, <1>2, <2>2 DEF Leads, Last
  <2> QED
    BY <1>1, <2>1, <2>2
<1> QED
  BY <1>1, <1>3 DEF Leads, Last, r

LEMMA LeadsTail ==
    ASSUME NEW todo \in Seq(SentUpdate), todo # <<>>, NEW from, NEW to,
           Leads(todo, from, to)
    PROVE  Leads(Tail(todo), After(Head(todo)), to)
<1> DEFINE t == Tail(todo)
<1>1. /\ t \in Seq(SentUpdate) /\ Len(t) = Len(todo) - 1 /\ Head(todo) = todo[1]
      /\ Len(todo) \in Nat \ {0} /\ DOMAIN t = 1..Len(t) /\ DOMAIN todo = 1..Len(todo)
      /\ \A n \in 1..Len(t) : t[n] = todo[n + 1]
  BY HeadTailProperties, LenProperties, EmptySeq
<1>2. t = <<>> <=> Len(t) = 0
  BY <1>1, EmptySeq
<1> HIDE DEF t
<1>3. ASSUME NEW n \in 1..Len(t)
      PROVE  Before(t[n]) = IF n = 1 THEN After(Head(todo)) ELSE After(t[n - 1])
  BY <1>1 DEF Leads
<1>4. to = IF t = <<>> THEN After(Head(todo)) ELSE After(Last(t))
  BY <1>1, <1>2 DEF Leads, Last
<1> QED
  BY <1>1, <1>3, <1>4 DEF Leads, t

LEMMA TailOfAppend ==
    ASSUME NEW S, NEW q \in Seq(S), q # <<>>, NEW e \in S
    PROVE  /\ Append(q, e) # <<>>
           /\ Head(Append(q, e)) = Head(q)
           /\ Tail(Append(q, e)) = Append(Tail(q), e)
OBVIOUS

-----------------------------------------------------------------------------
TypeInv ==
    /\ best \in Block
    /\ fetcher \in {"none", "poll", "fetch", "offer"}
    /\ nextHeight \in Nat
    /\ offered \in Record
    /\ fetcherBlocks \in Seq(Record)
    /\ step \in {"select", "refetch", "backtrack", "notify", "panic"}
    /\ height \in Int
    /\ record \in Record
    /\ update \in Updates
    /\ step = "notify" => update \in SentUpdate
    /\ subscribers \subseteq Subscriber
    /\ unsent \subseteq subscribers
    /\ step # "notify" => unsent = {}
    /\ channel \in [Subscriber -> Seq(SentUpdate)]
    /\ clientTip \in [Subscriber -> Point]

\* A block is taken back only from a queue that keeps another.
QueueInv ==
    /\ Chain(blockQueue)
    /\ height = IF step = "backtrack" THEN HeightOf[Back] ELSE HeightOf[Back] + 1
    /\ step = "backtrack" => Len(blockQueue) >= 2

\* What the fetcher sends is in step with the crawler, and nothing has been
\* sent before it is started.
FetchInv ==
    /\ FetchesNext
    /\ fetcher = "none" => fetcherBlocks = <<>>

\* A block that is about to be taken back does not precede the record that
\* causes it, which is of the height above it.
RecordInv ==
    /\ step = "refetch" => record.block # record.asked
    /\ step = "backtrack" /\ record.block = record.asked =>
          /\ PrevBlock[record.block] # Back
          /\ HeightOf[record.block] = HeightOf[Back] + 1

Todo(s) == IF s \in unsent THEN Append(channel[s], update) ELSE channel[s]

StepInv == \A s \in subscribers : Leads(Todo(s), clientTip[s], Back)

\* The inductive invariant of the crawler.
Inv == TypeInv /\ QueueInv /\ FetchInv /\ RecordInv /\ StepInv

LEMMA SentAfter ==
    ASSUME NEW u \in SentUpdate
    PROVE  After(u) \in Point /\ Before(u) \in Point
BY TreeAssumption DEF SentUpdate, After, Before, Point

LEMMA BackPoint ==
    ASSUME NEW q, Chain(q)
    PROVE  Last(q) \in Point
<1>1. q \in Seq(Point) /\ Len(q) \in Nat \ {0}
  BY DEF Chain
<1> QED
  BY <1>1, ElementOfSeq DEF Last

\* What checkBlock does with a block that extends the last one.
LEMMA AddBlockEffect ==
    ASSUME Chain(blockQueue), NEW b \in Block, PrevBlock[b] = Back, AddBlock(b),
           height = HeightOf[Back] + 1
    PROVE  /\ Chain(blockQueue') /\ Back' = b
           /\ height' = HeightOf[b] + 1
           /\ update' \in SentUpdate /\ update' \in Updates
           /\ Before(update') = Back /\ After(update') = b
           /\ step' = "notify" /\ unsent' = subscribers
<1>1. /\ Chain(blockQueue') /\ Back' = b
  <2>1. blockQueue' = Trimmed(Append(blockQueue, b))
    BY DEF AddBlock
  <2>2. Chain(Trimmed(Append(blockQueue, b))) /\ Last(Trimmed(Append(blockQueue, b))) = b
    BY PushChain DEF Back
  <2> QED
    BY <2>1, <2>2 DEF Back, Chain
<1>2. HeightOf[b] = HeightOf[Back] + 1 /\ HeightOf[b] \in Nat
  BY TreeAssumption
<1>3. update' = [class |-> "NEWBLOCK", hash |-> b]
  BY DEF AddBlock, Update
<1>4. update' \in SentUpdate /\ update' \in Updates
  BY <1>3 DEF SentUpdate, Updates, Point
<1> QED
  BY <1>1, <1>2, <1>3, <1>4 DEF AddBlock, Before, After

LEMMA ReceiveRecord ==
    ASSUME TypeInv, ReceiveBlock
    PROVE  /\ record' = fetcherBlocks[1] /\ record' \in Record
           /\ fetcherBlocks' \in Seq(Record)
           /\ Len(fetcherBlocks) \in Nat \ {0}
           /\ Len(fetcherBlocks') = Len(fetcherBlocks) - 1
           /\ \A n \in 1..Len(fetcherBlocks') : fetcherBlocks'[n] = fetcherBlocks[n + 1]
<1>1. fetcherBlocks \in Seq(Record) /\ fetcherBlocks # <<>>
  BY DEF TypeInv, ReceiveBlock
<1>2. record' = Head(fetcherBlocks) /\ fetcherBlocks' = Tail(fetcherBlocks)
  BY DEF ReceiveBlock
<1> QED
  BY <1>1, <1>2, HeadTailProperties, LenProperties, EmptySeq

\* No block is asked for below the first.
LEMMA HeightNat ==
    ASSUME TypeInv, QueueInv
    PROVE  height \in Nat
<1>1. Back \in Point
  BY BackPoint DEF QueueInv, Back
<1>2. step = "backtrack" => Back \in Block
  BY PopChain DEF QueueInv, Back
<1>3. \A p \in Point : HeightOf[p] \in Int /\ HeightOf[p] >= -1
  BY TreeAssumption DEF Point
<1> QED
  BY <1>1, <1>2, <1>3, TreeAssumption DEF QueueInv

\* checkBlock starts to take back the last block, or panics when there is no
\* other, or adds the new one.
LEMMA CheckBlockEffect ==
    ASSUME TypeInv, QueueInv, step # "backtrack", NEW b \in Block, CheckBlock(b)
    PROVE  \/ /\ PrevBlock[b] = Back /\ Chain(blockQueue') /\ Back' = b
              /\ height' = HeightOf[b] + 1 /\ height' = height + 1
              /\ update' \in SentUpdate /\ update' \in Updates
              /\ Before(update') = Back /\ After(update') = b
              /\ step' = "notify" /\ unsent' = subscribers
           \/ /\ PrevBlock[b] # Back
              /\ UNCHANGED <<blockQueue, Back, update, unsent>>
              /\ \/ step' = "panic" /\ height' = height
                 \/ /\ step' = "backtrack" /\ height' = height - 1
                    /\ height' = HeightOf[Back]
                    /\ Len(blockQueue) >= 2
<1>1. CASE PrevBlock[b] = Back
  BY <1>1, AddBlockEffect DEF CheckBlock, QueueInv, AddBlock
<1>2. CASE PrevBlock[b] # Back
  <2>1. StartBacktrack
    BY <1>2 DEF CheckBlock
  <2>2. UNCHANGED <<blockQueue, Back, update, unsent>>
    BY <2>1 DEF StartBacktrack, Back
  <2>3. Len(blockQueue) = 1 \/ Len(blockQueue) >= 2
    <3>1. Len(blockQueue) \in 1..BlockQueueSize
      BY DEF QueueInv, Chain
    <3>2. BlockQueueSize \in Int
      BY CrawlerAssumption
    <3>3. \A n \in 1..BlockQueueSize : n = 1 \/ n >= 2
      BY <3>2
    <3> QED
      BY <3>1, <3>3
  <2>4. HeightOf[Back] \in Int
    BY BackPoint, TreeAssumption DEF QueueInv, Back
  <2> QED
    BY <1>2, <2>1, <2>2, <2>3, <2>4 DEF StartBacktrack, QueueInv
<1> QED
  BY <1>1, <1>2

\* The last block is taken back and announced.
LEMMA FinishBacktrackEffect ==
    ASSUME QueueInv, FinishBacktrack
    PROVE  /\ Back \in Block
           /\ Chain(blockQueue') /\ Back' = PrevBlock[Back]
           /\ height' = height /\ height' = HeightOf[Back'] + 1
           /\ update' = Update("BACKTRACK", Back)
           /\ update' \in SentUpdate /\ update' \in Updates
           /\ Before(update') = Back /\ After(update') = Back'
           /\ step' = "notify" /\ unsent' = subscribers
<1>1. Chain(blockQueue) /\ Len(blockQueue) >= 2 /\ height = HeightOf[Back]
  BY DEF QueueInv, FinishBacktrack
<1>2. /\ Chain(Front(blockQueue)) /\ Back \in Block
      /\ Last(Front(blockQueue)) = PrevBlock[Back]
  BY <1>1, PopChain DEF Back
<1>3. Chain(blockQueue') /\ Back' = PrevBlock[Back]
  BY <1>2 DEF FinishBacktrack, Back, Chain
<1>4. HeightOf[Back] = HeightOf[PrevBlock[Back]] + 1
  BY <1>2, TreeAssumption
<1>5. update' = [class |-> "BACKTRACK", hash |-> Back]
  BY DEF FinishBacktrack, Update
<1>6. update' \in SentUpdate /\ update' \in Updates
  BY <1>2, <1>5 DEF SentUpdate, Updates, Point
<1> QED
  BY <1>1, <1>2, <1>3, <1>4, <1>5, <1>6 DEF FinishBacktrack, Update, Before, After

LEMMA TypeStep ==
    ASSUME Inv, Next
    PROVE  TypeInv'
<1> USE DEF Inv, TypeInv, fetcherVars, routineVars, clientVars
<1>1. CASE NodeAdvances
  BY <1>1 DEF NodeAdvances
<1>2. CASE PollCount
  BY <1>2 DEF PollCount
<1>3. CASE FetchBlock
  <2>1. PICK b \in Path[best] : \E received \in {b} \cup Damaged :
            HeightOf[b] = nextHeight /\ offered' = [asked |-> b, block |-> received]
    BY <1>3 DEF FetchBlock
  <2>2. b \in Block
    <3>1. b \in Point
      BY PathAssumption DEF Point
    <3> QED
      BY <2>1, <3>1, TreeAssumption DEF Point
  <2> QED
    BY <1>3, <2>1, <2>2, CrawlerAssumption DEF FetchBlock, Record
<1>4. CASE NoBlock
  BY <1>4 DEF NoBlock
<1>5. CASE OfferBlock
  BY <1>5, AppendProperties DEF OfferBlock
<1>6. CASE ReceiveBlock
  <2>1. record' \in Record /\ fetcherBlocks' \in Seq(Record)
    BY <1>6, ReceiveRecord
  <2>2. CASE record'.block # record'.asked
    BY <1>6, <2>1, <2>2 DEF ReceiveBlock
  <2>3. CASE record'.block = record'.asked
    <3>1. CheckBlock(record'.block) /\ record'.block \in Block /\ step = "select"
      BY <1>6, <2>1, <2>3 DEF ReceiveBlock, Record
    <3>2. height' \in Int /\ update' \in Updates
      BY <3>1, CheckBlockEffect, TreeAssumption DEF Point
    <3> QED
      BY <1>6, <2>1, <3>1, <3>2, CheckBlockEffect DEF ReceiveBlock
  <2> QED
    BY <2>2, <2>3
<1>7. CASE Refetch
  <2>1. CheckBlock(record.block) /\ record.block \in Block /\ step = "refetch"
    BY <1>7 DEF Refetch, Record
  <2>2. height' \in Int
    <3>1. HeightOf[record.block] \in Int
      BY <2>1, TreeAssumption
    <3> QED
      BY <2>1, <3>1, CheckBlockEffect
  <2>3. fetcherBlocks' = <<>> /\ nextHeight' \in Nat /\ offered' = offered /\ fetcher' = "poll"
    BY <1>7, HeightNat DEF Refetch, NewFetcher, FetcherAt
  <2>4. fetcherBlocks' \in Seq(Record)
    BY <2>3
  <2> QED
    BY <1>7, <2>1, <2>2, <2>3, <2>4, CheckBlockEffect DEF Refetch
<1>8. CASE FinishBacktrack
  <2>1. fetcherBlocks' = <<>> /\ nextHeight' \in Nat /\ offered' = offered /\ fetcher' = "poll"
    BY <1>8, HeightNat DEF FinishBacktrack, NewFetcher, FetcherAt
  <2>2. fetcherBlocks' \in Seq(Record)
    BY <2>1
  <2> QED
    BY <1>8, <2>1, <2>2, FinishBacktrackEffect DEF FinishBacktrack
<1>9. CASE NotifyDone
  BY <1>9 DEF NotifyDone
<1>10. ASSUME NEW s \in Subscriber, Notify(s) PROVE TypeInv'
  <2>1. channel' \in [Subscriber -> Seq(SentUpdate)]
    BY <1>10, AppendProperties DEF Notify
  <2> QED
    BY <1>10, <2>1 DEF Notify
<1>11. ASSUME NEW s \in Subscriber, TakeUpdate(s) PROVE TypeInv'
  <2>1. channel[s] \in Seq(SentUpdate) /\ channel[s] # <<>>
    BY <1>11 DEF TakeUpdate
  <2>2. Tail(channel[s]) \in Seq(SentUpdate) /\ Head(channel[s]) \in SentUpdate
    BY <2>1, HeadTailProperties
  <2>3. After(Head(channel[s])) \in Point
    BY <2>2, SentAfter
  <2> QED
    BY <1>11, <2>2, <2>3 DEF TakeUpdate
<1>12. CASE Start
  <2>1. fetcherBlocks' \in Seq(Record) /\ nextHeight' \in Nat
    BY <1>12, HeightNat DEF Start, FetcherAt
  <2> QED
    BY <1>12, <2>1 DEF Start, FetcherAt
<1>13. ASSUME NEW s \in Subscriber, Subscribe(s) PROVE TypeInv'
  <2>1. Back \in Point
    BY BackPoint DEF QueueInv, Back
  <2>2. <<>> \in Seq(SentUpdate)
    OBVIOUS
  <2> QED
    BY <1>13, <2>1, <2>2 DEF Subscribe
<1>14. ASSUME NEW s \in Subscriber, Unsubscribe(s) PROVE TypeInv'
  BY <1>14 DEF Unsubscribe
<1> HIDE DEF Inv, TypeInv, fetcherVars, routineVars, clientVars
<1> QED
  BY <1>1, <1>2, <1>3, <1>4, <1>5, <1>6, <1>7, <1>8, <1>9, <1>10, <1>11, <1>12, <1>13, <1>14
  DEF Next, Fetcher, Routine, Requests

LEMMA QueueStep ==
    ASSUME Inv, Next
    PROVE  QueueInv'
<1> USE DEF Inv, QueueInv, fetcherVars, routineVars, clientVars
<1>1. ASSUME UNCHANGED <<blockQueue, height, step>> PROVE QueueInv'
  BY <1>1 DEF Back, Chain
<1>2. ASSUME NEW b \in Block, step \in {"select", "refetch"}, CheckBlock(b) PROVE QueueInv'
  <2>1. \/ Chain(blockQueue') /\ Back' = b /\ height' = HeightOf[b] + 1 /\ step' = "notify"
        \/ /\ blockQueue' = blockQueue /\ Back' = Back
           /\ \/ step' = "panic" /\ height' = height
              \/ step' = "backtrack" /\ height' = HeightOf[Back] /\ Len(blockQueue) >= 2
    BY <1>2, CheckBlockEffect
  <2> QED
    BY <1>2, <2>1 DEF Chain
<1>3. CASE ReceiveBlock
  <2>1. CASE record'.block # record'.asked
    BY <1>3, <2>1 DEF ReceiveBlock, Back, Chain
  <2>2. CASE record'.block = record'.asked
    <3>1. CheckBlock(record'.block) /\ record'.block \in Block
      BY <1>3, <2>2, ReceiveRecord DEF ReceiveBlock, Record
    <3> QED
      BY <1>2, <1>3, <3>1 DEF ReceiveBlock
  <2> QED
    BY <2>1, <2>2
<1>4. CASE Refetch
  <2>1. CheckBlock(record.block) /\ record.block \in Block
    BY <1>4 DEF Refetch, Record, TypeInv
  <2> QED
    BY <1>2, <1>4, <2>1 DEF Refetch
<1>5. CASE FinishBacktrack
  BY <1>5, FinishBacktrackEffect
<1>6. CASE NotifyDone
  BY <1>6 DEF NotifyDone, Back, Chain
<1>7. NodeAdvances \/ Fetcher \/ Requests => UNCHANGED <<blockQueue, height, step>>
  BY DEF NodeAdvances, Fetcher, Requests, PollCount, FetchBlock, NoBlock, OfferBlock,
         Start, Subscribe, Unsubscribe
<1>8. ASSUME NEW s \in Subscriber, Notify(s) \/ TakeUpdate(s)
      PROVE  UNCHANGED <<blockQueue, height, step>>
  BY <1>8 DEF Notify, TakeUpdate
<1> QED
  BY <1>1, <1>3, <1>4, <1>5, <1>6, <1>7, <1>8 DEF Next, Routine

LEMMA FetchStep ==
    ASSUME Inv, Next
    PROVE  FetchInv'
<1> USE DEF Inv, FetchInv, FetchesNext, fetcherVars, routineVars, clientVars
<1>1. fetcherBlocks \in Seq(Record) /\ Len(fetcherBlocks) \in Nat
      /\ DOMAIN fetcherBlocks = 1..Len(fetcherBlocks)
  BY LenProperties DEF TypeInv
<1>2. /\ fetcherBlocks' \in Seq(Record) /\ Len(fetcherBlocks') \in Nat
      /\ DOMAIN fetcherBlocks' = 1..Len(fetcherBlocks')
  <2>1. fetcherBlocks' \in Seq(Record)
    BY TypeStep DEF TypeInv
  <2> QED
    BY <2>1, LenProperties
<1>3. height \in Nat /\ nextHeight \in Nat
  BY HeightNat DEF TypeInv
<1>4. ASSUME UNCHANGED <<fetcher, nextHeight, fetcherBlocks, offered, height>>,
             step' \in {"select", "notify"} => step \in {"select", "notify"}
      PROVE  FetchInv'
  BY <1>4
<1>5. ASSUME NEW h \in Nat, FetcherAt(h),
             height' = h \/ step' \notin {"select", "notify"}
      PROVE  FetchInv'
  <2>1. fetcherBlocks' = <<>> /\ fetcher' = "poll" /\ nextHeight' = h
    BY <1>5 DEF FetcherAt
  <2>2. Len(fetcherBlocks') = 0 /\ DOMAIN fetcherBlocks' = {}
    BY <2>1
  <2> QED
    BY <1>5, <2>1, <2>2
<1>6. CASE PollCount
  BY <1>6 DEF PollCount
<1>7. CASE FetchBlock
  <2>1. HeightOf[offered'.asked] = nextHeight
    BY <1>7 DEF FetchBlock
  <2> QED
    BY <1>7, <2>1 DEF FetchBlock
<1>8. CASE NoBlock
  BY <1>8 DEF NoBlock
<1>9. CASE OfferBlock
  <2>1. /\ Len(fetcherBlocks') = Len(fetcherBlocks) + 1
        /\ fetcherBlocks'[Len(fetcherBlocks) + 1] = offered
        /\ \A n \in 1..Len(fetcherBlocks) : fetcherBlocks'[n] = fetcherBlocks[n]
    BY <1>9, AppendProperties DEF OfferBlock, TypeInv
  <2>2. fetcher = "offer" /\ fetcher' = "poll" /\ nextHeight' = nextHeight + 1
        /\ step' = step /\ height' = height
    BY <1>9 DEF OfferBlock
  <2>3. CASE step \in {"select", "notify"}
    <3>1. \A n \in 1..Len(fetcherBlocks') :
              HeightOf[fetcherBlocks'[n].asked] = height + n - 1
      BY <1>1, <1>3, <2>1, <2>2, <2>3
    <3> QED
      BY <1>1, <1>2, <1>3, <2>1, <2>2, <2>3, <3>1
  <2> QED
    BY <2>2, <2>3
<1>10. CASE ReceiveBlock
  <2>1. /\ Len(fetcherBlocks) \in Nat \ {0}
        /\ Len(fetcherBlocks') = Len(fetcherBlocks) - 1
        /\ \A n \in 1..Len(fetcherBlocks') : fetcherBlocks'[n] = fetcherBlocks[n + 1]
    BY <1>10, ReceiveRecord
  <2>2. /\ fetcher # "none" /\ step = "select"
        /\ UNCHANGED <<fetcher, nextHeight, offered>>
    BY <1>10, <2>1 DEF ReceiveBlock
  <2>3. step' \in {"select", "notify"} => height' = height + 1
    <3>1. CASE record'.block # record'.asked
      BY <1>10, <3>1 DEF ReceiveBlock
    <3>2. CASE record'.block = record'.asked
      <4>1. CheckBlock(record'.block) /\ record'.block \in Block
        BY <1>10, <3>2, ReceiveRecord DEF ReceiveBlock, Record
      <4> QED
        BY <2>2, <4>1, CheckBlockEffect
    <3> QED
      BY <3>1, <3>2
  <2>4. ASSUME step' \in {"select", "notify"}
        PROVE  /\ nextHeight' = height' + Len(fetcherBlocks')
               /\ \A n \in 1..Len(fetcherBlocks') :
                     HeightOf[fetcherBlocks'[n].asked] = height' + n - 1
               /\ fetcher' = "offer" => HeightOf[offered'.asked] = nextHeight'
    <3>1. height' = height + 1
      BY <2>3, <2>4
    <3>2. /\ nextHeight = height + Len(fetcherBlocks)
          /\ \A n \in 1..Len(fetcherBlocks) : HeightOf[fetcherBlocks[n].asked] = height + n - 1
          /\ fetcher = "offer" => HeightOf[offered.asked] = nextHeight
      BY <1>1, <2>2
    <3>3. ASSUME NEW n \in 1..Len(fetcherBlocks')
          PROVE  HeightOf[fetcherBlocks'[n].asked] = height' + n - 1
      <4>1. n + 1 \in 1..Len(fetcherBlocks) /\ n \in Nat
        BY <1>1, <1>2, <2>1
      <4>2. HeightOf[fetcherBlocks[n + 1].asked] = height + (n + 1) - 1
        BY <3>2, <4>1
      <4>3. fetcherBlocks'[n] = fetcherBlocks[n + 1]
        BY <2>1
      <4> QED
        BY <1>3, <3>1, <4>1, <4>2, <4>3
    <3> QED
      BY <1>1, <1>2, <1>3, <2>1, <2>2, <3>1, <3>2, <3>3
  <2> QED
    BY <1>2, <2>2, <2>4
<1>11. CASE Refetch
  <2>1. CheckBlock(record.block) /\ record.block \in Block /\ step = "refetch"
    BY <1>11 DEF Refetch, Record, TypeInv
  <2>2. height' = height + 1 \/ step' \notin {"select", "notify"}
    BY <2>1, CheckBlockEffect
  <2>3. FetcherAt(height + 1)
    BY <1>11 DEF Refetch, NewFetcher
  <2> QED
    BY <1>3, <1>5, <2>2, <2>3
<1>12. CASE FinishBacktrack
  <2>1. FetcherAt(height) /\ height' = height
    BY <1>12 DEF FinishBacktrack, NewFetcher
  <2> QED
    BY <1>3, <1>5, <2>1
<1>13. CASE NotifyDone
  BY <1>4, <1>13 DEF NotifyDone
<1>14. CASE Start
  <2>1. FetcherAt(height) /\ height' = height
    BY <1>14 DEF Start
  <2> QED
    BY <1>3, <1>5, <2>1
<1>15. CASE NodeAdvances
  BY <1>4, <1>15 DEF NodeAdvances
<1>16. ASSUME NEW s \in Subscriber,
              Notify(s) \/ TakeUpdate(s) \/ Subscribe(s) \/ Unsubscribe(s)
       PROVE  FetchInv'
  BY <1>4, <1>16 DEF Notify, TakeUpdate, Subscribe, Unsubscribe
<1> HIDE DEF Inv, FetchInv, FetchesNext, fetcherVars, routineVars, clientVars
<1> QED
  BY <1>6, <1>7, <1>8, <1>9, <1>10, <1>11, <1>12, <1>13, <1>14, <1>15, <1>16
  DEF Next, Fetcher, Routine, Requests

LEMMA RecordStep ==
    ASSUME Inv, Next
    PROVE  RecordInv'
<1> USE DEF Inv, RecordInv, fetcherVars, routineVars, clientVars
<1>1. CASE ReceiveBlock
  <2>1. record' = fetcherBlocks[1] /\ record' \in Record /\ Len(fetcherBlocks) \in Nat \ {0}
    BY <1>1, ReceiveRecord
  <2>2. HeightOf[record'.asked] = height
    <3>1. DOMAIN fetcherBlocks = 1..Len(fetcherBlocks) /\ fetcherBlocks # <<>>
      BY <1>1, LenProperties DEF TypeInv, ReceiveBlock
    <3>2. fetcher # "none" /\ step = "select" /\ 1 \in DOMAIN fetcherBlocks
      BY <1>1, <2>1, <3>1 DEF FetchInv, ReceiveBlock
    <3>3. HeightOf[fetcherBlocks[1].asked] = height + 1 - 1
      BY <3>2 DEF FetchInv, FetchesNext
    <3> QED
      BY <2>1, <3>3, HeightNat
  <2>3. CASE record'.block # record'.asked
    BY <1>1, <2>3 DEF ReceiveBlock
  <2>4. CASE record'.block = record'.asked
    <3>1. CheckBlock(record'.block) /\ record'.block \in Block /\ step = "select"
      BY <1>1, <2>1, <2>4 DEF ReceiveBlock, Record
    <3>2. HeightOf[record'.block] = HeightOf[Back] + 1
      BY <2>2, <2>4, <3>1 DEF QueueInv
    <3> QED
      BY <3>1, <3>2, CheckBlockEffect
  <2> QED
    BY <2>3, <2>4
<1>2. CASE Refetch
  <2>1. record' = record /\ record.block # record.asked
    BY <1>2 DEF Refetch
  <2>2. CheckBlock(record.block) /\ record.block \in Block /\ step = "refetch"
    BY <1>2 DEF Refetch, Record, TypeInv
  <2> QED
    BY <2>1, <2>2, CheckBlockEffect
<1>3. CASE FinishBacktrack \/ NotifyDone
  BY <1>3 DEF FinishBacktrack, NotifyDone
<1>4. NodeAdvances \/ Fetcher \/ Requests => UNCHANGED <<blockQueue, record, step>>
  BY DEF NodeAdvances, Fetcher, Requests, PollCount, FetchBlock, NoBlock, OfferBlock,
         Start, Subscribe, Unsubscribe
<1>5. ASSUME NEW s \in Subscriber, Notify(s) \/ TakeUpdate(s)
      PROVE  UNCHANGED <<blockQueue, record, step>>
  BY <1>5 DEF Notify, TakeUpdate
<1>6. UNCHANGED <<blockQueue, record, step>> => RecordInv'
  BY DEF Back
<1> QED
  BY <1>1, <1>2, <1>3, <1>4, <1>5, <1>6 DEF Next, Routine

\* A new update goes to every subscriber after what each has been sent.
LEMMA AnnouncedInStep ==
    ASSUME Inv, step # "notify", step' = "notify", unsent' = subscribers,
           update' \in SentUpdate, Before(update') = Back, After(update') = Back',
           UNCHANGED clientVars
    PROVE  StepInv'
<1> SUFFICES ASSUME NEW s \in subscribers
             PROVE  Leads(Append(channel[s], update'), clientTip[s], Back')
  BY DEF StepInv, Todo, clientVars
<1>1. channel[s] \in Seq(SentUpdate)
  BY DEF Inv, TypeInv
<1>2. Leads(channel[s], clientTip[s], Back)
  BY DEF Inv, TypeInv, StepInv, Todo
<1> QED
  BY <1>1, <1>2, LeadsAppend

LEMMA InStepStep ==
    ASSUME Inv, Next
    PROVE  StepInv'
<1> USE DEF fetcherVars, routineVars, clientVars
<1>1. ASSUME UNCHANGED <<blockQueue, update, unsent, clientVars>> PROVE StepInv'
  BY <1>1 DEF Inv, StepInv, Todo, Back
<1>2. ASSUME NEW b \in Block, step \in {"select", "refetch"}, CheckBlock(b),
             UNCHANGED clientVars
      PROVE StepInv'
  <2>1. CASE PrevBlock[b] = Back
    <3>1. /\ Back' = b /\ update' \in SentUpdate
          /\ Before(update') = Back /\ After(update') = b
          /\ step' = "notify" /\ unsent' = subscribers
      BY <1>2, <2>1, CheckBlockEffect DEF Inv
    <3> QED
      BY <1>2, <3>1, AnnouncedInStep
  <2>2. CASE PrevBlock[b] # Back
    BY <1>1, <1>2, <2>2, CheckBlockEffect DEF Inv
  <2> QED
    BY <2>1, <2>2
<1>3. CASE ReceiveBlock
  <2>1. CASE record'.block # record'.asked
    BY <1>1, <1>3, <2>1 DEF ReceiveBlock
  <2>2. CASE record'.block = record'.asked
    <3>1. CheckBlock(record'.block) /\ record'.block \in Block
      BY <1>3, <2>2, ReceiveRecord DEF ReceiveBlock, Record, Inv
    <3> QED
      BY <1>2, <1>3, <3>1 DEF ReceiveBlock
  <2> QED
    BY <2>1, <2>2
<1>4. CASE Refetch
  <2>1. CheckBlock(record.block) /\ record.block \in Block
    BY <1>4 DEF Refetch, Record, TypeInv, Inv
  <2> QED
    BY <1>2, <1>4, <2>1 DEF Refetch
<1>5. CASE FinishBacktrack
  <2>1. step # "notify" /\ UNCHANGED clientVars
    BY <1>5 DEF FinishBacktrack
  <2> QED
    BY <1>5, <2>1, FinishBacktrackEffect, AnnouncedInStep DEF Inv
<1>6. NodeAdvances \/ Fetcher \/ NotifyDone \/ Start => UNCHANGED <<blockQueue, update, unsent, clientVars>>
  BY DEF NodeAdvances, Fetcher, PollCount, FetchBlock, NoBlock, OfferBlock, NotifyDone, Start
<1>7. ASSUME NEW s \in Subscriber, Notify(s) PROVE StepInv'
  <2> SUFFICES ASSUME NEW t \in subscribers
               PROVE  Leads(Todo(t)', clientTip[t], Back)
    BY <1>7 DEF Notify, StepInv, Back
  <2>1. Todo(t)' = Todo(t)
    <3>1. t \in Subscriber /\ channel \in [Subscriber -> Seq(SentUpdate)] /\ s \in unsent
      BY <1>7 DEF Inv, TypeInv, Notify
    <3>2. channel' = [channel EXCEPT ![s] = Append(@, update)] /\ unsent' = unsent \ {s}
          /\ update' = update
      BY <1>7 DEF Notify
    <3>3. CASE t = s
      BY <3>1, <3>2, <3>3 DEF Todo
    <3>4. CASE t # s
      BY <3>1, <3>2, <3>4 DEF Todo
    <3> QED
      BY <3>3, <3>4
  <2> QED
    BY <2>1 DEF Inv, StepInv
<1>8. ASSUME NEW s \in Subscriber, TakeUpdate(s) PROVE StepInv'
  <2> SUFFICES ASSUME NEW t \in subscribers
               PROVE  Leads(Todo(t)', clientTip'[t], Back)
    BY <1>8 DEF TakeUpdate, StepInv, Back
  <2>1. /\ t \in Subscriber /\ channel \in [Subscriber -> Seq(SentUpdate)]
        /\ clientTip \in [Subscriber -> Point]
    BY DEF Inv, TypeInv
  <2>2. /\ channel[s] # <<>> /\ channel' = [channel EXCEPT ![s] = Tail(@)]
        /\ clientTip' = [clientTip EXCEPT ![s] = After(Head(channel[s]))]
        /\ UNCHANGED <<unsent, update>>
    BY <1>8 DEF TakeUpdate
  <2>3. Leads(Todo(t), clientTip[t], Back)
    BY DEF Inv, StepInv
  <2>4. CASE t # s
    BY <2>1, <2>2, <2>3, <2>4 DEF Todo
  <2>5. CASE t = s
    <3>1. channel[s] \in Seq(SentUpdate) /\ (s \in unsent => update \in SentUpdate)
      BY <2>1 DEF Inv, TypeInv
    <3>2. channel'[t] = Tail(channel[s]) /\ clientTip'[t] = After(Head(channel[s]))
      BY <2>1, <2>2, <2>5
    <3>3. /\ Todo(t) \in Seq(SentUpdate) /\ Todo(t) # <<>>
          /\ Todo(t)' = Tail(Todo(t))
          /\ Head(Todo(t)) = Head(channel[s])
      <4>1. CASE s \in unsent
        <5>1. Todo(t) = Append(channel[s], update)
          BY <2>5, <4>1 DEF Todo
        <5>2. Todo(t)' = Append(Tail(channel[s]), update)
          BY <2>2, <2>5, <3>2, <4>1 DEF Todo
        <5>3. Append(channel[s], update) \in Seq(SentUpdate)
          BY <3>1, <4>1, AppendProperties
        <5> QED
          BY <2>2, <3>1, <4>1, <5>1, <5>2, <5>3, TailOfAppend
      <4>2. CASE s \notin unsent
        BY <2>2, <2>5, <3>1, <3>2, <4>2 DEF Todo
      <4> QED
        BY <4>1, <4>2
    <3> QED
      BY <2>3, <3>2, <3>3, LeadsTail
  <2> QED
    BY <2>4, <2>5
<1>9. ASSUME NEW s \in Subscriber, Subscribe(s) PROVE StepInv'
  <2> SUFFICES ASSUME NEW t \in subscribers'
               PROVE  Leads(Todo(t)', clientTip'[t], Back)
    BY <1>9 DEF Subscribe, StepInv, Back
  <2>1. /\ t \in Subscriber /\ channel \in [Subscriber -> Seq(SentUpdate)]
        /\ clientTip \in [Subscriber -> Point] /\ unsent = {}
    BY <1>9 DEF Inv, TypeInv, Subscribe
  <2>2. /\ subscribers' = subscribers \cup {s}
        /\ channel' = [channel EXCEPT ![s] = <<>>]
        /\ clientTip' = [clientTip EXCEPT ![s] = Back]
        /\ UNCHANGED <<unsent, update>>
    BY <1>9 DEF Subscribe
  <2>3. CASE t = s
    <3>1. Todo(t)' = <<>> /\ clientTip'[t] = Back
      BY <2>1, <2>2, <2>3 DEF Todo
    <3>2. Leads(<<>>, Back, Back)
      BY DEF Leads
    <3> QED
      BY <3>1, <3>2
  <2>4. CASE t # s
    <3>1. t \in subscribers /\ Todo(t)' = Todo(t) /\ clientTip'[t] = clientTip[t]
      BY <2>1, <2>2, <2>4 DEF Todo
    <3> QED
      BY <3>1 DEF Inv, StepInv
  <2> QED
    BY <2>3, <2>4
<1>10. ASSUME NEW s \in Subscriber, Unsubscribe(s) PROVE StepInv'
  BY <1>10 DEF Unsubscribe, Inv, StepInv, Todo, Back
<1> QED
  BY <1>1, <1>3, <1>4, <1>5, <1>6, <1>7, <1>8, <1>9, <1>10 DEF Next, Routine, Requests

LEMMA InitInv == Init => Inv
<1> SUFFICES ASSUME Init PROVE Inv
  OBVIOUS
<1>1. PICK start \in Point :
          /\ blockQueue = <<start>>
          /\ height = HeightOf[start] + 1
          /\ clientTip = [s \in Subscriber |-> start]
  BY DEF Init
<1>2. best \in Block
  BY DEF Init
<1>3. offered \in Record
  <2>1. [asked |-> best, block |-> best] \in Record
    BY <1>2 DEF Record
  <2>2. \E r \in Record : r.asked = r.block
    BY <2>1
  <2> QED
    BY <2>2 DEF Init
<1>4. height \in Int
  BY <1>1, TreeAssumption
<1>5. TypeInv
  BY <1>1, <1>2, <1>3, <1>4 DEF Init, TypeInv, Update, Updates, Point
<1>6. QueueInv
  BY <1>1, CrawlerAssumption DEF Init, QueueInv, Chain, Back, Last
<1>7. FetchInv
  BY DEF Init, FetchInv, FetchesNext
<1>8. RecordInv
  BY DEF Init, RecordInv
<1>9. StepInv
  BY DEF Init, StepInv
<1> QED
  BY <1>5, <1>6, <1>7, <1>8, <1>9 DEF Inv

LEMMA NextInv == Inv /\ [Next]_vars => Inv'
<1> SUFFICES ASSUME Inv, [Next]_vars PROVE Inv'
  OBVIOUS
<1>1. CASE Next
  BY <1>1, TypeStep, QueueStep, FetchStep, RecordStep, InStepStep DEF Inv
<1>2. CASE UNCHANGED vars
  BY <1>2
  DEF vars, fetcherVars, routineVars, clientVars, Inv, TypeInv, QueueInv, Chain, Back,
      FetchInv, FetchesNext, RecordInv, StepInv, Todo
<1> QED
  BY <1>1, <1>2

LEMMA Invariant == Spec => []Inv
<1> QED
  BY InitInv, NextInv, PTL DEF Spec

-----------------------------------------------------------------------------
\* The crawler's blocks are a chain of at most BlockQueueSize, with c.height
\* above it, through every damaged block, backtrack and new fetcher.
THEOREM CrawlerQueueIsChain == Spec => []QueueIsChain
<1>1. Inv => QueueIsChain
  BY DEF Inv, QueueInv, Chain, QueueIsChain
<1> QED
  BY <1>1, Invariant, PTL

\* No record of an older fetcher is ever processed: the next one in the
\* channel is always the one at c.height.
THEOREM CrawlerFetchesNext == Spec => []FetchesNext
<1>1. Inv => FetchesNext
  BY DEF Inv, FetchInv
<1> QED
  BY <1>1, Invariant, PTL

\* Every subscriber, however far behind, is led block by block to where the
\* crawler is.
THEOREM CrawlerInStep == Spec => []InStep
<1>1. Inv => InStep
  BY DEF Inv, StepInv, InStep, Leads, Todo
<1> QED
  BY <1>1, Invariant, PTL

\* A block that arrived undamaged takes back only blocks that are not on its
\* own path: the tree has no other block of that height on it.
THEOREM CrawlerBacktracksReplaced == Spec => BacktracksReplaced
<1>1. ASSUME Inv, Next, step = "backtrack", step' = "notify", record.block = record.asked
      PROVE  update'.hash \notin Path[record.block]
  <2>1. FinishBacktrack
    BY <1>1
    DEF Next, Fetcher, Routine, Requests, NodeAdvances, PollCount, FetchBlock, NoBlock,
        OfferBlock, ReceiveBlock, Refetch, NotifyDone, Notify, TakeUpdate, Start,
        Subscribe, Unsubscribe
  <2>2. update'.hash = Back
    BY <2>1 DEF FinishBacktrack, Update
  <2>3. /\ record.block \in Block /\ PrevBlock[record.block] # Back
        /\ HeightOf[record.block] = HeightOf[Back] + 1
    BY <1>1 DEF Inv, RecordInv, TypeInv, Record
  <2>4. HeightOf[Back] = HeightOf[record.block] - 1
    <3>1. Back \in Point
      BY <1>1, BackPoint DEF Inv, QueueInv, Back
    <3> QED
      BY <2>3, <3>1, TreeAssumption
  <2> QED
    BY <2>2, <2>3, <2>4, ParentOnPath
<1>2. Inv /\ [Next]_vars => [step = "backtrack" /\ step' = "notify" /\ record.block = record.asked
                                => update'.hash \notin Path[record.block]]_vars
  BY <1>1
<1> QED
  BY <1>2, Invariant, PTL DEF Spec, BacktracksReplaced

=============================================================================
