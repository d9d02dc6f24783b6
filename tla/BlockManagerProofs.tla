------------------------- MODULE BlockManagerProofs -------------------------
(***************************************************************************)
(* Proofs about BlockManager, for every tree of blocks, every queue length *)
(* and every commit policy.  The queue is treated as a sequence q on top   *)
(* of a base block, so that one step may push a block and pop another.     *)
(* The last part is about the loops of BlockTx over the transactions of a  *)
(* block, for every list of transactions, inputs and outputs.              *)
(***************************************************************************)
EXTENDS BlockTx, StorageCacheProofs, SequenceTheorems, FiniteSetTheorems,
        WellFoundedInduction

HashAt(q, base, n) == IF n = 0 THEN base ELSE q[n].hash

Top(q, base) == HashAt(q, base, Len(q))

\* Ids created by the blocks of the queue after the i-th, up to the j-th.
CreatedIn(q, i, j) == UNION {Outs[q[k].hash] : k \in (i + 1)..j}

\* A block of the queue extends the one below it and has found its inputs.
BlockOK(q, base, n) ==
    /\ PrevBlock[q[n].hash] = HashAt(q, base, n - 1)
    /\ q[n].height = HeightOf[q[n].hash]
    /\ q[n].found \subseteq Ins[q[n].hash]
    /\ ~Sync => Ins[q[n].hash] \cap Storable \subseteq q[n].found
    /\ Sync => q[n].found = {}

\* Whatever is unspent at a block was unspent at every block below it, or was
\* created in between.
Reachable(q, base) ==
    \A j \in 0..Len(q) : \A i \in 0..j :
        UtxoAt[HashAt(q, base, j)] \subseteq UtxoAt[HashAt(q, base, i)] \cup CreatedIn(q, i, j)

\* The blocks of the queue lie on one path, each one higher than the last.
Climbs(q, base) ==
    \A j \in 0..Len(q) : \A i \in 0..j :
        /\ HashAt(q, base, i) \in Path[HashAt(q, base, j)]
        /\ HeightOf[HashAt(q, base, j)] = HeightOf[HashAt(q, base, i)] + (j - i)

QueueOK(q, base) ==
    /\ q \in Seq(QueuedBlock)
    /\ base \in Point
    /\ \A n \in 1..Len(q) : BlockOK(q, base, n)
    /\ Reachable(q, base)
    /\ Climbs(q, base)

\* The index holds what the blocks of the queue add to the base's balances.
QueueBalance(q, base, bal) ==
    /\ bal \in [Address -> Int]
    /\ ~Sync => \A a \in Address :
          bal[a] = BalanceOf(UtxoAt[Top(q, base)], a) - BalanceOf(UtxoAt[base], a)

\* The inductive invariant of the manager.
ManagerInv ==
    /\ TypeOK
    /\ CacheInv
    /\ QueueOK(pendingBlocks, lastBlockHash)
    /\ QueueBalance(pendingBlocks, lastBlockHash, addrBalance)
    /\ Len(pendingBlocks) <= Confirmations
    /\ height = HeightOf[Tip]

-----------------------------------------------------------------------------
LEMMA PointAt ==
    ASSUME NEW q \in Seq(QueuedBlock), NEW base \in Point, NEW n \in 0..Len(q)
    PROVE  HashAt(q, base, n) \in Point
<1>1. CASE n = 0
  BY <1>1 DEF HashAt
<1>2. CASE n # 0
  <2>1. q[n] \in QueuedBlock
    BY <1>2, LenProperties, ElementOfSeq
  <2> QED
    BY <1>2, <2>1 DEF HashAt, QueuedBlock, Point
<1> QED
  BY <1>1, <1>2

LEMMA TopPoint ==
    ASSUME NEW q, NEW base, QueueOK(q, base)
    PROVE  Top(q, base) \in Point
BY PointAt, LenProperties DEF QueueOK, Top

LEMMA TipIsTop ==
    ASSUME pendingBlocks \in Seq(QueuedBlock)
    PROVE  Tip = Top(pendingBlocks, lastBlockHash)
<1>1. Len(pendingBlocks) \in Nat /\ (pendingBlocks = <<>> <=> Len(pendingBlocks) = 0)
  BY EmptySeq, LenProperties
<1> QED
  BY <1>1 DEF Tip, Top, HashAt

LEMMA BalanceInt ==
    ASSUME NEW p \in Point, NEW a \in Address
    PROVE  BalanceOf(UtxoAt[p], a) \in Int
<1>1. UtxoAt[p] \in SUBSET TxOutId
  BY UtxoAssumption, OutputAssumption
<1> QED
  BY <1>1, BalanceAssumption

LEMMA DeltaInt ==
    ASSUME NEW block \in QueuedBlock, NEW a \in Address
    PROVE  BlockDelta(block, a) \in Int
<1>1. Outs[block.hash] \in SUBSET TxOutId /\ block.found \in SUBSET TxOutId
  BY OutputAssumption DEF QueuedBlock
<1>2. BalanceOf(Outs[block.hash], a) \in Int /\ BalanceOf(block.found, a) \in Int
  BY <1>1, BalanceAssumption
<1> QED
  BY <1>2 DEF BlockDelta

\* A block of the queue adds its delta to every balance.
LEMMA DeltaExact ==
    ASSUME NEW q, NEW base, QueueOK(q, base), ~Sync,
           NEW n \in 1..Len(q), NEW a \in Address
    PROVE  BlockDelta(q[n], a) =
               BalanceOf(UtxoAt[q[n].hash], a) - BalanceOf(UtxoAt[HashAt(q, base, n - 1)], a)
<1>1. q[n] \in QueuedBlock
  BY LenProperties, ElementOfSeq DEF QueueOK
<1>2. BlockOK(q, base, n)
  BY DEF QueueOK
<1> DEFINE b == q[n].hash
<1>3. /\ b \in Block /\ q[n].found \in SUBSET Ins[b]
      /\ Ins[b] \cap Storable \subseteq q[n].found
  BY <1>1, <1>2 DEF QueuedBlock, BlockOK
<1>4. BalanceOf(UtxoAt[b], a) = BalanceOf(UtxoAt[PrevBlock[b]], a)
                                  + BalanceOf(Outs[b], a) - BalanceOf(q[n].found, a)
  BY <1>3, BlockBalance
<1>5. /\ BalanceOf(Outs[b], a) \in Int /\ BalanceOf(q[n].found, a) \in Int
      /\ BalanceOf(UtxoAt[b], a) \in Int /\ BalanceOf(UtxoAt[PrevBlock[b]], a) \in Int
  <2>1. Outs[b] \in SUBSET TxOutId /\ q[n].found \in SUBSET TxOutId
    BY <1>3, OutputAssumption
  <2>2. b \in Point /\ PrevBlock[b] \in Point
    BY <1>3, TreeAssumption DEF Point
  <2> QED
    BY <2>1, <2>2, BalanceInt, BalanceAssumption
<1> QED
  BY <1>2, <1>4, <1>5 DEF BlockDelta, BlockOK

-----------------------------------------------------------------------------
\* PushBack of a block that extends the top.
LEMMA PushOK ==
    ASSUME NEW q, NEW base, QueueOK(q, base),
           NEW block \in QueuedBlock,
           PrevBlock[block.hash] = Top(q, base),
           block.height = HeightOf[block.hash],
           block.found \subseteq Ins[block.hash],
           ~Sync => Ins[block.hash] \cap Storable \subseteq block.found,
           Sync => block.found = {}
    PROVE  QueueOK(Append(q, block), base)
<1> DEFINE r == Append(q, block)
           m == Len(q)
<1>1. /\ q \in Seq(QueuedBlock) /\ m \in Nat /\ base \in Point
      /\ r \in Seq(QueuedBlock) /\ Len(r) = m + 1
      /\ \A i \in 1..m : r[i] = q[i]
      /\ r[m + 1] = block
  BY AppendProperties, LenProperties DEF QueueOK
<1>2. /\ \A n \in 0..m : HashAt(r, base, n) = HashAt(q, base, n)
      /\ HashAt(r, base, m + 1) = block.hash
  BY <1>1 DEF HashAt
<1>3. \A j \in 0..m : \A i \in 0..j : CreatedIn(r, i, j) = CreatedIn(q, i, j)
  BY <1>1 DEF CreatedIn
<1> HIDE DEF r, m
<1>4. ASSUME NEW n \in 1..Len(r) PROVE BlockOK(r, base, n)
  <2>1. CASE n = m + 1
    <3>1. n - 1 = m
      BY <1>1, <2>1
    <3>2. HashAt(r, base, n - 1) = Top(q, base)
      BY <1>1, <1>2, <3>1 DEF Top, m
    <3> QED
      BY <1>1, <2>1, <3>2 DEF BlockOK
  <2>2. CASE n \in 1..m
    <3>1. BlockOK(q, base, n)
      BY <2>2 DEF QueueOK, m
    <3>2. r[n] = q[n] /\ n - 1 \in 0..m
      BY <1>1, <2>2
    <3> QED
      BY <1>2, <3>1, <3>2 DEF BlockOK
  <2> QED
    BY <1>1, <2>1, <2>2
<1>5. ASSUME NEW j \in 0..Len(r), NEW i \in 0..j
      PROVE  UtxoAt[HashAt(r, base, j)] \subseteq UtxoAt[HashAt(r, base, i)] \cup CreatedIn(r, i, j)
  <2>1. CASE j \in 0..m
    <3>1. UtxoAt[HashAt(q, base, j)] \subseteq UtxoAt[HashAt(q, base, i)] \cup CreatedIn(q, i, j)
      BY <2>1 DEF QueueOK, Reachable, m
    <3>2. i \in 0..m
      BY <1>1, <2>1
    <3> QED
      BY <1>2, <1>3, <2>1, <3>1, <3>2
  <2>2. CASE j = m + 1 /\ i \in 0..m
    <3>1. UtxoAt[HashAt(q, base, m)] \subseteq UtxoAt[HashAt(q, base, i)] \cup CreatedIn(q, i, m)
      BY <1>1, <2>2 DEF QueueOK, Reachable, m
    <3>2. UtxoAt[block.hash] \subseteq UtxoAt[HashAt(q, base, m)] \cup Outs[block.hash]
      BY UtxoAssumption DEF QueuedBlock, Top, m
    <3>3. CreatedIn(q, i, m) \cup Outs[block.hash] \subseteq CreatedIn(r, i, j)
      <4>1. CreatedIn(q, i, m) = CreatedIn(r, i, m)
        BY <1>1, <1>3, <2>2
      <4>2. (i + 1)..m \subseteq (i + 1)..j /\ m + 1 \in (i + 1)..j
        BY <1>1, <2>2
      <4> QED
        BY <1>1, <4>1, <4>2 DEF CreatedIn
    <3>4. HashAt(r, base, i) = HashAt(q, base, i) /\ HashAt(r, base, j) = block.hash
      BY <1>2, <2>2
    <3> QED
      BY <3>1, <3>2, <3>3, <3>4
  <2>3. CASE j = m + 1 /\ i = m + 1
    BY <2>3
  <2> QED
    BY <1>1, <2>1, <2>2, <2>3
<1>6. ASSUME NEW j \in 0..Len(r), NEW i \in 0..j
      PROVE  /\ HashAt(r, base, i) \in Path[HashAt(r, base, j)]
             /\ HeightOf[HashAt(r, base, j)] = HeightOf[HashAt(r, base, i)] + (j - i)
  <2>1. CASE j \in 0..m
    <3>1. i \in 0..m
      BY <1>1, <2>1
    <3>2. /\ HashAt(q, base, i) \in Path[HashAt(q, base, j)]
          /\ HeightOf[HashAt(q, base, j)] = HeightOf[HashAt(q, base, i)] + (j - i)
      BY <2>1 DEF QueueOK, Climbs, m
    <3> QED
      BY <1>2, <2>1, <3>1, <3>2
  <2>2. block.hash \in Path[block.hash] /\ HeightOf[block.hash] \in Int
    BY PathAssumption, TreeAssumption DEF QueuedBlock
  <2>3. CASE j = m + 1 /\ i \in 0..m
    <3>1. /\ HashAt(q, base, i) \in Path[HashAt(q, base, m)]
          /\ HeightOf[HashAt(q, base, m)] = HeightOf[HashAt(q, base, i)] + (m - i)
      <4>1. m \in 0..Len(q) /\ i \in 0..m
        BY <1>1, <2>3 DEF m
      <4>2. Climbs(q, base)
        BY DEF QueueOK
      <4> QED
        BY <4>1, <4>2 DEF Climbs
    <3>2. HashAt(q, base, m) \in Point /\ HashAt(q, base, i) \in Point
      BY <1>1, <2>3, PointAt DEF m
    <3>3. /\ PrevBlock[block.hash] = HashAt(q, base, m)
          /\ Path[block.hash] = Path[HashAt(q, base, m)] \cup {block.hash}
          /\ HeightOf[block.hash] = HeightOf[HashAt(q, base, m)] + 1
      BY PathAssumption, TreeAssumption DEF QueuedBlock, Top, m
    <3>4. HeightOf[HashAt(q, base, m)] \in Int /\ HeightOf[HashAt(q, base, i)] \in Int
      BY <3>2, TreeAssumption
    <3>5. HashAt(r, base, i) = HashAt(q, base, i) /\ HashAt(r, base, j) = block.hash
      BY <1>2, <2>3
    <3>6. HeightOf[block.hash] = HeightOf[HashAt(q, base, i)] + (j - i)
      BY <1>1, <2>3, <3>1, <3>3, <3>4
    <3> QED
      BY <3>1, <3>3, <3>5, <3>6
  <2>4. CASE j = m + 1 /\ i = m + 1
    BY <1>1, <1>2, <2>2, <2>4
  <2> QED
    BY <1>1, <2>1, <2>3, <2>4
<1>7. Climbs(r, base)
  BY <1>6 DEF Climbs
<1> QED
  BY <1>1, <1>4, <1>5, <1>7 DEF QueueOK, Reachable, r

\* PopBack of the last block.
LEMMA PopBackOK ==
    ASSUME NEW q, NEW base, QueueOK(q, base), q # <<>>
    PROVE  /\ QueueOK(SubSeq(q, 1, Len(q) - 1), base)
           /\ Top(SubSeq(q, 1, Len(q) - 1), base) = HashAt(q, base, Len(q) - 1)
           /\ Len(SubSeq(q, 1, Len(q) - 1)) = Len(q) - 1
<1> DEFINE r == SubSeq(q, 1, Len(q) - 1)
           m == Len(q) - 1
<1>1. q \in Seq(QueuedBlock) /\ m \in Nat /\ base \in Point /\ Len(q) = m + 1
  BY EmptySeq, LenProperties DEF QueueOK
<1>2. /\ r \in Seq(QueuedBlock) /\ Len(r) = m
      /\ \A i \in 1..m : r[i] = q[i]
  BY <1>1, SubSeqProperties
<1>3. \A n \in 0..m : HashAt(r, base, n) = HashAt(q, base, n)
  BY <1>2 DEF HashAt
<1>4. \A j \in 0..m : \A i \in 0..j : CreatedIn(r, i, j) = CreatedIn(q, i, j)
  BY <1>1, <1>2 DEF CreatedIn
<1> HIDE DEF r, m
<1>5. ASSUME NEW n \in 1..m PROVE BlockOK(r, base, n)
  <2>1. BlockOK(q, base, n)
    BY <1>1 DEF QueueOK
  <2>2. r[n] = q[n] /\ n - 1 \in 0..m
    BY <1>1, <1>2
  <2> QED
    BY <1>3, <2>1, <2>2 DEF BlockOK
<1>6. ASSUME NEW j \in 0..m, NEW i \in 0..j
      PROVE  UtxoAt[HashAt(r, base, j)] \subseteq UtxoAt[HashAt(r, base, i)] \cup CreatedIn(r, i, j)
  <2>1. j \in 0..Len(q) /\ i \in 0..m
    BY <1>1
  <2>2. UtxoAt[HashAt(q, base, j)] \subseteq UtxoAt[HashAt(q, base, i)] \cup CreatedIn(q, i, j)
    BY <2>1 DEF QueueOK, Reachable
  <2> QED
    BY <1>3, <1>4, <2>1, <2>2
<1>7. QueueOK(r, base)
  <2>1. ASSUME NEW j \in 0..m, NEW i \in 0..j
        PROVE  /\ HashAt(r, base, i) \in Path[HashAt(r, base, j)]
               /\ HeightOf[HashAt(r, base, j)] = HeightOf[HashAt(r, base, i)] + (j - i)
    <3>1. j \in 0..Len(q) /\ i \in 0..m
      BY <1>1
    <3>2. /\ HashAt(q, base, i) \in Path[HashAt(q, base, j)]
          /\ HeightOf[HashAt(q, base, j)] = HeightOf[HashAt(q, base, i)] + (j - i)
      BY <3>1 DEF QueueOK, Climbs
    <3> QED
      BY <1>3, <3>1, <3>2
  <2>2. Climbs(r, base)
    BY <1>2, <2>1 DEF Climbs
  <2> QED
    BY <1>1, <1>2, <1>5, <1>6, <2>2 DEF QueueOK, Reachable
<1>8. Top(r, base) = HashAt(q, base, m)
  BY <1>1, <1>2, <1>3 DEF Top
<1> QED
  BY <1>2, <1>7, <1>8 DEF r, m

\* PopFront of the first block, which becomes the base.
LEMMA PopFrontOK ==
    ASSUME NEW q, NEW base, QueueOK(q, base), q # <<>>
    PROVE  /\ QueueOK(Tail(q), Head(q).hash)
           /\ Top(Tail(q), Head(q).hash) = Top(q, base)
           /\ Len(Tail(q)) = Len(q) - 1
           /\ Head(q) = q[1]
           /\ Head(q) \in QueuedBlock
<1> DEFINE r == Tail(q)
           m == Len(q) - 1
           new == Head(q).hash
<1>1. q \in Seq(QueuedBlock) /\ m \in Nat /\ base \in Point /\ Len(q) = m + 1
  BY EmptySeq, LenProperties DEF QueueOK
<1>2. /\ r \in Seq(QueuedBlock) /\ Len(r) = m
      /\ \A i \in 1..m : r[i] = q[i + 1]
      /\ Head(q) = q[1] /\ Head(q) \in QueuedBlock
  BY <1>1, HeadTailProperties, ElementOfSeq
<1>3. \A n \in 0..m : HashAt(r, new, n) = HashAt(q, base, n + 1)
  BY <1>1, <1>2 DEF HashAt
<1>4. ASSUME NEW j \in 0..m, NEW i \in 0..j
      PROVE  CreatedIn(r, i, j) = CreatedIn(q, i + 1, j + 1)
  <2>1. ASSUME NEW x \in CreatedIn(r, i, j) PROVE x \in CreatedIn(q, i + 1, j + 1)
    <3>1. PICK k \in (i + 1)..j : x \in Outs[r[k].hash]
      BY DEF CreatedIn
    <3>2. r[k] = q[k + 1] /\ k + 1 \in (i + 1 + 1)..(j + 1)
      BY <1>1, <1>2, <3>1
    <3> QED
      BY <3>1, <3>2 DEF CreatedIn
  <2>2. ASSUME NEW x \in CreatedIn(q, i + 1, j + 1) PROVE x \in CreatedIn(r, i, j)
    <3>1. PICK k \in (i + 1 + 1)..(j + 1) : x \in Outs[q[k].hash]
      BY DEF CreatedIn
    <3>2. k - 1 \in (i + 1)..j /\ k - 1 \in 1..m /\ (k - 1) + 1 = k
      BY <1>1, <3>1
    <3>3. r[k - 1] = q[k]
      BY <1>2, <3>2
    <3> QED
      BY <3>1, <3>2, <3>3 DEF CreatedIn
  <2> QED
    BY <2>1, <2>2
<1> HIDE DEF r, m, new
<1>5. ASSUME NEW n \in 1..m PROVE BlockOK(r, new, n)
  <2>1. n + 1 \in 1..Len(q) /\ n - 1 \in 0..m /\ (n - 1) + 1 = n /\ (n + 1) - 1 = n
    BY <1>1
  <2>2. BlockOK(q, base, n + 1)
    BY <2>1 DEF QueueOK
  <2>3. r[n] = q[n + 1] /\ HashAt(r, new, n - 1) = HashAt(q, base, n)
    BY <1>2, <1>3, <2>1
  <2> QED
    BY <2>1, <2>2, <2>3 DEF BlockOK
<1>6. ASSUME NEW j \in 0..m, NEW i \in 0..j
      PROVE  UtxoAt[HashAt(r, new, j)] \subseteq UtxoAt[HashAt(r, new, i)] \cup CreatedIn(r, i, j)
  <2>1. j + 1 \in 0..Len(q) /\ i + 1 \in 0..(j + 1) /\ i \in 0..m
    BY <1>1
  <2>2. UtxoAt[HashAt(q, base, j + 1)]
            \subseteq UtxoAt[HashAt(q, base, i + 1)] \cup CreatedIn(q, i + 1, j + 1)
    BY <2>1 DEF QueueOK, Reachable
  <2> QED
    BY <1>3, <1>4, <2>1, <2>2
<1>7. new \in Point
  BY <1>2 DEF new, QueuedBlock, Point
<1>8. QueueOK(r, new)
  <2>1. ASSUME NEW j \in 0..m, NEW i \in 0..j
        PROVE  /\ HashAt(r, new, i) \in Path[HashAt(r, new, j)]
               /\ HeightOf[HashAt(r, new, j)] = HeightOf[HashAt(r, new, i)] + (j - i)
    <3>1. /\ j + 1 \in 0..Len(q) /\ i + 1 \in 0..(j + 1) /\ i \in 0..m
          /\ (j + 1) - (i + 1) = j - i
      BY <1>1
    <3>2. /\ HashAt(q, base, i + 1) \in Path[HashAt(q, base, j + 1)]
          /\ HeightOf[HashAt(q, base, j + 1)]
               = HeightOf[HashAt(q, base, i + 1)] + ((j + 1) - (i + 1))
      BY <3>1 DEF QueueOK, Climbs
    <3> QED
      BY <1>3, <3>1, <3>2
  <2>2. Climbs(r, new)
    BY <1>2, <2>1 DEF Climbs
  <2> QED
    BY <1>1, <1>2, <1>5, <1>6, <1>7, <2>2 DEF QueueOK, Reachable
<1>9. Top(r, new) = Top(q, base)
  BY <1>1, <1>2, <1>3 DEF Top
<1> QED
  BY <1>2, <1>8, <1>9 DEF r, m, new

LEMMA PushBalance ==
    ASSUME NEW q, NEW base, NEW bal, NEW block \in QueuedBlock,
           QueueOK(q, base), QueueOK(Append(q, block), base), QueueBalance(q, base, bal)
    PROVE  QueueBalance(Append(q, block), base, [a \in Address |-> bal[a] + BlockDelta(block, a)])
<1> DEFINE r == Append(q, block)
           m == Len(q)
<1>1. /\ q \in Seq(QueuedBlock) /\ m \in Nat /\ Len(r) = m + 1 /\ base \in Point
      /\ r[m + 1] = block /\ \A i \in 1..m : r[i] = q[i]
  BY AppendProperties, LenProperties DEF QueueOK
<1>2. bal \in [Address -> Int]
  BY DEF QueueBalance
<1>3. [a \in Address |-> bal[a] + BlockDelta(block, a)] \in [Address -> Int]
  BY <1>2, DeltaInt
<1>4. ASSUME ~Sync, NEW a \in Address
      PROVE  bal[a] + BlockDelta(block, a) =
                 BalanceOf(UtxoAt[Top(r, base)], a) - BalanceOf(UtxoAt[base], a)
  <2>1. Top(r, base) = block.hash /\ HashAt(r, base, m) = Top(q, base)
    BY <1>1 DEF Top, HashAt
  <2>2. BlockDelta(r[m + 1], a) = BalanceOf(UtxoAt[r[m + 1].hash], a)
                                    - BalanceOf(UtxoAt[HashAt(r, base, (m + 1) - 1)], a)
    <3>1. m + 1 \in 1..Len(r)
      BY <1>1
    <3> HIDE DEF r, m
    <3> QED
      BY <1>4, <3>1, DeltaExact DEF r
  <2>3. bal[a] = BalanceOf(UtxoAt[Top(q, base)], a) - BalanceOf(UtxoAt[base], a)
    BY <1>4 DEF QueueBalance
  <2>4. /\ BalanceOf(UtxoAt[Top(q, base)], a) \in Int
        /\ BalanceOf(UtxoAt[block.hash], a) \in Int
        /\ BalanceOf(UtxoAt[base], a) \in Int
    <3>1. Top(q, base) \in Point /\ block.hash \in Point
      BY TopPoint DEF QueuedBlock, Point
    <3> QED
      BY <1>1, <3>1, BalanceInt
  <2>5. (m + 1) - 1 = m
    BY <1>1
  <2>6. BlockDelta(block, a) = BalanceOf(UtxoAt[block.hash], a) - BalanceOf(UtxoAt[Top(q, base)], a)
    BY <1>1, <2>1, <2>2, <2>5
  <2> QED
    BY <2>1, <2>3, <2>4, <2>6
<1> QED
  BY <1>3, <1>4 DEF QueueBalance

LEMMA PopBackBalance ==
    ASSUME NEW q, NEW base, NEW bal, QueueOK(q, base), q # <<>>, QueueBalance(q, base, bal)
    PROVE  QueueBalance(SubSeq(q, 1, Len(q) - 1), base,
                        [a \in Address |-> bal[a] - BlockDelta(q[Len(q)], a)])
<1> DEFINE m == Len(q)
<1>1. q \in Seq(QueuedBlock) /\ m \in 1..Len(q) /\ base \in Point /\ m \in Nat
  BY EmptySeq, LenProperties DEF QueueOK
<1>2. q[m] \in QueuedBlock
  BY <1>1, ElementOfSeq
<1>3. Top(SubSeq(q, 1, Len(q) - 1), base) = HashAt(q, base, m - 1)
  BY PopBackOK
<1>4. bal \in [Address -> Int]
  BY DEF QueueBalance
<1>5. [a \in Address |-> bal[a] - BlockDelta(q[m], a)] \in [Address -> Int]
  BY <1>2, <1>4, DeltaInt
<1>6. ASSUME ~Sync, NEW a \in Address
      PROVE  bal[a] - BlockDelta(q[m], a) =
                 BalanceOf(UtxoAt[HashAt(q, base, m - 1)], a) - BalanceOf(UtxoAt[base], a)
  <2>1. BlockDelta(q[m], a) = BalanceOf(UtxoAt[q[m].hash], a)
                                - BalanceOf(UtxoAt[HashAt(q, base, m - 1)], a)
    BY <1>1, <1>6, DeltaExact
  <2>2. Top(q, base) = q[m].hash
    BY <1>1 DEF Top, HashAt
  <2>3. bal[a] = BalanceOf(UtxoAt[Top(q, base)], a) - BalanceOf(UtxoAt[base], a)
    BY <1>6 DEF QueueBalance
  <2>4. /\ BalanceOf(UtxoAt[q[m].hash], a) \in Int
        /\ BalanceOf(UtxoAt[HashAt(q, base, m - 1)], a) \in Int
        /\ BalanceOf(UtxoAt[base], a) \in Int
    <3>1. m - 1 \in 0..Len(q)
      BY <1>1
    <3>2. HashAt(q, base, m - 1) \in Point /\ q[m].hash \in Point
      BY <1>1, <1>2, <3>1, PointAt DEF QueuedBlock, Point
    <3> QED
      BY <1>1, <3>2, BalanceInt
  <2> QED
    BY <2>1, <2>2, <2>3, <2>4
<1> QED
  BY <1>3, <1>5, <1>6 DEF QueueBalance

LEMMA PopFrontBalance ==
    ASSUME NEW q, NEW base, NEW bal, QueueOK(q, base), q # <<>>, QueueBalance(q, base, bal)
    PROVE  QueueBalance(Tail(q), Head(q).hash,
                        [a \in Address |-> bal[a] - BlockDelta(Head(q), a)])
<1>1. q \in Seq(QueuedBlock) /\ 1 \in 1..Len(q) /\ base \in Point
  BY EmptySeq, LenProperties DEF QueueOK
<1>2. /\ Head(q) \in QueuedBlock /\ Head(q) = q[1]
      /\ Top(Tail(q), Head(q).hash) = Top(q, base)
  BY PopFrontOK
<1>3. bal \in [Address -> Int]
  BY DEF QueueBalance
<1>4. [a \in Address |-> bal[a] - BlockDelta(Head(q), a)] \in [Address -> Int]
  BY <1>2, <1>3, DeltaInt
<1>5. ASSUME ~Sync, NEW a \in Address
      PROVE  bal[a] - BlockDelta(Head(q), a) =
                 BalanceOf(UtxoAt[Top(q, base)], a) - BalanceOf(UtxoAt[Head(q).hash], a)
  <2>1. BlockDelta(q[1], a) = BalanceOf(UtxoAt[q[1].hash], a)
                                - BalanceOf(UtxoAt[HashAt(q, base, 1 - 1)], a)
    BY <1>1, <1>5, DeltaExact
  <2>2. HashAt(q, base, 1 - 1) = base
    BY DEF HashAt
  <2>3. bal[a] = BalanceOf(UtxoAt[Top(q, base)], a) - BalanceOf(UtxoAt[base], a)
    BY <1>5 DEF QueueBalance
  <2>4. /\ BalanceOf(UtxoAt[Head(q).hash], a) \in Int
        /\ BalanceOf(UtxoAt[Top(q, base)], a) \in Int
        /\ BalanceOf(UtxoAt[base], a) \in Int
    <3>1. Top(q, base) \in Point /\ Head(q).hash \in Point
      BY <1>2, TopPoint DEF QueuedBlock, Point
    <3> QED
      BY <1>1, <3>1, BalanceInt
  <2> QED
    BY <1>2, <2>1, <2>2, <2>3, <2>4
<1> QED
  BY <1>2, <1>4, <1>5 DEF QueueBalance

-----------------------------------------------------------------------------
LEMMA SignalTyped ==
    ASSUME TypeOK, NEW updates \in Seq(Updates), SignalSubscribers(updates)
    PROVE  /\ registered' \subseteq Subscriber
           /\ subscribers' \subseteq Subscriber
           /\ inbox' \in [Subscriber -> Seq(Updates)]
<1>1. inbox \in [Subscriber -> Seq(Updates)]
  BY DEF TypeOK
<1>2. \A s \in Subscriber : inbox[s] \o updates \in Seq(Updates)
  BY <1>1, ConcatProperties
<1> QED
  BY <1>1, <1>2 DEF SignalSubscribers, TypeOK

LEMMA AfterUpdateTyped ==
    ASSUME TypeOK, NEW update \in Updates, AfterUpdate(update)
    PROVE  /\ registered' \subseteq Subscriber
           /\ subscribers' \subseteq Subscriber
           /\ inbox' \in [Subscriber -> Seq(Updates)]
           /\ commitTimerStarted' \in BOOLEAN /\ commitFailed' \in BOOLEAN
<1>1. Update("COMMIT", ZeroHash) \in Updates
  BY DEF Update, Updates, Point
<1>2. <<update, Update("COMMIT", ZeroHash)>> \in Seq(Updates) /\ <<update>> \in Seq(Updates)
  BY <1>1
<1>3. SignalSubscribers(<<update, Update("COMMIT", ZeroHash)>>) \/ SignalSubscribers(<<update>>)
  BY DEF AfterUpdate
<1>4. commitTimerStarted' \in BOOLEAN /\ commitFailed' \in BOOLEAN
  BY DEF AfterUpdate, TypeOK
<1> QED
  BY <1>2, <1>3, <1>4, SignalTyped

\* The queue after PushBack of a block that extends the tip.
LEMMA ExtendedQueue ==
    ASSUME ManagerInv, NEW b \in Block, PrevBlock[b] = Tip
    PROVE  LET block == [hash |-> b, height |-> height + 1, found |-> FoundInputs(b)]
               queue == Append(pendingBlocks, block)
           IN  /\ block \in QueuedBlock
               /\ QueueOK(queue, lastBlockHash)
               /\ QueueBalance(queue, lastBlockHash,
                               [a \in Address |-> addrBalance[a] + BlockDelta(block, a)])
               /\ Len(queue) = Len(pendingBlocks) + 1
               /\ queue # <<>>
               /\ Top(queue, lastBlockHash) = b
               /\ height + 1 = HeightOf[b]
<1> DEFINE block == [hash |-> b, height |-> height + 1, found |-> FoundInputs(b)]
           queue == Append(pendingBlocks, block)
           n == Len(pendingBlocks)
<1>1. /\ QueueOK(pendingBlocks, lastBlockHash) /\ pendingBlocks \in Seq(QueuedBlock)
      /\ n \in Nat
  BY LenProperties DEF ManagerInv, QueueOK
<1>2. Tip = Top(pendingBlocks, lastBlockHash)
  BY <1>1, TipIsTop
<1>3. height + 1 = HeightOf[b] /\ HeightOf[b] \in Nat
  BY TreeAssumption DEF ManagerInv
<1>4. FoundInputs(b) \subseteq Ins[b]
  BY DEF FoundInputs, BulkGetTxOut
<1>5. ~Sync => Ins[b] \cap Storable \subseteq FoundInputs(b)
  <2> SUFFICES ASSUME ~Sync, NEW id \in Ins[b] \cap Storable
               PROVE  id \in FoundInputs(b)
    OBVIOUS
  <2>1. id \in UtxoAt[Tip] \cup Outs[b]
    BY ValidSpends
  <2>2. UtxoAt[Tip] \subseteq UtxoAt[lastBlockHash] \cup PendingOuts
    <3>1. UtxoAt[HashAt(pendingBlocks, lastBlockHash, n)]
             \subseteq UtxoAt[HashAt(pendingBlocks, lastBlockHash, 0)] \cup CreatedIn(pendingBlocks, 0, n)
      BY <1>1 DEF QueueOK, Reachable
    <3>2. CreatedIn(pendingBlocks, 0, n) = PendingOuts
      BY DEF CreatedIn, PendingOuts
    <3>3. HashAt(pendingBlocks, lastBlockHash, 0) = lastBlockHash
      BY DEF HashAt
    <3> QED
      BY <1>2, <3>1, <3>2, <3>3 DEF Top
  <2>3. UtxoAt[lastBlockHash] \subseteq utxo \cup inserts
    BY DEF ManagerInv, CacheInv, AvailableExact, Available
  <2> QED
    BY <2>1, <2>2, <2>3 DEF FoundInputs, BulkGetTxOut
<1>6. block \in QueuedBlock
  BY <1>3, <1>4, OutputAssumption DEF QueuedBlock
<1>7. QueueOK(queue, lastBlockHash)
  <2>1. /\ PrevBlock[block.hash] = Top(pendingBlocks, lastBlockHash)
        /\ block.height = HeightOf[block.hash]
        /\ block.found \subseteq Ins[block.hash]
        /\ ~Sync => Ins[block.hash] \cap Storable \subseteq block.found
        /\ Sync => block.found = {}
    BY <1>2, <1>3, <1>4, <1>5 DEF FoundInputs
  <2> HIDE DEF block
  <2> QED
    BY <1>1, <1>6, <2>1, PushOK
<1>8. QueueBalance(queue, lastBlockHash, [a \in Address |-> addrBalance[a] + BlockDelta(block, a)])
  <2> HIDE DEF block
  <2> QED
    BY <1>1, <1>6, <1>7, PushBalance DEF ManagerInv
<1>9. /\ Len(queue) = n + 1 /\ queue[n + 1] = block /\ queue # <<>>
  <2> HIDE DEF block
  <2> QED
    BY <1>1, <1>6, AppendProperties, EmptySeq
<1>10. Top(queue, lastBlockHash) = b
  BY <1>1, <1>9 DEF Top, HashAt
<1> QED
  BY <1>3, <1>6, <1>7, <1>8, <1>9, <1>10

\* The delta of a block and that of another, applied at once or in turn.
LEMMA PushPopDelta ==
    ASSUME NEW bal \in [Address -> Int], NEW first \in QueuedBlock, NEW second \in QueuedBlock
    PROVE  [a \in Address |-> bal[a] + BlockDelta(second, a) - BlockDelta(first, a)]
             = [a \in Address |->
                  [c \in Address |-> bal[c] + BlockDelta(second, c)][a] - BlockDelta(first, a)]
<1> DEFINE pushed == [c \in Address |-> bal[c] + BlockDelta(second, c)]
           both == [a \in Address |-> bal[a] + BlockDelta(second, a) - BlockDelta(first, a)]
           turn == [a \in Address |-> pushed[a] - BlockDelta(first, a)]
<1>1. \A a \in Address : pushed[a] = bal[a] + BlockDelta(second, a)
  OBVIOUS
<1>2. ASSUME NEW a \in Address PROVE both[a] = turn[a]
  <2>1. turn[a] = pushed[a] - BlockDelta(first, a)
    OBVIOUS
  <2>2. both[a] = bal[a] + BlockDelta(second, a) - BlockDelta(first, a)
    OBVIOUS
  <2>3. bal[a] \in Int /\ BlockDelta(second, a) \in Int /\ BlockDelta(first, a) \in Int
    BY DeltaInt
  <2> HIDE DEF pushed, both, turn
  <2> QED
    BY <1>1, <2>1, <2>2, <2>3
<1>3. both = [a \in Address |-> both[a]] /\ turn = [a \in Address |-> turn[a]]
  OBVIOUS
<1> HIDE DEF both, turn
<1>4. both = turn
  BY <1>2, <1>3
<1> QED
  BY <1>4 DEF both, turn, pushed

LEMMA NewBlockInv ==
    ASSUME ManagerInv, NEW b \in Block, NewBlock(b)
    PROVE  ManagerInv'
<1> DEFINE block == [hash |-> b, height |-> height + 1, found |-> FoundInputs(b)]
           queue == Append(pendingBlocks, block)
           pushed == [a \in Address |-> addrBalance[a] + BlockDelta(block, a)]
<1>1. PrevBlock[b] = Tip
  BY DEF NewBlock
<1>2. /\ block \in QueuedBlock /\ QueueOK(queue, lastBlockHash)
      /\ QueueBalance(queue, lastBlockHash, pushed)
      /\ Len(queue) = Len(pendingBlocks) + 1 /\ queue # <<>>
      /\ Top(queue, lastBlockHash) = b /\ height + 1 = HeightOf[b]
  BY <1>1, ExtendedQueue
<1>3. /\ height' = height + 1 /\ sinceLastBlock' = 0
      /\ AfterUpdate(Update("NEWBLOCK", b))
  BY DEF NewBlock
<1>4. Update("NEWBLOCK", b) \in Updates
  BY DEF Update, Updates, Point
<1>5. /\ registered' \subseteq Subscriber
      /\ subscribers' \subseteq Subscriber
      /\ inbox' \in [Subscriber -> Seq(Updates)]
      /\ commitTimerStarted' \in BOOLEAN /\ commitFailed' \in BOOLEAN
      /\ height' \in Int
  BY <1>2, <1>3, <1>4, AfterUpdateTyped, TreeAssumption DEF ManagerInv, Point
<1>6. Len(pendingBlocks) \in Nat /\ Len(pendingBlocks) <= Confirmations
  BY LenProperties DEF ManagerInv, QueueOK
<1>7. /\ CacheInv'
      /\ QueueOK(pendingBlocks', lastBlockHash')
      /\ QueueBalance(pendingBlocks', lastBlockHash', addrBalance')
      /\ Len(pendingBlocks') <= Confirmations
      /\ Top(pendingBlocks', lastBlockHash') = b
  <2>1. CASE Confirmed(queue)
    <3>1. /\ pendingBlocks' = Tail(queue)
          /\ addrBalance' = [a \in Address |->
                addrBalance[a] + BlockDelta(block, a) - BlockDelta(Head(queue), a)]
          /\ AddBlock(Head(queue))
      BY <2>1 DEF NewBlock
    <3>2. lastBlockHash' = Head(queue).hash
      BY <3>1 DEF AddBlock
    <3> HIDE DEF queue, block
    <3>3. /\ QueueOK(Tail(queue), Head(queue).hash)
          /\ Top(Tail(queue), Head(queue).hash) = Top(queue, lastBlockHash)
          /\ Len(Tail(queue)) = Len(queue) - 1
          /\ Head(queue) = queue[1] /\ Head(queue) \in QueuedBlock
      BY <1>2, PopFrontOK
    <3>4. QueueBalance(Tail(queue), Head(queue).hash,
                       [a \in Address |-> pushed[a] - BlockDelta(Head(queue), a)])
      <4> HIDE DEF pushed
      <4> QED
        BY <1>2, PopFrontBalance
    <3>5. addrBalance' = [a \in Address |-> pushed[a] - BlockDelta(Head(queue), a)]
      <4>1. addrBalance \in [Address -> Int] /\ Head(queue) \in QueuedBlock
        BY <3>3 DEF ManagerInv, TypeOK
      <4> QED
        BY <1>2, <3>1, <4>1, PushPopDelta
    <3>6. NextBlock(Head(queue))
      <4>1. BlockOK(queue, lastBlockHash, 1)
        BY <1>2, <1>6 DEF QueueOK
      <4> QED
        BY <3>3, <4>1 DEF BlockOK, HashAt, NextBlock
    <3>7. CacheInv'
      BY <3>1, <3>6, AddBlockInv DEF ManagerInv
    <3> HIDE DEF pushed
    <3> QED
      BY <1>2, <1>6, <3>1, <3>2, <3>3, <3>4, <3>5, <3>7
  <2>2. CASE ~Confirmed(queue)
    <3>1. /\ pendingBlocks' = queue
          /\ addrBalance' = pushed
          /\ UNCHANGED cacheVars
      BY <2>2 DEF NewBlock
    <3>2. lastBlockHash' = lastBlockHash
      BY <3>1 DEF cacheVars
    <3>3. CacheInv'
      BY <3>1, CacheStutterInv DEF ManagerInv
    <3>4. Len(queue) <= Confirmations
      BY <1>2, <1>6, <2>2, ManagerAssumption DEF Confirmed
    <3> HIDE DEF queue, block, pushed
    <3> QED
      BY <1>2, <3>1, <3>2, <3>3, <3>4
  <2> QED
    BY <2>1, <2>2
<1> HIDE DEF block, queue, pushed
<1>8. Tip' = b
  <2>1. (pendingBlocks \in Seq(QueuedBlock) => Tip = Top(pendingBlocks, lastBlockHash))'
    BY TipIsTop, PTL
  <2>2. Top(pendingBlocks, lastBlockHash)' = Top(pendingBlocks', lastBlockHash')
    OBVIOUS
  <2> QED
    BY <1>7, <2>1, <2>2 DEF QueueOK
<1>9. TypeOK'
  <2>1. /\ pendingBlocks' \in Seq(QueuedBlock)
        /\ addrBalance' \in [Address -> Int]
    BY <1>7 DEF QueueOK, QueueBalance
  <2>2. CacheTypeOK'
    BY <1>7 DEF CacheInv
  <2>3. sinceLastBlock' \in 0..2
    BY <1>3
  <2> QED
    BY <1>5, <2>1, <2>2, <2>3 DEF TypeOK
<1> QED
  BY <1>2, <1>3, <1>7, <1>8, <1>9 DEF ManagerInv

LEMMA EmptyQueue ==
    ASSUME NEW base \in Point
    PROVE  /\ QueueOK(<<>>, base)
           /\ QueueBalance(<<>>, base, [a \in Address |-> 0])
           /\ Top(<<>>, base) = base
           /\ Len(<<>>) = 0
<1>1. <<>> \in Seq(QueuedBlock) /\ Len(<<>>) = 0
  BY EmptySeq
<1>2. HashAt(<<>>, base, 0) = base /\ Top(<<>>, base) = base
  BY <1>1 DEF Top, HashAt
<1>3. Reachable(<<>>, base)
  BY <1>1 DEF Reachable
<1>4. QueueOK(<<>>, base)
  <2>1. base \in Path[base] /\ HeightOf[base] \in Int
    BY PathAssumption, TreeAssumption DEF Point
  <2>2. Climbs(<<>>, base)
    BY <1>1, <1>2, <2>1 DEF Climbs
  <2> QED
    BY <1>1, <1>3, <2>2 DEF QueueOK
<1>5. \A a \in Address : 0 = BalanceOf(UtxoAt[base], a) - BalanceOf(UtxoAt[base], a)
  BY BalanceInt
<1>6. QueueBalance(<<>>, base, [a \in Address |-> 0])
  BY <1>2, <1>5 DEF QueueBalance
<1> QED
  BY <1>1, <1>2, <1>4, <1>6

LEMMA NextTip ==
    ASSUME QueueOK(pendingBlocks', lastBlockHash')
    PROVE  Tip' = Top(pendingBlocks', lastBlockHash')
<1>1. (pendingBlocks \in Seq(QueuedBlock) => Tip = Top(pendingBlocks, lastBlockHash))'
  BY TipIsTop, PTL
<1>2. Top(pendingBlocks, lastBlockHash)' = Top(pendingBlocks', lastBlockHash')
  OBVIOUS
<1> QED
  BY <1>1, <1>2 DEF QueueOK

\* An empty queue on a clean cache, as Start makes it.
LEMMA FreshInv ==
    ASSUME CacheInv', lastBlockHash' \in Point, cacheHeight' = HeightOf[lastBlockHash'],
           height' = cacheHeight', pendingBlocks' = <<>>,
           addrBalance' = [a \in Address |-> 0], commitTimerStarted' = FALSE,
           sinceLastBlock' = 2, commitFailed' = FALSE, registered' = {}, subscribers' = {},
           inbox' = [s \in Subscriber |-> <<>>]
    PROVE  ManagerInv'
<1>1. /\ QueueOK(pendingBlocks', lastBlockHash')
      /\ QueueBalance(pendingBlocks', lastBlockHash', addrBalance')
      /\ Top(pendingBlocks', lastBlockHash') = lastBlockHash'
      /\ Len(pendingBlocks') = 0
  BY EmptyQueue
<1>2. Tip' = lastBlockHash'
  BY <1>1, NextTip
<1>3. height' \in Int
  BY TreeAssumption
<1>4. inbox' \in [Subscriber -> Seq(Updates)]
  BY EmptySeq
<1>5. TypeOK'
  <2>1. commitTimerStarted' \in BOOLEAN /\ commitFailed' \in BOOLEAN
    OBVIOUS
  <2>2. /\ registered' \subseteq Subscriber /\ subscribers' \subseteq Subscriber
        /\ sinceLastBlock' \in 0..2
    OBVIOUS
  <2>3. /\ pendingBlocks' \in Seq(QueuedBlock) /\ addrBalance' \in [Address -> Int]
        /\ CacheTypeOK'
    BY <1>1 DEF QueueOK, QueueBalance, CacheInv
  <2> QED
    BY <1>3, <1>4, <2>1, <2>2, <2>3 DEF TypeOK
<1> QED
  BY <1>1, <1>2, <1>5, ManagerAssumption DEF ManagerInv

LEMMA RestartInv ==
    ASSUME ManagerInv, Restart
    PROVE  ManagerInv'
<1>1. CacheInv'
  BY ReopenInv DEF ManagerInv, Restart
<1>2. lastBlockHash' \in Point /\ cacheHeight' = HeightOf[lastBlockHash']
  BY <1>1 DEF CacheInv, CacheTypeOK, AvailableExact
<1> QED
  BY <1>1, <1>2, FreshInv DEF Restart

LEMMA InitInv == Init => ManagerInv
<1> SUFFICES ASSUME Init PROVE ManagerInv
  OBVIOUS
<1>1. CacheInv
  BY CacheInitInv DEF Init
<1>2. lastBlockHash \in Point /\ cacheHeight = HeightOf[lastBlockHash]
  BY <1>1 DEF CacheInv, CacheTypeOK, AvailableExact
<1>3. /\ QueueOK(pendingBlocks, lastBlockHash)
      /\ QueueBalance(pendingBlocks, lastBlockHash, addrBalance)
      /\ Top(pendingBlocks, lastBlockHash) = lastBlockHash
      /\ Len(pendingBlocks) = 0
  BY <1>2, EmptyQueue DEF Init
<1>4. Tip = lastBlockHash
  BY <1>3, TipIsTop DEF QueueOK
<1>5. height \in Int /\ inbox \in [Subscriber -> Seq(Updates)]
  BY <1>2, TreeAssumption, EmptySeq DEF Init
<1>6. TypeOK
  <2>1. commitTimerStarted \in BOOLEAN /\ commitFailed \in BOOLEAN
    BY DEF Init
  <2>2. registered \subseteq Subscriber /\ subscribers \subseteq Subscriber /\ sinceLastBlock \in 0..2
    BY DEF Init
  <2>3. /\ pendingBlocks \in Seq(QueuedBlock) /\ addrBalance \in [Address -> Int]
        /\ CacheTypeOK
    BY <1>1, <1>3 DEF QueueOK, QueueBalance, CacheInv
  <2> QED
    BY <1>5, <2>1, <2>2, <2>3 DEF TypeOK
<1> QED
  BY <1>1, <1>2, <1>3, <1>4, <1>6, ManagerAssumption DEF ManagerInv, Init

LEMMA BacktrackInv ==
    ASSUME ManagerInv, Backtrack
    PROVE  ManagerInv'
<1> DEFINE q == pendingBlocks
           n == Len(pendingBlocks)
<1>1. /\ q # <<>> /\ q' = SubSeq(q, 1, n - 1)
      /\ addrBalance' = [a \in Address |-> addrBalance[a] - BlockDelta(q[n], a)]
      /\ height' = height - 1
      /\ UNCHANGED <<cacheVars, sinceLastBlock>>
      /\ AfterUpdate(Update("BACKTRACK", Tip))
  BY DEF Backtrack
<1>2. /\ QueueOK(q, lastBlockHash) /\ q \in Seq(QueuedBlock)
      /\ n \in Nat /\ n > 0 /\ n <= Confirmations
      /\ QueueBalance(q, lastBlockHash, addrBalance)
  BY <1>1, EmptySeq, LenProperties DEF ManagerInv, QueueOK
<1>3. lastBlockHash' = lastBlockHash
  BY <1>1 DEF cacheVars
<1>4. CacheInv'
  BY <1>1, CacheStutterInv DEF ManagerInv
<1>5. /\ QueueOK(q', lastBlockHash')
      /\ Top(q', lastBlockHash') = HashAt(q, lastBlockHash, n - 1)
      /\ Len(q') = n - 1
  BY <1>1, <1>2, <1>3, PopBackOK
<1>6. QueueBalance(q', lastBlockHash', addrBalance')
  BY <1>1, <1>2, <1>3, PopBackBalance
<1>7. height' = HeightOf[Tip']
  <2>1. Tip = q[n].hash /\ Tip' = HashAt(q, lastBlockHash, n - 1)
    BY <1>2, <1>1, <1>5, NextTip DEF Tip
  <2>2. PrevBlock[q[n].hash] = HashAt(q, lastBlockHash, n - 1)
    BY <1>2 DEF QueueOK, BlockOK
  <2>3. q[n] \in QueuedBlock
    BY <1>2, ElementOfSeq
  <2>4. HeightOf[q[n].hash] = HeightOf[PrevBlock[q[n].hash]] + 1
    BY <2>3, TreeAssumption DEF QueuedBlock
  <2>5. height = HeightOf[Tip]
    BY DEF ManagerInv
  <2>6. HeightOf[PrevBlock[q[n].hash]] \in Int
    BY <2>3, TreeAssumption DEF QueuedBlock
  <2> QED
    BY <1>1, <2>1, <2>2, <2>4, <2>5, <2>6
<1>8. TypeOK'
  <2>1. Tip \in Point
    BY <1>2, TipIsTop, TopPoint
  <2>2. Update("BACKTRACK", Tip) \in Updates
    BY <2>1 DEF Update, Updates
  <2>3. /\ registered' \subseteq Subscriber
        /\ subscribers' \subseteq Subscriber
        /\ inbox' \in [Subscriber -> Seq(Updates)]
        /\ commitTimerStarted' \in BOOLEAN /\ commitFailed' \in BOOLEAN
    BY <1>1, <2>2, AfterUpdateTyped DEF ManagerInv
  <2>4. height' \in Int /\ sinceLastBlock' \in 0..2
    BY <1>1 DEF ManagerInv, TypeOK
  <2> QED
    BY <1>4, <1>5, <1>6, <2>3, <2>4 DEF TypeOK, CacheInv, QueueOK, QueueBalance
<1> QED
  BY <1>2, <1>4, <1>5, <1>6, <1>7, <1>8, ManagerAssumption DEF ManagerInv

\* The queue and the last cached block stay, the cache keeps its invariant.
LEMMA SameQueueInv ==
    ASSUME ManagerInv, CacheInv',
           UNCHANGED <<height, pendingBlocks, addrBalance, lastBlockHash>>,
           commitTimerStarted' \in BOOLEAN, commitFailed' \in BOOLEAN,
           sinceLastBlock' \in 0..2,
           registered' \subseteq Subscriber, subscribers' \subseteq Subscriber,
           inbox' \in [Subscriber -> Seq(Updates)]
    PROVE  ManagerInv'
<1>1. Tip' = Tip
  BY DEF Tip
<1>2. /\ QueueOK(pendingBlocks', lastBlockHash')
      /\ QueueBalance(pendingBlocks', lastBlockHash', addrBalance')
  BY DEF ManagerInv
<1>3. TypeOK'
  BY DEF ManagerInv, TypeOK, CacheInv
<1> QED
  BY <1>1, <1>2, <1>3 DEF ManagerInv

LEMMA CommitTimerInv ==
    ASSUME ManagerInv, CommitTimer
    PROVE  ManagerInv'
<1>1. UNCHANGED <<height, pendingBlocks, addrBalance>> /\ commitTimerStarted' = FALSE
  BY DEF CommitTimer
<1>2. CacheInv' /\ lastBlockHash' = lastBlockHash
  <2>1. CASE CommitDone
    BY <2>1, CommitDoneInv DEF ManagerInv, CommitDone
  <2>2. CASE UNCHANGED cacheVars
    BY <2>2, CacheStutterInv DEF ManagerInv, cacheVars
  <2> QED
    BY <2>1, <2>2 DEF CommitTimer, CommitFailed
<1>3. sinceLastBlock' \in 0..2
  <2>1. sinceLastBlock \in 0..2
    BY DEF ManagerInv, TypeOK
  <2>2. sinceLastBlock' \in {0, sinceLastBlock}
    BY DEF CommitTimer
  <2> QED
    BY <2>1, <2>2
<1>4. /\ registered' \subseteq Subscriber
      /\ subscribers' \subseteq Subscriber
      /\ inbox' \in [Subscriber -> Seq(Updates)]
  <2>1. CASE CommitRequired
    <3>1. Update("COMMIT_DONE", ZeroHash) \in Updates
      BY DEF Update, Updates, Point
    <3>2. <<Update("COMMIT_DONE", ZeroHash)>> \in Seq(Updates)
      BY <3>1
    <3> QED
      BY <2>1, <3>2, SignalTyped DEF CommitTimer, ManagerInv
  <2>2. CASE ~CommitRequired
    BY <2>2 DEF CommitTimer, clientVars, ManagerInv, TypeOK
  <2> QED
    BY <2>1, <2>2
<1>5. commitFailed' \in BOOLEAN
  <2>1. commitFailed \in BOOLEAN
    BY DEF ManagerInv, TypeOK
  <2>2. commitFailed' \in {TRUE, FALSE, commitFailed}
    BY DEF CommitTimer
  <2> QED
    BY <2>1, <2>2
<1> QED
  BY <1>1, <1>2, <1>3, <1>4, <1>5, SameQueueInv

LEMMA IdleInv ==
    ASSUME ManagerInv, UNCHANGED cacheVars,
           UNCHANGED <<height, pendingBlocks, addrBalance, commitTimerStarted,
                       commitFailed, inbox>>,
           sinceLastBlock' \in 0..2,
           registered' \subseteq Subscriber, subscribers' \subseteq Subscriber
    PROVE  ManagerInv'
<1>1. CacheInv' /\ lastBlockHash' = lastBlockHash
  BY CacheStutterInv DEF ManagerInv, cacheVars
<1>2. /\ commitTimerStarted' \in BOOLEAN /\ commitFailed' \in BOOLEAN
      /\ inbox' \in [Subscriber -> Seq(Updates)]
  BY DEF ManagerInv, TypeOK
<1> QED
  BY <1>1, <1>2, SameQueueInv

LEMMA ManagerStepInv == ManagerInv /\ [Next]_vars => ManagerInv'
<1> SUFFICES ASSUME ManagerInv, [Next]_vars PROVE ManagerInv'
  OBVIOUS
<1>0. TypeOK
  BY DEF ManagerInv
<1>1. CASE \E b \in Block : NewBlock(b)
  BY <1>1, NewBlockInv
<1>2. CASE Backtrack
  BY <1>2, BacktrackInv
<1>3. CASE BacktrackLimit
  BY <1>3, RestartInv DEF BacktrackLimit
<1>4. CASE CommitTimer
  BY <1>4, CommitTimerInv
<1>5. CASE \E s \in Subscriber : Subscribe(s) \/ Unsubscribe(s)
  BY <1>0, <1>5, IdleInv DEF Subscribe, Unsubscribe, TypeOK, managerVars
<1>6. CASE TimePasses
  BY <1>0, <1>6, IdleInv DEF TimePasses, TypeOK, clientVars
<1>7. CASE Restart
  BY <1>7, RestartInv
<1>8. CASE UNCHANGED vars
  BY <1>0, <1>8, IdleInv DEF vars, managerVars, clientVars, TypeOK
<1> QED
  BY <1>1, <1>2, <1>3, <1>4, <1>5, <1>6, <1>7, <1>8 DEF Next

LEMMA ManagerInvariant == Spec => []ManagerInv
<1> QED
  BY InitInv, ManagerStepInv, PTL DEF Spec

-----------------------------------------------------------------------------
LEMMA QueueLinkedHolds == ManagerInv => QueueLinked
<1> SUFFICES ASSUME ManagerInv PROVE QueueLinked
  OBVIOUS
<1>1. ASSUME NEW n \in 1..Len(pendingBlocks)
      PROVE  /\ PrevBlock[pendingBlocks[n].hash] = PendingHash(n - 1)
             /\ pendingBlocks[n].height = HeightOf[pendingBlocks[n].hash]
  BY DEF ManagerInv, QueueOK, BlockOK, HashAt, PendingHash
<1> QED
  BY <1>1 DEF QueueLinked, ManagerInv

LEMMA InputsFoundHolds == ManagerInv => InputsFound
BY DEF ManagerInv, QueueOK, BlockOK, InputsFound

LEMMA BalanceExactHolds == ManagerInv => BalanceExact
<1> SUFFICES ASSUME ManagerInv, ~Sync, NEW a \in Address
             PROVE  addrBalance[a] + CacheBalance(a) = BalanceOf(UtxoAt[Tip], a)
  BY DEF BalanceExact, GetBalance
<1>1. /\ QueueOK(pendingBlocks, lastBlockHash) /\ pendingBlocks \in Seq(QueuedBlock)
      /\ lastBlockHash \in Point
  BY DEF ManagerInv, QueueOK
<1>2. addrBalance[a] = BalanceOf(UtxoAt[Tip], a) - BalanceOf(UtxoAt[lastBlockHash], a)
  BY <1>1, TipIsTop DEF ManagerInv, QueueBalance
<1>3. CacheBalance(a) = BalanceOf(UtxoAt[lastBlockHash], a)
  BY DEF ManagerInv, CacheInv, CacheBalanceExact
<1>4. Tip \in Point
  BY <1>1, TipIsTop, TopPoint
<1> QED
  BY <1>1, <1>2, <1>3, <1>4, BalanceInt

\* Types hold in every state.
THEOREM ManagerTyped == Spec => []TypeOK
<1>1. ManagerInv => TypeOK
  BY DEF ManagerInv
<1> QED
  BY <1>1, ManagerInvariant, PTL

\* The queue is always a chain on top of the cached blocks, no longer than
\* the configured number of confirmations, with the right heights.
THEOREM ManagerQueueLinked == Spec => []QueueLinked
<1> QED
  BY QueueLinkedHolds, ManagerInvariant, PTL

\* Every input of every queued block was found when the block arrived.
THEOREM ManagerInputsFound == Spec => []InputsFound
<1> QED
  BY InputsFoundHolds, ManagerInvariant, PTL

\* Answered balances are always those of the ledger at the tip.
THEOREM ManagerBalanceExact == Spec => []BalanceExact
<1> QED
  BY BalanceExactHolds, ManagerInvariant, PTL

-----------------------------------------------------------------------------
\* The timer is armed by every block and backtrack that leaves a commit
\* required, and disarmed only with the commit done, failed or not required.
LEMMA UpdateArmsTimer ==
    ASSUME NEW update, AfterUpdate(update)
    PROVE  DueCommitScheduled'
<1>1. commitTimerStarted' = (commitTimerStarted \/ (CommitRequired' /\ ~commitTimerStarted))
  BY DEF AfterUpdate, ArmTimer
<1>2. CommitRequired' =>  commitTimerStarted'
  BY <1>1
<1> QED
  BY <1>2 DEF CommitRequired, DueCommitScheduled

LEMMA DueStep == DueCommitScheduled /\ [Next]_vars => DueCommitScheduled'
<1> SUFFICES ASSUME DueCommitScheduled, [Next]_vars PROVE DueCommitScheduled'
  OBVIOUS
<1>1. CASE \E b \in Block : NewBlock(b)
  BY <1>1, UpdateArmsTimer DEF NewBlock
<1>2. CASE Backtrack
  BY <1>2, UpdateArmsTimer DEF Backtrack
<1>3. CASE Restart
  BY <1>3 DEF Restart, Reopen, EmptyMaps, DueCommitScheduled
<1>4. CASE CommitTimer
  <2>1. CASE CommitDone
    BY <2>1 DEF CommitDone, EmptyMaps, DueCommitScheduled
  <2>2. CASE commitFailed'
    BY <2>2 DEF DueCommitScheduled
  <2>3. CASE ~CommitRequired /\ UNCHANGED cacheVars
    BY <2>3 DEF CommitRequired, DueCommitScheduled, UncommittedLen, cacheVars
  <2> QED
    BY <1>4, <2>1, <2>2, <2>3 DEF CommitTimer
<1>5. CASE UNCHANGED <<cacheVars, commitTimerStarted, commitFailed>>
  BY <1>5 DEF DueCommitScheduled, UncommittedLen, cacheVars
<1>6. CASE TimePasses \/ (\E s \in Subscriber : Subscribe(s) \/ Unsubscribe(s)) \/ UNCHANGED vars
  BY <1>5, <1>6 DEF TimePasses, Subscribe, Unsubscribe, managerVars, vars
<1> QED
  BY <1>1, <1>2, <1>3, <1>4, <1>6 DEF Next, BacktrackLimit

\* A commit that is due has its timer running, unless the last one failed and
\* no block came since.
THEOREM ManagerDueCommitScheduled == Spec => []DueCommitScheduled
<1>1. Init => DueCommitScheduled
  BY DEF Init, CacheInit, DueCommitScheduled
<1> QED
  BY <1>1, DueStep, PTL DEF Spec

-----------------------------------------------------------------------------
\* Every step of the manager moves the cache as StorageCache allows.
LEMMA CacheStep == ManagerInv /\ [Next]_vars => [CacheNext]_cacheVars
<1> SUFFICES ASSUME ManagerInv, [Next]_vars PROVE [CacheNext]_cacheVars
  OBVIOUS
<1>1. ASSUME NEW b \in Block, NewBlock(b) PROVE [CacheNext]_cacheVars
  <2> DEFINE block == [hash |-> b, height |-> height + 1, found |-> FoundInputs(b)]
             queue == Append(pendingBlocks, block)
             first == Head(queue)
  <2>1. PrevBlock[b] = Tip
    BY <1>1 DEF NewBlock
  <2>2. QueueOK(queue, lastBlockHash) /\ queue # <<>>
    BY <2>1, ExtendedQueue
  <2>3. AddBlock(first) \/ UNCHANGED cacheVars
    BY <1>1 DEF NewBlock
  <2> HIDE DEF queue
  <2>4. first \in QueuedBlock /\ first = queue[1] /\ 1 \in 1..Len(queue)
    <3>1. Head(queue) = queue[1] /\ Head(queue) \in QueuedBlock
      BY <2>2, PopFrontOK
    <3>2. queue \in Seq(QueuedBlock)
      BY <2>2 DEF QueueOK
    <3>3. Len(queue) \in Nat /\ Len(queue) # 0
      BY <2>2, <3>2, EmptySeq, LenProperties
    <3> QED
      BY <3>1, <3>3
  <2>5. BlockOK(queue, lastBlockHash, 1)
    BY <2>2, <2>4 DEF QueueOK
  <2>6. /\ PrevBlock[first.hash] = lastBlockHash
        /\ first.height = HeightOf[first.hash]
        /\ LookedUp(first)
        /\ first.hash \in Block
        /\ first.found \in SUBSET Ins[first.hash]
    BY <2>4, <2>5 DEF BlockOK, HashAt, LookedUp, QueuedBlock
  <2>7. first = [hash |-> first.hash, height |-> HeightOf[first.hash], found |-> first.found]
    BY <2>4, <2>6 DEF QueuedBlock
  <2> HIDE DEF first
  <2>8. ASSUME AddBlock(first) PROVE AddNextBlock
    BY <2>6, <2>7, <2>8 DEF AddNextBlock
  <2> QED
    BY <2>3, <2>8 DEF CacheNext
<1>2. CASE Restart
  BY <1>2 DEF Restart, CacheNext
<1>3. CASE CommitTimer
  BY <1>3 DEF CommitTimer, CacheNext
<1>4. CASE Backtrack
  BY <1>4 DEF Backtrack
<1>5. CASE TimePasses \/ UNCHANGED vars
  BY <1>5 DEF TimePasses, vars
<1>6. CASE \E s \in Subscriber : Subscribe(s) \/ Unsubscribe(s)
  BY <1>6 DEF Subscribe, Unsubscribe
<1> QED
  BY <1>1, <1>2, <1>3, <1>4, <1>5, <1>6 DEF Next, BacktrackLimit

\* The manager drives its cache as the cache's specification says, and so has
\* everything that is proved about the cache.
THEOREM ManagerDrivesCache == Spec => DrivesCache
<1>1. Init => CacheInit
  BY DEF Init
<1> QED
  BY <1>1, CacheStep, ManagerInvariant, PTL DEF Spec, DrivesCache, CacheSpec

\* The rows are those of the committed block in every state of the manager.
THEOREM ManagerStoredExact == Spec => []StoredExact
<1> QED
  BY ManagerDrivesCache, CacheStoredExact, PTL DEF DrivesCache

\* The cache is that of the last confirmed block in every state.
THEOREM ManagerAvailableExact == Spec => []AvailableExact
<1> QED
  BY ManagerDrivesCache, CacheAvailableExact, PTL DEF DrivesCache

\* The database accepts every commit the manager may start.
THEOREM ManagerCommitAccepted == Spec => []CommitAccepted
<1> QED
  BY ManagerDrivesCache, CacheCommitAccepted, PTL DEF DrivesCache

\* The committed block only moves forward along one chain.
THEOREM ManagerMovesForward == Spec => StoredMovesForward
<1> QED
  BY ManagerDrivesCache, CacheMovesForward, PTL DEF DrivesCache

-----------------------------------------------------------------------------
LEMMA IndexExact == ManagerInv => Index!Exact
<1> SUFFICES ASSUME ManagerInv PROVE Index!Exact
  OBVIOUS
<1>1. height = HeightOf[Tip]
  BY DEF ManagerInv
<1>2. utxo = UtxoAt[lastBlock.hash]
  BY DEF ManagerInv, CacheInv, StoredExact
<1>3. ASSUME NEW a \in Address PROVE GetBalance(a) \in Int
  <2>1. addrBalance[a] \in Int /\ balance[a] \in Int
    BY DEF ManagerInv, TypeOK, CacheTypeOK
  <2>2. utxo \in SUBSET TxOutId
    BY OutputAssumption DEF ManagerInv, TypeOK, CacheTypeOK
  <2>3. BalanceOf(utxo, a) \in Int
    BY <2>2, BalanceAssumption
  <2> QED
    BY <2>1, <2>3 DEF GetBalance, CacheBalance
<1>4. ~Sync => \A a \in Address : GetBalance(a) = BalanceOf(UtxoAt[Tip], a)
  BY BalanceExactHolds DEF BalanceExact
<1> QED
  BY <1>1, <1>2, <1>3, <1>4 DEF Index!Exact

LEMMA IndexInit == Init => Index!Init
<1> SUFFICES ASSUME Init PROVE Index!Init
  OBVIOUS
<1>1. Index!Exact
  BY InitInv, IndexExact
<1>2. lastBlock.hash = ZeroHash /\ lastBlockHash = ZeroHash
  BY DEF Init, CacheInit
<1>3. Tip = ZeroHash
  BY <1>2 DEF Init, Tip
<1> QED
  BY <1>1, <1>2, <1>3 DEF Index!Init

LEMMA IndexExtend ==
    ASSUME ManagerInv, NEW b \in Block, NewBlock(b)
    PROVE  Index!Extend
<1> DEFINE block == [hash |-> b, height |-> height + 1, found |-> FoundInputs(b)]
           queue == Append(pendingBlocks, block)
           n == Len(pendingBlocks)
<1>1. PrevBlock[b] = Tip
  BY DEF NewBlock
<1>2. /\ QueueOK(queue, lastBlockHash) /\ Len(queue) = n + 1 /\ queue # <<>>
      /\ Top(queue, lastBlockHash) = b /\ lastBlockHash \in Point
      /\ n \in Nat
  BY <1>1, ExtendedQueue, LenProperties DEF ManagerInv, QueueOK
<1>3. Tip' = b
  <2>1. CASE Confirmed(queue)
    <3>1. pendingBlocks' = Tail(queue) /\ lastBlockHash' = Head(queue).hash
      BY <2>1 DEF NewBlock, AddBlock
    <3> HIDE DEF queue
    <3> QED
      BY <1>2, <3>1, PopFrontOK, NextTip
  <2>2. CASE ~Confirmed(queue)
    <3>1. pendingBlocks' = queue /\ lastBlockHash' = lastBlockHash
      BY <2>2 DEF NewBlock, cacheVars
    <3> HIDE DEF queue
    <3> QED
      BY <1>2, <3>1, NextTip
  <2> QED
    BY <2>1, <2>2
<1>4. HeightOf[b] - HeightOf[lastBlockHash] = n + 1
  <2> HIDE DEF queue, n
  <2>1. n + 1 \in 0..Len(queue) /\ 0 \in 0..(n + 1)
    BY <1>2
  <2>2. HeightOf[HashAt(queue, lastBlockHash, n + 1)]
          = HeightOf[HashAt(queue, lastBlockHash, 0)] + ((n + 1) - 0)
    BY <1>2, <2>1 DEF QueueOK, Climbs
  <2>3. HashAt(queue, lastBlockHash, n + 1) = b /\ HashAt(queue, lastBlockHash, 0) = lastBlockHash
    BY <1>2 DEF Top, HashAt
  <2>4. HeightOf[b] \in Int /\ HeightOf[lastBlockHash] \in Int
    BY <1>2, TreeAssumption DEF Point
  <2> QED
    BY <1>2, <2>2, <2>3, <2>4
<1>5. lastBlock' = lastBlock
  BY DEF NewBlock, AddBlock, dbVars, cacheVars
<1>6. IF HeightOf[b] - HeightOf[lastBlockHash] > Confirmations
      THEN lastBlockHash' \in Path[b] \cap Block /\ PrevBlock[lastBlockHash'] = lastBlockHash
      ELSE lastBlockHash' = lastBlockHash
  <2>1. CASE Confirmed(queue)
    <3>1. lastBlockHash' = Head(queue).hash
      BY <2>1 DEF NewBlock, AddBlock
    <3>2. HeightOf[b] - HeightOf[lastBlockHash] > Confirmations
      BY <1>2, <1>4, <2>1 DEF Confirmed
    <3> HIDE DEF queue
    <3>3. /\ Head(queue) = queue[1] /\ Head(queue) \in QueuedBlock
          /\ 1 \in 1..Len(queue) /\ 1 \in 0..Len(queue) /\ Len(queue) \in 0..Len(queue)
      BY <1>2, PopFrontOK
    <3>4. BlockOK(queue, lastBlockHash, 1)
      BY <1>2, <3>3 DEF QueueOK
    <3>5. HashAt(queue, lastBlockHash, 1) \in Path[HashAt(queue, lastBlockHash, Len(queue))]
      BY <1>2, <3>3 DEF QueueOK, Climbs
    <3> QED
      BY <1>2, <3>1, <3>2, <3>3, <3>4, <3>5 DEF BlockOK, HashAt, Top, QueuedBlock
  <2>2. CASE ~Confirmed(queue)
    <3>1. lastBlockHash' = lastBlockHash
      BY <2>2 DEF NewBlock, cacheVars
    <3>2. ~(HeightOf[b] - HeightOf[lastBlockHash] > Confirmations)
      BY <1>2, <1>4, <2>2 DEF Confirmed
    <3> QED
      BY <3>1, <3>2
  <2> QED
    BY <2>1, <2>2
<1> HIDE DEF queue, block, n
<1> QED
  BY <1>1, <1>3, <1>5, <1>6 DEF Index!Extend

LEMMA IndexRetract ==
    ASSUME ManagerInv, Backtrack
    PROVE  Index!Retract
<1> DEFINE q == pendingBlocks
           n == Len(pendingBlocks)
<1>1. /\ q # <<>> /\ q' = SubSeq(q, 1, n - 1) /\ UNCHANGED cacheVars
  BY DEF Backtrack
<1>2. lastBlockHash' = lastBlockHash /\ lastBlock' = lastBlock
  BY <1>1 DEF cacheVars
<1>3. /\ QueueOK(q, lastBlockHash) /\ q \in Seq(QueuedBlock) /\ n \in Nat /\ n > 0
      /\ lastBlockHash \in Point
  BY <1>1, EmptySeq, LenProperties DEF ManagerInv, QueueOK
<1>4. Tip' = HashAt(q, lastBlockHash, n - 1)
  BY <1>1, <1>2, <1>3, PopBackOK, NextTip
<1>5. Tip = q[n].hash
  BY <1>1 DEF Tip
<1>6. Tip' = PrevBlock[Tip]
  BY <1>3, <1>4, <1>5 DEF QueueOK, BlockOK
<1>7. Tip # lastBlockHash
  <2>1. n \in 0..Len(q) /\ 0 \in 0..n
    BY <1>3
  <2>2. HeightOf[HashAt(q, lastBlockHash, n)] = HeightOf[HashAt(q, lastBlockHash, 0)] + (n - 0)
    BY <1>3, <2>1 DEF QueueOK, Climbs
  <2>3. HashAt(q, lastBlockHash, n) = Tip /\ HashAt(q, lastBlockHash, 0) = lastBlockHash
    BY <1>3, <1>5 DEF HashAt
  <2>4. HeightOf[lastBlockHash] \in Int
    BY <1>3, TreeAssumption
  <2> QED
    BY <1>3, <2>2, <2>3, <2>4
<1> QED
  BY <1>2, <1>6, <1>7 DEF Index!Retract

LEMMA IndexRecover ==
    ASSUME Restart
    PROVE  Index!Recover
<1>1. pendingBlocks' = <<>> /\ lastBlockHash' = lastBlock.hash /\ lastBlock' = lastBlock
  BY DEF Restart, Reopen, dbVars
<1>2. Tip' = lastBlock.hash
  BY <1>1 DEF Tip
<1> QED
  BY <1>1, <1>2 DEF Index!Recover

\* Steps that leave the blocks, the rows and the balances alone.
LEMMA IndexStutter ==
    ASSUME UNCHANGED <<cacheVars, height, pendingBlocks, addrBalance>>
    PROVE  UNCHANGED Index!vars
<1>1. /\ lastBlockHash' = lastBlockHash /\ lastBlock' = lastBlock /\ utxo' = utxo
      /\ balance' = balance /\ pendingBlocks' = pendingBlocks
      /\ addrBalance' = addrBalance /\ height' = height
  BY DEF cacheVars
<1>2. Tip' = Tip
  BY <1>1 DEF Tip
<1>3. [a \in Address |-> GetBalance(a)]' = [a \in Address |-> GetBalance(a)]
  BY <1>1 DEF GetBalance, CacheBalance
<1> QED
  BY <1>1, <1>2, <1>3 DEF Index!vars

LEMMA IndexStep == ManagerInv /\ ManagerInv' /\ [Next]_vars => [Index!Next]_(Index!vars)
<1> SUFFICES ASSUME ManagerInv, ManagerInv', [Next]_vars PROVE [Index!Next]_(Index!vars)
  OBVIOUS
<1>0. Index!Exact'
  <2>1. (ManagerInv => Index!Exact)'
    BY IndexExact, PTL
  <2> QED
    BY <2>1
<1>1. CASE \E b \in Block : NewBlock(b)
  BY <1>0, <1>1, IndexExtend DEF Index!Next
<1>2. CASE Backtrack
  BY <1>0, <1>2, IndexRetract DEF Index!Next
<1>3. CASE Restart
  BY <1>0, <1>3, IndexRecover DEF Index!Next
<1>4. CASE CommitTimer
  <2>1. CASE CommitDone
    <3>1. /\ lastBlockHash' = lastBlockHash /\ lastBlock'.hash = lastBlockHash
          /\ pendingBlocks' = pendingBlocks
      BY <1>4, <2>1 DEF CommitTimer, CommitDone
    <3>2. Tip' = Tip
      BY <3>1 DEF Tip
    <3>3. Index!Persist
      BY <3>1, <3>2 DEF Index!Persist
    <3> QED
      BY <1>0, <3>3 DEF Index!Next
  <2>2. CASE UNCHANGED cacheVars
    <3>1. UNCHANGED <<cacheVars, height, pendingBlocks, addrBalance>>
      BY <1>4, <2>2 DEF CommitTimer
    <3> QED
      BY <3>1, IndexStutter
  <2> QED
    BY <1>4, <2>1, <2>2 DEF CommitTimer, CommitFailed
<1>5. CASE UNCHANGED <<cacheVars, height, pendingBlocks, addrBalance>>
  BY <1>5, IndexStutter
<1>6. CASE TimePasses \/ UNCHANGED vars
  BY <1>5, <1>6 DEF TimePasses, vars, managerVars
<1>7. CASE \E s \in Subscriber : Subscribe(s) \/ Unsubscribe(s)
  BY <1>5, <1>7 DEF Subscribe, Unsubscribe, managerVars
<1> QED
  BY <1>1, <1>2, <1>3, <1>4, <1>6, <1>7 DEF Next, BacktrackLimit

\* The block manager keeps the promise of ChainIndex: its tip extends and
\* retracts a block at a time, a settled block is never undone, a restart
\* resumes at the durable one, and rows and balances are always the ledger's.
THEOREM ManagerImplementsIndex == Spec => ImplementsIndex
<1> QED
  BY IndexInit, IndexStep, ManagerInvariant, PTL DEF Spec, ImplementsIndex, Index!Spec

-----------------------------------------------------------------------------
\* Folds over sequences: what FoldLeft and FlattenSeq carry from one element to
\* the next, they have at the end.

\* Induction with a set in the place of a predicate, which the provers can instantiate.
LEMMA SetInduction ==
    ASSUME NEW G, 0 \in G, \A n \in Nat : n \in G => n + 1 \in G
    PROVE  Nat \subseteq G
<1> SUFFICES ASSUME NEW n0 \in Nat, n0 \notin G PROVE FALSE
  OBVIOUS
<1> DEFINE T == Nat \ G
<1>1. T \in SUBSET Nat /\ n0 \in T
  OBVIOUS
<1>2. PICK n \in T : \A y \in T : ~(<<y, n>> \in OpToRel(<, Nat))
  <2> HIDE DEF T
  <2> QED
    BY <1>1, NatLessThanWellFounded, WFMin
<1>3. n \in Nat /\ n \notin G /\ n # 0
  OBVIOUS
<1>4. n - 1 \in Nat
  BY <1>3
<1>6. n - 1 \notin G
  <2>1. n = (n - 1) + 1
    BY <1>3
  <2> QED
    BY <1>3, <1>4, <2>1
<1>5. <<n - 1, n>> \in OpToRel(<, Nat)
  BY <1>3 DEF OpToRel
<1> QED
  BY <1>2, <1>4, <1>5, <1>6

\* The end of an interval is its maximum.
LEMMA MaxTop ==
    ASSUME NEW n \in Nat, NEW t \in SUBSET (1..n), n \in t
    PROVE  Max(t) = n
<1>1. \A y \in t : n >= y
  OBVIOUS
<1>2. \A x \in t : (\A y \in t : x >= y) => x = n
  <2> SUFFICES ASSUME NEW x \in t, x >= n PROVE x = n
    OBVIOUS
  <2>1. x \in 1..n
    OBVIOUS
  <2> QED
    BY <2>1
<1> QED
  BY <1>1, <1>2 DEF Max

\* A set of some of the first numbers has a maximum.
LEMMA TopExists ==
    ASSUME NEW n \in Nat, NEW t \in SUBSET (1..n), t # {}
    PROVE  Max(t) \in t /\ \A i \in t : i <= Max(t)
<1> DEFINE H == {k \in Nat : \A u \in SUBSET (1..k) : u # {} => Max(u) \in u /\ \A i \in u : i <= Max(u)}
<1>1. 0 \in H
  <2>1. \A u \in SUBSET (1..0) : u = {}
    OBVIOUS
  <2> QED
    BY <2>1
<1>2. ASSUME NEW k \in Nat, k \in H PROVE k + 1 \in H
  <2> SUFFICES ASSUME NEW u \in SUBSET (1..k + 1), u # {}
               PROVE  Max(u) \in u /\ \A i \in u : i <= Max(u)
    OBVIOUS
  <2>1. CASE k + 1 \in u
    BY <2>1, MaxTop
  <2>2. CASE k + 1 \notin u
    <3>1. u \in SUBSET (1..k)
      BY <2>2
    <3> QED
      BY <1>2, <3>1
  <2> QED
    BY <2>1, <2>2
<1>3. Nat \subseteq H
  <2> HIDE DEF H
  <2> QED
    BY <1>1, <1>2, SetInduction
<1> QED
  BY <1>3

\* What a fold over n elements unfolds to: a value for every set of them.
FoldTable(it, V, base, n, step) ==
    /\ it \in [SUBSET (1..n) -> V]
    /\ \A t \in SUBSET (1..n) :
          it[t] = IF t = {} THEN base ELSE step[Max(t)][it[t \ {Max(t)}]]

\* The function that the fold of a sequence of n elements unfolds to exists.
LEMMA FoldExists ==
    ASSUME NEW V, NEW base \in V, NEW n \in Nat, NEW step \in [1..n -> [V -> V]]
    PROVE  \E it : FoldTable(it, V, base, n, step)
<1> DEFINE Folds(it, k) == \A t \in SUBSET (1..k) :
               it[t] = IF t = {} THEN base ELSE step[Max(t)][it[t \ {Max(t)}]]
           Exists(k) == \E it \in [SUBSET (1..k) -> V] : Folds(it, k)
           H == {k \in Nat : k <= n => Exists(k)}
<1>1. 0 \in H
  <2>1. SUBSET (1..0) = {{}}
    OBVIOUS
  <2>2. [t \in SUBSET (1..0) |-> base] \in [SUBSET (1..0) -> V]
    OBVIOUS
  <2>3. Folds([t \in SUBSET (1..0) |-> base], 0)
    BY <2>1
  <2> QED
    BY <2>2, <2>3
<1>2. ASSUME NEW k \in Nat, k \in H PROVE k + 1 \in H
  <2> SUFFICES ASSUME k + 1 <= n PROVE Exists(k + 1)
    <3> HIDE DEF Exists
    <3> QED
      OBVIOUS
  <2>0. k <= n
    OBVIOUS
  <2>1. PICK r \in [SUBSET (1..k) -> V] : Folds(r, k)
    <3>1. Exists(k)
      <4> HIDE DEF Exists
      <4> QED
        BY <1>2, <2>0
    <3> QED
      BY <3>1
  <2> DEFINE it == [t \in SUBSET (1..k + 1) |->
                       IF k + 1 \in t THEN step[k + 1][r[t \ {k + 1}]] ELSE r[t]]
  <2>2. \A t \in SUBSET (1..k + 1) : t \ {k + 1} \in SUBSET (1..k)
    OBVIOUS
  <2>3. it \in [SUBSET (1..k + 1) -> V]
    <3> SUFFICES ASSUME NEW t \in SUBSET (1..k + 1) PROVE it[t] \in V
      OBVIOUS
    <3>1. CASE k + 1 \in t
      <4>1. step[k + 1] \in [V -> V] /\ r[t \ {k + 1}] \in V
        BY <2>2
      <4> QED
        BY <3>1, <4>1
    <3>2. CASE k + 1 \notin t
      <4>1. t \in SUBSET (1..k)
        BY <3>2
      <4> QED
        BY <3>2, <4>1
    <3> QED
      BY <3>1, <3>2
  <2>4. Folds(it, k + 1)
    <3> SUFFICES ASSUME NEW t \in SUBSET (1..k + 1), t # {}
                 PROVE  it[t] = step[Max(t)][it[t \ {Max(t)}]]
      <4>1. it[{}] = r[{}] /\ r[{}] = base
        BY <2>1
      <4> QED
        BY <4>1
    <3>1. CASE k + 1 \in t
      <4>1. Max(t) = k + 1
        BY <3>1, MaxTop
      <4>2. it[t] = step[k + 1][r[t \ {k + 1}]] /\ it[t \ {k + 1}] = r[t \ {k + 1}]
        BY <2>2, <3>1
      <4> QED
        BY <4>1, <4>2
    <3>2. CASE k + 1 \notin t
      <4>1. t \in SUBSET (1..k)
        BY <3>2
      <4>2. r[t] = step[Max(t)][r[t \ {Max(t)}]]
        BY <2>1, <4>1
      <4>3. it[t] = r[t] /\ it[t \ {Max(t)}] = r[t \ {Max(t)}]
        BY <3>2, <4>1
      <4> QED
        BY <4>2, <4>3
    <3> QED
      BY <3>1, <3>2
  <2> HIDE DEF it
  <2> QED
    BY <2>3, <2>4
<1>3. Nat \subseteq H
  <2> HIDE DEF H
  <2> QED
    BY <1>1, <1>2, SetInduction
<1>4. Exists(n)
  <2> HIDE DEF Exists
  <2> QED
    BY <1>3
<1> QED
  BY <1>4 DEF FoldTable

\* The values that a recursion over 1..n goes through.
Run(r, V, base, n, step) ==
    /\ r \in [0..n -> V]
    /\ r[0] = base
    /\ \A k \in 1..n : r[k] = step[k][r[k - 1]]

\* The values that a recursion over 1..n goes through exist.
LEMMA RunExists ==
    ASSUME NEW V, NEW base \in V, NEW n \in Nat, NEW step \in [1..n -> [V -> V]]
    PROVE  \E r : Run(r, V, base, n, step)
<1>1. PICK it : FoldTable(it, V, base, n, step)
  BY FoldExists
<1> DEFINE r == [k \in 0..n |-> it[1..k]]
<1>2. \A k \in 0..n : 1..k \in SUBSET (1..n)
  OBVIOUS
<1>3. r \in [0..n -> V]
  BY <1>1, <1>2 DEF FoldTable
<1>4. r[0] = base
  <2>1. 1..0 = {} /\ {} \in SUBSET (1..n)
    OBVIOUS
  <2>2. it[{}] = base
    BY <1>1, <2>1 DEF FoldTable
  <2> QED
    BY <2>1, <2>2
<1>5. ASSUME NEW k \in 1..n PROVE r[k] = step[k][r[k - 1]]
  <2>1. /\ 1..k \in SUBSET (1..n) /\ 1..k # {} /\ (1..k) \ {k} = 1..(k - 1)
        /\ k \in Nat /\ k - 1 \in 0..n /\ k \in 0..n /\ k \in 1..k
    OBVIOUS
  <2>2. Max(1..k) = k
    BY <2>1, MaxTop
  <2>3. it[1..k] = step[k][it[1..(k - 1)]]
    BY <1>1, <2>1, <2>2 DEF FoldTable
  <2> QED
    BY <2>1, <2>3
<1> HIDE DEF r
<1> QED
  BY <1>3, <1>4, <1>5 DEF Run

\* Two such runs have the same values as long as they take the same steps.
LEMMA RunUnique ==
    ASSUME NEW n \in Nat, NEW p, NEW q, p[0] = q[0],
           \A k \in 1..n : p[k - 1] = q[k - 1] => p[k] = q[k]
    PROVE  p[n] = q[n]
<1> DEFINE H == {k \in Nat : k <= n => p[k] = q[k]}
<1>1. 0 \in H
  OBVIOUS
<1>2. ASSUME NEW k \in Nat, k \in H PROVE k + 1 \in H
  <2> SUFFICES ASSUME k + 1 <= n PROVE p[k + 1] = q[k + 1]
    OBVIOUS
  <2>1. k + 1 \in 1..n /\ (k + 1) - 1 = k /\ p[k] = q[k]
    BY <1>2
  <2> QED
    BY <2>1
<1>3. Nat \subseteq H
  <2> HIDE DEF H
  <2> QED
    BY <1>1, <1>2, SetInduction
<1> QED
  BY <1>3

\* FlattenSeq is a run: it joins one sequence after the other.
LEMMA FlattenIs ==
    ASSUME NEW X, NEW s \in Seq(Seq(X))
    PROVE  \E r : /\ r \in [0..Len(s) -> Seq(X)] /\ r[0] = <<>>
                  /\ \A k \in 1..Len(s) : r[k] = r[k - 1] \o s[k]
                  /\ FlattenSeq(s) = r[Len(s)]
<1> DEFINE n == Len(s)
           Eq(F) == F = [i \in 1..n |-> IF i = 1 THEN s[i] ELSE F[i - 1] \o s[i]]
           it == CHOOSE F : Eq(F)
           step == [k \in 1..n |-> [v \in Seq(X) |-> v \o s[k]]]
<1>1. n \in Nat /\ \A k \in 1..n : s[k] \in Seq(X)
  BY LenProperties, ElementOfSeq
<1>2. FlattenSeq(s) = IF n = 0 THEN s ELSE it[n]
  BY DEF FlattenSeq
<1>3. PICK r \in [0..n -> Seq(X)] :
          r[0] = <<>> /\ \A k \in 1..n : r[k] = step[k][r[k - 1]]
  <2>1. step \in [1..n -> [Seq(X) -> Seq(X)]]
    BY <1>1, ConcatProperties
  <2>2. <<>> \in Seq(X) /\ n \in Nat
    BY <1>1
  <2> HIDE DEF step, n
  <2>3. \E r : Run(r, Seq(X), <<>>, n, step)
    BY <2>1, <2>2, RunExists
  <2> QED
    BY <2>3 DEF Run
<1>4. \A k \in 1..n : r[k] = r[k - 1] \o s[k] /\ r[k - 1] \in Seq(X)
  <2> SUFFICES ASSUME NEW k \in 1..n PROVE r[k] = r[k - 1] \o s[k] /\ r[k - 1] \in Seq(X)
    OBVIOUS
  <2>1. k - 1 \in 0..n
    BY <1>1
  <2>2. r[k - 1] \in Seq(X)
    BY <1>3, <2>1
  <2> QED
    BY <1>3, <2>2
<1> HIDE DEF step
<1>5. CASE n = 0
  <2>1. s = <<>>
    BY <1>5, EmptySeq
  <2> QED
    BY <1>2, <1>3, <1>4, <1>5, <2>1
<1>6. CASE n # 0
  <2> DEFINE f == [i \in 1..n |-> r[i]]
  <2>1. Eq(f)
    <3> SUFFICES ASSUME NEW i \in 1..n PROVE r[i] = IF i = 1 THEN s[i] ELSE f[i - 1] \o s[i]
      OBVIOUS
    <3>1. CASE i = 1
      <4>1. r[1] = <<>> \o s[1] /\ s[1] \in Seq(X)
        <5>1. 1 \in 1..n /\ 1 - 1 = 0
          BY <3>1
        <5> QED
          BY <1>1, <1>3, <1>4, <5>1
      <4> QED
        BY <3>1, <4>1, ConcatEmptySeq
    <3>2. CASE i # 1
      <4>1. i - 1 \in 1..n
        BY <1>1, <3>2
      <4> QED
        BY <1>4, <3>2, <4>1
    <3> QED
      BY <3>1, <3>2
  <2>2. Eq(it)
    <3> HIDE DEF Eq
    <3> QED
      BY <2>1
  <2>3. \A k \in 1..n : it[k] = IF k = 1 THEN s[k] ELSE it[k - 1] \o s[k]
    <3> HIDE DEF it, n
    <3> QED
      BY <2>2
  <2> HIDE DEF Eq, it
  <2> DEFINE p == [k \in 0..n |-> IF k = 0 THEN <<>> ELSE it[k]]
  <2>4. p[0] = r[0]
    BY <1>1, <1>3
  <2>5. ASSUME NEW k \in 1..n, p[k - 1] = r[k - 1] PROVE p[k] = r[k]
    <3>1. CASE k = 1
      <4>1. r[1] = <<>> \o s[1] /\ s[1] \in Seq(X) /\ it[1] = s[1]
        <5>1. 1 \in 1..n /\ 1 - 1 = 0
          BY <3>1
        <5> QED
          BY <1>1, <1>3, <1>4, <2>3, <5>1
      <4> QED
        BY <3>1, <4>1, ConcatEmptySeq
    <3>2. CASE k # 1
      <4>1. k - 1 \in 1..n /\ p[k - 1] = it[k - 1] /\ p[k] = it[k]
        BY <1>1, <3>2
      <4>2. it[k] = it[k - 1] \o s[k]
        BY <2>3, <3>2
      <4>3. r[k] = r[k - 1] \o s[k]
        BY <1>4
      <4> HIDE DEF p, it, f
      <4> QED
        BY <2>5, <4>1, <4>2, <4>3
    <3> QED
      BY <3>1, <3>2
  <2>6. p[n] = r[n]
    <3> HIDE DEF p
    <3> QED
      BY <1>1, <2>4, <2>5, RunUnique
  <2>7. p[n] = it[n]
    BY <1>1, <1>6
  <2> QED
    BY <1>2, <1>3, <1>4, <1>6, <2>6, <2>7
<1> QED
  BY <1>5, <1>6

\* The first k of n numbers.
Fronts(n, k) ==
    /\ 1..k \in SUBSET (1..n) /\ 1..k # {} /\ (1..k) \ {k} = 1..(k - 1)
    /\ k \in Nat /\ k - 1 \in 0..n /\ k \in 0..n /\ k \in 1..k

LEMMA PrefixesAre == ASSUME NEW n \in Nat, NEW k \in 1..n PROVE Fronts(n, k)
BY DEF Fronts

\* A value for every set that solves the equation of a fold.
Unfolds(it, V, base, n, step) ==
    /\ it[{}] = base
    /\ \A t \in SUBSET (1..n) : t # {} /\ it[t \ {Max(t)}] \in V
           => it[t] = step[Max(t)][it[t \ {Max(t)}]]

\* Such a solution goes through a run.
LEMMA FoldSteps ==
    ASSUME NEW V, NEW base \in V, NEW n \in Nat, NEW step \in [1..n -> [V -> V]],
           NEW it, Unfolds(it, V, base, n, step)
    PROVE  Run([k \in 0..n |-> it[1..k]], V, base, n, step)
<1>0. \A k \in 1..n : Fronts(n, k)
  BY PrefixesAre
<1> DEFINE r == [k \in 0..n |-> it[1..k]]
           H == {k \in Nat : k <= n => r[k] \in V}
<1>1. r[0] = base
  BY 1..0 = {} DEF Unfolds
<1>2. ASSUME NEW k \in 1..n, r[k - 1] \in V
      PROVE  r[k] = step[k][r[k - 1]] /\ r[k] \in V
  <2>1. /\ 1..k \in SUBSET (1..n) /\ 1..k # {} /\ (1..k) \ {k} = 1..(k - 1)
        /\ k \in Nat /\ k - 1 \in 0..n /\ k \in 0..n /\ k \in 1..k
    BY <1>0 DEF Fronts
  <2>2. Max(1..k) = k
    BY <2>1, MaxTop
  <2>3. r[k] = it[1..k] /\ r[k - 1] = it[1..(k - 1)]
    BY <2>1
  <2> HIDE DEF r
  <2>4. it[1..k] = step[k][it[1..(k - 1)]]
    BY <1>2, <2>1, <2>2, <2>3 DEF Unfolds
  <2> QED
    BY <1>2, <2>3, <2>4
<1>3. 0 \in H
  BY <1>1
<1>4. ASSUME NEW k \in Nat, k \in H PROVE k + 1 \in H
  <2> SUFFICES ASSUME k + 1 <= n PROVE r[k + 1] \in V
    OBVIOUS
  <2>1. k + 1 \in 1..n /\ r[k] \in V /\ (k + 1) - 1 = k
    BY <1>4
  <2> HIDE DEF r
  <2> QED
    BY <1>2, <2>1
<1>5. Nat \subseteq H
  <2> HIDE DEF H
  <2> QED
    BY <1>3, <1>4, SetInduction
<1>6. \A k \in 0..n : r[k] \in V
  <2>1. \A k \in 0..n : k \in Nat /\ k <= n
    OBVIOUS
  <2> HIDE DEF r
  <2> QED
    BY <1>5, <2>1
<1>7. r \in [0..n -> V]
  <2>1. r = [k \in 0..n |-> r[k]]
    OBVIOUS
  <2> HIDE DEF r
  <2> QED
    BY <1>6, <2>1
<1>8. \A k \in 1..n : r[k] = step[k][r[k - 1]]
  <2>1. \A k \in 1..n : k - 1 \in 0..n
    OBVIOUS
  <2> HIDE DEF r
  <2> QED
    BY <1>2, <1>6, <2>1
<1> HIDE DEF r
<1>9. Run(r, V, base, n, step)
  BY <1>1, <1>7, <1>8 DEF Run
<1> QED
  BY <1>9 DEF r

\* What each step of a run carries on, it has at the end.
Carried(G, V, base, n, step) ==
    /\ base \in G[0]
    /\ \A k \in 1..n : \A v \in V : v \in G[k - 1] => step[k][v] \in G[k]

LEMMA RunKeeps ==
    ASSUME NEW V, NEW base, NEW n \in Nat, NEW step, NEW r, Run(r, V, base, n, step),
           NEW G, Carried(G, V, base, n, step)
    PROVE  r[n] \in V /\ r[n] \in G[n]
<1> DEFINE H == {k \in Nat : k <= n => r[k] \in G[k]}
<1>1. 0 \in H
  BY DEF Run, Carried
<1>2. ASSUME NEW k \in Nat, k \in H PROVE k + 1 \in H
  <2> SUFFICES ASSUME k + 1 <= n PROVE r[k + 1] \in G[k + 1]
    OBVIOUS
  <2>1. k + 1 \in 1..n /\ k \in 0..n /\ (k + 1) - 1 = k /\ r[k] \in G[k]
    BY <1>2
  <2>2. r[k] \in V /\ r[k + 1] = step[k + 1][r[k]]
    BY <2>1 DEF Run
  <2> QED
    BY <2>1, <2>2 DEF Carried
<1>3. Nat \subseteq H
  <2> HIDE DEF H
  <2> QED
    BY <1>1, <1>2, SetInduction
<1>4. n \in 0..n
  OBVIOUS
<1> QED
  BY <1>3, <1>4 DEF Run

LEMMA UnfoldsKeeps ==
    ASSUME NEW V, NEW base \in V, NEW n \in Nat, NEW step \in [1..n -> [V -> V]],
           NEW it, Unfolds(it, V, base, n, step), NEW G, Carried(G, V, base, n, step)
    PROVE  it[1..n] \in V /\ it[1..n] \in G[n]
<1> DEFINE r == [k \in 0..n |-> it[1..k]]
<1>1. Run(r, V, base, n, step)
  BY FoldSteps
<1>2. r[n] = it[1..n]
  OBVIOUS
<1>3. r[n] \in V /\ r[n] \in G[n]
  <2> HIDE DEF r
  <2> QED
    BY <1>1, RunKeeps
<1> QED
  BY <1>2, <1>3

\* The folds of the model: what each of their steps carries on, they have at the end.
LEMMA TotalKeeps ==
    ASSUME NEW V, NEW base \in V, NEW s, NEW n \in Nat, DOMAIN s = 1..n, base = 0,
           \A k \in 1..n : \A v \in V : v + s[k] \in V,
           NEW G, base \in G[0],
           \A k \in 1..n : \A v \in V : v \in G[k - 1] => v + s[k] \in G[k]
    PROVE  Total(s) \in V /\ Total(s) \in G[n]
<1> DEFINE Eq(F) == F = [t \in SUBSET (1..n) |->
                            IF t = {} THEN base ELSE F[t \ {Max(t)}] + s[Max(t)]]
           it == CHOOSE F : Eq(F)
           step == [k \in 1..n |-> [v \in V |-> v + s[k]]]
<1>1. step \in [1..n -> [V -> V]]
  OBVIOUS
<1>2. Total(s) = it[1..n]
  BY DEF Total, FoldLeft, MapThenFoldSet
<1>3. \E F : Eq(F)
  <2>1. PICK F : FoldTable(F, V, base, n, step)
    <3> HIDE DEF step
    <3> QED
      BY <1>1, FoldExists
  <2>2. ASSUME NEW t \in SUBSET (1..n), t # {}
        PROVE  F[t] = F[t \ {Max(t)}] + s[Max(t)]
    <3>1. Max(t) \in 1..n
      BY <2>2, TopExists
    <3>2. F[t \ {Max(t)}] \in V /\ F[t] = step[Max(t)][F[t \ {Max(t)}]]
      <4> HIDE DEF step
      <4> QED
        BY <2>1, <2>2 DEF FoldTable
    <3> QED
      BY <3>1, <3>2
  <2> HIDE DEF step
  <2>3. F \in [SUBSET (1..n) -> V] /\ F[{}] = base
    BY <2>1 DEF FoldTable
  <2>4. Eq(F)
    BY <2>2, <2>3
  <2> QED
    BY <2>4
<1>4. Eq(it)
  <2> HIDE DEF Eq
  <2> QED
    BY <1>3
<1>5. it[{}] = base
  <2>1. {} \in SUBSET (1..n)
    OBVIOUS
  <2> HIDE DEF it
  <2> QED
    BY <1>4, <2>1
<1>6. ASSUME NEW t \in SUBSET (1..n), t # {}, it[t \ {Max(t)}] \in V
      PROVE  it[t] = step[Max(t)][it[t \ {Max(t)}]]
  <2>1. Max(t) \in 1..n
    BY <1>6, TopExists
  <2> HIDE DEF it
  <2>2. it[t] = it[t \ {Max(t)}] + s[Max(t)]
    BY <1>4, <1>6
  <2> QED
    BY <1>6, <2>1, <2>2
<1> HIDE DEF Eq, it
<1>7. Carried(G, V, base, n, step)
  BY DEF Carried
<1>8. Unfolds(it, V, base, n, step)
  BY <1>5, <1>6 DEF Unfolds
<1>9. it[1..n] \in V /\ it[1..n] \in G[n]
  <2> HIDE DEF step
  <2> QED
    BY <1>1, <1>7, <1>8, UnfoldsKeeps
<1> QED
  BY <1>2, <1>9

LEMMA ApplyOutKeeps ==
    ASSUME NEW V, NEW base \in V, NEW s, NEW n \in Nat, DOMAIN s = 1..n,
           \A k \in 1..n : \A v \in V : ApplyOut(v, s[k]) \in V,
           NEW G, base \in G[0],
           \A k \in 1..n : \A v \in V : v \in G[k - 1] => ApplyOut(v, s[k]) \in G[k]
    PROVE  FoldLeft(ApplyOut, base, s) \in V /\ FoldLeft(ApplyOut, base, s) \in G[n]
<1> DEFINE Eq(F) == F = [t \in SUBSET (1..n) |->
                            IF t = {} THEN base ELSE ApplyOut(F[t \ {Max(t)}], s[Max(t)])]
           it == CHOOSE F : Eq(F)
           step == [k \in 1..n |-> [v \in V |-> ApplyOut(v, s[k])]]
<1>1. step \in [1..n -> [V -> V]]
  OBVIOUS
<1>2. FoldLeft(ApplyOut, base, s) = it[1..n]
  BY DEF FoldLeft, MapThenFoldSet
<1>3. \E F : Eq(F)
  <2>1. PICK F : FoldTable(F, V, base, n, step)
    <3> HIDE DEF step
    <3> QED
      BY <1>1, FoldExists
  <2>2. ASSUME NEW t \in SUBSET (1..n), t # {}
        PROVE  F[t] = ApplyOut(F[t \ {Max(t)}], s[Max(t)])
    <3>1. Max(t) \in 1..n
      BY <2>2, TopExists
    <3>2. F[t \ {Max(t)}] \in V /\ F[t] = step[Max(t)][F[t \ {Max(t)}]]
      <4> HIDE DEF step
      <4> QED
        BY <2>1, <2>2 DEF FoldTable
    <3> QED
      BY <3>1, <3>2
  <2> HIDE DEF step
  <2>3. F \in [SUBSET (1..n) -> V] /\ F[{}] = base
    BY <2>1 DEF FoldTable
  <2>4. Eq(F)
    BY <2>2, <2>3
  <2> QED
    BY <2>4
<1>4. Eq(it)
  <2> HIDE DEF Eq
  <2> QED
    BY <1>3
<1>5. it[{}] = base
  <2>1. {} \in SUBSET (1..n)
    OBVIOUS
  <2> HIDE DEF it
  <2> QED
    BY <1>4, <2>1
<1>6. ASSUME NEW t \in SUBSET (1..n), t # {}, it[t \ {Max(t)}] \in V
      PROVE  it[t] = step[Max(t)][it[t \ {Max(t)}]]
  <2>1. Max(t) \in 1..n
    BY <1>6, TopExists
  <2> HIDE DEF it
  <2>2. it[t] = ApplyOut(it[t \ {Max(t)}], s[Max(t)])
    BY <1>4, <1>6
  <2> QED
    BY <1>6, <2>1, <2>2
<1> HIDE DEF Eq, it
<1>7. Carried(G, V, base, n, step)
  BY DEF Carried
<1>8. Unfolds(it, V, base, n, step)
  BY <1>5, <1>6 DEF Unfolds
<1>9. it[1..n] \in V /\ it[1..n] \in G[n]
  <2> HIDE DEF step
  <2> QED
    BY <1>1, <1>7, <1>8, UnfoldsKeeps
<1> QED
  BY <1>2, <1>9

LEMMA ApplyInKeeps ==
    ASSUME NEW V, NEW base \in V, NEW s, NEW n \in Nat, DOMAIN s = 1..n,
           \A k \in 1..n : \A v \in V : ApplyIn(v, s[k]) \in V,
           NEW G, base \in G[0],
           \A k \in 1..n : \A v \in V : v \in G[k - 1] => ApplyIn(v, s[k]) \in G[k]
    PROVE  FoldLeft(ApplyIn, base, s) \in V /\ FoldLeft(ApplyIn, base, s) \in G[n]
<1> DEFINE Eq(F) == F = [t \in SUBSET (1..n) |->
                            IF t = {} THEN base ELSE ApplyIn(F[t \ {Max(t)}], s[Max(t)])]
           it == CHOOSE F : Eq(F)
           step == [k \in 1..n |-> [v \in V |-> ApplyIn(v, s[k])]]
<1>1. step \in [1..n -> [V -> V]]
  OBVIOUS
<1>2. FoldLeft(ApplyIn, base, s) = it[1..n]
  BY DEF FoldLeft, MapThenFoldSet
<1>3. \E F : Eq(F)
  <2>1. PICK F : FoldTable(F, V, base, n, step)
    <3> HIDE DEF step
    <3> QED
      BY <1>1, FoldExists
  <2>2. ASSUME NEW t \in SUBSET (1..n), t # {}
        PROVE  F[t] = ApplyIn(F[t \ {Max(t)}], s[Max(t)])
    <3>1. Max(t) \in 1..n
      BY <2>2, TopExists
    <3>2. F[t \ {Max(t)}] \in V /\ F[t] = step[Max(t)][F[t \ {Max(t)}]]
      <4> HIDE DEF step
      <4> QED
        BY <2>1, <2>2 DEF FoldTable
    <3> QED
      BY <3>1, <3>2
  <2> HIDE DEF step
  <2>3. F \in [SUBSET (1..n) -> V] /\ F[{}] = base
    BY <2>1 DEF FoldTable
  <2>4. Eq(F)
    BY <2>2, <2>3
  <2> QED
    BY <2>4
<1>4. Eq(it)
  <2> HIDE DEF Eq
  <2> QED
    BY <1>3
<1>5. it[{}] = base
  <2>1. {} \in SUBSET (1..n)
    OBVIOUS
  <2> HIDE DEF it
  <2> QED
    BY <1>4, <2>1
<1>6. ASSUME NEW t \in SUBSET (1..n), t # {}, it[t \ {Max(t)}] \in V
      PROVE  it[t] = step[Max(t)][it[t \ {Max(t)}]]
  <2>1. Max(t) \in 1..n
    BY <1>6, TopExists
  <2> HIDE DEF it
  <2>2. it[t] = ApplyIn(it[t \ {Max(t)}], s[Max(t)])
    BY <1>4, <1>6
  <2> QED
    BY <1>6, <2>1, <2>2
<1> HIDE DEF Eq, it
<1>7. Carried(G, V, base, n, step)
  BY DEF Carried
<1>8. Unfolds(it, V, base, n, step)
  BY <1>5, <1>6 DEF Unfolds
<1>9. it[1..n] \in V /\ it[1..n] \in G[n]
  <2> HIDE DEF step
  <2> QED
    BY <1>1, <1>7, <1>8, UnfoldsKeeps
<1> QED
  BY <1>2, <1>9

LEMMA ApplyTxKeeps ==
    ASSUME NEW V, NEW base \in V, NEW s, NEW n \in Nat, DOMAIN s = 1..n,
           \A k \in 1..n : \A v \in V : ApplyTx(v, s[k]) \in V,
           NEW G, base \in G[0],
           \A k \in 1..n : \A v \in V : v \in G[k - 1] => ApplyTx(v, s[k]) \in G[k]
    PROVE  FoldLeft(ApplyTx, base, s) \in V /\ FoldLeft(ApplyTx, base, s) \in G[n]
<1> DEFINE Eq(F) == F = [t \in SUBSET (1..n) |->
                            IF t = {} THEN base ELSE ApplyTx(F[t \ {Max(t)}], s[Max(t)])]
           it == CHOOSE F : Eq(F)
           step == [k \in 1..n |-> [v \in V |-> ApplyTx(v, s[k])]]
<1>1. step \in [1..n -> [V -> V]]
  OBVIOUS
<1>2. FoldLeft(ApplyTx, base, s) = it[1..n]
  BY DEF FoldLeft, MapThenFoldSet
<1>3. \E F : Eq(F)
  <2>1. PICK F : FoldTable(F, V, base, n, step)
    <3> HIDE DEF step
    <3> QED
      BY <1>1, FoldExists
  <2>2. ASSUME NEW t \in SUBSET (1..n), t # {}
        PROVE  F[t] = ApplyTx(F[t \ {Max(t)}], s[Max(t)])
    <3>1. Max(t) \in 1..n
      BY <2>2, TopExists
    <3>2. F[t \ {Max(t)}] \in V /\ F[t] = step[Max(t)][F[t \ {Max(t)}]]
      <4> HIDE DEF step
      <4> QED
        BY <2>1, <2>2 DEF FoldTable
    <3> QED
      BY <3>1, <3>2
  <2> HIDE DEF step
  <2>3. F \in [SUBSET (1..n) -> V] /\ F[{}] = base
    BY <2>1 DEF FoldTable
  <2>4. Eq(F)
    BY <2>2, <2>3
  <2> QED
    BY <2>4
<1>4. Eq(it)
  <2> HIDE DEF Eq
  <2> QED
    BY <1>3
<1>5. it[{}] = base
  <2>1. {} \in SUBSET (1..n)
    OBVIOUS
  <2> HIDE DEF it
  <2> QED
    BY <1>4, <2>1
<1>6. ASSUME NEW t \in SUBSET (1..n), t # {}, it[t \ {Max(t)}] \in V
      PROVE  it[t] = step[Max(t)][it[t \ {Max(t)}]]
  <2>1. Max(t) \in 1..n
    BY <1>6, TopExists
  <2> HIDE DEF it
  <2>2. it[t] = ApplyTx(it[t \ {Max(t)}], s[Max(t)])
    BY <1>4, <1>6
  <2> QED
    BY <1>6, <2>1, <2>2
<1> HIDE DEF Eq, it
<1>7. Carried(G, V, base, n, step)
  BY DEF Carried
<1>8. Unfolds(it, V, base, n, step)
  BY <1>5, <1>6 DEF Unfolds
<1>9. it[1..n] \in V /\ it[1..n] \in G[n]
  <2> HIDE DEF step
  <2> QED
    BY <1>1, <1>7, <1>8, UnfoldsKeeps
<1> QED
  BY <1>2, <1>9

\* From base, every turn of the loop stays in V and goes from G[k - 1] to G[k].
PlacesIds(V, G, base, ids, n, fetched) ==
    /\ DOMAIN ids = 1..n /\ base = [outs |-> <<>>, next |-> 1]
    /\ base \in V /\ base \in G[0]
    /\ \A k \in 1..n : \A v \in V : Place(fetched, v, ids[k]) \in V
    /\ \A k \in 1..n : \A v \in V : v \in G[k - 1] => Place(fetched, v, ids[k]) \in G[k]

LEMMA PlaceKeeps ==
    ASSUME NEW V, NEW base \in V, NEW s, NEW n \in Nat, DOMAIN s = 1..n, NEW fetched, base = [outs |-> <<>>, next |-> 1],
           \A k \in 1..n : \A v \in V : Place(fetched, v, s[k]) \in V,
           NEW G, base \in G[0],
           \A k \in 1..n : \A v \in V : v \in G[k - 1] => Place(fetched, v, s[k]) \in G[k]
    PROVE  Placed(s, fetched) \in V /\ Placed(s, fetched) \in G[n]
<1> DEFINE Eq(F) == F = [t \in SUBSET (1..n) |->
                            IF t = {} THEN base ELSE Place(fetched, F[t \ {Max(t)}], s[Max(t)])]
           it == CHOOSE F : Eq(F)
           step == [k \in 1..n |-> [v \in V |-> Place(fetched, v, s[k])]]
<1>1. step \in [1..n -> [V -> V]]
  OBVIOUS
<1>2. Placed(s, fetched) = it[1..n]
  BY DEF Placed, FoldLeft, MapThenFoldSet
<1>3. \E F : Eq(F)
  <2>1. PICK F : FoldTable(F, V, base, n, step)
    <3> HIDE DEF step
    <3> QED
      BY <1>1, FoldExists
  <2>2. ASSUME NEW t \in SUBSET (1..n), t # {}
        PROVE  F[t] = Place(fetched, F[t \ {Max(t)}], s[Max(t)])
    <3>1. Max(t) \in 1..n
      BY <2>2, TopExists
    <3>2. F[t \ {Max(t)}] \in V /\ F[t] = step[Max(t)][F[t \ {Max(t)}]]
      <4> HIDE DEF step
      <4> QED
        BY <2>1, <2>2 DEF FoldTable
    <3> QED
      BY <3>1, <3>2
  <2> HIDE DEF step
  <2>3. F \in [SUBSET (1..n) -> V] /\ F[{}] = base
    BY <2>1 DEF FoldTable
  <2>4. Eq(F)
    BY <2>2, <2>3
  <2> QED
    BY <2>4
<1>4. Eq(it)
  <2> HIDE DEF Eq
  <2> QED
    BY <1>3
<1>5. it[{}] = base
  <2>1. {} \in SUBSET (1..n)
    OBVIOUS
  <2> HIDE DEF it
  <2> QED
    BY <1>4, <2>1
<1>6. ASSUME NEW t \in SUBSET (1..n), t # {}, it[t \ {Max(t)}] \in V
      PROVE  it[t] = step[Max(t)][it[t \ {Max(t)}]]
  <2>1. Max(t) \in 1..n
    BY <1>6, TopExists
  <2> HIDE DEF it
  <2>2. it[t] = Place(fetched, it[t \ {Max(t)}], s[Max(t)])
    BY <1>4, <1>6
  <2> QED
    BY <1>6, <2>1, <2>2
<1> HIDE DEF Eq, it
<1>7. Carried(G, V, base, n, step)
  BY DEF Carried
<1>8. Unfolds(it, V, base, n, step)
  BY <1>5, <1>6 DEF Unfolds
<1>9. it[1..n] \in V /\ it[1..n] \in G[n]
  <2> HIDE DEF step
  <2> QED
    BY <1>1, <1>7, <1>8, UnfoldsKeeps
<1> QED
  BY <1>2, <1>9

LEMMA PlacesIdsTo ==
    ASSUME NEW V, NEW G, NEW base, NEW ids, NEW n \in Nat, NEW fetched,
           PlacesIds(V, G, base, ids, n, fetched)
    PROVE  Placed(ids, fetched) \in G[n]
<1>1. base \in V /\ base \in G[0] /\ DOMAIN ids = 1..n /\ base = [outs |-> <<>>, next |-> 1]
  BY DEF PlacesIds
<1>2. \A k \in 1..n : \A v \in V : Place(fetched, v, ids[k]) \in V
  BY DEF PlacesIds
<1>3. \A k \in 1..n : \A v \in V : v \in G[k - 1] => Place(fetched, v, ids[k]) \in G[k]
  BY DEF PlacesIds
<1> QED
  BY <1>1, <1>2, <1>3, PlaceKeeps

LEMMA FillKeeps ==
    ASSUME NEW V, NEW base \in V, NEW s, NEW n \in Nat, DOMAIN s = 1..n, NEW txs, NEW md, NEW next, base = [in |-> <<>>, next |-> next],
           \A k \in 1..n : \A v \in V : Fill(txs, md, v, s[k]) \in V,
           NEW G, base \in G[0],
           \A k \in 1..n : \A v \in V : v \in G[k - 1] => Fill(txs, md, v, s[k]) \in G[k]
    PROVE  Filled(txs, md, next, s) \in V /\ Filled(txs, md, next, s) \in G[n]
<1> DEFINE Eq(F) == F = [t \in SUBSET (1..n) |->
                            IF t = {} THEN base ELSE Fill(txs, md, F[t \ {Max(t)}], s[Max(t)])]
           it == CHOOSE F : Eq(F)
           step == [k \in 1..n |-> [v \in V |-> Fill(txs, md, v, s[k])]]
<1>1. step \in [1..n -> [V -> V]]
  OBVIOUS
<1>2. Filled(txs, md, next, s) = it[1..n]
  BY DEF Filled, FoldLeft, MapThenFoldSet
<1>3. \E F : Eq(F)
  <2>1. PICK F : FoldTable(F, V, base, n, step)
    <3> HIDE DEF step
    <3> QED
      BY <1>1, FoldExists
  <2>2. ASSUME NEW t \in SUBSET (1..n), t # {}
        PROVE  F[t] = Fill(txs, md, F[t \ {Max(t)}], s[Max(t)])
    <3>1. Max(t) \in 1..n
      BY <2>2, TopExists
    <3>2. F[t \ {Max(t)}] \in V /\ F[t] = step[Max(t)][F[t \ {Max(t)}]]
      <4> HIDE DEF step
      <4> QED
        BY <2>1, <2>2 DEF FoldTable
    <3> QED
      BY <3>1, <3>2
  <2> HIDE DEF step
  <2>3. F \in [SUBSET (1..n) -> V] /\ F[{}] = base
    BY <2>1 DEF FoldTable
  <2>4. Eq(F)
    BY <2>2, <2>3
  <2> QED
    BY <2>4
<1>4. Eq(it)
  <2> HIDE DEF Eq
  <2> QED
    BY <1>3
<1>5. it[{}] = base
  <2>1. {} \in SUBSET (1..n)
    OBVIOUS
  <2> HIDE DEF it
  <2> QED
    BY <1>4, <2>1
<1>6. ASSUME NEW t \in SUBSET (1..n), t # {}, it[t \ {Max(t)}] \in V
      PROVE  it[t] = step[Max(t)][it[t \ {Max(t)}]]
  <2>1. Max(t) \in 1..n
    BY <1>6, TopExists
  <2> HIDE DEF it
  <2>2. it[t] = Fill(txs, md, it[t \ {Max(t)}], s[Max(t)])
    BY <1>4, <1>6
  <2> QED
    BY <1>6, <2>1, <2>2
<1> HIDE DEF Eq, it
<1>7. Carried(G, V, base, n, step)
  BY DEF Carried
<1>8. Unfolds(it, V, base, n, step)
  BY <1>5, <1>6 DEF Unfolds
<1>9. it[1..n] \in V /\ it[1..n] \in G[n]
  <2> HIDE DEF step
  <2> QED
    BY <1>1, <1>7, <1>8, UnfoldsKeeps
<1> QED
  BY <1>2, <1>9

\* From base, every turn of the loop stays in V and goes from G[k - 1] to G[k].
FillsTxs(V, G, base, list, n, txs, md) ==
    /\ DOMAIN list = 1..n /\ base = [txs |-> <<>>, next |-> 1]
    /\ base \in V /\ base \in G[0]
    /\ \A k \in 1..n : \A v \in V : FillTx(txs, md, v, list[k]) \in V
    /\ \A k \in 1..n : \A v \in V :
          v \in G[k - 1] => FillTx(txs, md, v, list[k]) \in G[k]

LEMMA FillTxKeeps ==
    ASSUME NEW V, NEW base \in V, NEW s, NEW n \in Nat, DOMAIN s = 1..n, NEW txs, NEW md, base = [txs |-> <<>>, next |-> 1],
           \A k \in 1..n : \A v \in V : FillTx(txs, md, v, s[k]) \in V,
           NEW G, base \in G[0],
           \A k \in 1..n : \A v \in V : v \in G[k - 1] => FillTx(txs, md, v, s[k]) \in G[k]
    PROVE  FilledTxs(txs, md, s) \in V /\ FilledTxs(txs, md, s) \in G[n]
<1> DEFINE Eq(F) == F = [t \in SUBSET (1..n) |->
                            IF t = {} THEN base ELSE FillTx(txs, md, F[t \ {Max(t)}], s[Max(t)])]
           it == CHOOSE F : Eq(F)
           step == [k \in 1..n |-> [v \in V |-> FillTx(txs, md, v, s[k])]]
<1>1. step \in [1..n -> [V -> V]]
  OBVIOUS
<1>2. FilledTxs(txs, md, s) = it[1..n]
  BY DEF FilledTxs, FoldLeft, MapThenFoldSet
<1>3. \E F : Eq(F)
  <2>1. PICK F : FoldTable(F, V, base, n, step)
    <3> HIDE DEF step
    <3> QED
      BY <1>1, FoldExists
  <2>2. ASSUME NEW t \in SUBSET (1..n), t # {}
        PROVE  F[t] = FillTx(txs, md, F[t \ {Max(t)}], s[Max(t)])
    <3>1. Max(t) \in 1..n
      BY <2>2, TopExists
    <3>2. F[t \ {Max(t)}] \in V /\ F[t] = step[Max(t)][F[t \ {Max(t)}]]
      <4> HIDE DEF step
      <4> QED
        BY <2>1, <2>2 DEF FoldTable
    <3> QED
      BY <3>1, <3>2
  <2> HIDE DEF step
  <2>3. F \in [SUBSET (1..n) -> V] /\ F[{}] = base
    BY <2>1 DEF FoldTable
  <2>4. Eq(F)
    BY <2>2, <2>3
  <2> QED
    BY <2>4
<1>4. Eq(it)
  <2> HIDE DEF Eq
  <2> QED
    BY <1>3
<1>5. it[{}] = base
  <2>1. {} \in SUBSET (1..n)
    OBVIOUS
  <2> HIDE DEF it
  <2> QED
    BY <1>4, <2>1
<1>6. ASSUME NEW t \in SUBSET (1..n), t # {}, it[t \ {Max(t)}] \in V
      PROVE  it[t] = step[Max(t)][it[t \ {Max(t)}]]
  <2>1. Max(t) \in 1..n
    BY <1>6, TopExists
  <2> HIDE DEF it
  <2>2. it[t] = FillTx(txs, md, it[t \ {Max(t)}], s[Max(t)])
    BY <1>4, <1>6
  <2> QED
    BY <1>6, <2>1, <2>2
<1> HIDE DEF Eq, it
<1>7. Carried(G, V, base, n, step)
  BY DEF Carried
<1>8. Unfolds(it, V, base, n, step)
  BY <1>5, <1>6 DEF Unfolds
<1>9. it[1..n] \in V /\ it[1..n] \in G[n]
  <2> HIDE DEF step
  <2> QED
    BY <1>1, <1>7, <1>8, UnfoldsKeeps
<1> QED
  BY <1>2, <1>9

LEMMA FillsTxsTo ==
    ASSUME NEW V, NEW G, NEW base, NEW list, NEW n \in Nat, NEW txs, NEW md,
           FillsTxs(V, G, base, list, n, txs, md)
    PROVE  FilledTxs(txs, md, list) \in G[n]
<1>1. base \in V /\ base \in G[0] /\ DOMAIN list = 1..n /\ base = [txs |-> <<>>, next |-> 1]
  BY DEF FillsTxs
<1>2. \A k \in 1..n : \A v \in V : FillTx(txs, md, v, list[k]) \in V
  BY DEF FillsTxs
<1>3. \A k \in 1..n : \A v \in V :
          v \in G[k - 1] => FillTx(txs, md, v, list[k]) \in G[k]
  BY DEF FillsTxs
<1> QED
  BY <1>1, <1>2, <1>3, FillTxKeeps

-----------------------------------------------------------------------------
\* The loops of BlockTx over transactions.  Through is what AddBlock has done
\* after some outputs and inputs of a block.

\* A transaction with the data that the lookup of its inputs found.
Created(id) == [id |-> id, data |-> Data[id]]
Spent(id, found) == [id |-> id, data |-> IF id \in found THEN Data[id] ELSE Nowhere]

TxWith(wire, found) ==
    [hash |-> wire.hash,
     in   |-> [i \in DOMAIN wire.in |-> Spent(wire.in[i], found)],
     out  |-> [n \in DOMAIN wire.out |-> Created(<<wire.hash, n>>)]]

Wires(b) == ToSet(WireBlock[b])

LEMMA WireOK ==
    ASSUME NEW b \in Block, NEW wire \in Wires(b)
    PROVE  /\ wire \in WireTxs
           /\ wire.in \in Seq(TxOutId) /\ DOMAIN wire.in = 1..Len(wire.in)
           /\ wire.out \in Seq(Output) /\ DOMAIN wire.out = 1..Len(wire.out)
           /\ \A n \in DOMAIN wire.out :
                 <<wire.hash, n>> \in TxOutId /\ Data[<<wire.hash, n>>] = wire.out[n]
<1>1. WireBlock[b] \in Seq(WireTxs)
  BY WireAssumption
<1>2. wire \in WireTxs
  <2>1. PICK t \in DOMAIN WireBlock[b] : wire = WireBlock[b][t]
    BY DEF Wires, ToSet
  <2> QED
    BY <1>1, <2>1
<1>3. wire.in \in Seq(TxOutId) /\ wire.out \in Seq(Output)
  BY <1>2 DEF WireTxs
<1>4. wire \in UNION {ToSet(WireBlock[c]) : c \in Block}
  BY DEF Wires
<1>5. ASSUME NEW n \in DOMAIN wire.out
      PROVE  <<wire.hash, n>> \in TxOutId /\ Data[<<wire.hash, n>>] = wire.out[n]
  <2>1. <<wire.hash, n>> \in OutsOf(wire)
    BY DEF OutsOf
  <2>2. <<wire.hash, n>> \in UNION {OutsOf(v) : v \in UNION {ToSet(WireBlock[c]) : c \in Block}}
    BY <1>4, <2>1
  <2> QED
    BY <1>4, <2>2, IdAssumption
<1> QED
  BY <1>2, <1>3, <1>5

LEMMA WireAt ==
    ASSUME NEW b \in Block, NEW t \in DOMAIN WireBlock[b]
    PROVE  WireBlock[b][t] \in Wires(b)
BY DEF Wires, ToSet

LEMMA QueuedIs ==
    ASSUME NEW b \in Block, NEW block, block.hash = b
    PROVE  QueuedTxs(block) = [t \in DOMAIN WireBlock[b] |-> TxWith(WireBlock[b][t], block.found)]
<1> DEFINE tx(t) == BuildBlock(b)[t]
           found == block.found
           Found(in) == [in EXCEPT !.data = IF in.id \in block.found THEN Data[in.id] ELSE @]
           filled(t) == [tx(t) EXCEPT !.in = [i \in DOMAIN tx(t).in |-> Found(tx(t).in[i])]]
<1>1. DOMAIN BuildBlock(b) = DOMAIN WireBlock[b]
  BY DEF BuildBlock
<1>2. QueuedTxs(block) = [t \in DOMAIN WireBlock[b] |-> filled(t)]
  BY <1>1 DEF QueuedTxs
<1>3. ASSUME NEW t \in DOMAIN WireBlock[b] PROVE filled(t) = TxWith(WireBlock[b][t], found)
  <2> DEFINE w == WireBlock[b][t]
  <2>1. w \in Wires(b)
    BY WireAt
  <2>2. tx(t) = [hash |-> w.hash,
                 in |-> [i \in DOMAIN w.in |-> [id |-> w.in[i], data |-> Nowhere]],
                 out |-> [n \in DOMAIN w.out |-> [id |-> <<w.hash, n>>, data |-> w.out[n]]]]
    BY DEF BuildBlock, BuildTx
  <2>3. \A n \in DOMAIN w.out : Data[<<w.hash, n>>] = w.out[n]
    <3> HIDE DEF w
    <3> QED
      BY <2>1, WireOK
  <2> HIDE DEF w, tx
  <2>4. \A i \in DOMAIN w.in : Found(tx(t).in[i]) = Spent(w.in[i], found)
    BY <2>2 DEF Spent
  <2>9. DOMAIN tx(t).in = DOMAIN w.in
    BY <2>2
  <2>5. [i \in DOMAIN tx(t).in |-> Found(tx(t).in[i])] = [i \in DOMAIN w.in |-> Spent(w.in[i], found)]
    <3> HIDE DEF Found, found
    <3> QED
      BY <2>4, <2>9
  <2>6. [n \in DOMAIN w.out |-> [id |-> <<w.hash, n>>, data |-> w.out[n]]]
            = [n \in DOMAIN w.out |-> Created(<<w.hash, n>>)]
    BY <2>3 DEF Created
  <2>7. filled(t) = [hash |-> w.hash, in |-> [i \in DOMAIN w.in |-> Spent(w.in[i], found)],
                     out |-> [n \in DOMAIN w.out |-> Created(<<w.hash, n>>)]]
    <3> DEFINE x == [i \in DOMAIN w.in |-> Spent(w.in[i], found)]
    <3>1. filled(t) = [tx(t) EXCEPT !.in = x]
      <4> HIDE DEF Found, found
      <4> QED
        BY <2>5
    <3> DEFINE y == [i \in DOMAIN w.in |-> [id |-> w.in[i], data |-> Nowhere]]
           z == [n \in DOMAIN w.out |-> [id |-> <<w.hash, n>>, data |-> w.out[n]]]
    <3>3. tx(t) = [hash |-> w.hash, in |-> y, out |-> z]
      BY <2>2
    <3> HIDE DEF filled, x, y, z
    <3>4. filled(t) = [hash |-> w.hash, in |-> x, out |-> z]
      BY <3>1, <3>3
    <3>2. filled(t) = [hash |-> w.hash, in |-> x,
                       out |-> [n \in DOMAIN w.out |-> [id |-> <<w.hash, n>>, data |-> w.out[n]]]]
      BY <3>4 DEF z
    <3> QED
      BY <2>6, <3>2 DEF x
  <2>8. filled(t) = TxWith(w, found)
    BY <2>7 DEF TxWith
  <2> QED
    BY <2>8 DEF w
<1> HIDE DEF filled, found
<1>4. QueuedTxs(block) = [t \in DOMAIN WireBlock[b] |-> TxWith(WireBlock[b][t], found)]
  BY <1>2, <1>3
<1> QED
  BY <1>4 DEF found

-----------------------------------------------------------------------------
MapsType == [inserts : SUBSET TxOutId, deletions : SUBSET TxOutId, balance : [Address -> Int]]
Known == [id : TxOutId, data : Output]

\* The ids the cache holds as inserts once the outputs O are added.
Held(O) == inserts \cup ((O \cap Storable) \ deletions)

\* The maps after the outputs O and the inputs N.
Through(O, N, found) ==
    [inserts   |-> Held(O) \ N,
     deletions |-> (deletions \ (O \cap Storable)) \cup (N \ Held(O)),
     balance   |-> IF Sync THEN balance
                   ELSE [a \in Address |-> balance[a] + BalanceOf(O, a) - BalanceOf(N \cap found, a)]]

MapsOK == inserts \subseteq TxOutId /\ deletions \subseteq TxOutId /\ balance \in [Address -> Int]

LEMMA OneMore ==
    ASSUME NEW S \in SUBSET TxOutId, NEW id \in TxOutId, id \notin S, NEW a \in Address
    PROVE  /\ BalanceOf(S, a) \in Int /\ BalanceOf(S \cup {id}, a) \in Int
           /\ BalanceOf(S \cup {id}, a)
                  = BalanceOf(S, a) + (IF Data[id].addr = a THEN Data[id].value ELSE 0)
<1>1. {id} \in SUBSET (TxOutId \ S) /\ S \cup {id} \in SUBSET TxOutId
  OBVIOUS
<1>2. /\ BalanceOf(S, a) \in Int /\ BalanceOf(S \cup {id}, a) \in Int
      /\ BalanceOf(S \cup {id}, a) = BalanceOf(S, a) + BalanceOf({id}, a)
  BY <1>1, BalanceAssumption
<1>3. BalanceOf({id}, a) = IF Data[id].addr = a THEN Data[id].value ELSE 0
  BY BlocksAssumption
<1> QED
  BY <1>2, <1>3

LEMMA StorableIs ==
    ASSUME NEW id \in TxOutId
    PROVE  /\ Data[id] \in Output /\ Data[id].addr \in Address \cup {NoAddress} /\ Data[id].value \in Nat
           /\ Spendable(Data[id]) <=> id \in Storable
           /\ \A a \in Address : id \notin Storable /\ Data[id].addr = a => Data[id].value = 0
<1>1. Data[id] \in Output
  BY WireAssumption
<1>2. Storable = {x \in TxOutId : Data[x].addr # NoAddress /\ Data[x].value # 0}
  BY BlocksAssumption
<1> QED
  BY <1>1, <1>2, WireAssumption DEF Output, Spendable

LEMMA NowhereIs == Nowhere \in Output /\ ~Spendable(Nowhere)
BY DEF Nowhere, Output, Spendable

LEMMA KnownIs ==
    ASSUME NEW id \in TxOutId, NEW found
    PROVE  Created(id) \in Known /\ Spent(id, found) \in Known
BY StorableIs, NowhereIs DEF Created, Spent, Known

LEMMA ThroughType ==
    ASSUME MapsOK, NEW O \in SUBSET TxOutId, NEW N \in SUBSET TxOutId, NEW found
    PROVE  Through(O, N, found) \in MapsType
<1>1. \A a \in Address : BalanceOf(O, a) \in Int /\ BalanceOf(N \cap found, a) \in Int
  <2>1. N \cap found \in SUBSET TxOutId
    OBVIOUS
  <2> QED
    BY <2>1, BalanceAssumption
<1>2. (IF Sync THEN balance
       ELSE [a \in Address |-> balance[a] + BalanceOf(O, a) - BalanceOf(N \cap found, a)])
          \in [Address -> Int]
  <2>1. \A a \in Address : balance[a] \in Int
    BY DEF MapsOK
  <2>2. ASSUME NEW a \in Address
        PROVE  balance[a] + BalanceOf(O, a) - BalanceOf(N \cap found, a) \in Int
    <3>1. balance[a] \in Int /\ BalanceOf(O, a) \in Int /\ BalanceOf(N \cap found, a) \in Int
      BY <1>1, <2>1
    <3> QED
      BY <3>1
  <2>3. [a \in Address |-> balance[a] + BalanceOf(O, a) - BalanceOf(N \cap found, a)]
            \in [Address -> Int]
    BY <2>2
  <2> QED
    BY <2>3 DEF MapsOK
<1>3. Held(O) \subseteq TxOutId
  BY OutputAssumption DEF MapsOK, Held
<1>4. Held(O) \ N \in SUBSET TxOutId
  BY <1>3
<1>5. (deletions \ (O \cap Storable)) \cup (N \ Held(O)) \in SUBSET TxOutId
  BY DEF MapsOK
<1> QED
  BY <1>2, <1>4, <1>5 DEF Through, MapsType

LEMMA PaidTo ==
    ASSUME NEW d \in Output, Spendable(d)
    PROVE  d.addr \in Address /\ d.value \in Int /\ 0 - d.value \in Int
BY DEF Output, Spendable

LEMMA OutType ==
    ASSUME NEW v \in MapsType, NEW out \in Known
    PROVE  ApplyOut(v, out) \in MapsType
<1> DEFINE d == out.data
<1>1. d \in Output /\ out.id \in TxOutId
  BY DEF Known
<1>2. AddTxOut(v, out.id) \in MapsType
  BY <1>1 DEF AddTxOut, MapsType
<1>3. ASSUME Spendable(d), NEW m \in MapsType PROVE UpdateBalance(m, d.addr, d.value) \in MapsType
  <2>1. d.addr \in Address /\ d.value \in Int
    BY <1>1, <1>3, PaidTo
  <2> QED
    BY <1>3, <2>1 DEF UpdateBalance, MapsType
<1> QED
  BY <1>2, <1>3 DEF ApplyOut

LEMMA InType ==
    ASSUME NEW v \in MapsType, NEW in \in Known
    PROVE  ApplyIn(v, in) \in MapsType
<1> DEFINE d == in.data
<1>1. d \in Output /\ in.id \in TxOutId
  BY DEF Known
<1>2. DelTxOut(v, in.id) \in MapsType
  BY <1>1 DEF DelTxOut, MapsType
<1>3. ASSUME Spendable(d), NEW m \in MapsType PROVE UpdateBalance(m, d.addr, 0 - d.value) \in MapsType
  <2>1. d.addr \in Address /\ 0 - d.value \in Int
    BY <1>1, <1>3, PaidTo
  <2> QED
    BY <1>3, <2>1 DEF UpdateBalance, MapsType
<1> QED
  BY <1>2, <1>3 DEF ApplyIn

LEMMA OutStep ==
    ASSUME MapsOK, NEW O \in SUBSET TxOutId, NEW N \in SUBSET TxOutId, NEW found,
           NEW id \in TxOutId, id \notin O, id \notin N
    PROVE  ApplyOut(Through(O, N, found), Created(id)) = Through(O \cup {id}, N, found)
<1> DEFINE m == Through(O, N, found)
           d == Data[id]
           P == O \cup {id}
<1>1. /\ d.addr \in Address \cup {NoAddress} /\ d.value \in Nat
      /\ Spendable(d) <=> id \in Storable
      /\ \A a \in Address : id \notin Storable /\ d.addr = a => d.value = 0
  BY StorableIs
<1>2. \A a \in Address :
          /\ BalanceOf(O, a) \in Int /\ BalanceOf(N \cap found, a) \in Int
          /\ BalanceOf(P, a) = BalanceOf(O, a) + (IF d.addr = a THEN d.value ELSE 0)
  <2>1. N \cap found \in SUBSET TxOutId
    OBVIOUS
  <2> QED
    BY <2>1, OneMore, BalanceAssumption
<1>3. CASE id \notin Storable
  <2>1. P \cap Storable = O \cap Storable
    BY <1>3
  <2>2. Held(P) = Held(O)
    BY <2>1 DEF Held
  <2>3. ASSUME NEW a \in Address PROVE BalanceOf(P, a) = BalanceOf(O, a)
    <3> HIDE DEF d, P
    <3>1. BalanceOf(O, a) \in Int
      BY <1>2
    <3>2. (IF d.addr = a THEN d.value ELSE 0) = 0
      BY <1>1, <1>3
    <3>3. BalanceOf(P, a) = BalanceOf(O, a) + 0
      BY <1>2, <3>2
    <3> QED
      BY <3>1, <3>3
  <2>4. Through(P, N, found) = m
    BY <2>1, <2>2, <2>3 DEF Through
  <2> QED
    BY <1>1, <1>3, <2>4 DEF ApplyOut, Created
<1>4. CASE id \in Storable
  <2>1. d.addr \in Address
    BY <1>1, <1>4 DEF Spendable
  <2> DEFINE added == AddTxOut(m, id)
  <2>2. P \cap Storable = (O \cap Storable) \cup {id}
    BY <1>4
  <2>3. id \in m.deletions <=> id \in deletions
    BY <1>4 DEF Through
  <2>4. added.inserts = Held(P) \ N
    BY <2>2, <2>3 DEF AddTxOut, Through, Held
  <2>5. added.deletions = (deletions \ (P \cap Storable)) \cup (N \ Held(P))
    BY <2>2, <2>3 DEF AddTxOut, Through, Held
  <2>6. added = [inserts |-> added.inserts, deletions |-> added.deletions, balance |-> m.balance]
    BY DEF AddTxOut, Through
  <2>7. CASE Sync
    <3>1. added = Through(P, N, found)
      BY <2>4, <2>5, <2>6, <2>7 DEF Through
    <3> QED
      BY <1>1, <1>4, <2>7, <3>1 DEF ApplyOut, Created, UpdateBalance
  <2>8. CASE ~Sync
    <3>1. m.balance = [a \in Address |-> balance[a] + BalanceOf(O, a) - BalanceOf(N \cap found, a)]
      BY <2>8 DEF Through
    <3>2. [m.balance EXCEPT ![d.addr] = @ + d.value]
              = [a \in Address |-> balance[a] + BalanceOf(P, a) - BalanceOf(N \cap found, a)]
      <4>1. \A a \in Address : balance[a] \in Int
        BY DEF MapsOK
      <4> HIDE DEF m, d, P
      <4>2. ASSUME NEW a \in Address
            PROVE  balance[a] + BalanceOf(P, a) - BalanceOf(N \cap found, a)
                       = IF a = d.addr
                         THEN (balance[a] + BalanceOf(O, a) - BalanceOf(N \cap found, a)) + d.value
                         ELSE balance[a] + BalanceOf(O, a) - BalanceOf(N \cap found, a)
        <5>1. balance[a] \in Int /\ BalanceOf(O, a) \in Int /\ BalanceOf(N \cap found, a) \in Int
          BY <1>2, <4>1
        <5>2. CASE a = d.addr
          <6>1. BalanceOf(P, a) = BalanceOf(O, a) + d.value /\ d.value \in Nat
            BY <1>1, <1>2, <5>2
          <6> QED
            BY <5>1, <5>2, <6>1
        <5>3. CASE a # d.addr
          <6>1. BalanceOf(P, a) = BalanceOf(O, a) + 0
            BY <1>2, <5>3
          <6> QED
            BY <5>1, <5>3, <6>1
        <5> QED
          BY <5>2, <5>3
      <4> QED
        BY <2>1, <3>1, <4>2
    <3>3. UpdateBalance(added, d.addr, d.value)
              = [inserts |-> added.inserts, deletions |-> added.deletions,
                 balance |-> [m.balance EXCEPT ![d.addr] = @ + d.value]]
      <4> HIDE DEF m, d, P, added
      <4> QED
        BY <2>6, <2>8 DEF UpdateBalance
    <3>4. UpdateBalance(added, d.addr, d.value) = Through(P, N, found)
      <4> HIDE DEF m, d, P, added
      <4> QED
        BY <2>4, <2>5, <2>8, <3>2, <3>3 DEF Through
    <3> QED
      BY <1>1, <1>4, <3>4 DEF ApplyOut, Created
  <2> QED
    BY <2>7, <2>8
<1> QED
  BY <1>3, <1>4

LEMMA InStep ==
    ASSUME MapsOK, NEW O \in SUBSET TxOutId, NEW N \in SUBSET TxOutId, NEW found,
           NEW id \in TxOutId, id \notin N
    PROVE  ApplyIn(Through(O, N, found), Spent(id, found)) = Through(O, N \cup {id}, found)
<1> DEFINE m == Through(O, N, found)
           d == IF id \in found THEN Data[id] ELSE Nowhere
           P == N \cup {id}
           taken == DelTxOut(m, id)
<1>1. /\ d.addr \in Address \cup {NoAddress} /\ d.value \in Nat
      /\ Spendable(d) <=> id \in found /\ id \in Storable
      /\ \A a \in Address : id \in found /\ id \notin Storable /\ d.addr = a => d.value = 0
  BY StorableIs, NowhereIs DEF Output
<1>2. \A a \in Address :
          /\ BalanceOf(O, a) \in Int /\ BalanceOf(N \cap found, a) \in Int
          /\ BalanceOf(P \cap found, a)
                 = BalanceOf(N \cap found, a) + (IF Spendable(d) /\ d.addr = a THEN d.value ELSE 0)
  <2>1. CASE id \in found
    <3>1. P \cap found = (N \cap found) \cup {id} /\ N \cap found \in SUBSET TxOutId
          /\ id \notin N \cap found
      BY <2>1
    <3>2. ASSUME NEW a \in Address
          PROVE  /\ BalanceOf(O, a) \in Int /\ BalanceOf(N \cap found, a) \in Int
                 /\ BalanceOf((N \cap found) \cup {id}, a) = BalanceOf(N \cap found, a)
                        + (IF Data[id].addr = a THEN Data[id].value ELSE 0)
      BY <3>1, OneMore, BalanceAssumption
    <3>3. ASSUME NEW a \in Address
          PROVE  (IF Spendable(d) /\ d.addr = a THEN d.value ELSE 0)
                     = IF Data[id].addr = a THEN Data[id].value ELSE 0
      <4>1. d = Data[id]
        BY <2>1
      <4> HIDE DEF d
      <4> QED
        BY <1>1, <2>1, <4>1
    <3> HIDE DEF d, P
    <3> QED
      BY <3>1, <3>2, <3>3
  <2>2. CASE id \notin found
    <3>1. P \cap found = N \cap found /\ N \cap found \in SUBSET TxOutId
      BY <2>2
    <3>2. \A a \in Address : BalanceOf(O, a) \in Int /\ BalanceOf(N \cap found, a) \in Int
      BY <3>1, BalanceAssumption
    <3>3. ~Spendable(d)
      BY <1>1, <2>2
    <3> HIDE DEF d, P
    <3>4. ASSUME NEW a \in Address
          PROVE  /\ BalanceOf(O, a) \in Int /\ BalanceOf(N \cap found, a) \in Int
                 /\ BalanceOf(P \cap found, a) = BalanceOf(N \cap found, a)
                        + (IF Spendable(d) /\ d.addr = a THEN d.value ELSE 0)
      <4>1. BalanceOf(O, a) \in Int /\ BalanceOf(N \cap found, a) \in Int
        BY <3>2
      <4>2. (IF Spendable(d) /\ d.addr = a THEN d.value ELSE 0) = 0
        BY <3>3
      <4>4. BalanceOf(P \cap found, a) = BalanceOf(N \cap found, a)
        BY <3>1
      <4>3. BalanceOf(P \cap found, a) = BalanceOf(N \cap found, a) + 0
        BY <4>1, <4>4
      <4> QED
        BY <4>1, <4>2, <4>3
    <3> QED
      BY <3>4
  <2> QED
    BY <2>1, <2>2
<1>3. id \in m.inserts <=> id \in Held(O)
  BY DEF Through
<1>4. taken.inserts = Held(O) \ P
  BY <1>3 DEF DelTxOut, Through
<1>5. taken.deletions = (deletions \ (O \cap Storable)) \cup (P \ Held(O))
  BY <1>3 DEF DelTxOut, Through
<1>6. taken = [inserts |-> taken.inserts, deletions |-> taken.deletions, balance |-> m.balance]
  BY DEF DelTxOut, Through
<1>7. CASE Sync
  <2>1. taken = Through(O, P, found)
    BY <1>4, <1>5, <1>6, <1>7 DEF Through
  <2> QED
    BY <1>7, <2>1 DEF ApplyIn, Spent, UpdateBalance
<1>8. CASE ~Sync
  <2>1. m.balance = [a \in Address |-> balance[a] + BalanceOf(O, a) - BalanceOf(N \cap found, a)]
    BY <1>8 DEF Through
  <2>2. \A a \in Address : balance[a] \in Int
    BY DEF MapsOK
  <2>3. CASE Spendable(d)
    <3>1. d.addr \in Address
      BY <1>1, <2>3 DEF Spendable
    <3>2. [m.balance EXCEPT ![d.addr] = @ + (0 - d.value)]
              = [a \in Address |-> balance[a] + BalanceOf(O, a) - BalanceOf(P \cap found, a)]
      <4> HIDE DEF m, d, P
      <4>1. ASSUME NEW a \in Address
            PROVE  balance[a] + BalanceOf(O, a) - BalanceOf(P \cap found, a)
                       = IF a = d.addr
                         THEN (balance[a] + BalanceOf(O, a) - BalanceOf(N \cap found, a)) + (0 - d.value)
                         ELSE balance[a] + BalanceOf(O, a) - BalanceOf(N \cap found, a)
        <5>1. balance[a] \in Int /\ BalanceOf(O, a) \in Int /\ BalanceOf(N \cap found, a) \in Int
          BY <1>2, <2>2
        <5>2. CASE a = d.addr
          <6>1. BalanceOf(P \cap found, a) = BalanceOf(N \cap found, a) + d.value /\ d.value \in Nat
            BY <1>1, <1>2, <2>3, <5>2
          <6> QED
            BY <5>1, <5>2, <6>1
        <5>3. CASE a # d.addr
          <6>1. BalanceOf(P \cap found, a) = BalanceOf(N \cap found, a) + 0
            BY <1>2, <5>3
          <6> QED
            BY <5>1, <5>3, <6>1
        <5> QED
          BY <5>2, <5>3
      <4> QED
        BY <2>1, <3>1, <4>1
    <3>3. UpdateBalance(taken, d.addr, 0 - d.value)
              = [inserts |-> taken.inserts, deletions |-> taken.deletions,
                 balance |-> [m.balance EXCEPT ![d.addr] = @ + (0 - d.value)]]
      <4> HIDE DEF m, d, P, taken
      <4> QED
        BY <1>6, <1>8 DEF UpdateBalance
    <3>4. UpdateBalance(taken, d.addr, 0 - d.value) = Through(O, P, found)
      <4> HIDE DEF m, d, P, taken
      <4> QED
        BY <1>4, <1>5, <1>8, <3>2, <3>3 DEF Through
    <3> QED
      BY <2>3, <3>4 DEF ApplyIn, Spent
  <2>4. CASE ~Spendable(d)
    <3>1. m.balance = [a \in Address |-> balance[a] + BalanceOf(O, a) - BalanceOf(P \cap found, a)]
      <4> HIDE DEF m, d, P
      <4>1. ASSUME NEW a \in Address
            PROVE  BalanceOf(P \cap found, a) = BalanceOf(N \cap found, a)
        <5>1. BalanceOf(P \cap found, a) = BalanceOf(N \cap found, a) + 0
          BY <1>2, <2>4
        <5>2. BalanceOf(N \cap found, a) \in Int
          BY <1>2
        <5> QED
          BY <5>1, <5>2
      <4> QED
        BY <2>1, <4>1
    <3>2. taken = Through(O, P, found)
      <4> HIDE DEF m, d, P, taken
      <4> QED
        BY <1>4, <1>5, <1>6, <1>8, <3>1 DEF Through
    <3> QED
      BY <2>4, <3>2 DEF ApplyIn, Spent
  <2> QED
    BY <2>3, <2>4
<1> QED
  BY <1>7, <1>8

-----------------------------------------------------------------------------
\* The outputs of a transaction, one after the other.
LEMMA OutsLoop ==
    ASSUME MapsOK, NEW O \in SUBSET TxOutId, NEW N \in SUBSET TxOutId, NEW found,
           NEW b \in Block, NEW wire \in Wires(b),
           O \cap OutsOf(wire) = {}, N \cap OutsOf(wire) = {}
    PROVE  FoldLeft(ApplyOut, Through(O, N, found), TxWith(wire, found).out)
               = Through(O \cup OutsOf(wire), N, found)
<1> DEFINE n == Len(wire.out)
           outs == TxWith(wire, found).out
           base == Through(O, N, found)
           To(k) == O \cup {<<wire.hash, j>> : j \in 1..k}
           G == [k \in 0..n |-> {Through(To(k), N, found)}]
<1>1. /\ n \in Nat /\ DOMAIN wire.out = 1..n
      /\ \A k \in 1..n : <<wire.hash, k>> \in TxOutId /\ Data[<<wire.hash, k>>] = wire.out[k]
  BY WireOK, LenProperties
<1>2. DOMAIN outs = 1..n /\ \A k \in 1..n : outs[k] = Created(<<wire.hash, k>>)
  BY <1>1 DEF TxWith
<1>3. base \in MapsType
  BY ThroughType
<1>4. ASSUME NEW k \in 1..n, NEW v \in MapsType PROVE ApplyOut(v, outs[k]) \in MapsType
  <2>1. outs[k] \in Known
    BY <1>1, <1>2, KnownIs
  <2> HIDE DEF outs
  <2> QED
    BY <2>1, OutType
<1>6. base \in G[0]
  <2>1. To(0) = O /\ 0 \in 0..n
    BY <1>1, 1..0 = {}
  <2> HIDE DEF To, n
  <2> QED
    BY <2>1
<1>7. ASSUME NEW k \in 1..n, NEW v \in MapsType, v \in G[k - 1] PROVE ApplyOut(v, outs[k]) \in G[k]
  <2> DEFINE id == <<wire.hash, k>>
  <2>1. k - 1 \in 0..n /\ k \in 0..n
    BY <1>1
  <2>2. v = Through(To(k - 1), N, found)
    BY <1>7, <2>1
  <2>3. To(k) = To(k - 1) \cup {id}
    <3>1. 1..k = (1..(k - 1)) \cup {k}
      BY <1>1
    <3> QED
      BY <3>1
  <2>4. To(k - 1) \in SUBSET TxOutId /\ id \in TxOutId
    BY <1>1
  <2>5. id \notin To(k - 1) /\ id \notin N
    <3>1. id \in OutsOf(wire)
      BY <1>1 DEF OutsOf
    <3>2. \A j \in 1..(k - 1) : <<wire.hash, j>> # id
      BY <1>1
    <3> QED
      BY <3>1, <3>2
  <2>6. ApplyOut(v, outs[k]) = ApplyOut(v, Created(id))
    BY <1>2, <1>7
  <2> HIDE DEF To, id, outs
  <2>7. ApplyOut(v, Created(id)) = Through(To(k - 1) \cup {id}, N, found)
    BY <2>2, <2>4, <2>5, OutStep
  <2> QED
    BY <2>1, <2>3, <2>6, <2>7
<1>8. FoldLeft(ApplyOut, base, outs) \in G[n]
  <2> HIDE DEF G, base, n, outs
  <2> QED
    BY <1>1, <1>2, <1>3, <1>4, <1>6, <1>7, ApplyOutKeeps
<1>9. To(n) = O \cup OutsOf(wire)
  BY <1>1 DEF OutsOf
<1>10. n \in 0..n
  BY <1>1
<1> HIDE DEF To, n, base, outs
<1> QED
  BY <1>8, <1>9, <1>10 DEF base, outs

\* The inputs of a transaction, one after the other.
LEMMA InsLoop ==
    ASSUME MapsOK, NEW O \in SUBSET TxOutId, NEW N \in SUBSET TxOutId, NEW found,
           NEW b \in Block, NEW wire \in Wires(b),
           N \cap ToSet(wire.in) = {}, IsInjective(wire.in)
    PROVE  FoldLeft(ApplyIn, Through(O, N, found), TxWith(wire, found).in)
               = Through(O, N \cup ToSet(wire.in), found)
<1> DEFINE n == Len(wire.in)
           ins == TxWith(wire, found).in
           base == Through(O, N, found)
           To(k) == N \cup {wire.in[j] : j \in 1..k}
           G == [k \in 0..n |-> {Through(O, To(k), found)}]
<1>1. n \in Nat /\ DOMAIN wire.in = 1..n /\ \A k \in 1..n : wire.in[k] \in TxOutId
  <2>1. wire.in \in Seq(TxOutId) /\ DOMAIN wire.in = 1..n
    BY WireOK
  <2> QED
    BY <2>1, LenProperties, ElementOfSeq
<1>2. DOMAIN ins = 1..n /\ \A k \in 1..n : ins[k] = Spent(wire.in[k], found)
  BY <1>1 DEF TxWith
<1>3. base \in MapsType
  BY ThroughType
<1>4. ASSUME NEW k \in 1..n, NEW v \in MapsType PROVE ApplyIn(v, ins[k]) \in MapsType
  <2>1. ins[k] \in Known
    BY <1>1, <1>2, KnownIs
  <2> HIDE DEF ins
  <2> QED
    BY <2>1, InType
<1>6. base \in G[0]
  <2>1. To(0) = N /\ 0 \in 0..n
    BY <1>1, 1..0 = {}
  <2> HIDE DEF To, n
  <2> QED
    BY <2>1
<1>7. ASSUME NEW k \in 1..n, NEW v \in MapsType, v \in G[k - 1] PROVE ApplyIn(v, ins[k]) \in G[k]
  <2> DEFINE id == wire.in[k]
  <2>1. k - 1 \in 0..n /\ k \in 0..n
    BY <1>1
  <2>2. v = Through(O, To(k - 1), found)
    BY <1>7, <2>1
  <2>3. To(k) = To(k - 1) \cup {id}
    <3>1. 1..k = (1..(k - 1)) \cup {k}
      BY <1>1
    <3> QED
      BY <3>1
  <2>4. To(k - 1) \in SUBSET TxOutId /\ id \in TxOutId
    BY <1>1
  <2>5. id \notin To(k - 1)
    <3>1. id \in ToSet(wire.in)
      BY <1>1 DEF ToSet
    <3>2. \A j \in 1..(k - 1) : j \in 1..n /\ j # k
      BY <1>1
    <3>3. \A j \in 1..(k - 1) : wire.in[j] # id
      BY <1>1, <3>2 DEF IsInjective
    <3> QED
      BY <3>1, <3>3
  <2>6. ApplyIn(v, ins[k]) = ApplyIn(v, Spent(id, found))
    BY <1>2, <1>7
  <2> HIDE DEF To, id, ins
  <2>7. ApplyIn(v, Spent(id, found)) = Through(O, To(k - 1) \cup {id}, found)
    BY <2>2, <2>4, <2>5, InStep
  <2> QED
    BY <2>1, <2>3, <2>6, <2>7
<1>8. FoldLeft(ApplyIn, base, ins) \in G[n]
  <2> HIDE DEF G, base, n, ins
  <2> QED
    BY <1>1, <1>2, <1>3, <1>4, <1>6, <1>7, ApplyInKeeps
<1>9. To(n) = N \cup ToSet(wire.in)
  BY <1>1 DEF ToSet
<1>10. n \in 0..n
  BY <1>1
<1> HIDE DEF To, n, base, ins
<1> QED
  BY <1>8, <1>9, <1>10 DEF base, ins

-----------------------------------------------------------------------------
\* What the first t transactions of a block create and spend.
OutsTo(b, t) == UNION {OutsOf(WireBlock[b][u]) : u \in 1..t}
InsTo(b, t) == UNION {ToSet(WireBlock[b][u].in) : u \in 1..t}

LEMMA WiresOf ==
    ASSUME NEW b \in Block
    PROVE  /\ WireBlock[b] \in Seq(WireTxs) /\ Len(WireBlock[b]) \in Nat
           /\ DOMAIN WireBlock[b] = 1..Len(WireBlock[b])
BY WireAssumption, LenProperties

LEMMA OutsIds ==
    ASSUME NEW b \in Block, NEW wire \in Wires(b)
    PROVE  OutsOf(wire) \in SUBSET TxOutId /\ ToSet(wire.in) \in SUBSET TxOutId
<1>1. OutsOf(wire) \in SUBSET TxOutId
  BY WireOK DEF OutsOf
<1>2. wire.in \in Seq(TxOutId) /\ DOMAIN wire.in = 1..Len(wire.in)
  BY WireOK
<1>3. \A i \in DOMAIN wire.in : wire.in[i] \in TxOutId
  BY <1>2, ElementOfSeq
<1> QED
  BY <1>1, <1>3 DEF ToSet

LEMMA WholeBlock ==
    ASSUME NEW b \in Block
    PROVE  OutsTo(b, Len(WireBlock[b])) = Outs[b] /\ InsTo(b, Len(WireBlock[b])) = Ins[b]
<1>1. ToSet(WireBlock[b]) = {WireBlock[b][u] : u \in 1..Len(WireBlock[b])}
  BY WiresOf DEF ToSet
<1>2. /\ Outs[b] = UNION {OutsOf(wire) : wire \in ToSet(WireBlock[b])}
      /\ Ins[b] = UNION {ToSet(wire.in) : wire \in ToSet(WireBlock[b])}
  BY BlocksAssumption
<1> QED
  BY <1>1, <1>2 DEF OutsTo, InsTo

\* What one more transaction creates and spends is new.
LEMMA NextTx ==
    ASSUME NEW b \in Block, NEW t \in 1..Len(WireBlock[b])
    PROVE  LET wire == WireBlock[b][t]
           IN  /\ wire \in Wires(b)
               /\ OutsTo(b, t - 1) \in SUBSET TxOutId /\ InsTo(b, t - 1) \in SUBSET TxOutId
               /\ OutsTo(b, t) = OutsTo(b, t - 1) \cup OutsOf(wire)
               /\ InsTo(b, t) = InsTo(b, t - 1) \cup ToSet(wire.in)
               /\ OutsTo(b, t - 1) \cap OutsOf(wire) = {}
               /\ InsTo(b, t - 1) \cap OutsOf(wire) = {}
               /\ InsTo(b, t - 1) \cap ToSet(wire.in) = {}
               /\ IsInjective(wire.in)
<1> DEFINE w == WireBlock[b]
           wire == w[t]
<1>1. DOMAIN w = 1..Len(w) /\ Len(w) \in Nat
  BY WiresOf
<1>2. 1..t = (1..(t - 1)) \cup {t} /\ \A u \in 1..(t - 1) : u \in DOMAIN w /\ u < t /\ u # t
  BY <1>1
<1>3. \A u \in DOMAIN w : w[u] \in Wires(b)
  BY WireAt
<1>4. OutsTo(b, t - 1) \in SUBSET TxOutId /\ InsTo(b, t - 1) \in SUBSET TxOutId
  <2>1. \A u \in 1..(t - 1) : OutsOf(w[u]) \in SUBSET TxOutId /\ ToSet(w[u].in) \in SUBSET TxOutId
    BY <1>2, <1>3, OutsIds
  <2> QED
    BY <2>1 DEF OutsTo, InsTo
<1>5. /\ OutsTo(b, t) = OutsTo(b, t - 1) \cup OutsOf(wire)
      /\ InsTo(b, t) = InsTo(b, t - 1) \cup ToSet(wire.in)
  BY <1>2 DEF OutsTo, InsTo
<1>6. /\ IsInjective(w)
      /\ \A u, v \in DOMAIN w :
            /\ ToSet(w[u].in) \cap OutsOf(w[v]) # {} => v < u
            /\ \A i \in DOMAIN w[u].in : \A j \in DOMAIN w[v].in :
                  w[u].in[i] = w[v].in[j] => u = v /\ i = j
  BY OrderAssumption
<1>7. ASSUME NEW u \in 1..(t - 1) PROVE OutsOf(w[u]) \cap OutsOf(wire) = {}
  <2>1. w[u] # wire
    BY <1>1, <1>2, <1>6, <1>7 DEF IsInjective
  <2>2. w[u].hash # wire.hash
    <3>1. \A c \in Wires(b) : c \in UNION {ToSet(WireBlock[x]) : x \in Block}
      BY DEF Wires
    <3>2. w[u] \in UNION {ToSet(WireBlock[x]) : x \in Block}
          /\ wire \in UNION {ToSet(WireBlock[x]) : x \in Block}
      BY <1>1, <1>2, <1>3, <3>1
    <3> HIDE DEF w, wire
    <3> QED
      BY <2>1, <3>2, IdAssumption
  <2> HIDE DEF w, wire
  <2> QED
    BY <2>2 DEF OutsOf
<1>8. ASSUME NEW u \in 1..(t - 1) PROVE ToSet(w[u].in) \cap OutsOf(wire) = {}
  <2>1. u \in DOMAIN w /\ t \in DOMAIN w /\ ~(t < u)
    BY <1>1, <1>2
  <2> HIDE DEF w
  <2> QED
    BY <1>6, <2>1
<1>9. ASSUME NEW u \in 1..(t - 1) PROVE ToSet(w[u].in) \cap ToSet(wire.in) = {}
  <2>1. u \in DOMAIN w /\ t \in DOMAIN w /\ u # t
    BY <1>1, <1>2
  <2> HIDE DEF w
  <2> QED
    BY <1>6, <2>1 DEF ToSet
<1>10. IsInjective(wire.in)
  <2>1. t \in DOMAIN w
    BY <1>1
  <2> HIDE DEF w
  <2> QED
    BY <1>6, <2>1 DEF IsInjective
<1>11. wire \in Wires(b)
  BY <1>1, <1>3
<1>12. /\ OutsTo(b, t - 1) \cap OutsOf(wire) = {}
       /\ InsTo(b, t - 1) \cap OutsOf(wire) = {}
       /\ InsTo(b, t - 1) \cap ToSet(wire.in) = {}
  <2> HIDE DEF wire
  <2> QED
    BY <1>7, <1>8, <1>9 DEF OutsTo, InsTo
<1> QED
  BY <1>4, <1>5, <1>10, <1>11, <1>12

\* The transactions of a block, one after the other.
LEMMA TxsLoop ==
    ASSUME MapsOK, NEW b \in Block, NEW block, block.hash = b
    PROVE  FoldLeft(ApplyTx, Through({}, {}, block.found), QueuedTxs(block))
               = Through(Outs[b], Ins[b], block.found)
<1> DEFINE n == Len(WireBlock[b])
           found == block.found
           txs == [t \in DOMAIN WireBlock[b] |-> TxWith(WireBlock[b][t], found)]
           base == Through({}, {}, found)
           G == [k \in 0..n |-> {Through(OutsTo(b, k), InsTo(b, k), found)}]
<1>1. n \in Nat /\ DOMAIN WireBlock[b] = 1..n
  BY WiresOf
<1>2. DOMAIN txs = 1..n /\ \A k \in 1..n : txs[k] = TxWith(WireBlock[b][k], found)
  BY <1>1
<1>3. base \in MapsType
  BY ThroughType
<1>4. ASSUME NEW k \in 1..n, NEW v \in MapsType PROVE ApplyTx(v, txs[k]) \in MapsType
  <2> DEFINE wire == WireBlock[b][k]
             outs == TxWith(wire, found).out
             ins == TxWith(wire, found).in
             mid == FoldLeft(ApplyOut, v, outs)
  <2>1. wire \in Wires(b)
    BY <1>1, WireAt
  <2>2. ApplyTx(v, txs[k]) = FoldLeft(ApplyIn, mid, ins)
    BY <1>2 DEF ApplyTx
  <2>3. /\ Len(wire.out) \in Nat /\ DOMAIN outs = 1..Len(wire.out)
        /\ \A j \in 1..Len(wire.out) : outs[j] \in Known
    <3>0. DOMAIN wire.out = 1..Len(wire.out) /\ Len(wire.out) \in Nat
      BY <2>1, WireOK, LenProperties
    <3>1. \A j \in DOMAIN wire.out : <<wire.hash, j>> \in TxOutId
      BY <2>1, WireOK
    <3> HIDE DEF wire
    <3>2. DOMAIN outs = DOMAIN wire.out /\ \A j \in DOMAIN wire.out : outs[j] = Created(<<wire.hash, j>>)
      BY DEF TxWith
    <3> HIDE DEF outs
    <3>3. \A j \in DOMAIN wire.out : outs[j] \in Known
      <4> SUFFICES ASSUME NEW j \in DOMAIN wire.out PROVE outs[j] \in Known
        OBVIOUS
      <4>1. Created(<<wire.hash, j>>) \in Known
        BY <3>1, KnownIs
      <4> QED
        BY <3>2, <4>1
    <3> QED
      BY <3>0, <3>2, <3>3
  <2>4. /\ Len(wire.in) \in Nat /\ DOMAIN ins = 1..Len(wire.in)
        /\ \A j \in 1..Len(wire.in) : ins[j] \in Known
    <3>0. DOMAIN wire.in = 1..Len(wire.in) /\ Len(wire.in) \in Nat
      BY <2>1, WireOK, LenProperties
    <3>1. \A j \in DOMAIN wire.in : wire.in[j] \in TxOutId
      BY <2>1, WireOK, ElementOfSeq
    <3> HIDE DEF wire
    <3>2. DOMAIN ins = DOMAIN wire.in /\ \A j \in DOMAIN wire.in : ins[j] = Spent(wire.in[j], found)
      BY DEF TxWith
    <3> HIDE DEF ins
    <3> QED
      BY <3>0, <3>1, <3>2, KnownIs
  <2> HIDE DEF wire, outs, ins
  <2>5. mid \in MapsType
    <3> DEFINE H == [j \in 0..Len(wire.out) |-> MapsType]
    <3>1. \A j \in 1..Len(wire.out) : \A x \in MapsType : ApplyOut(x, outs[j]) \in MapsType
      BY <2>3, OutType
    <3>2. /\ v \in H[0]
          /\ \A j \in 1..Len(wire.out) : \A x \in MapsType :
                x \in H[j - 1] => ApplyOut(x, outs[j]) \in H[j]
      BY <2>3, <3>1
    <3> HIDE DEF H
    <3> QED
      BY <2>3, <3>1, <3>2, ApplyOutKeeps
  <2> HIDE DEF mid
  <2>6. FoldLeft(ApplyIn, mid, ins) \in MapsType
    <3> DEFINE H == [j \in 0..Len(wire.in) |-> MapsType]
    <3>1. \A j \in 1..Len(wire.in) : \A x \in MapsType : ApplyIn(x, ins[j]) \in MapsType
      BY <2>4, InType
    <3>2. /\ mid \in H[0]
          /\ \A j \in 1..Len(wire.in) : \A x \in MapsType :
                x \in H[j - 1] => ApplyIn(x, ins[j]) \in H[j]
      BY <2>4, <2>5, <3>1
    <3> HIDE DEF H
    <3> QED
      BY <2>4, <2>5, <3>1, <3>2, ApplyInKeeps
  <2> QED
    BY <2>2, <2>6
<1>6. base \in G[0]
  <2>1. OutsTo(b, 0) = {} /\ InsTo(b, 0) = {}
    BY 1..0 = {} DEF OutsTo, InsTo
  <2> QED
    BY <1>1, <2>1
<1>7. ASSUME NEW k \in 1..n, NEW v \in MapsType, v \in G[k - 1] PROVE ApplyTx(v, txs[k]) \in G[k]
  <2> DEFINE wire == WireBlock[b][k]
             O == OutsTo(b, k - 1)
             N == InsTo(b, k - 1)
  <2>1. k - 1 \in 0..n /\ k \in 0..n
    BY <1>1
  <2>2. v = Through(O, N, found)
    BY <1>7, <2>1
  <2>3. /\ wire \in Wires(b) /\ O \in SUBSET TxOutId /\ N \in SUBSET TxOutId
        /\ OutsTo(b, k) = O \cup OutsOf(wire) /\ InsTo(b, k) = N \cup ToSet(wire.in)
        /\ O \cap OutsOf(wire) = {} /\ N \cap OutsOf(wire) = {} /\ N \cap ToSet(wire.in) = {}
        /\ IsInjective(wire.in)
    BY NextTx
  <2>4. ApplyTx(v, txs[k]) = FoldLeft(ApplyIn, FoldLeft(ApplyOut, v, TxWith(wire, found).out),
                              TxWith(wire, found).in)
    BY <1>2, <1>7 DEF ApplyTx
  <2> HIDE DEF wire, O, N, txs
  <2>5. FoldLeft(ApplyOut, v, TxWith(wire, found).out) = Through(O \cup OutsOf(wire), N, found)
    BY <2>2, <2>3, OutsLoop
  <2>6. O \cup OutsOf(wire) \in SUBSET TxOutId
    BY <2>3, OutsIds
  <2>7. FoldLeft(ApplyIn, Through(O \cup OutsOf(wire), N, found), TxWith(wire, found).in)
            = Through(O \cup OutsOf(wire), N \cup ToSet(wire.in), found)
    BY <2>3, <2>6, InsLoop
  <2> QED
    BY <2>1, <2>3, <2>4, <2>5, <2>7
<1>8. FoldLeft(ApplyTx, base, txs) \in G[n]
  <2> HIDE DEF G, base, n, txs
  <2> QED
    BY <1>1, <1>2, <1>3, <1>4, <1>6, <1>7, ApplyTxKeeps
<1>9. QueuedTxs(block) = txs
  BY QueuedIs
<1>10. n \in 0..n /\ OutsTo(b, n) = Outs[b] /\ InsTo(b, n) = Ins[b]
  BY <1>1, WholeBlock
<1> HIDE DEF n, txs
<1> QED
  BY <1>8, <1>9, <1>10

LEMMA AddBlockIs ==
    ASSUME ManagerInv
    PROVE  AddBlockAgrees
<1> SUFFICES ASSUME pendingBlocks # <<>>
             PROVE  LET block == pendingBlocks[1]
                    IN  FoldLeft(ApplyTx, Maps, QueuedTxs(block)) =
                            [inserts   |-> AfterOutputs(block) \ Ins[block.hash],
                             deletions |-> QueuedDeletions(block),
                             balance   |-> IndexedBalance(block)]
  BY DEF AddBlockAgrees
<1> DEFINE block == pendingBlocks[1]
           b == block.hash
           found == block.found
<1>1. MapsOK
  BY OutputAssumption DEF ManagerInv, TypeOK, CacheTypeOK, MapsOK
<1>2. block \in QueuedBlock /\ found \in SUBSET Ins[b]
  <2>1. pendingBlocks \in Seq(QueuedBlock) /\ 1 \in 1..Len(pendingBlocks)
    <3>1. pendingBlocks \in Seq(QueuedBlock)
      BY DEF ManagerInv, TypeOK
    <3>2. Len(pendingBlocks) \in Nat /\ Len(pendingBlocks) # 0
      BY <3>1, EmptySeq, LenProperties
    <3> QED
      BY <3>1, <3>2
  <2>2. BlockOK(pendingBlocks, lastBlockHash, 1)
    BY <2>1 DEF ManagerInv, QueueOK
  <2> QED
    BY <2>1, <2>2, ElementOfSeq DEF BlockOK
<1>3. b \in Block /\ found \in SUBSET TxOutId /\ Outs[b] \in SUBSET TxOutId
  BY <1>2, OutputAssumption DEF QueuedBlock
<1>4. Maps = Through({}, {}, found)
  <2>1. Held({}) = inserts
    BY DEF Held
  <2>2. \A a \in Address : BalanceOf({}, a) = 0 /\ balance[a] \in Int
    BY <1>1, BalanceAssumption DEF MapsOK
  <2>3. \A a \in Address : balance[a] + BalanceOf({}, a) - BalanceOf({} \cap found, a) = balance[a]
    <3>1. {} \cap found = {}
      OBVIOUS
    <3> QED
      BY <2>2, <3>1
  <2>4. [a \in Address |-> balance[a] + BalanceOf({}, a) - BalanceOf({} \cap found, a)] = balance
    BY <1>1, <2>3 DEF MapsOK
  <2> QED
    BY <2>1, <2>4 DEF Maps, Through
<1>5. Through(Outs[b], Ins[b], found) =
          [inserts   |-> AfterOutputs(block) \ Ins[b],
           deletions |-> QueuedDeletions(block),
           balance   |-> IndexedBalance(block)]
  <2>1. Held(Outs[b]) = AfterOutputs(block)
    BY DEF Held, AfterOutputs
  <2>2. \A a \in Address : balance[a] \in Int /\ BalanceOf(Outs[b], a) \in Int /\ BalanceOf(found, a) \in Int
    BY <1>1, <1>3, BalanceAssumption DEF MapsOK
  <2>3. Ins[b] \cap found = found
    BY <1>2
  <2>4. \A a \in Address : balance[a] + BlockDelta(block, a)
                               = balance[a] + BalanceOf(Outs[b], a) - BalanceOf(Ins[b] \cap found, a)
    <3> SUFFICES ASSUME NEW a \in Address
                 PROVE  balance[a] + BlockDelta(block, a)
                            = balance[a] + BalanceOf(Outs[b], a) - BalanceOf(Ins[b] \cap found, a)
      OBVIOUS
    <3>1. BlockDelta(block, a) = BalanceOf(Outs[b], a) - BalanceOf(found, a)
      BY DEF BlockDelta
    <3> QED
      BY <2>2, <2>3, <3>1
  <2>5. IndexedBalance(block)
            = IF Sync THEN balance
              ELSE [a \in Address |-> balance[a] + BalanceOf(Outs[b], a) - BalanceOf(Ins[b] \cap found, a)]
    BY <2>4 DEF IndexedBalance
  <2>6. QueuedDeletions(block) = (deletions \ (Outs[b] \cap Storable)) \cup (Ins[b] \ AfterOutputs(block))
    BY DEF QueuedDeletions
  <2> QED
    BY <2>1, <2>5, <2>6 DEF Through
<1> HIDE DEF b, block
<1>6. FoldLeft(ApplyTx, Through({}, {}, block.found), QueuedTxs(block)) = Through(Outs[b], Ins[b], block.found)
  BY <1>1, <1>3, TxsLoop DEF b
<1> QED
  BY <1>4, <1>5, <1>6 DEF b, block

-----------------------------------------------------------------------------
\* The balance of a block, summed transaction by transaction.

\* A sum is the last of its partial sums.
LEMMA TotalOf ==
    ASSUME NEW s, NEW n \in Nat, DOMAIN s = 1..n, \A k \in 1..n : s[k] \in Int,
           NEW r \in [0..n -> Int], r[0] = 0, \A k \in 1..n : r[k] = r[k - 1] + s[k]
    PROVE  Total(s) = r[n]
<1> DEFINE G == [k \in 0..n |-> {r[k]}]
<1>1. 0 \in Int /\ 0 \in G[0]
  OBVIOUS
<1>2. \A k \in 1..n : \A v \in Int : v + s[k] \in Int
  OBVIOUS
<1>3. \A k \in 1..n : \A v \in Int : v \in G[k - 1] => v + s[k] \in G[k]
  <2>1. \A k \in 1..n : k \in 0..n /\ k - 1 \in 0..n
    OBVIOUS
  <2> QED
    BY <2>1
<1>4. Total(s) \in G[n]
  <2> HIDE DEF G
  <2> QED
    BY <1>1, <1>2, <1>3, TotalKeeps
<1>5. n \in 0..n
  OBVIOUS
<1> QED
  BY <1>4, <1>5

LEMMA OutsMoved ==
    ASSUME NEW b \in Block, NEW wire \in Wires(b), NEW found, NEW a \in Address
    PROVE  Moved(TxWith(wire, found).out, a) = BalanceOf(OutsOf(wire), a)
<1> DEFINE n == Len(wire.out)
           outs == TxWith(wire, found).out
           To(k) == {<<wire.hash, j>> : j \in 1..k}
           s == [k \in DOMAIN outs |-> IF outs[k].data.addr = a THEN outs[k].data.value ELSE 0]
           r == [k \in 0..n |-> BalanceOf(To(k), a)]
<1>1. n \in Nat /\ DOMAIN wire.out = 1..n /\ \A k \in 1..n : <<wire.hash, k>> \in TxOutId
  BY WireOK, LenProperties
<1>2. DOMAIN outs = 1..n /\ \A k \in 1..n : outs[k] = Created(<<wire.hash, k>>)
  BY <1>1 DEF TxWith
<1>3. \A k \in 0..n : To(k) \in SUBSET TxOutId
  BY <1>1
<1>4. \A k \in 1..n : /\ k - 1 \in 0..n /\ k \in 0..n
                      /\ To(k) = To(k - 1) \cup {<<wire.hash, k>>}
                      /\ <<wire.hash, k>> \notin To(k - 1)
  <2> SUFFICES ASSUME NEW k \in 1..n
               PROVE  /\ k - 1 \in 0..n /\ k \in 0..n
                      /\ To(k) = To(k - 1) \cup {<<wire.hash, k>>}
                      /\ <<wire.hash, k>> \notin To(k - 1)
    OBVIOUS
  <2>1. 1..k = (1..(k - 1)) \cup {k} /\ k - 1 \in 0..n /\ k \in 0..n
    BY <1>1
  <2>2. \A j \in 1..(k - 1) : <<wire.hash, j>> # <<wire.hash, k>>
    BY <1>1
  <2> QED
    BY <2>1, <2>2
<1>5. ASSUME NEW k \in 1..n
      PROVE  s[k] \in Int /\ r[k] = r[k - 1] + s[k]
  <2> DEFINE id == <<wire.hash, k>>
  <2>1. s[k] = IF Data[id].addr = a THEN Data[id].value ELSE 0
    <3>1. outs[k] = Created(id) /\ k \in DOMAIN outs
      BY <1>2
    <3>2. Created(id).data = Data[id]
      BY DEF Created
    <3> HIDE DEF outs, id
    <3>3. s[k] = IF outs[k].data.addr = a THEN outs[k].data.value ELSE 0
      BY <3>1
    <3> QED
      BY <3>1, <3>2, <3>3
  <2>2. Data[id].value \in Nat
    BY <1>1, StorableIs
  <2>3. /\ id \in TxOutId /\ id \notin To(k - 1) /\ To(k - 1) \in SUBSET TxOutId
        /\ To(k) = To(k - 1) \cup {id} /\ k - 1 \in 0..n /\ k \in 0..n
    BY <1>1, <1>3, <1>4
  <2> HIDE DEF id, To, s, outs
  <2>4. BalanceOf(To(k - 1) \cup {id}, a)
            = BalanceOf(To(k - 1), a) + (IF Data[id].addr = a THEN Data[id].value ELSE 0)
    BY <2>3, OneMore
  <2>5. r[k] = BalanceOf(To(k - 1) \cup {id}, a) /\ r[k - 1] = BalanceOf(To(k - 1), a)
    BY <2>3
  <2> QED
    BY <2>1, <2>2, <2>4, <2>5
<1>6. r \in [0..n -> Int]
  <2>1. \A k \in 0..n : BalanceOf(To(k), a) \in Int
    BY <1>3, BalanceAssumption
  <2> QED
    BY <2>1
<1>7. r[0] = 0
  <2>1. To(0) = {} /\ 0 \in 0..n
    BY <1>1, 1..0 = {}
  <2>2. BalanceOf({}, a) = 0
    BY BalanceAssumption
  <2> HIDE DEF To
  <2> QED
    BY <2>1, <2>2
<1>8. DOMAIN s = 1..n
  BY <1>2
<1>9. To(n) = OutsOf(wire) /\ n \in 0..n
  BY <1>1 DEF OutsOf
<1>10. Moved(outs, a) = Total(s)
  BY DEF Moved
<1>11. Total(s) = r[n]
  <2> HIDE DEF s, r, n
  <2> QED
    BY <1>1, <1>5, <1>6, <1>7, <1>8, TotalOf
<1>12. r[n] = BalanceOf(OutsOf(wire), a)
  <2> HIDE DEF To, n
  <2> QED
    BY <1>9
<1> QED
  BY <1>10, <1>11, <1>12

LEMMA InsMoved ==
    ASSUME NEW b \in Block, NEW wire \in Wires(b), IsInjective(wire.in), NEW found, NEW a \in Address
    PROVE  Moved(TxWith(wire, found).in, a) = BalanceOf(ToSet(wire.in) \cap found, a)
<1> DEFINE n == Len(wire.in)
           ins == TxWith(wire, found).in
           To(k) == {wire.in[j] : j \in 1..k} \cap found
           s == [k \in DOMAIN ins |-> IF ins[k].data.addr = a THEN ins[k].data.value ELSE 0]
           r == [k \in 0..n |-> BalanceOf(To(k), a)]
<1>1. n \in Nat /\ DOMAIN wire.in = 1..n /\ \A k \in 1..n : wire.in[k] \in TxOutId
  <2>1. wire.in \in Seq(TxOutId) /\ DOMAIN wire.in = 1..n
    BY WireOK
  <2> QED
    BY <2>1, LenProperties, ElementOfSeq
<1>2. DOMAIN ins = 1..n /\ \A k \in 1..n : ins[k] = Spent(wire.in[k], found)
  BY <1>1 DEF TxWith
<1>3. \A k \in 0..n : To(k) \in SUBSET TxOutId
  BY <1>1
<1>4. \A k \in 1..n : /\ k - 1 \in 0..n /\ k \in 0..n
                      /\ To(k) = To(k - 1) \cup ({wire.in[k]} \cap found)
                      /\ wire.in[k] \notin To(k - 1)
  <2> SUFFICES ASSUME NEW k \in 1..n
               PROVE  /\ k - 1 \in 0..n /\ k \in 0..n
                      /\ To(k) = To(k - 1) \cup ({wire.in[k]} \cap found)
                      /\ wire.in[k] \notin To(k - 1)
    OBVIOUS
  <2>1. 1..k = (1..(k - 1)) \cup {k} /\ k - 1 \in 0..n /\ k \in 0..n
    BY <1>1
  <2>2. \A j \in 1..(k - 1) : j \in 1..n /\ j # k
    BY <1>1
  <2>3. \A j \in 1..(k - 1) : wire.in[j] # wire.in[k]
    BY <1>1, <2>2 DEF IsInjective
  <2> QED
    BY <2>1, <2>3
<1>5. ASSUME NEW k \in 1..n
      PROVE  s[k] \in Int /\ r[k] = r[k - 1] + s[k]
  <2> DEFINE id == wire.in[k]
  <2>1. s[k] = IF Spent(id, found).data.addr = a THEN Spent(id, found).data.value ELSE 0
    BY <1>2
  <2>2. Data[id].value \in Nat
    BY <1>1, StorableIs
  <2>3. /\ id \in TxOutId /\ id \notin To(k - 1) /\ To(k - 1) \in SUBSET TxOutId
        /\ To(k) = To(k - 1) \cup ({id} \cap found) /\ k - 1 \in 0..n /\ k \in 0..n
    BY <1>1, <1>3, <1>4
  <2> HIDE DEF id, To, s, ins
  <2>5. r[k] = BalanceOf(To(k), a) /\ r[k - 1] = BalanceOf(To(k - 1), a)
    BY <2>3
  <2>6. CASE id \in found
    <3>1. To(k) = To(k - 1) \cup {id}
      BY <2>3, <2>6
    <3>2. s[k] = IF Data[id].addr = a THEN Data[id].value ELSE 0
      BY <2>1, <2>6 DEF Spent
    <3>3. BalanceOf(To(k - 1) \cup {id}, a)
              = BalanceOf(To(k - 1), a) + (IF Data[id].addr = a THEN Data[id].value ELSE 0)
      BY <2>3, OneMore
    <3> QED
      BY <2>2, <2>5, <3>1, <3>2, <3>3
  <2>7. CASE id \notin found
    <3>1. To(k) = To(k - 1)
      BY <2>3, <2>7
    <3>2. s[k] = 0
      <4>1. Nowhere.addr # a
        BY WireAssumption DEF Nowhere
      <4> QED
        BY <2>1, <2>7, <4>1 DEF Spent
    <3>3. BalanceOf(To(k - 1), a) \in Int
      BY <2>3, BalanceAssumption
    <3> QED
      BY <2>5, <3>1, <3>2, <3>3
  <2> QED
    BY <2>6, <2>7
<1>6. r \in [0..n -> Int]
  <2>1. \A k \in 0..n : BalanceOf(To(k), a) \in Int
    BY <1>3, BalanceAssumption
  <2> QED
    BY <2>1
<1>7. r[0] = 0
  <2>1. To(0) = {} /\ 0 \in 0..n
    BY <1>1, 1..0 = {}
  <2>2. BalanceOf({}, a) = 0
    BY BalanceAssumption
  <2> HIDE DEF To
  <2> QED
    BY <2>1, <2>2
<1>8. DOMAIN s = 1..n
  BY <1>2
<1>9. To(n) = ToSet(wire.in) \cap found /\ n \in 0..n
  BY <1>1 DEF ToSet
<1>10. Moved(ins, a) = Total(s)
  BY DEF Moved
<1>11. Total(s) = r[n]
  <2> HIDE DEF s, r, n
  <2> QED
    BY <1>1, <1>5, <1>6, <1>7, <1>8, TotalOf
<1>12. r[n] = BalanceOf(ToSet(wire.in) \cap found, a)
  <2> HIDE DEF To, n
  <2> QED
    BY <1>9
<1> QED
  BY <1>10, <1>11, <1>12

LEMMA JoinBalance ==
    ASSUME NEW S \in SUBSET TxOutId, NEW T \in SUBSET TxOutId, S \cap T = {}, NEW a \in Address
    PROVE  /\ BalanceOf(S, a) \in Int /\ BalanceOf(T, a) \in Int
           /\ BalanceOf(S \cup T, a) = BalanceOf(S, a) + BalanceOf(T, a)
<1>1. T \in SUBSET (TxOutId \ S)
  OBVIOUS
<1> QED
  BY <1>1, BalanceAssumption

LEMMA BlockMoved ==
    ASSUME NEW b \in Block, NEW block, block.hash = b, NEW a \in Address,
           block.found \in SUBSET Ins[b]
    PROVE  LET txs == QueuedTxs(block)
           IN  Total([t \in DOMAIN txs |-> ForEachAddress(txs[t], a)]) = BlockDelta(block, a)
<1> DEFINE n == Len(WireBlock[b])
           found == block.found
           txs == [t \in DOMAIN WireBlock[b] |-> TxWith(WireBlock[b][t], found)]
           s == [t \in DOMAIN txs |-> ForEachAddress(txs[t], a)]
           r == [k \in 0..n |-> BalanceOf(OutsTo(b, k), a) - BalanceOf(InsTo(b, k) \cap found, a)]
<1>1. n \in Nat /\ DOMAIN WireBlock[b] = 1..n
  BY WiresOf
<1>2. DOMAIN txs = 1..n /\ \A k \in 1..n : txs[k] = TxWith(WireBlock[b][k], found)
  BY <1>1
<1>3. ASSUME NEW k \in 1..n
      PROVE  /\ s[k] \in Int /\ r[k] = r[k - 1] + s[k]
             /\ BalanceOf(OutsTo(b, k), a) \in Int /\ BalanceOf(InsTo(b, k) \cap found, a) \in Int
  <2> DEFINE wire == WireBlock[b][k]
             O == OutsTo(b, k - 1)
             N == InsTo(b, k - 1)
             P == OutsOf(wire)
             Q == ToSet(wire.in)
  <2>1. /\ wire \in Wires(b) /\ O \in SUBSET TxOutId /\ N \in SUBSET TxOutId
        /\ OutsTo(b, k) = O \cup P /\ InsTo(b, k) = N \cup Q
        /\ O \cap P = {} /\ N \cap Q = {}
        /\ IsInjective(wire.in)
    BY NextTx
  <2>2. s[k] = ForEachAddress(TxWith(wire, found), a)
    BY <1>2
  <2>3. k - 1 \in 0..n /\ k \in 0..n
    BY <1>1
  <2>4. /\ r[k] = BalanceOf(OutsTo(b, k), a) - BalanceOf(InsTo(b, k) \cap found, a)
        /\ r[k - 1] = BalanceOf(O, a) - BalanceOf(N \cap found, a)
    BY <2>3
  <2>5. P \in SUBSET TxOutId /\ Q \in SUBSET TxOutId
    BY <2>1, OutsIds
  <2> HIDE DEF wire, O, N, txs, s, r
  <2>6. s[k] = BalanceOf(P, a) - BalanceOf(Q \cap found, a)
    BY <2>1, <2>2, OutsMoved, InsMoved DEF ForEachAddress
  <2> HIDE DEF P, Q
  <2>7. /\ BalanceOf(O, a) \in Int /\ BalanceOf(P, a) \in Int
        /\ BalanceOf(O \cup P, a) = BalanceOf(O, a) + BalanceOf(P, a)
    <3>1. O \in SUBSET TxOutId /\ P \in SUBSET TxOutId /\ O \cap P = {}
      BY <2>1, <2>5 DEF P
    <3> QED
      BY <3>1, JoinBalance
  <2>8. /\ BalanceOf(N \cap found, a) \in Int /\ BalanceOf(Q \cap found, a) \in Int
        /\ BalanceOf((N \cap found) \cup (Q \cap found), a)
               = BalanceOf(N \cap found, a) + BalanceOf(Q \cap found, a)
    <3>1. /\ N \cap found \in SUBSET TxOutId /\ Q \cap found \in SUBSET TxOutId
          /\ (N \cap found) \cap (Q \cap found) = {}
      BY <2>1, <2>5 DEF Q
    <3> QED
      BY <3>1, JoinBalance
  <2>9. InsTo(b, k) \cap found = (N \cap found) \cup (Q \cap found)
    BY <2>1 DEF Q
  <2>10. BalanceOf(OutsTo(b, k), a) = BalanceOf(O, a) + BalanceOf(P, a)
    BY <2>1, <2>7 DEF P
  <2>11. BalanceOf(InsTo(b, k) \cap found, a) = BalanceOf(N \cap found, a) + BalanceOf(Q \cap found, a)
    BY <2>8, <2>9
  <2> QED
    BY <2>4, <2>6, <2>7, <2>8, <2>10, <2>11
<1>4. OutsTo(b, 0) = {} /\ InsTo(b, 0) = {} /\ BalanceOf({}, a) = 0
  BY 1..0 = {}, BalanceAssumption DEF OutsTo, InsTo
<1>5. r[0] = 0
  <2>1. 0 \in 0..n /\ {} \cap found = {}
    BY <1>1
  <2> HIDE DEF n, found
  <2>2. r[0] = BalanceOf(OutsTo(b, 0), a) - BalanceOf(InsTo(b, 0) \cap found, a)
    BY <2>1
  <2>3. BalanceOf(OutsTo(b, 0), a) = 0 /\ BalanceOf(InsTo(b, 0) \cap found, a) = 0
    BY <1>4, <2>1
  <2> QED
    BY <2>2, <2>3
<1>6. r \in [0..n -> Int]
  <2>1. ASSUME NEW k \in 0..n
        PROVE  BalanceOf(OutsTo(b, k), a) - BalanceOf(InsTo(b, k) \cap found, a) \in Int
    <3>1. CASE k = 0
      <4>1. {} \cap found = {}
        OBVIOUS
      <4> HIDE DEF n, found
      <4>2. BalanceOf(OutsTo(b, k), a) = 0 /\ BalanceOf(InsTo(b, k) \cap found, a) = 0
        BY <1>4, <3>1, <4>1
      <4> QED
        BY <4>2
    <3>2. CASE k # 0
      <4>1. k \in 1..n
        BY <1>1, <3>2
      <4>2. BalanceOf(OutsTo(b, k), a) \in Int /\ BalanceOf(InsTo(b, k) \cap found, a) \in Int
        BY <1>3, <4>1
      <4> QED
        BY <4>2
    <3> QED
      BY <3>1, <3>2
  <2> QED
    BY <2>1
<1>7. DOMAIN s = 1..n
  BY <1>2
<1>8. Total(s) = r[n]
  <2> HIDE DEF s, r, n
  <2> QED
    BY <1>1, <1>3, <1>5, <1>6, <1>7, TotalOf
<1>9. r[n] = BlockDelta(block, a)
  <2>1. n \in 0..n /\ OutsTo(b, n) = Outs[b] /\ InsTo(b, n) = Ins[b]
    BY <1>1, WholeBlock
  <2>2. Ins[b] \cap found = found
    OBVIOUS
  <2>3. r[n] = BalanceOf(Outs[b], a) - BalanceOf(found, a)
    <3> HIDE DEF n, found
    <3> QED
      BY <2>1, <2>2
  <2> QED
    BY <2>3 DEF BlockDelta
<1>10. QueuedTxs(block) = txs
  BY QueuedIs
<1> HIDE DEF txs, r
<1> QED
  BY <1>8, <1>9, <1>10

LEMMA IndexIs ==
    ASSUME ManagerInv
    PROVE  IndexAgrees
<1> SUFFICES ASSUME NEW n \in DOMAIN pendingBlocks, NEW a \in Address
             PROVE  LET txs == QueuedTxs(pendingBlocks[n])
                    IN  Total([t \in DOMAIN txs |-> ForEachAddress(txs[t], a)])
                            = BlockDelta(pendingBlocks[n], a)
  BY DEF IndexAgrees
<1>1. pendingBlocks \in Seq(QueuedBlock) /\ n \in 1..Len(pendingBlocks)
  BY LenProperties DEF ManagerInv, TypeOK
<1>2. BlockOK(pendingBlocks, lastBlockHash, n)
  BY <1>1 DEF ManagerInv, QueueOK
<1>3. pendingBlocks[n] \in QueuedBlock
  BY <1>1, ElementOfSeq
<1> DEFINE block == pendingBlocks[n]
<1>4. block.hash \in Block /\ block.found \in SUBSET Ins[block.hash]
  BY <1>2, <1>3 DEF BlockOK, QueuedBlock
<1> HIDE DEF block
<1>5. LET txs == QueuedTxs(block)
      IN  Total([t \in DOMAIN txs |-> ForEachAddress(txs[t], a)]) = BlockDelta(block, a)
  BY <1>4, BlockMoved
<1> QED
  BY <1>5 DEF block

-----------------------------------------------------------------------------
\* What getBlockInputs and BulkGetTxOut collect in one pass, they find in the
\* same order in the next.

\* The sequences that joining n sequences goes through.
Joined(r, X, s, n) ==
    /\ r \in [0..n -> Seq(X)] /\ r[0] = <<>>
    /\ \A k \in 1..n : s[k] \in Seq(X) /\ r[k] = r[k - 1] \o s[k]

Starts(p, q) == Len(p) <= Len(q) /\ \A j \in 1..Len(p) : q[j] = p[j]

LEMMA ConcatStarts ==
    ASSUME NEW X, NEW p \in Seq(X), NEW q \in Seq(X), NEW x \in Seq(X), Starts(x, p)
    PROVE  Starts(x, p \o q) /\ Starts(p, p \o q)
<1>1. /\ Len(p \o q) = Len(p) + Len(q) /\ Len(p) \in Nat /\ Len(q) \in Nat /\ Len(x) \in Nat
      /\ \A j \in 1..(Len(p) + Len(q)) : (p \o q)[j] = IF j <= Len(p) THEN p[j] ELSE q[j - Len(p)]
  BY ConcatProperties, LenProperties
<1>2. \A j \in 1..Len(p) : j \in 1..(Len(p) + Len(q)) /\ j <= Len(p)
  BY <1>1
<1>3. \A j \in 1..Len(x) : j \in 1..Len(p)
  BY <1>1 DEF Starts
<1>4. \A j \in 1..Len(p) : (p \o q)[j] = p[j]
  BY <1>1, <1>2
<1>5. Starts(p, p \o q)
  BY <1>1, <1>4 DEF Starts
<1>6. Starts(x, p \o q)
  BY <1>1, <1>3, <1>4 DEF Starts
<1> QED
  BY <1>5, <1>6

\* Each of them is where the ones before it end.
LEMMA JoinedStarts ==
    ASSUME NEW X, NEW s, NEW n \in Nat, NEW r, Joined(r, X, s, n), NEW k \in 0..n
    PROVE  Starts(r[k], r[n])
<1> DEFINE H == {m \in Nat : k + m <= n => Starts(r[k], r[k + m])}
<1>1. \A m \in 0..n : r[m] \in Seq(X) /\ Len(r[m]) \in Nat
  BY LenProperties DEF Joined
<1>2. 0 \in H
  <2>1. k + 0 = k
    OBVIOUS
  <2>2. Starts(r[k], r[k])
    BY <1>1 DEF Starts
  <2> QED
    BY <2>1, <2>2
<1>3. ASSUME NEW m \in Nat, m \in H PROVE m + 1 \in H
  <2> SUFFICES ASSUME k + (m + 1) <= n PROVE Starts(r[k], r[k + (m + 1)])
    OBVIOUS
  <2> DEFINE i == k + (m + 1)
  <2>1. i \in 1..n /\ i - 1 = k + m /\ k + m <= n /\ i - 1 \in 0..n
    OBVIOUS
  <2>2. Starts(r[k], r[i - 1])
    BY <1>3, <2>1
  <2> HIDE DEF i
  <2>3. r[i] = r[i - 1] \o s[i] /\ s[i] \in Seq(X) /\ r[i - 1] \in Seq(X) /\ r[k] \in Seq(X)
    BY <1>1, <2>1 DEF Joined
  <2>4. Starts(r[k], r[i])
    BY <2>2, <2>3, ConcatStarts
  <2> QED
    BY <2>4 DEF i
<1>4. Nat \subseteq H
  <2> HIDE DEF H
  <2> QED
    BY <1>2, <1>3, SetInduction
<1>5. n - k \in Nat /\ k + (n - k) = n
  OBVIOUS
<1> QED
  BY <1>4, <1>5

PartAt(r, s, n, k) ==
    /\ Len(r[k - 1]) \in Nat
    /\ Len(r[k]) = Len(r[k - 1]) + Len(s[k])
    /\ \A j \in 1..Len(s[k]) : /\ Len(r[k - 1]) + j \in 1..Len(r[n])
                               /\ r[n][Len(r[k - 1]) + j] = s[k][j]

LEMMA JoinedPart ==
    ASSUME NEW X, NEW s, NEW n \in Nat, NEW r, Joined(r, X, s, n), NEW k \in 1..n
    PROVE  PartAt(r, s, n, k)
<1>1. k - 1 \in 0..n /\ k \in 0..n /\ n \in 0..n
  OBVIOUS
<1> DEFINE p == r[k - 1]
           q == s[k]
<1>2. p \in Seq(X) /\ q \in Seq(X) /\ r[k] = p \o q /\ r[n] \in Seq(X)
  BY <1>1 DEF Joined
<1>3. Starts(r[k], r[n])
  BY <1>1, JoinedStarts
<1> HIDE DEF p, q
<1>4. /\ Len(p \o q) = Len(p) + Len(q) /\ Len(p) \in Nat /\ Len(q) \in Nat /\ Len(r[n]) \in Nat
      /\ \A j \in 1..(Len(p) + Len(q)) : (p \o q)[j] = IF j <= Len(p) THEN p[j] ELSE q[j - Len(p)]
  BY <1>2, ConcatProperties, LenProperties
<1>5. ASSUME NEW j \in 1..Len(q)
      PROVE  Len(p) + j \in 1..Len(r[n]) /\ r[n][Len(p) + j] = q[j]
  <2>1. /\ Len(p) + j \in 1..(Len(p) + Len(q)) /\ ~(Len(p) + j <= Len(p)) /\ (Len(p) + j) - Len(p) = j
    BY <1>4
  <2>2. (p \o q)[Len(p) + j] = q[j]
    BY <1>4, <2>1
  <2>3. Len(r[k]) = Len(p) + Len(q) /\ Len(r[k]) <= Len(r[n])
    BY <1>2, <1>3, <1>4 DEF Starts
  <2>4. Len(p) + j \in 1..Len(r[k])
    BY <2>1, <2>3
  <2>5. r[n][Len(p) + j] = r[k][Len(p) + j]
    BY <1>3, <2>4 DEF Starts
  <2> QED
    BY <1>2, <1>4, <2>1, <2>2, <2>3, <2>5
<1> QED
  BY <1>2, <1>4, <1>5 DEF p, q, PartAt

Joins(flat, X, s, n) == \E r : Joined(r, X, s, n) /\ flat = r[n]

LEMMA FlattenJoins ==
    ASSUME NEW X, NEW n \in Nat, NEW s, s \in [1..n -> Seq(X)]
    PROVE  Joins(FlattenSeq(s), X, s, n)
<1>1. s \in [1..n -> Seq(X)]
  OBVIOUS
<1>2. s \in Seq(Seq(X)) /\ Len(s) = n
  BY <1>1, SeqDef, LenProperties
<1>3. PICK r : /\ r \in [0..Len(s) -> Seq(X)] /\ r[0] = <<>>
               /\ \A k \in 1..Len(s) : r[k] = r[k - 1] \o s[k]
               /\ FlattenSeq(s) = r[Len(s)]
  BY <1>2, FlattenIs
<1> QED
  BY <1>1, <1>2, <1>3 DEF Joined, Joins

\* One more value at the end.
LEMMA OneLonger ==
    ASSUME NEW X, NEW n \in Nat, NEW f \in [1..n -> X], NEW k \in 1..n
    PROVE  Append([j \in 1..(k - 1) |-> f[j]], f[k]) = [j \in 1..k |-> f[j]]
<1> DEFINE p == [j \in 1..(k - 1) |-> f[j]]
           q == [j \in 1..k |-> f[j]]
<1>1. k - 1 \in Nat /\ k \in Nat /\ \A j \in 1..k : j \in 1..n /\ (j # k => j \in 1..(k - 1))
  OBVIOUS
<1>2. p \in [1..(k - 1) -> X] /\ f[k] \in X
  BY <1>1
<1>3. p \in Seq(X) /\ Len(p) = k - 1
  BY <1>1, <1>2, SeqDef, LenProperties
<1> HIDE DEF p
<1>4. /\ Append(p, f[k]) \in Seq(X) /\ Len(Append(p, f[k])) = k
      /\ \A j \in 1..(k - 1) : Append(p, f[k])[j] = p[j]
      /\ Append(p, f[k])[k] = f[k]
  BY <1>1, <1>2, <1>3, AppendProperties
<1>5. \A j \in 1..k : Append(p, f[k])[j] = q[j]
  BY <1>1, <1>4 DEF p
<1>6. Append(p, f[k]) = [j \in 1..k |-> Append(p, f[k])[j]]
  BY <1>1, <1>4, LenProperties
<1> QED
  BY <1>5, <1>6 DEF p

-----------------------------------------------------------------------------
\* BulkGetTxOut, and the transactions it is not asked for.

\* What BulkGetTxOut hands out for an id.
Got(id) == IF id \in BulkGetTxOut({id}) THEN Data[id] ELSE Nowhere

LEMMA BulkGetIs ==
    ASSUME NEW ids \in Seq(TxOutId)
    PROVE  BulkGet(ids) = [i \in 1..Len(ids) |-> Got(ids[i])]
<1> DEFINE n == Len(ids)
           s == [i \in DOMAIN ids |-> IF ids[i] \in inserts THEN <<>> ELSE <<ids[i]>>]
           missing == FlattenSeq(s)
           fetched == [i \in DOMAIN missing |-> IF missing[i] \in utxo THEN Data[missing[i]]
                                                ELSE Nowhere]
           base == [outs |-> <<>>, next |-> 1]
           D == {Data[id] : id \in TxOutId} \cup {fetched[m] : m \in Nat} \cup {Nowhere}
           V == [outs : Seq(D), next : Nat]
           f == [i \in 1..n |-> Got(ids[i])]
<1>1. n \in Nat /\ DOMAIN ids = 1..n /\ \A i \in 1..n : ids[i] \in TxOutId
  BY LenProperties, ElementOfSeq
<1>2. /\ s = [i \in 1..n |-> IF ids[i] \in inserts THEN <<>> ELSE <<ids[i]>>]
      /\ \A i \in 1..n : s[i] = IF ids[i] \in inserts THEN <<>> ELSE <<ids[i]>>
  BY <1>1
<1>3. s \in [1..n -> Seq(TxOutId)]
  BY <1>1, <1>2
<1>4. PICK r : Joined(r, TxOutId, s, n) /\ missing = r[n]
  <2> HIDE DEF s, n
  <2>1. Joins(FlattenSeq(s), TxOutId, s, n)
    BY <1>1, <1>3, FlattenJoins
  <2> QED
    BY <2>1 DEF Joins
<1>5. n \in 0..n /\ 0 \in 0..n /\ \A k \in 1..n : k - 1 \in 0..n /\ k \in 0..n
  BY <1>1
<1>6. missing \in Seq(TxOutId) /\ DOMAIN missing = 1..Len(missing)
  <2>1. r[n] \in Seq(TxOutId)
    BY <1>4, <1>5 DEF Joined
  <2> HIDE DEF missing
  <2> QED
    BY <1>4, <2>1, LenProperties
<1>7. \A id \in TxOutId : Got(id) \in D
  BY DEF Got
<1>8. f \in [1..n -> D]
  <2> HIDE DEF D
  <2> QED
    BY <1>1, <1>7
<1> DEFINE G == [k \in 0..n |-> {[outs |-> [j \in 1..k |-> f[j]], next |-> Len(r[k]) + 1]}]
<1>9. base \in V /\ base \in G[0]
  <2>1. base \in V
    <3> HIDE DEF D
    <3> QED
      BY EmptySeq
  <2>2. G[0] = {[outs |-> [j \in 1..0 |-> f[j]], next |-> Len(r[0]) + 1]}
    BY <1>5
  <2>3. [j \in 1..0 |-> f[j]] = <<>>
    BY 1..0 = {}
  <2>4. r[0] = <<>> /\ Len(<<>>) = 0
    BY <1>4 DEF Joined
  <2> HIDE DEF G, f
  <2> QED
    BY <2>1, <2>2, <2>3, <2>4
<1>10. ASSUME NEW k \in 1..n, NEW v \in V
       PROVE  Place(fetched, v, ids[k]) \in V
  <2>1. Data[ids[k]] \in D /\ fetched[v.next] \in D
    BY <1>1
  <2>2. v.outs \in Seq(D) /\ v.next \in Nat
    <3> HIDE DEF D
    <3> QED
      OBVIOUS
  <2> HIDE DEF D, fetched
  <2>3. /\ Append(v.outs, IF ids[k] \in inserts THEN Data[ids[k]] ELSE fetched[v.next]) \in Seq(D)
        /\ (IF ids[k] \in inserts THEN v.next ELSE v.next + 1) \in Nat
    BY <2>1, <2>2, AppendProperties
  <2> QED
    BY <2>3 DEF Place
<1>11. ASSUME NEW k \in 1..n, NEW v \in V, v \in G[k - 1]
       PROVE  Place(fetched, v, ids[k]) \in G[k]
  <2> DEFINE id == ids[k]
             p == Len(r[k - 1])
  <2>1. v = [outs |-> [j \in 1..(k - 1) |-> f[j]], next |-> p + 1]
    BY <1>5, <1>11
  <2>2. /\ p \in Nat /\ Len(r[k]) = p + Len(s[k])
        /\ \A j \in 1..Len(s[k]) : p + j \in 1..Len(missing) /\ missing[p + j] = s[k][j]
    <3> HIDE DEF s, missing, n
    <3>1. PartAt(r, s, n, k)
      BY <1>1, <1>4, JoinedPart
    <3> QED
      BY <1>4, <3>1 DEF PartAt
  <2>3. G[k] = {[outs |-> [j \in 1..k |-> f[j]], next |-> Len(r[k]) + 1]}
    BY <1>5
  <2>4. f[k] = Got(id) /\ id \in TxOutId
    BY <1>1
  <2>5. Append([j \in 1..(k - 1) |-> f[j]], f[k]) = [j \in 1..k |-> f[j]]
    <3> HIDE DEF f, n, D
    <3> QED
      BY <1>1, <1>8, OneLonger
  <2>6. s[k] = IF id \in inserts THEN <<>> ELSE <<id>>
    BY <1>2
  <2>7. CASE id \in inserts
    <3>1. Got(id) = Data[id]
      BY <2>7 DEF Got, BulkGetTxOut
    <3>2. Len(r[k]) = p
      <4>1. Len(s[k]) = 0
        BY <2>6, <2>7
      <4> HIDE DEF s, p
      <4> QED
        BY <2>2, <4>1
    <3> HIDE DEF f, G, id, p, fetched
    <3>3. Place(fetched, v, id)
              = [outs |-> Append([j \in 1..(k - 1) |-> f[j]], f[k]), next |-> p + 1]
      BY <2>1, <2>4, <2>7, <3>1 DEF Place
    <3> QED
      BY <2>3, <2>5, <3>2, <3>3 DEF id
  <2>8. CASE id \notin inserts
    <3>0. s[k] = <<id>> /\ Len(s[k]) = 1 /\ s[k][1] = id
      BY <2>6, <2>8
    <3> HIDE DEF s
    <3>1. Len(r[k]) = p + 1 /\ p + 1 \in 1..Len(missing) /\ missing[p + 1] = id
      BY <2>2, <3>0
    <3>2. fetched[p + 1] = IF id \in utxo THEN Data[id] ELSE Nowhere
      <4>1. p + 1 \in DOMAIN missing
        BY <1>6, <3>1
      <4> HIDE DEF missing, p, id
      <4> QED
        BY <3>1, <4>1
    <3>3. fetched[p + 1] = f[k]
      BY <2>4, <2>8, <3>2 DEF Got, BulkGetTxOut
    <3> HIDE DEF f, G, id, p, fetched
    <3>4. Place(fetched, v, id)
              = [outs |-> Append([j \in 1..(k - 1) |-> f[j]], f[k]), next |-> (p + 1) + 1]
      BY <2>1, <2>8, <3>3 DEF Place
    <3> QED
      BY <2>3, <2>5, <3>1, <3>4 DEF id
  <2> QED
    BY <2>7, <2>8
<1> DEFINE got == Placed(ids, fetched)
<1>12. got \in G[n]
  <2>1. base = [outs |-> <<>>, next |-> 1]
    OBVIOUS
  <2> HIDE DEF G, V, base, n, fetched
  <2>2. PlacesIds(V, G, base, ids, n, fetched)
    BY <1>1, <1>9, <1>10, <1>11, <2>1 DEF PlacesIds
  <2>3. Placed(ids, fetched) \in G[n]
    BY <1>1, <2>2, PlacesIdsTo
  <2> QED
    BY <2>3
<1>13. BulkGet(ids) = got.outs
  BY DEF BulkGet
<1>14. got.outs = [j \in 1..n |-> f[j]]
  <2>1. got = [outs |-> [j \in 1..n |-> f[j]], next |-> Len(r[n]) + 1]
    <3> HIDE DEF got, f, n
    <3> QED
      BY <1>5, <1>12
  <2> HIDE DEF got, f, n
  <2> QED
    BY <2>1
<1> HIDE DEF got
<1> QED
  BY <1>13, <1>14

-----------------------------------------------------------------------------
\* The transaction of an output, wherever it is found, gives its data.
LEMMA NearIs ==
    ASSUME ManagerInv, NEW b \in Block, NEW id \in TxOutId, id # NullId
    PROVE  /\ Near(BuildBlock(b), id) # {} <=> id \in PendingOuts \cup Outs[b]
           /\ Near(BuildBlock(b), id) # {} => NearData(BuildBlock(b), id) = Data[id]
<1> DEFINE all == UNION {ToSet(WireBlock[c]) : c \in Block}
           txs == BuildBlock(b)
<1>1. /\ \A v, w \in all : v.hash = w.hash => v = w
      /\ TxOutId = {NullId} \cup UNION {OutsOf(wire) : wire \in all}
      /\ \A wire \in all : \A n \in DOMAIN wire.out : Data[<<wire.hash, n>>] = wire.out[n]
  BY IdAssumption
<1>2. PICK w \in all : id \in OutsOf(w)
  BY <1>1
<1>3. PICK n \in DOMAIN w.out : id = <<w.hash, n>>
  BY <1>2 DEF OutsOf
<1>4. id[1] = w.hash /\ id[2] = n
  BY <1>3
\* The transactions of a block with the hash of the output are the one that has it.
<1>5. ASSUME NEW c \in Block
      PROVE  {tx \in ToSet(BuildBlock(c)) : tx.hash = id[1]}
                 = IF id \in Outs[c] THEN {BuildTx(w)} ELSE {}
  <2>1. ToSet(BuildBlock(c)) = {BuildTx(v) : v \in Wires(c)}
    <3>1. /\ DOMAIN BuildBlock(c) = DOMAIN WireBlock[c]
          /\ \A i \in DOMAIN WireBlock[c] : BuildBlock(c)[i] = BuildTx(WireBlock[c][i])
      BY DEF BuildBlock
    <3> QED
      BY <3>1 DEF ToSet, Wires
  <2>2. \A v : BuildTx(v).hash = v.hash
    BY DEF BuildTx
  <2>3. \A v \in Wires(c) : v \in all
    BY DEF Wires
  <2>4. Outs[c] = UNION {OutsOf(v) : v \in Wires(c)}
    BY BlocksAssumption DEF Wires
  <2>5. \A v \in Wires(c) : v.hash = id[1] => v = w
    BY <1>1, <1>4, <2>3
  <2> HIDE DEF all
  <2>6. id \in Outs[c] <=> w \in Wires(c)
    <3>1. ASSUME NEW v \in Wires(c), id \in OutsOf(v) PROVE v = w
      <4>1. v.hash = id[1]
        BY <3>1 DEF OutsOf
      <4> QED
        BY <2>5, <4>1
    <3> QED
      BY <1>2, <2>4, <3>1
  <2>7. {tx \in {BuildTx(v) : v \in Wires(c)} : tx.hash = id[1]}
            = IF w \in Wires(c) THEN {BuildTx(w)} ELSE {}
    BY <1>4, <2>2, <2>5
  <2> QED
    BY <2>1, <2>6, <2>7
<1>6. InBlock(txs, id[1]) = IF id \in Outs[b] THEN {BuildTx(w)} ELSE {}
  BY <1>5 DEF InBlock
<1>7. PendingTx(id[1]) = IF id \in PendingOuts THEN {BuildTx(w)} ELSE {}
  <2>1. /\ DOMAIN pendingBlocks = 1..Len(pendingBlocks)
        /\ \A i \in DOMAIN pendingBlocks : pendingBlocks[i].hash \in Block
    <3>1. pendingBlocks \in Seq(QueuedBlock)
      BY DEF ManagerInv, TypeOK
    <3>2. DOMAIN pendingBlocks = 1..Len(pendingBlocks)
          /\ \A i \in 1..Len(pendingBlocks) : pendingBlocks[i] \in QueuedBlock
      BY <3>1, LenProperties, ElementOfSeq
    <3> QED
      BY <3>2 DEF QueuedBlock
  <2>2. \A i \in DOMAIN pendingBlocks :
            {tx \in ToSet(BuildBlock(pendingBlocks[i].hash)) : tx.hash = id[1]}
                = IF id \in Outs[pendingBlocks[i].hash] THEN {BuildTx(w)} ELSE {}
    BY <1>5, <2>1
  <2>3. PendingTx(id[1]) = UNION {IF id \in Outs[pendingBlocks[i].hash] THEN {BuildTx(w)} ELSE {} :
                                     i \in DOMAIN pendingBlocks}
    BY <2>2 DEF PendingTx
  <2>4. PendingOuts = UNION {Outs[pendingBlocks[i].hash] : i \in DOMAIN pendingBlocks}
    BY <2>1 DEF PendingOuts
  <2> QED
    BY <2>3, <2>4
<1>8. Near(txs, id) = IF id \in PendingOuts \cup Outs[b] THEN {BuildTx(w)} ELSE {}
  <2> HIDE DEF txs
  <2> QED
    BY <1>6, <1>7 DEF Near
<1>9. BuildTx(w).out[id[2]].data = Data[id]
  <2>1. BuildTx(w).out[n].data = w.out[n]
    BY DEF BuildTx
  <2>2. Data[<<w.hash, n>>] = w.out[n]
    BY <1>1
  <2> QED
    BY <1>3, <1>4, <2>1, <2>2
<1>10. ASSUME Near(txs, id) # {} PROVE NearData(txs, id) = Data[id]
  <2>1. Near(txs, id) = {BuildTx(w)}
    BY <1>8, <1>10
  <2>2. (CHOOSE tx \in Near(txs, id) : TRUE) = BuildTx(w)
    <3> HIDE DEF txs
    <3> QED
      BY <2>1
  <2> HIDE DEF txs
  <2> QED
    BY <1>9, <2>2 DEF NearData
<1> QED
  BY <1>8, <1>10

-----------------------------------------------------------------------------
\* The second pass of getBlockInputs, over the inputs of a transaction.

\* What getBlockInputs knows of an input, before and after.
Bare(id) == [id |-> id, data |-> Nowhere]

LEMMA BareIs == ASSUME NEW id PROVE Bare(id).id = id
BY DEF Bare

LEMMA BuiltIns ==
    ASSUME NEW b \in Block, NEW wire \in Wires(b)
    PROVE  /\ Len(wire.in) \in Nat /\ DOMAIN wire.in = 1..Len(wire.in)
           /\ \A i \in 1..Len(wire.in) : wire.in[i] \in TxOutId
           /\ DOMAIN BuildTx(wire).in = 1..Len(wire.in)
           /\ Len(BuildTx(wire).in) = Len(wire.in)
           /\ \A i \in 1..Len(wire.in) : BuildTx(wire).in[i] = Bare(wire.in[i])
<1>1. wire.in \in Seq(TxOutId)
  BY WireOK
<1>2. /\ Len(wire.in) \in Nat /\ DOMAIN wire.in = 1..Len(wire.in)
      /\ \A i \in 1..Len(wire.in) : wire.in[i] \in TxOutId
  BY <1>1, LenProperties, ElementOfSeq
<1>3. BuildTx(wire).in = [i \in DOMAIN wire.in |-> Bare(wire.in[i])]
  BY DEF BuildTx, Bare
<1>4. BuildTx(wire).in \in [1..Len(wire.in) -> {Bare(id) : id \in TxOutId}]
  BY <1>2, <1>3
<1>5. BuildTx(wire).in \in Seq({Bare(id) : id \in TxOutId})
  BY <1>2, <1>4, SeqDef
<1>6. Len(BuildTx(wire).in) = Len(wire.in)
  BY <1>2, <1>4, <1>5, LenProperties
<1> QED
  BY <1>2, <1>3, <1>6

LEMMA CoinBaseIs ==
    ASSUME NEW b \in Block, NEW wire \in Wires(b)
    PROVE  IsCoinBase(BuildTx(wire)) <=> NullId \in ToSet(wire.in)
<1> DEFINE n == Len(wire.in)
           tx == BuildTx(wire)
<1>1. n \in Nat /\ DOMAIN wire.in = 1..n /\ Len(tx.in) = n
      /\ \A i \in 1..n : tx.in[i] = Bare(wire.in[i])
  BY BuiltIns
<1>2. NullId \in ToSet(wire.in) => n = 1
  BY OrderAssumption DEF Wires
<1>3. ToSet(wire.in) = {wire.in[i] : i \in 1..n}
  BY <1>1 DEF ToSet
<1>4. CASE n = 1
  <2>1. ToSet(wire.in) = {wire.in[1]} /\ 1 \in 1..n
    BY <1>3, <1>4
  <2> HIDE DEF tx, n
  <2>2. tx.in[1].id = wire.in[1]
    <3>1. tx.in[1] = Bare(wire.in[1])
      BY <1>1, <1>4, <2>1
    <3> QED
      BY <3>1, BareIs
  <2> QED
    <3>1. NullId \in ToSet(wire.in) <=> wire.in[1] = NullId
      BY <2>1
    <3>2. IsCoinBase(tx) <=> tx.in[1].id = NullId
      BY <1>1, <1>4 DEF IsCoinBase
    <3>3. IsCoinBase(tx) <=> NullId \in ToSet(wire.in)
      BY <2>2, <3>1, <3>2
    <3> QED
      BY <3>3 DEF tx
<1>5. CASE n # 1
  BY <1>1, <1>2, <1>5 DEF IsCoinBase
<1> QED
  BY <1>4, <1>5

\* Ids of the inputs that are looked up, one sequence for each input.
Asked(txs, ids) ==
    [i \in 1..Len(ids) |-> IF Near(txs, ids[i]) # {} THEN <<>> ELSE <<ids[i]>>]

LEMMA MissingIs ==
    ASSUME NEW b \in Block, NEW wire \in Wires(b), NEW txs
    PROVE  /\ Asked(txs, wire.in) \in [1..Len(wire.in) -> Seq(TxOutId)]
           /\ Missing(txs, BuildTx(wire))
                  = IF NullId \in ToSet(wire.in) THEN <<>> ELSE FlattenSeq(Asked(txs, wire.in))
           /\ Missing(txs, BuildTx(wire)) \in Seq(TxOutId)
<1> DEFINE n == Len(wire.in)
           tx == BuildTx(wire)
           s == Asked(txs, wire.in)
<1>1. /\ n \in Nat /\ DOMAIN tx.in = 1..n
      /\ \A i \in 1..n : wire.in[i] \in TxOutId /\ tx.in[i] = Bare(wire.in[i])
  BY BuiltIns
<1>2. s \in [1..n -> Seq(TxOutId)]
  BY <1>1 DEF Asked
<1>3. \A i \in 1..n : tx.in[i].id = wire.in[i]
  <2> HIDE DEF tx
  <2> SUFFICES ASSUME NEW i \in 1..n PROVE tx.in[i].id = wire.in[i]
    OBVIOUS
  <2>1. tx.in[i] = Bare(wire.in[i])
    BY <1>1
  <2> QED
    BY <2>1, BareIs
<1>4. [i \in DOMAIN tx.in |-> IF Near(txs, tx.in[i].id) # {} THEN <<>> ELSE <<tx.in[i].id>>] = s
  <2> HIDE DEF tx
  <2> QED
    BY <1>1, <1>3 DEF Asked
<1>5. Missing(txs, tx) = IF NullId \in ToSet(wire.in) THEN <<>> ELSE FlattenSeq(s)
  <2>1. IsCoinBase(tx) <=> NullId \in ToSet(wire.in)
    BY CoinBaseIs
  <2> HIDE DEF tx, s
  <2> QED
    BY <1>4, <2>1 DEF Missing
<1>6. FlattenSeq(s) \in Seq(TxOutId)
  <2>1. PICK r : Joined(r, TxOutId, s, n) /\ FlattenSeq(s) = r[n]
    <3> HIDE DEF s, n
    <3>1. Joins(FlattenSeq(s), TxOutId, s, n)
      BY <1>1, <1>2, FlattenJoins
    <3> QED
      BY <3>1 DEF Joins
  <2>2. r \in [0..n -> Seq(TxOutId)] /\ n \in 0..n
    BY <1>1, <2>1 DEF Joined
  <2> HIDE DEF s, n
  <2> QED
    BY <2>1, <2>2
<1>7. Missing(txs, tx) \in Seq(TxOutId)
  <2>1. <<>> \in Seq(TxOutId)
    OBVIOUS
  <2> HIDE DEF tx, s
  <2> QED
    BY <1>5, <1>6, <2>1
<1> QED
  BY <1>2, <1>5, <1>7

\* The data of an input comes from the queue or the block, or is what was got.
LEMMA SpentIs ==
    ASSUME ManagerInv, ~Sync, NEW b \in Block, NEW wire \in Wires(b),
           NEW id \in ToSet(wire.in), id # NullId
    PROVE  /\ id \in TxOutId
           /\ Near(BuildBlock(b), id) # {}
                 => Spent(id, FoundInputs(b)) = [id |-> id, data |-> NearData(BuildBlock(b), id)]
           /\ Near(BuildBlock(b), id) = {}
                 => Spent(id, FoundInputs(b)) = [id |-> id, data |-> Got(id)]
<1>1. id \in TxOutId
  BY OutsIds
<1>2. id \in Ins[b]
  BY BlocksAssumption DEF Wires
<1>3. /\ Near(BuildBlock(b), id) # {} <=> id \in PendingOuts \cup Outs[b]
      /\ Near(BuildBlock(b), id) # {} => NearData(BuildBlock(b), id) = Data[id]
  BY <1>1, NearIs
<1>4. id \in FoundInputs(b) <=> id \in PendingOuts \cup Outs[b] \/ id \in inserts \cup utxo
  BY <1>2 DEF FoundInputs, BulkGetTxOut
<1>5. id \in BulkGetTxOut({id}) <=> id \in inserts \cup utxo
  BY DEF BulkGetTxOut
<1> QED
  BY <1>1, <1>3, <1>4, <1>5 DEF Spent, Got

-----------------------------------------------------------------------------
\* Data that getBlockInputs may give to an input, and the inputs with it.
Given(txs, md) == {NearData(txs, id) : id \in TxOutId} \cup {md[m] : m \in Nat}
GivenIn(txs, md) == [id : TxOutId, data : Given(txs, md)]

LEMMA FillType ==
    ASSUME NEW txs, NEW md, NEW id \in TxOutId,
           NEW v \in [in : Seq(GivenIn(txs, md)), next : Nat]
    PROVE  Fill(txs, md, v, Bare(id)) \in [in : Seq(GivenIn(txs, md)), next : Nat]
<1> DEFINE K == GivenIn(txs, md)
           V == [in : Seq(GivenIn(txs, md)), next : Nat]
<1>1. NearData(txs, id) \in Given(txs, md) /\ md[v.next] \in Given(txs, md)
  BY DEF Given
<1>2. /\ [Bare(id) EXCEPT !.data = NearData(txs, id)] \in K
      /\ [Bare(id) EXCEPT !.data = md[v.next]] \in K
  BY <1>1 DEF Bare, GivenIn
<1>3. v.in \in Seq(K) /\ v.next \in Nat /\ v = [in |-> v.in, next |-> v.next]
  OBVIOUS
<1>4. Bare(id).id = id
  BY DEF Bare
<1> DEFINE x == [Bare(id) EXCEPT !.data = NearData(txs, id)]
           y == [Bare(id) EXCEPT !.data = md[v.next]]
<1>5. Fill(txs, md, v, Bare(id))
          = IF Near(txs, id) # {} THEN [v EXCEPT !.in = Append(@, x)]
            ELSE [in |-> Append(v.in, y), next |-> v.next + 1]
  BY <1>4 DEF Fill
<1>6. x \in K /\ y \in K
  BY <1>2
<1>8. V = [in : Seq(K), next : Nat]
  OBVIOUS
<1> HIDE DEF K, x, y, V
<1>7. Append(v.in, x) \in Seq(K) /\ Append(v.in, y) \in Seq(K)
  BY <1>3, <1>6, AppendProperties
<1>9. [v EXCEPT !.in = Append(@, x)] = [in |-> Append(v.in, x), next |-> v.next]
  BY <1>3
<1>10. Fill(txs, md, v, Bare(id)) \in V
  <2>1. [in |-> Append(v.in, x), next |-> v.next] \in V
    BY <1>3, <1>7, <1>8
  <2>2. [in |-> Append(v.in, y), next |-> v.next + 1] \in V
    BY <1>3, <1>7, <1>8
  <2> QED
    BY <1>5, <1>9, <2>1, <2>2
<1> QED
  BY <1>10 DEF V

LEMMA FilledType ==
    ASSUME NEW txs, NEW md, NEW b \in Block, NEW wire \in Wires(b), NEW next \in Nat
    PROVE  Filled(txs, md, next, BuildTx(wire).in) \in [in : Seq(GivenIn(txs, md)), next : Nat]
<1> DEFINE V == [in : Seq(GivenIn(txs, md)), next : Nat]
           n == Len(wire.in)
           ins == BuildTx(wire).in
           base == [in |-> <<>>, next |-> next]
           G == [k \in 0..n |-> V]
<1>1. /\ n \in Nat /\ DOMAIN ins = 1..n
      /\ \A i \in 1..n : wire.in[i] \in TxOutId /\ ins[i] = Bare(wire.in[i])
  BY BuiltIns
<1>2. base \in V /\ base \in G[0]
  <2>1. base \in V
    OBVIOUS
  <2>2. 0 \in 0..n
    BY <1>1
  <2> HIDE DEF V, base
  <2> QED
    BY <2>1, <2>2
<1>3. ASSUME NEW k \in 1..n, NEW v \in V PROVE Fill(txs, md, v, ins[k]) \in V
  BY <1>1, FillType
<1>4. ASSUME NEW k \in 1..n, NEW v \in V, v \in G[k - 1] PROVE Fill(txs, md, v, ins[k]) \in G[k]
  <2>1. k \in 0..n
    BY <1>1
  <2> HIDE DEF V, ins
  <2> QED
    BY <1>3, <2>1
<1>5. base = [in |-> <<>>, next |-> next]
  OBVIOUS
<1> HIDE DEF V, G, base, n, ins
<1>6. Filled(txs, md, next, ins) \in V
  BY <1>1, <1>2, <1>3, <1>4, <1>5, FillKeeps
<1> QED
  BY <1>6 DEF V, ins

\* The data got for the missing inputs of a transaction begins at a place.
HandsOut(md, start, missing) ==
    \A j \in 1..Len(missing) : md[start + j] = Got(missing[j])

LEMMA FilledIs ==
    ASSUME ManagerInv, ~Sync, NEW b \in Block, NEW wire \in Wires(b),
           NullId \notin ToSet(wire.in), NEW md, NEW start \in Nat,
           HandsOut(md, start, Missing(BuildBlock(b), BuildTx(wire)))
    PROVE  Filled(BuildBlock(b), md, start + 1, BuildTx(wire).in)
               = [in   |-> TxWith(wire, FoundInputs(b)).in,
                  next |-> start + Len(Missing(BuildBlock(b), BuildTx(wire))) + 1]
<1> DEFINE txs == BuildBlock(b)
           found == FoundInputs(b)
           missing == Missing(txs, BuildTx(wire))
           n == Len(wire.in)
           ins == BuildTx(wire).in
           f == TxWith(wire, found).in
           s == Asked(txs, wire.in)
           K == GivenIn(txs, md)
           V == [in : Seq(K), next : Nat]
           next == start + 1
           base == [in |-> <<>>, next |-> next]
<1>1. /\ n \in Nat /\ DOMAIN wire.in = 1..n /\ DOMAIN ins = 1..n
      /\ \A i \in 1..n : wire.in[i] \in TxOutId /\ ins[i] = Bare(wire.in[i])
  BY BuiltIns
<1>2. s \in [1..n -> Seq(TxOutId)] /\ missing = FlattenSeq(s)
  BY MissingIs
<1>3. PICK r : Joined(r, TxOutId, s, n) /\ missing = r[n]
  <2> HIDE DEF s, n, missing
  <2>1. Joins(FlattenSeq(s), TxOutId, s, n)
    BY <1>1, <1>2, FlattenJoins
  <2> QED
    BY <1>2, <2>1 DEF Joins
<1>4. n \in 0..n /\ 0 \in 0..n /\ \A k \in 1..n : k - 1 \in 0..n /\ k \in 0..n
  BY <1>1
<1>5. f = [i \in 1..n |-> Spent(wire.in[i], found)]
  BY <1>1 DEF TxWith
<1>6. \A k \in 1..n : s[k] = IF Near(txs, wire.in[k]) # {} THEN <<>> ELSE <<wire.in[k]>>
  <2> HIDE DEF txs
  <2> QED
    BY DEF Asked
<1>7. \A k \in 1..n : wire.in[k] \in ToSet(wire.in) /\ wire.in[k] # NullId
  BY <1>1 DEF ToSet
<1> DEFINE L == Known \cup K
           G == [k \in 0..n |-> {[in |-> [j \in 1..k |-> f[j]], next |-> start + Len(r[k]) + 1]}]
<1>8. f \in [1..n -> Known]
  BY <1>1, <1>5, KnownIs
<1>9. ASSUME NEW k \in 1..n, NEW v \in V PROVE Fill(txs, md, v, ins[k]) \in V
  <2> HIDE DEF txs, ins
  <2> QED
    BY <1>1, FillType
<1>10. base \in V /\ base \in G[0]
  <2>1. base \in V
    <3> HIDE DEF K
    <3> QED
      OBVIOUS
  <2>2. G[0] = {[in |-> [j \in 1..0 |-> f[j]], next |-> start + Len(r[0]) + 1]}
    BY <1>4
  <2>3. [j \in 1..0 |-> f[j]] = <<>>
    BY 1..0 = {}
  <2>4. r[0] = <<>> /\ Len(<<>>) = 0
    BY <1>3 DEF Joined
  <2> HIDE DEF G, f
  <2>5. G[0] = {[in |-> <<>>, next |-> start + 0 + 1]}
    BY <2>2, <2>3, <2>4
  <2> QED
    BY <2>1, <2>5
<1>11. ASSUME NEW k \in 1..n, NEW v \in V, v \in G[k - 1] PROVE Fill(txs, md, v, ins[k]) \in G[k]
  <2> DEFINE id == wire.in[k]
             p == Len(r[k - 1])
             x == f[k]
  <2>1. v = [in |-> [j \in 1..(k - 1) |-> f[j]], next |-> start + p + 1]
    BY <1>4, <1>11
  <2>2. /\ p \in Nat /\ Len(r[k]) = p + Len(s[k])
        /\ \A j \in 1..Len(s[k]) : p + j \in 1..Len(missing) /\ missing[p + j] = s[k][j]
    <3> HIDE DEF s, missing, n
    <3>1. PartAt(r, s, n, k)
      BY <1>1, <1>3, JoinedPart
    <3> QED
      BY <1>3, <3>1 DEF PartAt
  <2>3. G[k] = {[in |-> [j \in 1..k |-> f[j]], next |-> start + Len(r[k]) + 1]}
    BY <1>4
  <2>4. x = Spent(id, found) /\ id \in ToSet(wire.in) /\ id # NullId
    BY <1>5, <1>7
  <2>5. Append([j \in 1..(k - 1) |-> f[j]], x) = [j \in 1..k |-> f[j]]
    <3> HIDE DEF f, n, K
    <3> QED
      BY <1>1, <1>8, OneLonger
  <2>6. s[k] = IF Near(txs, id) # {} THEN <<>> ELSE <<id>>
    BY <1>6
  <2>7. /\ Near(txs, id) # {} => x = [id |-> id, data |-> NearData(txs, id)]
        /\ Near(txs, id) = {} => x = [id |-> id, data |-> Got(id)]
    <3> HIDE DEF f, id
    <3> QED
      BY <2>4, SpentIs
  <2>8. ins[k] = Bare(id) /\ Bare(id).id = id
    BY <1>1 DEF Bare
  <2>9. \A d : [Bare(id) EXCEPT !.data = d] = [id |-> id, data |-> d]
    BY DEF Bare
  <2> HIDE DEF f, G, txs, ins, id, found
  <2>10. CASE Near(txs, id) # {}
    <3>1. Len(r[k]) = p
      <4>1. Len(s[k]) = 0
        BY <2>6, <2>10
      <4> HIDE DEF s, p
      <4> QED
        BY <2>2, <4>1
    <3>2. [Bare(id) EXCEPT !.data = NearData(txs, id)] = x
      BY <2>7, <2>9, <2>10
    <3>3. Fill(txs, md, v, ins[k]) = [v EXCEPT !.in = Append(@, x)]
      BY <2>8, <2>10, <3>2 DEF Fill
    <3> HIDE DEF p, x
    <3>4. Fill(txs, md, v, ins[k])
              = [in |-> Append([j \in 1..(k - 1) |-> f[j]], x), next |-> start + p + 1]
      BY <2>1, <3>3
    <3> QED
      BY <2>3, <2>5, <3>1, <3>4
  <2>11. CASE Near(txs, id) = {}
    <3>1. s[k] = <<id>> /\ Len(s[k]) = 1 /\ s[k][1] = id
      BY <2>6, <2>11
    <3> HIDE DEF s, missing, p, x
    <3>2. Len(r[k]) = p + 1 /\ p + 1 \in 1..Len(missing) /\ missing[p + 1] = id
      BY <2>2, <3>1
    <3>3. md[start + (p + 1)] = Got(id) /\ start + (p + 1) = start + p + 1
      <4>1. HandsOut(md, start, missing)
        BY DEF missing, txs
      <4> QED
        BY <2>2, <3>2, <4>1 DEF HandsOut
    <3>4. [Bare(id) EXCEPT !.data = md[start + p + 1]] = x
      BY <2>7, <2>9, <2>11, <3>3
    <3>5. v.in = [j \in 1..(k - 1) |-> f[j]] /\ v.next = start + p + 1
      BY <2>1
    <3>6. Fill(txs, md, v, ins[k])
              = [in |-> Append([j \in 1..(k - 1) |-> f[j]], x), next |-> start + p + 1 + 1]
      BY <2>8, <2>11, <3>4, <3>5 DEF Fill
    <3>7. start + Len(r[k]) + 1 = start + p + 1 + 1
      BY <2>2, <3>2
    <3> QED
      BY <2>3, <2>5, <3>6, <3>7
  <2> QED
    BY <2>10, <2>11
<1>12. base = [in |-> <<>>, next |-> next]
  OBVIOUS
<1> DEFINE filled == Filled(txs, md, next, ins)
<1>13. filled \in G[n]
  <2> HIDE DEF G, V, base, n, ins, next, txs
  <2> QED
    BY <1>1, <1>9, <1>10, <1>11, <1>12, FillKeeps
<1>14. filled = [in |-> [j \in 1..n |-> f[j]], next |-> start + Len(r[n]) + 1]
  <2> HIDE DEF filled, f, n
  <2> QED
    BY <1>4, <1>13
<1>15. [j \in 1..n |-> f[j]] = f
  BY <1>5
<1> HIDE DEF f, n, missing
<1>16. filled = [in |-> f, next |-> start + Len(missing) + 1]
  BY <1>3, <1>14, <1>15
<1> QED
  BY <1>16 DEF f, missing

-----------------------------------------------------------------------------
\* The second pass of getBlockInputs, over the transactions of a block.

LEMMA BuiltTx ==
    ASSUME NEW b \in Block, NEW wire \in Wires(b), NEW found
    PROVE  /\ BuildTx(wire) = [hash |-> wire.hash, in |-> BuildTx(wire).in,
                               out |-> TxWith(wire, found).out]
           /\ TxWith(wire, found) = [BuildTx(wire) EXCEPT !.in = TxWith(wire, found).in]
           /\ NullId \in ToSet(wire.in) => TxWith(wire, found) = BuildTx(wire)
<1> DEFINE tx == BuildTx(wire)
           out == TxWith(wire, found).out
<1>1. \A n \in DOMAIN wire.out : Data[<<wire.hash, n>>] = wire.out[n]
  BY WireOK
<1>2. out = [n \in DOMAIN wire.out |-> Created(<<wire.hash, n>>)]
  BY DEF TxWith
<1>3. tx.out = [n \in DOMAIN wire.out |-> [id |-> <<wire.hash, n>>, data |-> wire.out[n]]]
  BY DEF BuildTx
<1>4. tx.out = out
  <2> HIDE DEF tx, out
  <2> QED
    BY <1>1, <1>2, <1>3 DEF Created
<1>5. tx = [hash |-> wire.hash, in |-> tx.in, out |-> tx.out]
  BY DEF BuildTx
<1>6. TxWith(wire, found) = [hash |-> wire.hash, in |-> TxWith(wire, found).in, out |-> out]
  BY DEF TxWith
<1>7. ASSUME NullId \in ToSet(wire.in) PROVE TxWith(wire, found).in = tx.in
  <2>1. /\ Len(wire.in) \in Nat /\ DOMAIN wire.in = 1..Len(wire.in)
        /\ DOMAIN tx.in = 1..Len(wire.in)
        /\ \A i \in 1..Len(wire.in) : tx.in[i] = Bare(wire.in[i])
    BY BuiltIns
  <2>2. Len(wire.in) = 1
    BY <1>7, OrderAssumption DEF Wires
  <2>3. \A i \in 1..1 : wire.in[i] = NullId
    BY <1>7, <2>1, <2>2 DEF ToSet
  <2>4. Spent(NullId, found) = Bare(NullId)
    BY WireAssumption DEF Spent, Bare
  <2>5. TxWith(wire, found).in = [i \in 1..1 |-> Spent(wire.in[i], found)]
    BY <2>1, <2>2 DEF TxWith
  <2>6. tx.in = [i \in 1..1 |-> Bare(wire.in[i])]
    <3>1. tx.in = [i \in DOMAIN wire.in |-> Bare(wire.in[i])]
      BY DEF BuildTx, Bare
    <3> HIDE DEF tx
    <3> QED
      BY <2>1, <2>2, <3>1
  <2> HIDE DEF tx
  <2> QED
    BY <2>3, <2>4, <2>5, <2>6
<1> HIDE DEF tx, out
<1>8. TxWith(wire, found) = [tx EXCEPT !.in = TxWith(wire, found).in]
  BY <1>4, <1>5, <1>6
<1>9. NullId \in ToSet(wire.in) => TxWith(wire, found) = tx
  BY <1>4, <1>5, <1>6, <1>7
<1>10. tx = [hash |-> wire.hash, in |-> tx.in, out |-> out]
  BY <1>4, <1>5
<1> QED
  BY <1>8, <1>9, <1>10 DEF tx, out

\* A transaction whose inputs are looked up, or the coinbase.
FilledTx(txs, md) ==
    {BuildTx(wire) : wire \in WireTxs}
        \cup {[BuildTx(wire) EXCEPT !.in = in] : wire \in WireTxs, in \in Seq(GivenIn(txs, md))}

LEMMA FillTxType ==
    ASSUME NEW txs, NEW md, NEW b \in Block, NEW wire \in Wires(b),
           NEW v \in [txs : Seq(FilledTx(txs, md)), next : Nat]
    PROVE  FillTx(txs, md, v, BuildTx(wire)) \in [txs : Seq(FilledTx(txs, md)), next : Nat]
<1> DEFINE T == FilledTx(txs, md)
           V == [txs : Seq(FilledTx(txs, md)), next : Nat]
           tx == BuildTx(wire)
           filled == Filled(txs, md, v.next, tx.in)
           new == [tx EXCEPT !.in = filled.in]
<1>1. v.txs \in Seq(T) /\ v.next \in Nat /\ v = [txs |-> v.txs, next |-> v.next]
  OBVIOUS
<1>2. filled \in [in : Seq(GivenIn(txs, md)), next : Nat]
  BY <1>1, FilledType
<1>3. filled.in \in Seq(GivenIn(txs, md)) /\ filled.next \in Nat
  <2> HIDE DEF filled
  <2> QED
    BY <1>2
<1>4. wire \in WireTxs
  BY WireOK
<1>5. tx \in T /\ new \in T
  <2> HIDE DEF filled
  <2> QED
    BY <1>3, <1>4 DEF FilledTx
<1>6. V = [txs : Seq(T), next : Nat]
  OBVIOUS
<1>7. FillTx(txs, md, v, tx) = IF IsCoinBase(tx) THEN [txs |-> Append(v.txs, tx), next |-> v.next]
                               ELSE [txs |-> Append(v.txs, new), next |-> filled.next]
  <2> HIDE DEF tx
  <2> QED
    BY DEF FillTx
<1> HIDE DEF T, V, tx, filled, new
<1>8. Append(v.txs, tx) \in Seq(T) /\ Append(v.txs, new) \in Seq(T)
  BY <1>1, <1>5, AppendProperties
<1>9. /\ [txs |-> Append(v.txs, tx), next |-> v.next] \in V
      /\ [txs |-> Append(v.txs, new), next |-> filled.next] \in V
  BY <1>1, <1>3, <1>6, <1>8
<1>10. FillTx(txs, md, v, tx) \in V
  BY <1>7, <1>9
<1> QED
  BY <1>10 DEF tx, V

LEMMA LookupIs ==
    ASSUME ManagerInv, ~Sync, NEW b \in Block, NEW block, block.hash = b,
           block.found = FoundInputs(b)
    PROVE  GetBlockInputs(BuildBlock(b)) = QueuedTxs(block)
<1> DEFINE w == WireBlock[b]
           N == Len(w)
           txs == BuildBlock(b)
           found == FoundInputs(b)
           s == [t \in 1..N |-> Missing(txs, BuildTx(w[t]))]
           all == FlattenSeq(s)
           md == BulkGet(all)
           T == FilledTx(txs, md)
           V == [txs : Seq(T), next : Nat]
           g == [t \in 1..N |-> TxWith(w[t], found)]
           base == [txs |-> <<>>, next |-> 1]
<1>1. N \in Nat /\ DOMAIN w = 1..N /\ \A t \in 1..N : w[t] \in Wires(b)
  BY WiresOf, WireAt
<1>2. DOMAIN txs = 1..N /\ \A t \in 1..N : txs[t] = BuildTx(w[t])
  BY <1>1 DEF BuildBlock
<1>3. s \in [1..N -> Seq(TxOutId)]
  <2> HIDE DEF txs, w
  <2>1. \A t \in 1..N : Missing(txs, BuildTx(w[t])) \in Seq(TxOutId)
    BY <1>1, MissingIs
  <2> QED
    BY <2>1
<1>4. PICK r : Joined(r, TxOutId, s, N) /\ all = r[N]
  <2> HIDE DEF s, N, all
  <2>1. Joins(FlattenSeq(s), TxOutId, s, N)
    BY <1>1, <1>3, FlattenJoins
  <2> QED
    BY <2>1 DEF Joins, all
<1>5. N \in 0..N /\ 0 \in 0..N /\ \A k \in 1..N : k - 1 \in 0..N /\ k \in 0..N
  BY <1>1
<1>6. all \in Seq(TxOutId)
  <2> HIDE DEF s, N, all
  <2> QED
    BY <1>4, <1>5 DEF Joined
<1>7. md = [i \in 1..Len(all) |-> Got(all[i])]
  <2> HIDE DEF all
  <2> QED
    BY <1>6, BulkGetIs
<1>8. ASSUME NEW k \in 1..N
      PROVE  HandsOut(md, Len(r[k - 1]), s[k]) /\ Len(r[k - 1]) \in Nat
             /\ Len(r[k]) = Len(r[k - 1]) + Len(s[k])
  <2> HIDE DEF s, N, all, md
  <2>1. PartAt(r, s, N, k)
    BY <1>1, <1>4, JoinedPart
  <2> QED
    BY <1>4, <1>7, <2>1 DEF PartAt, HandsOut
<1> DEFINE G == [k \in 0..N |-> {[txs |-> [j \in 1..k |-> g[j]], next |-> Len(r[k]) + 1]}]
<1>9. base \in V /\ base \in G[0]
  <2>1. base \in V
    <3> HIDE DEF T
    <3> QED
      OBVIOUS
  <2>2. G[0] = {[txs |-> [j \in 1..0 |-> g[j]], next |-> Len(r[0]) + 1]}
    BY <1>5
  <2>3. [j \in 1..0 |-> g[j]] = <<>>
    BY 1..0 = {}
  <2>4. r[0] = <<>> /\ Len(<<>>) = 0
    BY <1>4 DEF Joined
  <2> HIDE DEF G, g, txs
  <2> QED
    BY <2>1, <2>2, <2>3, <2>4
<1>10. ASSUME NEW k \in 1..N, NEW v \in V PROVE FillTx(txs, md, v, txs[k]) \in V
  <2>1. txs[k] = BuildTx(w[k]) /\ w[k] \in Wires(b)
    BY <1>1, <1>2
  <2> HIDE DEF txs, md, w
  <2> QED
    BY <2>1, FillTxType
<1>11. ASSUME NEW k \in 1..N, NEW v \in V, v \in G[k - 1]
       PROVE  FillTx(txs, md, v, txs[k]) \in G[k]
  <2> DEFINE wire == w[k]
             tx == txs[k]
             p == Len(r[k - 1])
             x == g[k]
  <2>1. v = [txs |-> [j \in 1..(k - 1) |-> g[j]], next |-> p + 1]
    BY <1>5, <1>11
  <2>2. G[k] = {[txs |-> [j \in 1..k |-> g[j]], next |-> Len(r[k]) + 1]}
    BY <1>5
  <2>3. x = TxWith(wire, found) /\ wire \in Wires(b) /\ tx = BuildTx(wire)
    BY <1>1, <1>2
  <2>4. Append([j \in 1..(k - 1) |-> g[j]], x) = [j \in 1..k |-> g[j]]
    <3> DEFINE X == {g[j] : j \in 1..N}
    <3>1. g \in [1..N -> X]
      OBVIOUS
    <3> HIDE DEF g, N, X
    <3> QED
      BY <1>1, <3>1, OneLonger
  <2>5. /\ HandsOut(md, p, s[k]) /\ p \in Nat /\ Len(r[k]) = p + Len(s[k])
    BY <1>8
  <2>6. s[k] = Missing(txs, tx)
    BY <2>3
  <2>7. IsCoinBase(tx) <=> NullId \in ToSet(wire.in)
    <3> HIDE DEF wire, tx
    <3> QED
      BY <2>3, CoinBaseIs
  <2>8. x = [tx EXCEPT !.in = x.in] /\ (NullId \in ToSet(wire.in) => x = tx)
    <3> HIDE DEF wire, tx, x, found
    <3> QED
      BY <2>3, BuiltTx
  <2>9. v.txs = [j \in 1..(k - 1) |-> g[j]] /\ v.next = p + 1
    BY <2>1
  <2>10. CASE NullId \in ToSet(wire.in)
    <3>1. s[k] = <<>>
      <4>1. Missing(txs, BuildTx(wire)) = <<>>
        <5> HIDE DEF txs, wire
        <5> QED
          BY <2>3, <2>10, MissingIs
      <4> HIDE DEF s, tx, txs
      <4> QED
        BY <2>3, <2>6, <4>1
    <3>2. Len(r[k]) = p
      <4>1. Len(s[k]) = 0
        BY <3>1
      <4> HIDE DEF s, p
      <4> QED
        BY <2>5, <4>1
    <3> HIDE DEF g, G, x, tx, txs, md, p, wire, T
    <3>3. FillTx(txs, md, v, tx) = [txs |-> Append(v.txs, tx), next |-> v.next]
      BY <2>7, <2>10 DEF FillTx
    <3>4. x = tx
      BY <2>8, <2>10
    <3> QED
      BY <2>2, <2>4, <2>9, <3>2, <3>3, <3>4 DEF tx
  <2>11. CASE NullId \notin ToSet(wire.in)
    <3>1. Filled(txs, md, p + 1, BuildTx(wire).in)
              = [in |-> TxWith(wire, found).in,
                 next |-> p + Len(Missing(txs, BuildTx(wire))) + 1]
      <4>1. HandsOut(md, p, Missing(txs, BuildTx(wire)))
        <5> HIDE DEF s, tx, txs, md, p, wire
        <5> QED
          BY <2>3, <2>5, <2>6
      <4> HIDE DEF md, p, wire
      <4> QED
        BY <2>3, <2>5, <2>11, <4>1, FilledIs
    <3>2. Filled(txs, md, v.next, tx.in) = [in |-> x.in, next |-> Len(r[k]) + 1]
      <4> HIDE DEF s, g, G, x, tx, txs, md, p, wire, found, T
      <4> QED
        BY <2>3, <2>5, <2>6, <2>9, <3>1
    <3> HIDE DEF g, G, x, tx, txs, md, p, wire, T
    <3>3. FillTx(txs, md, v, tx)
              = [txs |-> Append(v.txs, [tx EXCEPT !.in = x.in]), next |-> Len(r[k]) + 1]
      BY <2>7, <2>11, <3>2 DEF FillTx
    <3> QED
      BY <2>2, <2>4, <2>8, <2>9, <3>3 DEF tx
  <2> QED
    BY <2>10, <2>11
<1>12. base = [txs |-> <<>>, next |-> 1]
  OBVIOUS
<1> DEFINE got == FilledTxs(txs, md, txs)
<1>13. got \in G[N]
  <2>1. N \in Nat /\ DOMAIN txs = 1..N
    BY <1>1, <1>2
  <2> HIDE DEF G, V, base, N, txs, md, w
  <2>2. FillsTxs(V, G, base, txs, N, txs, md)
    BY <2>1, <1>9, <1>10, <1>11, <1>12 DEF FillsTxs
  <2> HIDE DEF got
  <2>3. FilledTxs(txs, md, txs) \in G[N]
    BY <2>1, <2>2, FillsTxsTo
  <2> QED
    BY <2>3 DEF got
<1>14. got.txs = [j \in 1..N |-> g[j]]
  <2>1. got = [txs |-> [j \in 1..N |-> g[j]], next |-> Len(r[N]) + 1]
    <3> HIDE DEF got, g, N
    <3> QED
      BY <1>5, <1>13
  <2> HIDE DEF got, g, N
  <2> QED
    BY <2>1
<1>15. GetBlockInputs(txs) = got.txs
  <2>1. [t \in DOMAIN txs |-> Missing(txs, txs[t])] = s
    <3> HIDE DEF txs, w
    <3> QED
      BY <1>2
  <2> HIDE DEF txs, s
  <2> QED
    BY <2>1 DEF GetBlockInputs
<1>16. QueuedTxs(block) = g
  <2>1. QueuedTxs(block) = [t \in DOMAIN w |-> TxWith(w[t], block.found)]
    BY QueuedIs
  <2> HIDE DEF w, found
  <2> QED
    BY <1>1, <2>1 DEF found
<1>17. [j \in 1..N |-> g[j]] = g
  OBVIOUS
<1> HIDE DEF got, g, N
<1> QED
  BY <1>14, <1>15, <1>16, <1>17

LEMMA ManagerLoops ==
    ASSUME ManagerInv
    PROVE  LoopsAgree
<1>1. LookupAgrees
  <2> SUFFICES ASSUME ~Sync, NEW b \in Block
               PROVE  GetBlockInputs(BuildBlock(b)) =
                          QueuedTxs([hash |-> b, height |-> height + 1, found |-> FoundInputs(b)])
    BY DEF LookupAgrees
  <2> DEFINE block == [hash |-> b, height |-> height + 1, found |-> FoundInputs(b)]
  <2>1. block.hash = b /\ block.found = FoundInputs(b)
    OBVIOUS
  <2> HIDE DEF block
  <2>2. GetBlockInputs(BuildBlock(b)) = QueuedTxs(block)
    BY <2>1, LookupIs
  <2> QED
    BY <2>2 DEF block
<1> QED
  BY <1>1, AddBlockIs, IndexIs DEF LoopsAgree

\* In every state of the manager, the loops over transactions compute the sets
\* that getBlockInputs, AddBlock and addTx are modelled by: the data of every
\* input of a new block, what the first queued block leaves in the maps of the
\* cache, and what each queued block adds to the balance index.
THEOREM ManagerLoopsAgree == Spec => []LoopsAgree
<1> QED
  BY ManagerInvariant, ManagerLoops, PTL

=============================================================================
