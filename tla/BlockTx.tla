------------------------------ MODULE BlockTx ------------------------------
(***************************************************************************)
(* The loops over transactions that BlockManager and StorageCache take a   *)
(* block at a time: how a wire block is built, how its inputs are looked   *)
(* up by position, how AddBlock applies each output and input to the maps, *)
(* and what each transaction adds to the index of the queue.  The          *)
(* invariants say that in every state of the manager the loops compute     *)
(* what the set-level definitions say.                                     *)
(***************************************************************************)
EXTENDS BlockManager, SequencesExt, Functions

CONSTANTS
    TxHash,     \* hashes of the transactions
    WireBlock,  \* transactions of each block: hash, in (ids), out (address, value)
    Data,       \* address and value of each output, as it was created
    NullId      \* the previous output of a coinbase

NoAddress == ""
Nowhere == [addr |-> NoAddress, value |-> 0]
Output == [addr : Address \cup {NoAddress}, value : Nat]
WireTxs == [hash : TxHash, in : Seq(TxOutId), out : Seq(Output)]

ASSUME WireAssumption ==
    /\ NoAddress \notin Address
    /\ WireBlock \in [Block -> Seq(WireTxs)]
    /\ Data \in [TxOutId -> Output]
    /\ NullId \in TxOutId /\ Data[NullId] = Nowhere

OutsOf(wire) == {<<wire.hash, n>> : n \in DOMAIN wire.out}

\* Outs, Ins, Storable and BalanceOf of Chain are those of the transactions.
ASSUME BlocksAssumption ==
    /\ \A b \in Block : /\ Outs[b] = UNION {OutsOf(wire) : wire \in ToSet(WireBlock[b])}
                        /\ Ins[b] = UNION {ToSet(wire.in) : wire \in ToSet(WireBlock[b])}
    /\ Storable = {id \in TxOutId : Data[id].addr # NoAddress /\ Data[id].value # 0}
    /\ \A id \in TxOutId : \A a \in Address :
          BalanceOf({id}, a) = IF Data[id].addr = a THEN Data[id].value ELSE 0

\* An id is an output of some transaction, or the null id, and a hash stands for
\* one transaction.
ASSUME IdAssumption ==
    LET all == UNION {ToSet(WireBlock[b]) : b \in Block}
    IN  /\ \A v, w \in all : v.hash = w.hash => v = w
        /\ TxOutId = {NullId} \cup UNION {OutsOf(wire) : wire \in all}
        /\ \A wire \in all : /\ NullId \notin OutsOf(wire)
                             /\ \A n \in DOMAIN wire.out : Data[<<wire.hash, n>>] = wire.out[n]

\* Consensus: the transactions of a block are different, an output is spent
\* after it is created and once, and the null id is spent by the coinbase only.
ASSUME OrderAssumption ==
    \A b \in Block :
        /\ IsInjective(WireBlock[b])
        /\ \A t, u \in DOMAIN WireBlock[b] :
              LET spender == WireBlock[b][t].in
                  other == WireBlock[b][u].in
              IN  /\ ToSet(spender) \cap OutsOf(WireBlock[b][u]) # {} => u < t
                  /\ \A i \in DOMAIN spender : \A j \in DOMAIN other :
                        spender[i] = other[j] => t = u /\ i = j
        /\ \A wire \in ToSet(WireBlock[b]) : NullId \in ToSet(wire.in) => Len(wire.in) = 1

IsCoinBase(tx) == Len(tx.in) = 1 /\ tx.in[1].id = NullId

\* Inputs know only the output they spend until they are looked up.
BuildTx(wire) ==
    [hash |-> wire.hash,
     in   |-> [i \in DOMAIN wire.in |-> [id |-> wire.in[i], data |-> Nowhere]],
     out  |-> [n \in DOMAIN wire.out |-> [id |-> <<wire.hash, n>>, data |-> wire.out[n]]]]

BuildBlock(b) == [i \in DOMAIN WireBlock[b] |-> BuildTx(WireBlock[b][i])]

-----------------------------------------------------------------------------
PendingTx(hash) ==
    UNION {{tx \in ToSet(BuildBlock(pendingBlocks[i].hash)) : tx.hash = hash} :
              i \in DOMAIN pendingBlocks}

InBlock(txs, hash) == {tx \in ToSet(txs) : tx.hash = hash}

\* pendingBlocks.Tx is asked first, then the block's own index.
Near(txs, id) ==
    IF PendingTx(id[1]) # {} THEN PendingTx(id[1]) ELSE InBlock(txs, id[1])

\* BulkGetTxOut puts the data of a cached id in its place, and hands out what
\* was fetched for the others in order.
Place(fetched, acc, id) ==
    [outs |-> Append(acc.outs, IF id \in inserts THEN Data[id] ELSE fetched[acc.next]),
     next |-> IF id \in inserts THEN acc.next ELSE acc.next + 1]

Placed(ids, fetched) ==
    FoldLeft(LAMBDA acc, id : Place(fetched, acc, id),
             [outs |-> <<>>, next |-> 1], ids)

BulkGet(ids) ==
    LET missing == FlattenSeq([i \in DOMAIN ids |-> IF ids[i] \in inserts THEN <<>>
                                                    ELSE <<ids[i]>>])
        fetched == [i \in DOMAIN missing |-> IF missing[i] \in utxo THEN Data[missing[i]]
                                             ELSE Nowhere]
    IN  Placed(ids, fetched).outs

\* Ids of the inputs of a transaction that are neither queued nor in the block.
Missing(txs, tx) ==
    IF IsCoinBase(tx) THEN <<>>
    ELSE FlattenSeq([i \in DOMAIN tx.in |-> IF Near(txs, tx.in[i].id) # {} THEN <<>>
                                            ELSE <<tx.in[i].id>>])

\* getBlockInputs: the missing inputs are collected in one pass over the block
\* and their data is handed out in the same order in a second.
NearData(txs, id) == (CHOOSE tx \in Near(txs, id) : TRUE).out[id[2]].data

Fill(txs, missingData, acc, in) ==
    IF Near(txs, in.id) # {}
    THEN [acc EXCEPT !.in = Append(@, [in EXCEPT !.data = NearData(txs, in.id)])]
    ELSE [in   |-> Append(acc.in, [in EXCEPT !.data = missingData[acc.next]]),
          next |-> acc.next + 1]

Filled(txs, missingData, next, ins) ==
    FoldLeft(LAMBDA part, in : Fill(txs, missingData, part, in), [in |-> <<>>, next |-> next], ins)

FillTx(txs, missingData, acc, tx) ==
    LET filled == Filled(txs, missingData, acc.next, tx.in)
    IN  IF IsCoinBase(tx) THEN [txs |-> Append(acc.txs, tx), next |-> acc.next]
        ELSE [txs |-> Append(acc.txs, [tx EXCEPT !.in = filled.in]), next |-> filled.next]

FilledTxs(txs, missingData, list) ==
    FoldLeft(LAMBDA acc, tx : FillTx(txs, missingData, acc, tx), [txs |-> <<>>, next |-> 1], list)

GetBlockInputs(txs) ==
    LET missingData == BulkGet(FlattenSeq([t \in DOMAIN txs |-> Missing(txs, txs[t])]))
    IN  FilledTxs(txs, missingData, txs).txs

-----------------------------------------------------------------------------
\* The maps of the cache, while AddBlock goes through a block.
Maps == [inserts |-> inserts, deletions |-> deletions, balance |-> balance]

Spendable(data) == data.addr # NoAddress /\ data.value # 0

UpdateBalance(maps, addr, value) ==
    IF Sync THEN maps ELSE [maps EXCEPT !.balance[addr] = @ + value]

AddTxOut(maps, id) ==
    IF id \in maps.deletions THEN [maps EXCEPT !.deletions = @ \ {id}]
    ELSE [maps EXCEPT !.inserts = @ \cup {id}]

DelTxOutMutant(maps, id) ==                  \* a pending insert is deleted twice
    [maps EXCEPT !.inserts = @ \ {id}, !.deletions = @ \cup {id}]
DelTxOut(maps, id) ==
    IF id \in maps.inserts THEN [maps EXCEPT !.inserts = @ \ {id}]
    ELSE [maps EXCEPT !.deletions = @ \cup {id}]

ApplyOut(maps, out) ==
    IF Spendable(out.data)
    THEN UpdateBalance(AddTxOut(maps, out.id), out.data.addr, out.data.value)
    ELSE maps

ApplyIn(maps, in) ==
    IF Spendable(in.data)
    THEN UpdateBalance(DelTxOut(maps, in.id), in.data.addr, 0 - in.data.value)
    ELSE DelTxOut(maps, in.id)

ApplyTx(maps, tx) == FoldLeft(ApplyIn, FoldLeft(ApplyOut, maps, tx.out), tx.in)

\* ForEachAddress: what a transaction adds to the balance of an address.
Total(ints) == FoldLeft(LAMBDA sum, x : sum + x, 0, ints)
Moved(seq, a) ==
    Total([n \in DOMAIN seq |-> IF seq[n].data.addr = a THEN seq[n].data.value ELSE 0])
ForEachAddress(tx, a) == Moved(tx.out, a) - Moved(tx.in, a)

-----------------------------------------------------------------------------
\* The transactions of a queued block, with the inputs found on arrival.
QueuedTxs(block) ==
    LET Found(in) == [in EXCEPT !.data = IF in.id \in block.found THEN Data[in.id] ELSE @]
    IN  [t \in DOMAIN BuildBlock(block.hash) |->
            LET tx == BuildBlock(block.hash)[t]
            IN  [tx EXCEPT !.in = [i \in DOMAIN tx.in |-> Found(tx.in[i])]]]

\* The two passes of getBlockInputs give every input the data FoundInputs says
\* it finds and no other, whatever mixture of the block, the queue, the cache
\* and the database its inputs come from.
LookupAgrees ==
    ~Sync => \A b \in Block : PrevBlock[b] = Tip =>
        GetBlockInputs(BuildBlock(b)) =
            QueuedTxs([hash |-> b, height |-> height + 1, found |-> FoundInputs(b)])

\* AddBlock's loop over outputs and inputs leaves in the maps what the set-level
\* AddBlock of StorageCache says, also when a block spends its own outputs.
AddBlockAgrees ==
    pendingBlocks # <<>> =>
        LET block == pendingBlocks[1]
        IN  FoldLeft(ApplyTx, Maps, QueuedTxs(block)) =
                [inserts   |-> AfterOutputs(block) \ Ins[block.hash],
                 deletions |-> QueuedDeletions(block),
                 balance   |-> IndexedBalance(block)]

\* What the transactions of a block add to the queue's balance index is the
\* block's delta, so that the index can be kept block by block.
IndexAgrees ==
    \A n \in DOMAIN pendingBlocks : \A a \in Address :
        LET txs == QueuedTxs(pendingBlocks[n])
        IN  Total([t \in DOMAIN txs |-> ForEachAddress(txs[t], a)])
                = BlockDelta(pendingBlocks[n], a)

\* The loops over transactions, inputs and outputs compute the sets that
\* BlockManager and StorageCache use (getBlockInputs, AddBlock, addTx).
LoopsAgree == LookupAgrees /\ AddBlockAgrees /\ IndexAgrees

=============================================================================
