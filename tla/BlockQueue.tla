----------------------------- MODULE BlockQueue -----------------------------
(***************************************************************************)
(* primitives/block_queue.go: a queue of blocks with three indexes kept    *)
(* along with it, the balance delta of every address, the transactions of  *)
(* every address, and the block of every transaction.                      *)
(*                                                                         *)
(* A block is a sequence of transactions, and a transaction has a hash and *)
(* the delta it makes for each of its addresses (ForEachAddress).          *)
(***************************************************************************)
EXTENDS Blocks, Integers, Sequences, SequencesExt, Functions, FiniteSetsExt

CONSTANTS
    TxsOf,       \* sequence of transaction hashes of each block
    TxHash,
    Delta        \* of each transaction, a function from its addresses to Int

ASSUME BlockQueueAssumption ==
    /\ TxsOf \in [Block -> Seq(TxHash)]
    /\ \A b \in Block : IsInjective(TxsOf[b])
    /\ \A tx \in TxHash : /\ DOMAIN Delta[tx] \subseteq Address
                          /\ \A a \in DOMAIN Delta[tx] : Delta[tx][a] \in Int

VARIABLES
    blocks,
    addrBalance, \* deltas, 0 when the map has no entry
    addrTx,      \* transactions of each address, empty when there is no entry
    txIndex      \* function from the hashes in the map to their block

queueVars == <<blocks, addrBalance, addrTx, txIndex>>

-----------------------------------------------------------------------------
QueueInit ==
    /\ blocks = <<>>
    /\ addrBalance = [a \in Address |-> 0]
    /\ addrTx = [a \in Address |-> <<>>]
    /\ txIndex = << >>

\* ForEachAddress, for one address: the call with it, if there is one.
EntryOf(tx, a) == IF a \in DOMAIN Delta[tx] THEN <<tx>> ELSE <<>>
ChangeOf(tx, a) == IF a \in DOMAIN Delta[tx] THEN Delta[tx][a] ELSE 0

\* The calls for the transactions of a block, in order.
Touching(b, a) == FlattenSeq([n \in DOMAIN TxsOf[b] |-> EntryOf(TxsOf[b][n], a)])
Total(ints) == FoldLeft(LAMBDA sum, x : sum + x, 0, ints)
DeltaOf(b, a) == Total([n \in DOMAIN TxsOf[b] |-> ChangeOf(TxsOf[b][n], a)])

\* addAddress, for every address of every transaction of the block.
EntriesWithMutant(entries, b) ==             \* the new entries go to the front
    [a \in Address |-> Touching(b, a) \o entries[a]]
EntriesWith(entries, b) == [a \in Address |-> entries[a] \o Touching(b, a)]
BalanceWith(balance, b) == [a \in Address |-> balance[a] + DeltaOf(b, a)]

AddAddresses(b) ==
    /\ addrTx' = EntriesWith(addrTx, b)
    /\ addrBalance' = BalanceWith(addrBalance, b)

\* delAddress: an entry is taken from the front of the address' transactions,
\* whichever transaction is removed.
EntriesWithout(entries, b) ==
    [a \in Address |-> SubSeq(entries[a], Len(Touching(b, a)) + 1, Len(entries[a]))]
BalanceWithout(balance, b) == [a \in Address |-> balance[a] - DeltaOf(b, a)]

DelAddressesMutant(b) ==                     \* the delta is added once more
    /\ addrTx' = EntriesWithout(addrTx, b)
    /\ addrBalance' = BalanceWith(addrBalance, b)
DelAddresses(b) ==
    /\ addrTx' = EntriesWithout(addrTx, b)
    /\ addrBalance' = BalanceWithout(addrBalance, b)

IndexWith(index, b) ==
    [tx \in DOMAIN index \cup ToSet(TxsOf[b]) |->
        IF tx \in ToSet(TxsOf[b]) THEN b ELSE index[tx]]
IndexWithout(index, b) == Restrict(index, DOMAIN index \ ToSet(TxsOf[b]))

AddTxIndex(b) == txIndex' = IndexWith(txIndex, b)
DelTxIndex(b) == txIndex' = IndexWithout(txIndex, b)

\* Consensus: the queue is a piece of a chain, and a transaction is in one block
\* of a chain only (BIP 30).
Extends(b) == b \notin ToSet(blocks) /\ ToSet(TxsOf[b]) \cap DOMAIN txIndex = {}

PushBack(b) ==
    /\ Extends(b)
    /\ blocks' = Append(blocks, b)
    /\ AddAddresses(b)
    /\ AddTxIndex(b)

PushFront(b) ==
    /\ Extends(b)
    /\ blocks' = <<b>> \o blocks
    /\ AddAddresses(b)
    /\ AddTxIndex(b)

PopBack ==
    /\ blocks # <<>>
    /\ blocks' = Front(blocks)
    /\ DelAddresses(Last(blocks))
    /\ DelTxIndex(Last(blocks))

PopFront ==
    /\ blocks # <<>>
    /\ blocks' = Tail(blocks)
    /\ DelAddresses(Head(blocks))
    /\ DelTxIndex(Head(blocks))

QueueNext ==
    \/ \E b \in Block : PushBack(b) \/ PushFront(b)
    \/ PopBack
    \/ PopFront

QueueSpec == QueueInit /\ [][QueueNext]_queueVars

\* The answers.
GetTx(a) == addrTx[a]
TxCount == Cardinality(DOMAIN txIndex)

-----------------------------------------------------------------------------
AllTxs == FlattenSeq([n \in DOMAIN blocks |-> TxsOf[blocks[n]]])

TxsTouching(a) == FlattenSeq([n \in DOMAIN AllTxs |-> EntryOf(AllTxs[n], a)])

QueueTypeOK ==
    /\ blocks \in Seq(Block)
    /\ addrBalance \in [Address -> Int]
    /\ addrTx \in [Address -> Seq(TxHash)]
    /\ IsInjective(blocks)
    /\ TxCount = Len(AllTxs)

\* The delta of an address is the sum over the queued blocks, however blocks
\* come and go at both ends (addAddress and delAddress).
BalanceIndexed ==
    \A a \in Address :
        addrBalance[a] = Total([n \in DOMAIN blocks |-> DeltaOf(blocks[n], a)])

\* Tx finds exactly the transactions of the queued blocks, in their block.
TxIndexed ==
    /\ DOMAIN txIndex = ToSet(AllTxs)
    /\ \A tx \in DOMAIN txIndex : txIndex[tx] \in ToSet(blocks) /\ tx \in ToSet(TxsOf[txIndex[tx]])

\* An address has as many entries as it has transactions in the queue, so that
\* delAddress finds one to remove each time, and none is left at the end.
EntriesCounted == \A a \in Address : Len(addrTx[a]) = Len(TxsTouching(a))

\* However blocks come and go at both ends, the balances and the transaction
\* index are those of the blocks that are left, and delAddress, which takes an
\* entry without a look at the list, never meets an address without one: its nil
\* list would stop the program.  Which entries are left is another matter: after
\* a pop at the back, not those of the blocks that are left.
IndexesAgree == QueueTypeOK /\ BalanceIndexed /\ TxIndexed /\ EntriesCounted

\* As long as blocks enter at the back and leave at the front, the entries of
\* an address are its transactions in the order of the chain.
FifoKeepsOrder ==
    [][(\A a \in Address : GetTx(a) = TxsTouching(a))
          /\ ((\E b \in Block : PushBack(b)) \/ PopFront)
       => \A a \in Address : (GetTx(a) = TxsTouching(a))']_queueVars

=============================================================================
