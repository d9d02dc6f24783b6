------------------------------- MODULE Chain -------------------------------
(***************************************************************************)
(* What the blocks of the tree mean: the transaction outputs each creates  *)
(* and spends, and the unspent outputs and balances that result at every   *)
(* block.  UtxoAt and KnownAt satisfy their recurrence along the tree.     *)
(***************************************************************************)
EXTENDS BlockTree

CONSTANTS
    TxOutId,         \* (transaction hash, output number), and the null id
    Storable,        \* ids whose output has an address and a nonzero value
    Outs,            \* ids of the outputs a block's transactions create
    Ins,             \* ids a block's transactions spend, the null id included
    BalanceOf(_, _), \* value the ids of a set hold for an address
    UtxoAt,          \* storable outputs unspent after a block
    KnownAt          \* ids created or spent up to a block

ASSUME OutputAssumption ==
    /\ Storable \subseteq TxOutId
    /\ Outs \in [Block -> SUBSET TxOutId]
    /\ Ins \in [Block -> SUBSET TxOutId]

ASSUME UtxoAssumption ==
    /\ UtxoAt \in [Point -> SUBSET Storable]
    /\ UtxoAt[ZeroHash] = {}
    /\ \A b \in Block :
          UtxoAt[b] = (UtxoAt[PrevBlock[b]] \cup (Outs[b] \cap Storable)) \ Ins[b]

\* Consensus: a block spends only what is unspent when it is applied.
ASSUME ValidSpends ==
    \A b \in Block : Ins[b] \cap Storable \subseteq UtxoAt[PrevBlock[b]] \cup Outs[b]

ASSUME KnownAssumption ==
    /\ KnownAt \in [Point -> SUBSET TxOutId]
    /\ \A b \in Block : KnownAt[b] = KnownAt[PrevBlock[b]] \cup Outs[b] \cup Ins[b]
    /\ \A p \in Point : UtxoAt[p] \subseteq KnownAt[p]

\* BIP 30/34: an output id is created once on a chain, before it is spent.
ASSUME FreshOutputs ==
    \A b \in Block : Outs[b] \cap KnownAt[PrevBlock[b]] = {}

\* BalanceOf is a sum of per-output values, and only storable outputs count.
ASSUME BalanceAssumption ==
    \A a \in Address : \A S \in SUBSET TxOutId :
        /\ BalanceOf(S, a) \in Int
        /\ BalanceOf({}, a) = 0
        /\ BalanceOf(S, a) = BalanceOf(S \cap Storable, a)
        /\ \A T \in SUBSET (TxOutId \ S) :
              BalanceOf(S \cup T, a) = BalanceOf(S, a) + BalanceOf(T, a)

=============================================================================
