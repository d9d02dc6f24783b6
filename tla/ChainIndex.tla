----------------------------- MODULE ChainIndex -----------------------------
(***************************************************************************)
(* What gobalance's block manager promises its clients, without cache,     *)
(* queue or timer: three blocks of one chain, the tip it answers for, the  *)
(* settled block that no reorganisation may undo, and the durable block    *)
(* that a restart resumes from, with stored outputs and answered balances  *)
(* that are exactly those of the ledger.                                   *)
(***************************************************************************)
EXTENDS Chain

CONSTANTS
    Sync,            \* in sync mode balances are not promised
    Confirmations    \* blocks on top of a block that settle it

VARIABLES
    tip,
    settled,
    durable,
    height,          \* answered height
    stored,          \* outputs on disk
    answers          \* answered balances

vars == <<tip, settled, durable, height, stored, answers>>

Exact ==
    /\ height = HeightOf[tip]
    /\ stored = UtxoAt[durable]
    /\ answers \in [Address -> Int]
    /\ ~Sync => \A a \in Address : answers[a] = BalanceOf(UtxoAt[tip], a)

Init == tip = ZeroHash /\ settled = ZeroHash /\ durable = ZeroHash /\ Exact

\* The next block of the chain; the one that becomes deep enough is settled.
Extend ==
    /\ \E b \in Block : PrevBlock[b] = tip /\ tip' = b
    /\ IF HeightOf[tip'] - HeightOf[settled] > Confirmations
       THEN settled' \in Path[tip'] \cap Block /\ PrevBlock[settled'] = settled
       ELSE settled' = settled
    /\ durable' = durable

\* A reorganisation takes the tip back, never past the settled block.
Retract ==
    /\ tip # settled
    /\ tip' = PrevBlock[tip]
    /\ UNCHANGED <<settled, durable>>

Persist == durable' = settled /\ UNCHANGED <<tip, settled>>

Recover == tip' = durable /\ settled' = durable /\ durable' = durable

Next == (Extend \/ Retract \/ Persist \/ Recover) /\ Exact'

Spec == Init /\ [][Next]_vars
=============================================================================
