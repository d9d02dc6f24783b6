----------------------------- MODULE MCBlockTx -----------------------------
(***************************************************************************)
(* BlockTx on the transactions of the small tree of blocks.                *)
(***************************************************************************)
EXTENDS BlockTx, SmallChain
=============================================================================
