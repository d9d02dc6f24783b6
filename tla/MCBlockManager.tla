--------------------------- MODULE MCBlockManager ---------------------------
(***************************************************************************)
(* BlockManager on the small tree of blocks.                               *)
(***************************************************************************)
EXTENDS BlockManager, SmallChain
=============================================================================
