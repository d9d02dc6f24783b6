---------------------------- MODULE MCCacheCommit ---------------------------
(***************************************************************************)
(* CacheCommit on the small tree of blocks.                                *)
(***************************************************************************)
EXTENDS CacheCommit, SmallChain
=============================================================================
