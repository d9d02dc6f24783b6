----------------------------- MODULE MCCrawler -----------------------------
(***************************************************************************)
(* Crawler on a small tree of blocks.                                      *)
(***************************************************************************)
EXTENDS Crawler, SmallForks
=============================================================================
