----------------------------- MODULE SmallForks ----------------------------
(***************************************************************************)
(* A small tree of blocks for TLC: two forks of different length, and a    *)
(* block d that the crawler's runs use as a damaged one.                   *)
(*                                                                         *)
(*        g - a1 - a2 - a3                                                 *)
(*          \                                                              *)
(*           b1 - b2 - b3 - b4                                             *)
(***************************************************************************)
EXTENDS Integers, FiniteSets

ForkBlock == {"g", "a1", "a2", "a3", "b1", "b2", "b3", "b4", "d"}
ForkPrev ==
    [b \in ForkBlock |->
        CASE b = "g"  -> "zero"
          [] b = "a1" -> "g"
          [] b = "a2" -> "a1"
          [] b = "a3" -> "a2"
          [] b = "b1" -> "g"
          [] b = "b2" -> "b1"
          [] b = "b3" -> "b2"
          [] b = "b4" -> "b3"
          [] b = "d"  -> "g"]

RECURSIVE ForkPathTo(_)
ForkPathTo(p) == IF p = "zero" THEN {"zero"} ELSE ForkPathTo(ForkPrev[p]) \cup {p}

ForkPath == [p \in ForkBlock \cup {"zero"} |-> ForkPathTo(p)]
ForkHeightOf == [p \in ForkBlock \cup {"zero"} |-> Cardinality(ForkPath[p]) - 2]

=============================================================================
