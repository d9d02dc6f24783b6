----------------------------- MODULE BlockTree -----------------------------
(***************************************************************************)
(* Every block a node may serve, on whatever fork, as a tree rooted at     *)
(* ZeroHash.                                                               *)
(*                                                                         *)
(* HeightOf and Path are constants that satisfy their recurrence along the *)
(* tree, so that a theorem holds for every tree; TLC evaluates the         *)
(* assumptions on each instance.                                           *)
(***************************************************************************)
EXTENDS Blocks, Integers

CONSTANTS
    ZeroHash,        \* primitives.ZeroHash: the parent of the first block
    PrevBlock,       \* header.PrevBlock of every block
    HeightOf,        \* height of every block, -1 for ZeroHash
    Path             \* blocks from ZeroHash to a block, both included

Point == Block \cup {ZeroHash}

ASSUME TreeAssumption ==
    /\ ZeroHash \notin Block
    /\ PrevBlock \in [Block -> Point]
    /\ HeightOf \in [Point -> Int]
    /\ HeightOf[ZeroHash] = -1
    /\ \A b \in Block : HeightOf[b] \in Nat /\ HeightOf[b] = HeightOf[PrevBlock[b]] + 1

ASSUME PathAssumption ==
    /\ Path \in [Point -> SUBSET Point]
    /\ Path[ZeroHash] = {ZeroHash}
    /\ \A b \in Block : Path[b] = Path[PrevBlock[b]] \cup {b}

=============================================================================
