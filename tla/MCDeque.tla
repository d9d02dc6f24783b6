------------------------------ MODULE MCDeque ------------------------------
(***************************************************************************)
(* Deque with the code's initial size of four slots and up to nine         *)
(* elements: the slice grows to sixteen slots, and shrinks to eight again  *)
(* when three of them are left.                                            *)
(***************************************************************************)
EXTENDS Deque
=============================================================================
