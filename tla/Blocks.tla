------------------------------- MODULE Blocks -------------------------------
(***************************************************************************)
(* The names that the models of blocks have in common.                     *)
(***************************************************************************)

CONSTANTS
    Block,           \* block hashes the node may ever serve, on every fork
    Address          \* addresses that outputs may pay to

=============================================================================
