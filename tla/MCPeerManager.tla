--------------------------- MODULE MCPeerManager ----------------------------
(***************************************************************************)
(* PeerManager for TLC.                                                    *)
(***************************************************************************)
EXTENDS PeerManager
=============================================================================
