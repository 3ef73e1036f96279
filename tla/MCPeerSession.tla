-------------------------- MODULE MCPeerSession --------------------------
(***************************************************************************)
(* MaxEvents joins, leaves, renegotiations and socket drops, in any order. *)
(***************************************************************************)
EXTENDS PeerSession
============================================================================
