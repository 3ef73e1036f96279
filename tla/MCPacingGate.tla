---------------------------- MODULE MCPacingGate ----------------------------
(***************************************************************************)
(* An interval of three ticks, one tick of slack, and time for a stall of  *)
(* several intervals followed by a burst.                                  *)
(***************************************************************************)
EXTENDS PacingGate
============================================================================
