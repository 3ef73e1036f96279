------------------------------ MODULE MCCapture ------------------------------
(***************************************************************************)
(* Two sinks, two failures in a row tolerated, four accidents; of the four *)
(* device names, the encoder, the duplicator and the loop hold three.      *)
(***************************************************************************)
EXTENDS Capture
============================================================================
