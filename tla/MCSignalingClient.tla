------------------------- MODULE MCSignalingClient -------------------------
(***************************************************************************)
(* The client's thread, main, and one libwebrtc thread that sends.         *)
(***************************************************************************)
EXTENDS SignalingClient
============================================================================
