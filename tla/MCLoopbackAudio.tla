-------------------------- MODULE MCLoopbackAudio --------------------------
(***************************************************************************)
(* Packets smaller and larger than a frame and not a multiple of it, and   *)
(* up to three of them in the endpoint, so that some outlive a recording.  *)
(***************************************************************************)
EXTENDS LoopbackAudio
============================================================================
