--------------------------- MODULE MCNvencEncoder ---------------------------
(***************************************************************************)
(* Two slots, so that the ring wraps; two rates besides "none", so that a  *)
(* refused retarget and the present rate can differ in both components;    *)
(* three objects that the driver keeps, so that a mapping, an input and    *)
(* the session can be among them at once.                                  *)
(***************************************************************************)
EXTENDS NvencEncoder
============================================================================
