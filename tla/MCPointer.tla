----------------------------- MODULE MCPointer -----------------------------
(***************************************************************************)
(* A desktop of two monitors side by side, the left one captured and two   *)
(* pixels high.  A move of two pixels diverges, one of one is tolerated;   *)
(* re-anchoring every third move leaves two moves without a read between.  *)
(* Two moves can be under way.                                             *)
(***************************************************************************)
EXTENDS Pointer

MCPixels == -1..3
MCDeltas == {-2, 0, 1}
MCDesktopMin == [x |-> -1, y |-> 0]
MCDesktopMax == [x |-> 3, y |-> 1]
MCMonitorMin == [x |-> -1, y |-> 0]
MCMonitorMax == [x |-> 1, y |-> 1]
============================================================================
