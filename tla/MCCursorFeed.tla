---------------------------- MODULE MCCursorFeed ----------------------------
(***************************************************************************)
(* Two shapes to confuse and one that cannot be decoded, two positions, a  *)
(* grace period of one frame, changes enough for a flap and a new shape    *)
(* within it or for an odd shape between two others, and a second client   *)
(* after the first.                                                        *)
(***************************************************************************)
EXTENDS CursorFeed
=============================================================================
