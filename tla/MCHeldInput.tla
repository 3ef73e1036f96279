---------------------------- MODULE MCHeldInput ----------------------------
(***************************************************************************)
(* One key, one mouse button, one gamepad, and one thread beside Net and   *)
(* Main that calls ReleaseAll.                                             *)
(***************************************************************************)
EXTENDS HeldInput
============================================================================
