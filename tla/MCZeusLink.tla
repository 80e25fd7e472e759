---------------------------- MODULE MCZeusLink ----------------------------
(***************************************************************************)
(* ZeusLink for TLC.  The users are an iRCop and another one: a property   *)
(* of every one of them is checked, so no symmetry is used.                *)
(***************************************************************************)
EXTENDS ZeusLink

=============================================================================
