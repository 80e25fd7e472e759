---------------------------- MODULE MCZeusSession ----------------------------
(* ZeusSession for TLC: the bounds are given by the configurations. *)
EXTENDS ZeusSession

=============================================================================
