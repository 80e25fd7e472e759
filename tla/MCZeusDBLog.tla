---------------------------- MODULE MCZeusDBLog ----------------------------
(* Instances of ZeusDBLog for TLC. *)
EXTENDS ZeusDBLog, TLC

RecordSymmetry == Permutations(Record)

=============================================================================
