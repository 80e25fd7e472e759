--------------------------- MODULE MCZeusThreads ---------------------------
(* Two servers and the threads that run their commands. *)
EXTENDS ZeusThreads, TLC

Symmetry == Permutations(Server) \cup Permutations(Command)

=============================================================================
