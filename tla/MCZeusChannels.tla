--------------------------- MODULE MCZeusChannels ---------------------------
(* ZeusChannels for TLC. *)
EXTENDS ZeusChannels, TLC

CONSTANT Limit   \* the same channel limit for every user

MCMaxChannels == [u \in Conn |-> Limit]

\* Users, and where no option tells them apart channels and nicknames too.
Symmetry == Permutations(Conn)
FullSymmetry == Permutations(Conn) \cup Permutations(Chan) \cup Permutations(Key)

=============================================================================
