---------------------------- MODULE MCZeusUsers ----------------------------
(* ZeusUsers for TLC: nicknames are model values; tolower is given by MCFold. *)
EXTENDS ZeusUsers, TLC

CONSTANTS ana, Ana, bob, zeus

\* Two spellings of one nickname, a second nickname and the reserved one.
MCNick == {ana, Ana, bob, zeus}
MCKey  == {ana, bob, zeus}
MCFold == (ana :> ana) @@ (Ana :> ana) @@ (bob :> bob) @@ (zeus :> zeus)

Symmetry == Permutations(Conn)

=============================================================================
