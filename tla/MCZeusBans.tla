----------------------------- MODULE MCZeusBans -----------------------------
(***************************************************************************)
(* ZeusBans for TLC: a wide mask and a narrow one that matches one user.   *)
(* Which mask matches what is computed by WildMatch, from shortened hosts. *)
(***************************************************************************)
EXTENDS ZeusMasks

CONSTANTS wide, narrow, ana, eva

\* Letters: a nickname and a cloak are one character each.
MCLetter == {"a", "e", "!"}
MCText == (wide :> <<"*", "!", "*">>) @@ (narrow :> <<"a", "!", "*">>)
          @@ (ana :> <<"a", "!", "e">>) @@ (eva :> <<"e", "!", "a">>)

MCMatches == {p \in Mask \X (Mask \cup User) : Match(MCText[p[1]], MCText[p[2]]) = "yes"}

=============================================================================
