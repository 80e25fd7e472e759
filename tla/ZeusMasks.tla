----------------------------- MODULE ZeusMasks ------------------------------
(***************************************************************************)
(* ZeusBans with the texts of its masks and users: Matches is no longer    *)
(* any relation, but what Utils::Match says of the texts.  Where           *)
(* Utils::Match reads past the end of a text, it says anything.            *)
(***************************************************************************)
EXTENDS ZeusBans, WildMatch

CONSTANT Text   \* of each mask, and nick!ident@host of each user, in lower case

ASSUME TextAssumption == \A x \in Mask \cup User : Text[x] \in Seq(Char)
ASSUME MatchAssumption ==
    \A m \in Mask, u \in User : Match(Text[m], Text[u]) # "beyond" =>
        (<<m, u>> \in Matches <=> Match(Text[m], Text[u]) = "yes")

\* The text of the mask of a Ban object.
MaskOf(o) == Text[ban[o].mascara]

\* A user is banned from a channel (Channel::IsBan, Utils::Match) only if its lists
\* hold a mask that means him, or one with a '?'; and he is if they hold a mask that
\* means him, but for one with two '*' in a row and for a user with a '*' in his ident.
\* No mask of up to MaxMask characters is taken for what it does not mean.
BansMeanTheirMasks ==
    /\ MatchIsMeaning
    /\ \A c \in Chan, u \in User :
         /\ IsBan(u, c) =>
              \E o \in Listed(c) : Means(MaskOf(o), Text[u]) \/ Contains(MaskOf(o), "?")
         /\ users[c] # {} /\ ~Contains(Text[u], "*") =>
              \A o \in Listed(c) : Single(MaskOf(o)) /\ Means(MaskOf(o), Text[u]) => IsBan(u, c)

=============================================================================
