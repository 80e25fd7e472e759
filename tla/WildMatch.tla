----------------------------- MODULE WildMatch -----------------------------
(***************************************************************************)
(* Utils::Match, by which bans, AKICKs, spam masks and LIST compare a mask *)
(* with a text, and what a mask means.  A string is a sequence of          *)
(* characters; the code finds its end by the NUL after it, and two calls   *)
(* of the recursion may step over that NUL: what is read then is           *)
(* undefined, and the value here is "beyond".                              *)
(***************************************************************************)
EXTENDS Naturals, Sequences, SequencesExt

CONSTANTS
    Letter,    \* the characters that are no wildcards
    MaxMask,   \* bound: the length of a mask that is tried
    MaxText    \* bound: the length of a text

ASSUME LetterAssumption == Letter \cap {"*", "?", "NUL"} = {}
ASSUME MaxAssumption    == MaxMask \in Nat /\ MaxText \in Nat

Nul == "NUL"
Char == Letter \cup {"*", "?"}

\* *(str + i - 1), for a place up to the end of the string.
At(str, i) == IF i <= Len(str) THEN str[i] ELSE Nul

\* Mutant: a mask that is at its end matches any rest.
MatchAtPrefix(match, first, second, i, j) ==
    IF j > Len(second) + 1 THEN "beyond"
    ELSE IF At(first, i) = Nul THEN "yes"
    ELSE IF At(first, i) = "*" /\ At(first, i + 1) # Nul /\ At(second, j) = Nul THEN "no"
    ELSE IF At(first, i) = "?" \/ At(first, i) = At(second, j) THEN match[<<i + 1, j + 1>>]
    ELSE IF At(first, i) # "*" THEN "no"
    ELSE IF match[<<i + 1, j>>] = "no" THEN match[<<i, j + 1>>] ELSE match[<<i + 1, j>>]

\* A call at the places i and j; match[p] is what one at the places p returns.  The
\* second half of a || is called only if the first is false.
MatchAt(match, first, second, i, j) ==
    IF j > Len(second) + 1 THEN "beyond"
    ELSE IF At(first, i) = Nul /\ At(second, j) = Nul THEN "yes"
    ELSE IF At(first, i) = "*" /\ At(first, i + 1) # Nul /\ At(second, j) = Nul THEN "no"
    ELSE IF At(first, i) = "?" \/ At(first, i) = At(second, j) THEN match[<<i + 1, j + 1>>]
    ELSE IF At(first, i) # "*" THEN "no"
    ELSE IF match[<<i + 1, j>>] = "no" THEN match[<<i, j + 1>>] ELSE match[<<i + 1, j>>]

Places(first, second) == (1..Len(first) + 1) \X (1..Len(second) + 2)

Match(first, second) ==
    LET match[p \in Places(first, second)] == MatchAt(match, first, second, p[1], p[2])
    IN  match[<<1, 1>>]

-----------------------------------------------------------------------------

\* The piece of the text after the place from, up to the place to, is one that the
\* character stands for: any for '*', one character for '?', itself for another.
Fits(char, text, from, to) ==
    IF char = "*" THEN from <= to
    ELSE to = from + 1 /\ (char = "?" \/ text[to] = char)

\* What a mask means: the text is cut into pieces, one for each of its characters.
Means(mask, text) ==
    \E cut \in [0..Len(mask) -> 0..Len(text)] :
        /\ cut[0] = 0 /\ cut[Len(mask)] = Len(text)
        /\ \A i \in 1..Len(mask) : Fits(mask[i], text, cut[i - 1], cut[i])

\* "This function assumes that the first string will not contain two consecutive '*'".
Single(mask) == \A i \in 1..Len(mask) - 1 : ~(mask[i] = "*" /\ mask[i + 1] = "*")

\* What Utils::Match says of a mask and a text: it finds nothing that the mask does
\* not mean, reads past the end of the text only with a '?' in the mask, and finds all
\* that the mask means if that has no two '*' in a row and the text has none.
SaysMeaning(mask, text) ==
    /\ Match(mask, text) = "yes" => Means(mask, text)
    /\ Match(mask, text) = "beyond" => Contains(mask, "?")
    /\ Single(mask) /\ ~Contains(text, "*") /\ Means(mask, text) => Match(mask, text) = "yes"

\* Utils::Match says what a mask means, for masks and texts up to a length.
MatchIsMeaning ==
    \A mask \in BoundedSeq(Char, MaxMask), text \in BoundedSeq(Char, MaxText) :
        SaysMeaning(mask, text)

=============================================================================
