--------------------------- MODULE ReplicatedLog ---------------------------
(***************************************************************************)
(* What the log of the services' databases promises, whatever is lost on   *)
(* the way: a statement is written by one server, once; no log holds a     *)
(* statement before its author has run it, and no log ever loses one.      *)
(* Nothing is promised about the order, or that a statement arrives.       *)
(***************************************************************************)
CONSTANTS
    Server,
    Record,
    Nobody

VARIABLES
    author,   \* who wrote the statement, or Nobody
    known     \* known[s]: the statements in the log of s

Init ==
    /\ author = [r \in Record |-> Nobody]
    /\ known = [s \in Server |-> {}]

\* A server writes a statement nobody has written.
Author(s, r) ==
    /\ author[r] = Nobody
    /\ author' = [author EXCEPT ![r] = s]
    /\ UNCHANGED known

\* A written statement reaches the log of its author, or another one.
Learn(s, r) ==
    /\ author[r] # Nobody
    /\ known' = [known EXCEPT ![s] = @ \cup {r}]
    /\ UNCHANGED author

Next == \E s \in Server, r \in Record : Author(s, r) \/ Learn(s, r)

Spec == Init /\ [][Next]_<<author, known>>

=============================================================================
