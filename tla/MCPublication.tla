--------------------------- MODULE MCPublication ---------------------------
(* Finite instances of Publication for TLC. *)
EXTENDS PublicationInv, TLC

CONSTANTS p1, p2, t1, t2, t3

MCProcs == {p1, p2}
MCTokens1 == {t1}
MCTokens3 == {t1, t2, t3}
Symmetry == Permutations(MCProcs) \cup Permutations(MCTokens3)

\* A stop anywhere between two steps.
Anywhere == Steps

\* No stop while a journal is being written, which leaves a malformed one,
\* nor between the removal of the stage and of the journal in a roll back.
NotInWindow == Steps \ {"intent", "unstage", "receipt", "close"}

\* One kill with the journal written and the old tree still installed, one
\* in the reconciliation, between the removals of the stage and the journal.
InRollBack == {"retire", "close"}
=============================================================================
