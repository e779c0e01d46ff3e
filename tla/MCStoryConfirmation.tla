------------------------ MODULE MCStoryConfirmation ------------------------
(* Two confirmations of one run and one of another.                        *)
EXTENDS StoryConfirmation, TLC

CONSTANTS r1, r2, c1, c2, c3, x1, x2

MCRunOf == [c \in Commands |-> IF c = c3 THEN r2 ELSE r1]

\* The two of one run, and the claims, are interchangeable.
Symmetry == Permutations(Claims) \cup Permutations({c1, c2})
=============================================================================
