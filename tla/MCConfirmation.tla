--------------------------- MODULE MCConfirmation ---------------------------
(* Instances of Confirmation for TLC.                                      *)
EXTENDS Confirmation, TLC

CONSTANTS w1, w2, a1, a2, s1, s2, k1, k2, d1

\* Tokens are not interchangeable with clients' ids, all else is.
Symmetry == Permutations(Workers) \cup Permutations(Sessions)
                \cup Permutations(Tokens) \cup Permutations(Actors)

=============================================================================
