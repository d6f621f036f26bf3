---------------------------- MODULE MCMvccTable ----------------------------
(* Model-checking instance of MvccTable.                                    *)
EXTENDS MvccTable, TLC

CONSTANTS s1, s2

Sessions == {s1, s2}

SessionSymmetry == Permutations(Sessions)
=============================================================================
