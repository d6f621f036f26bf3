---------------------------- MODULE MCIndexMvcc ----------------------------
(* Model-checking instance of IndexMvcc.                                    *)
EXTENDS IndexMvcc, TLC

CONSTANTS s1, s2

Sessions == {s1, s2}

SessionSymmetry == Permutations(Sessions)
=============================================================================
