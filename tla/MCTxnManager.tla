---------------------------- MODULE MCTxnManager ----------------------------
(* Model-checking instance of TxnManager: sessions are interchangeable.     *)
EXTENDS TxnManager, TLC

CONSTANTS s1, s2, s3

Sessions == {s1, s2, s3}

SessionSymmetry == Permutations(Sessions)
=============================================================================
