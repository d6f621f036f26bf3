----------------------------- MODULE MCBitcask -----------------------------
(* Model-checking instance of Bitcask.                                      *)
EXTENDS Bitcask, TLC

CONSTANTS k1, k2

Keys == {k1, k2}

KeySymmetry == Permutations(Keys)
=============================================================================
