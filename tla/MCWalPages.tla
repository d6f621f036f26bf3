---------------------------- MODULE MCWalPages ----------------------------
(* Model-checking instance of WalPages.                                     *)
EXTENDS WalPages

\* With pages of 6 bytes: records that leave two bytes or one free, and one that always spans.
MCSizes == {4, 5, 8}
MCJunk == {0, 3}
===========================================================================
