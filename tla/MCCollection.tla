---------------------------- MODULE MCCollection ----------------------------
(* Model-checking instance of Collection: three writers.                    *)
EXTENDS Collection

ThreeWriters == {0, 1, 2}
=============================================================================
