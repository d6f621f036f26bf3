----------------------------- MODULE MCBlockFile -----------------------------
(* Model-checking instance of BlockFile.                                     *)
EXTENDS BlockFile

=============================================================================
