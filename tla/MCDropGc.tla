------------------------------ MODULE MCDropGc ------------------------------
(* Model-checking instance of DropGc: one table that exists and one that may *)
(* be created, owned by different agents of the pool.                        *)
EXTENDS DropGc, TLC

CONSTANTS s1, s2, t1, t2, a1, a2

Sessions == {s1, s2}

Tables == {t1, t2}

OldTable == {t1}

Agents == {a1, a2}

TableOwner == (t1 :> a1) @@ (t2 :> a2)

SessionSymmetry == Permutations(Sessions)
=============================================================================
