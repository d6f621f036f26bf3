----------------------------- MODULE MCRecovery -----------------------------
(* Model-checking instance of Recovery: a table with two possible rows and   *)
(* one with a single row, which may live in memory only.                     *)
EXTENDS Recovery

CONSTANTS s1, s2, t1, t2, k1, k2, k3, c1

Sessions == {s1, s2}

Tables == {t1, t2}

TableKeys == (t1 :> {k1, k2}) @@ (t2 :> {k3})

Chains == {c1}

MCSymmetry == Permutations({k1, k2}) \cup Permutations({s1, s2})
=============================================================================
