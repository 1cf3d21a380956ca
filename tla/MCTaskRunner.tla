---- MODULE MCTaskRunner ----
(* TaskRunner on small sets: see the MCTaskRunner*.cfg files. *)
EXTENDS TaskRunner, TLC

CONSTANTS w1, w2, c1, c2, k1, k2, k3

\* A functor may await its own task, and the functor of k1 that of k2.
MCAwaits == {<<k, k>> : k \in Tasks} \cup {<<k1, k2>>}

MCSymmetry == Permutations({w1, w2})
====
