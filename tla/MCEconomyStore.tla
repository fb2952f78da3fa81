--------------------------- MODULE MCEconomyStore ---------------------------
(* A small instance of EconomyStore: two game instances on one store file,   *)
(* the first with two threads.                                               *)
EXTENDS EconomyStore, TLC

CONSTANTS p1, p2, t1, t2, t3, k1, k2, k3

MCHome == (t1 :> p1) @@ (t2 :> p1) @@ (t3 :> p2)

Symmetry == Permutations({k1, k2, k3}) \union Permutations({t1, t2})
=============================================================================
