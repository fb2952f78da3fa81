------------------------------ MODULE MCOrders ------------------------------
(* Three orders share two places on the board; the third moves in when a     *)
(* period or a claim frees one.                                              *)
EXTENDS Orders, TLC

CONSTANTS a, b, c, e1, e2

MCPool == <<a, b, c>>
MCTarget == (a :> 2) @@ (b :> 1) @@ (c :> 1)
MCCounts == (e1 :> {a, b}) @@ (e2 :> {a, b, c})

\* Threads and transactions are interchangeable.
Symmetry == Permutations(Caller) \union Permutations(Tx)
=============================================================================
