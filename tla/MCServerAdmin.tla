--------------------------- MODULE MCServerAdmin ---------------------------
(* One request of each kind, one slot that two players and a bot take in     *)
(* turn, a queue of one callback and one remembered answer.  The two         *)
(* players are interchangeable.                                              *)
EXTENDS ServerAdmin, TLC

CONSTANTS hi, list, say, warn, kick, h1, h2, b

MCOperation == (hi :> "hello") @@ (list :> "players") @@ (say :> "announce")
               @@ (warn :> "warn") @@ (kick :> "kick")

Players == Permutations({h1, h2})
=============================================================================
