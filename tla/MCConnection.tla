---------------------------- MODULE MCConnection ----------------------------
(* Server A hosts a lobby, and another one after a restart; B only matches.  *)
EXTENDS Connection

CONSTANTS A, B, s1, s2

MCHostOf == [session \in {s1, s2} |-> A]
=============================================================================
