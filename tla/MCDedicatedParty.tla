-------------------------- MODULE MCDedicatedParty --------------------------
(* Two matches in a rotation of four entries whose neighbours differ, in    *)
(* either mode of the process.                                              *)
EXTENDS DedicatedParty

CONSTANTS a, b

MCConfigured == <<a, b, a, b>>
=============================================================================
