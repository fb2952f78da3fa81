---------------------------- MODULE MCContracts ----------------------------
(* Two contracts compete for one place; they are bought, abandoned and       *)
(* bought again, within the same second too, while matches start and end.    *)
EXTENDS Contracts, TLC

CONSTANTS c1, c2

MCOnBoard == [d \in Day |-> Contract]
MCPrice == [c \in Contract |-> 1]
MCTarget == [c \in Contract |-> 1]
MCUsageTarget == [c \in Contract |-> 2]
=============================================================================
