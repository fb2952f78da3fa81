------------------------------ MODULE MCUpdater ------------------------------
(* Three releases; the second changes one data file, the third the other.     *)
EXTENDS Updater, TLC

CONSTANTS scripts, fonts

MCContent == (scripts :> <<1, 2, 2>>) @@ (fonts :> <<1, 1, 3>>)
=============================================================================
