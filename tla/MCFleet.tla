------------------------------ MODULE MCFleet ------------------------------
(* A preset on one port, which a restart may move to a second, two tasks at a  *)
(* time, the launcher, and few enough pids that they are used again.           *)
EXTENDS Fleet, TLC
=============================================================================
