---------------------------- MODULE MCReadyQueue ----------------------------
(***************************************************************************)
(* Model of ReadyQueue for TLC: a three-slot array, so that the indices    *)
(* wrap with every fill level, and three processes.                        *)
(***************************************************************************)
EXTENDS ReadyQueue
=============================================================================
