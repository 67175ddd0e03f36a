--------------------------- MODULE MCDamScheduler ---------------------------
(* DamScheduler on small instances; the values are in the .cfg files.      *)
EXTENDS DamScheduler
=============================================================================
