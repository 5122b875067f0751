--------------------------- MODULE MCStakingQueue ---------------------------
(* Small instances of StakingQueue for TLC.                               *)
EXTENDS StakingQueue
====
