------------------------ MODULE MCRootChainListener ------------------------
(* Small instances of RootChainListener for TLC.                          *)
EXTENDS RootChainListener

(* Block 2 emits a state sync, block 3 a checkpoint and an event no ABI   *)
(* knows, block 4 a staking event that is not dispatched.                 *)
MCLogs ==
  [b \in Blocks |->
     IF b = 2 THEN {"StateSynced"}
     ELSE IF b = 3 THEN {"NewHeaderBlock", "Other"}
     ELSE IF b = 4 THEN {"Staked"}
     ELSE {}]

(* RootChain, StateSender and StakingInfo ABIs, as in NewRootChainListener.*)
MCAbis == << {"NewHeaderBlock"}, {"StateSynced"}, {"StakeAck", "Staked"} >>

MCEventNames == {"NewHeaderBlock", "StateSynced", "StakeAck", "Staked", "Other"}
====
