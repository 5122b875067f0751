\* Re-polled heads and a changing confirmation depth: fault-free listener
\* without a start listen block, one crash and restart.
CONSTANTS
  MaxHeight = 5
  ConfirmationsSet = {1, 2}
  StartListenBlock = 0
  EventNames <- MCEventNames
  Logs <- MCLogs
  Abis <- MCAbis
  Faults = FALSE
  MaxCrashes = 1
  ChanCap = 2
  NoBlock = NoBlock
SPECIFICATION Spec
INVARIANT NoRescan
CHECK_DEADLOCK FALSE
