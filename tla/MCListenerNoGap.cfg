\* Fault-free listener seeded with a start listen block: subscription or
\* polling, confirmation depth 1 or 2, one crash and restart.
CONSTANTS
  MaxHeight = 5
  ConfirmationsSet = {1, 2}
  StartListenBlock = 1
  EventNames <- MCEventNames
  Logs <- MCLogs
  Abis <- MCAbis
  Faults = FALSE
  MaxCrashes = 1
  ChanCap = 2
  NoBlock = NoBlock
SPECIFICATION Spec
INVARIANT NoGap
PROPERTY WatermarkMonotone
CHECK_DEADLOCK FALSE
