\* A failing Has call: fault injection on, no crashes, depth 1.
CONSTANTS
  MaxHeight = 5
  ConfirmationsSet = {1}
  StartListenBlock = 0
  EventNames <- MCEventNames
  Logs <- MCLogs
  Abis <- MCAbis
  Faults = TRUE
  MaxCrashes = 0
  ChanCap = 2
  NoBlock = NoBlock
SPECIFICATION Spec
INVARIANT NoGap
CHECK_DEADLOCK FALSE
