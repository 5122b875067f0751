\* A failing Has call while the confirmation depth is raised from 1 to 2:
\* fault injection on, no seed, no crashes.
CONSTANTS
  MaxHeight = 5
  ConfirmationsSet = {1, 2}
  StartListenBlock = 0
  EventNames <- MCEventNames
  Logs <- MCLogs
  Abis <- MCAbis
  Faults = TRUE
  MaxCrashes = 0
  ChanCap = 2
  NoBlock = NoBlock
SPECIFICATION Spec
PROPERTY WatermarkMonotone
CHECK_DEADLOCK FALSE
