\* Fault-free listener without crashes: every delivered head is followed.
CONSTANTS
  MaxHeight = 5
  ConfirmationsSet = {1, 2}
  StartListenBlock = 1
  EventNames <- MCEventNames
  Logs <- MCLogs
  Abis <- MCAbis
  Faults = FALSE
  MaxCrashes = 0
  ChanCap = 2
  NoBlock = NoBlock
SPECIFICATION Spec
PROPERTY HeadsFollowed
CHECK_DEADLOCK FALSE
