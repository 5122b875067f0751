\* Listener with every RPC, storage and task-fabric failure enabled,
\* governance changing the confirmation depth between 1 and 2, one crash.
CONSTANTS
  MaxHeight = 4
  ConfirmationsSet = {1, 2}
  StartListenBlock = 0
  EventNames <- MCEventNames
  Logs <- MCLogs
  Abis <- MCAbis
  Faults = TRUE
  MaxCrashes = 1
  ChanCap = 2
  NoBlock = NoBlock
SPECIFICATION Spec
INVARIANTS TypeOK ConfirmedOnly
CHECK_DEADLOCK FALSE
