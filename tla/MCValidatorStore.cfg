\* Signer rotations, joins, power updates and deactivations without faults.
CONSTANTS
  i1 = i1  i2 = i2  s1 = s1  s2 = s2  s3 = s3
  IDs <- MCIDs
  Signers <- MCSigners
  MaxPower = 2
  MaxEpoch = 1
  MaxOps = 6
  Faults = FALSE
  FreshSigners = TRUE
  NoVal = NoVal
  NoSigner = NoSigner
SYMMETRY MCSymmetry
SPECIFICATION Spec
INVARIANT PowerFollowsIndex
PROPERTY ImplementsRegistry
CHECK_DEADLOCK FALSE
