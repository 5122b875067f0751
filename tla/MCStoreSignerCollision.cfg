\* A signer rotation to a signer that holds another validator.
CONSTANTS
  i1 = i1  i2 = i2  s1 = s1  s2 = s2  s3 = s3
  IDs <- MCIDs
  Signers <- MCSigners
  MaxPower = 2
  MaxEpoch = 1
  MaxOps = 4
  Faults = FALSE
  FreshSigners = FALSE
  NoVal = NoVal
  NoSigner = NoSigner
SYMMETRY MCSymmetry
SPECIFICATION Spec
INVARIANT PowerFollowsIndex
CHECK_DEADLOCK FALSE
