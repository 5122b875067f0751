\* Applier taking the head, one root, two validators, two tx hashes.
CONSTANTS
  Roots = {r1}
  ValidatorIDs = {v1, v2}
  Nonces = {1}
  TxHashes = {t1, t2}
  MaxEnqueues = 4
  ArbitraryRemoval = FALSE
  NilWritePanics = FALSE
  Absent = Absent
SPECIFICATION Spec
INVARIANT Conservation
PROPERTY ImplementsFifo
CHECK_DEADLOCK FALSE
