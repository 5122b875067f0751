\* Head-taking applier, empty list written back as empty bytes.
CONSTANTS
  Roots = {r1}
  ValidatorIDs = {v1, v2}
  Nonces = {1}
  TxHashes = {t1, t2}
  MaxEnqueues = 4
  ArbitraryRemoval = FALSE
  NilWritePanics = FALSE
  Absent = Absent
SPECIFICATION Spec
PROPERTY EveryDetectedApplied
CHECK_DEADLOCK FALSE
