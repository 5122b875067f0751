\* Handlers removing any record by validator ID and nonce.
CONSTANTS
  Roots = {r1}
  ValidatorIDs = {v1, v2}
  Nonces = {1}
  TxHashes = {t1, t2}
  MaxEnqueues = 4
  ArbitraryRemoval = TRUE
  NilWritePanics = FALSE
  Absent = Absent
SPECIFICATION Spec
INVARIANT NoDuplicateTriple
CHECK_DEADLOCK FALSE
