\* Handlers removing any record: is exactly the matched record dropped?
CONSTANTS
  Roots = {r1}
  ValidatorIDs = {v1, v2}
  Nonces = {1}
  TxHashes = {t1, t2}
  MaxEnqueues = 4
  ArbitraryRemoval = TRUE
  NilWritePanics = FALSE
  Absent = Absent
SPECIFICATION Spec
INVARIANT Conservation
CHECK_DEADLOCK FALSE
