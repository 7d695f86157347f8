SPECIFICATION Spec
CONSTANTS
  r1 = r1
  r2 = r2
  Error <- MCNoError
  Run = {r1}
  OAuth = TRUE
  Retries = 0
  BatchSize = 1
  Omits = {1, 2}
  Unnumbered = {}
  MaxUid = 2
  MaxValidity = 2
  MaxFaults = 0
INVARIANTS
  NothingSkipped
CHECK_DEADLOCK FALSE
