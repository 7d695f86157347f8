SPECIFICATION FairSpec
CONSTANTS
  r1 = r1
  r2 = r2
  Error <- MCError
  Run = {r1}
  OAuth = TRUE
  Retries = 1
  BatchSize = 1
  Omits = {1}
  Unnumbered = {1}
  MaxUid = 2
  MaxValidity = 2
  MaxFaults = 2
INVARIANTS
  NothingSkipped
  ClassFollowsTable
  RetriedNeverCondemns
PROPERTIES
  EveryMessageStored
CHECK_DEADLOCK FALSE
