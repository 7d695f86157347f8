SPECIFICATION Spec
CONSTANTS
  c1 = c1
  c2 = c2
  Nobody = Nobody
  Call = {c1, c2}
  MaxToken = 3
  MaxFaults = 0
INVARIANTS
  ConsentMeansInvalidated
CHECK_DEADLOCK FALSE
