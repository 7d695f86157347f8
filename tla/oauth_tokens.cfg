SPECIFICATION FairSpec
CONSTANTS
  c1 = c1
  c2 = c2
  Nobody = Nobody
  Call = {c1, c2}
  MaxToken = 3
  MaxFaults = 1
INVARIANTS
  OneRefreshAtATime
  ConsentIsTrue
  TokenKept
PROPERTIES
  CallsEnd
CHECK_DEADLOCK FALSE
