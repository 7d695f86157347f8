SPECIFICATION FairSpec
CONSTANTS
  Account = {a1}
  Run = {"initial", "cycle", "force"}
  MaxConcurrent = 1
  Pool = 2
  Timeout = 1
  MarkerLife = 1
  Requests = 2
  Faults = 1
  Budget = {"external_write"}
  Client = {c1, c2}
  Capacity = 1
  Window = 2
  Second = 3
  Outages = 1
  Process = {p1, p2, p3}
  Nobody = Nobody
  MaxFaults = 2
INVARIANTS
  RequestInHand
  WaitIsEnough
  AtMostTwoWindows
  ServingHasOwner
PROPERTIES
  RequestServed
  LockoutEnds
CHECK_DEADLOCK FALSE
