SPECIFICATION Spec
CONSTANTS
  a1 = a1
  a2 = a2
  a3 = a3
  a4 = a4
  cycle = cycle
  boot = boot
  forced = forced
  Account = {a1, a2}
  OAuth = {}
  Job = {cycle, forced}
  Forced = {forced}
  MassMin = 2
  RatioNum = 1
  RatioDen = 2
  StatusEnabled = FALSE
  BatchSize = 1
  MaxEdits = 1
  MaxQueue = 0
  MaxFailures = 1
  MaxFaults = 0
  MaxLate = 0
INVARIANTS
  StatusCoherent
PROPERTIES
  MassFailureDisablesNobody
CHECK_DEADLOCK FALSE
