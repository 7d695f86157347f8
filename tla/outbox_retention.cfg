SPECIFICATION Spec
CONSTANTS
  a1 = a1
  a2 = a2
  r1 = r1
  r2 = r2
  Message = {1}
  Account = {a1}
  MailboxOf <- MCOneMailbox
  Run = {r1}
  BatchSize = 1
  RecoveryBatch = 1
  RetentionBatch = 1
  Refused = {}
  MayExpire = {1}
  MayLapse = {}
  MaxFetch = 1
  MaxQueue = 2
  MaxFaults = 0
INVARIANTS
  RetentionKeepsUndelivered
CHECK_DEADLOCK FALSE
