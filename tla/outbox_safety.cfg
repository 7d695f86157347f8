SPECIFICATION Spec
CONSTANTS
  a1 = a1
  a2 = a2
  r1 = r1
  r2 = r2
  Message = {1, 2, 3}
  Account = {a1, a2}
  MailboxOf <- MCMailboxOf
  Run = {r1,r2}
  BatchSize = 2
  RecoveryBatch = 2
  RetentionBatch = 1
  Refused = {3}
  MayExpire = {1}
  MayLapse = {}
  MaxFetch = 2
  MaxQueue = 2
  MaxFaults = 1
SYMMETRY RunSymmetry
INVARIANTS
  TypeOK
  PushedIsDelivered
  PendingIsCarried
PROPERTIES
  FeedKeepsPromise
CHECK_DEADLOCK FALSE
