SPECIFICATION FairSpec
CONSTANTS
  a1 = a1
  a2 = a2
  r1 = r1
  r2 = r2
  Message = {1, 2}
  Account = {a1}
  MailboxOf <- MCOneMailbox
  Run = {r1, r2}
  BatchSize = 2
  RecoveryBatch = 1
  RetentionBatch = 1
  Refused = {}
  MayExpire = {1}
  MayLapse = {2}
  MaxFetch = 2
  MaxQueue = 2
  MaxFaults = 1
INVARIANTS
  PushedIsDelivered
  PendingIsCarried
PROPERTIES
  FeedKeepsPromise
  EveryMessageSettles
  RetriesEnd
CHECK_DEADLOCK FALSE
