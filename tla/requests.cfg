SPECIFICATION Spec
CONSTANTS
  Request = {q1, q2}
  None = None
  Folders = 4
  Phase = 2
  Change = {w1, w2, w3}
  Lost = 1
  Cancels = 1
  Where = {h1, h2}
  Password = {p1, p2}
  MaxPatches = 2
SYMMETRY Interchangeable
INVARIANTS
  ClearFailuresSendNothing
  OneSentCopy
  LossIsNoisy
  UndoneIsNotPushed
  PasswordsWereProbed
PROPERTIES
  UnrivalledPatchIsProbed
CHECK_DEADLOCK FALSE
