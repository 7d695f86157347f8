SPECIFICATION Spec
CONSTANTS
  Request = {q1, q2}
  Where = {w1, w2}
  Password = {p1, p2}
  None = None
  MaxPatches = 2
PROPERTY ReenabledIsProbed
CHECK_DEADLOCK FALSE
