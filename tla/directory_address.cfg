SPECIFICATION Spec
CONSTANTS
  q1 = q1
  q2 = q2
  s1 = s1
  s2 = s2
  x = x
  y = y
  lower = lower
  mixed = mixed
  None = None
  Request = {q1, q2}
  State = {s1, s2}
  Address = {x, y}
  Spelling = {lower, mixed}
  Lower = lower
  Attempts = 2
  MaxId = 3
INVARIANTS
  OneRowPerAddress
CHECK_DEADLOCK FALSE
