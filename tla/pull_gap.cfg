SPECIFICATION Spec
CONSTANTS
  Writer = {w1, w2}
  Account = {1, 2}
  Email = {e1, e2}
  Uid = {u1, u2}
  Filter <- NoFilter
  Limit = 1
  MaxId = 2
  MaxChanges = 1
INVARIANT NoGap
