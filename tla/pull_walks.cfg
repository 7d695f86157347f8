SPECIFICATION Spec
CONSTANTS
  Writer = {w1, w2}
  Account = {1, 2}
  Email = {e1, e2}
  Uid = {u1, u2}
  Filter <- FilterTwo
  Limit = 1
  MaxId = 3
  MaxChanges = 1
SYMMETRY Symmetry
INVARIANTS TypeOK NeverTwice SkipsOnlyLate HistoryComplete
