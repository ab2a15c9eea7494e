SPECIFICATION Spec
CONSTANTS
  a = a
  b = b
  k1 = k1
  Names = {a, b}
  Keys = {k1}
  MaxDbs = 3
  MaxDepth = 2
  Habits = {}
INVARIANTS CommittedByName RightDatabase HandleKept
SYMMETRY Symmetry
CHECK_DEADLOCK FALSE
