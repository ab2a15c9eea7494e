SPECIFICATION Spec
CONSTANTS
  t1 = t1
  t2 = t2
  t3 = t3
  c1 = c1
  Txn0 = Txn0
  Txns = {t1, t2, t3}
  Cursors = {c1}
  Habits = {}
SYMMETRY Symmetry
CHECK_DEADLOCK FALSE
INVARIANTS
  NoStaleCall
  ReadyIsActive
  NoneLeft
