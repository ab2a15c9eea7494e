SPECIFICATION Spec
CONSTANTS
  Leaf = {a, b}
  Val = {u}
  Cursors = {c}
  MaxPg = 7
  MaxTxns = 1
  DirtyMax = 3
  Need = 2
  MaxDepth = 2
  Faults = {"free", "spill"}
INVARIANTS PagesInOneList RoomExact CursorSees
PROPERTIES NestedRefines
CHECK_DEADLOCK FALSE
SYMMETRY Symmetry
