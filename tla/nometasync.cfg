SPECIFICATION Spec
CONSTANTS
  r1 = r1
  r2 = r2
  Readers = {}
  MaxTxn = 3
  MaxBegins = 4
  MaxPg = 7
  DirtyRoom = 2
  NoMetaSync = TRUE
  Faults = {"power", "kill"}
CHECK_DEADLOCK FALSE
INVARIANTS
  CurrentReadable
PROPERTIES
  Durable
