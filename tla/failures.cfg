SPECIFICATION RecoverableSpec
CONSTANTS
  r1 = r1
  r2 = r2
  Readers = {}
  MaxTxn = 3
  MaxBegins = 4
  MaxPg = 7
  DirtyRoom = 2
  NoMetaSync = FALSE
  Faults = {"power", "kill", "io", "meta", "persist"}
CHECK_DEADLOCK FALSE
INVARIANTS
  CurrentReadable
  NoPageLeak
PROPERTIES
  Durable
  CurrentMetaKept
