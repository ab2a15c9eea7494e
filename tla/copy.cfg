SPECIFICATION Spec
CONSTANTS
  BufPages = 3
  MaxOver = 2
  MaxPages = 12
CHECK_DEADLOCK FALSE
INVARIANTS
  TypeOK
  BufferOwned
  SnapshotHeld
PROPERTIES
  FileWritten
  Returns
