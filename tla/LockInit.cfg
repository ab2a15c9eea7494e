SPECIFICATION Spec
CONSTANTS
  Pids = {1, 2}
  Readers <- MCReaders
  Writers = {2}
  Checkers = {2}
  MaxReaders = 2
  MaxTxn = 2
  MaxStarts = 3
  Faults = {"open", "init"}
INVARIANT WriterFollows
CHECK_DEADLOCK FALSE
