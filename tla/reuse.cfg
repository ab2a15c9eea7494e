SPECIFICATION Spec
CONSTANTS
  r1 = r1
  r2 = r2
  Readers = {r1}
  MaxTxn = 4
  MaxBegins = 4
  MaxPg = 7
  DirtyRoom = 2
  NoMetaSync = FALSE
  Faults = {}
INVARIANTS
  TypeOK
  ConsumedBeforeReaders
  ReaderFresh
  ReaderView
  NoPageLeak
  IInv
PROPERTIES
  CurrentMetaKept
