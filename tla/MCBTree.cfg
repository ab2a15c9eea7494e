SPECIFICATION Spec
CONSTANTS
 Key <- MCKey
 Val <- MCVal
 Cursors = {1}
 KeySize <- MCKeySize
 ValSize <- MCValSize
 NodeHdr = 1
 PageRoom = 13
 FillThreshold = 250
 KeyThresh = 32
 Levels = 6
 Loads <- MCLoads
VIEW View
INVARIANTS TreeOK StackOK PagesAccounted
PROPERTIES CommittedKept NoPageFull Refines
CHECK_DEADLOCK FALSE
