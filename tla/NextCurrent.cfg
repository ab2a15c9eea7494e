SPECIFICATION Spec
CONSTANTS
 Key <- MCKey
 Val <- MCVal
 Cursors = {1}
 KeySize <- MCKeySize
 ValSize <- MCValSize
 NodeHdr = 1
 PageRoom = 13
 FillThreshold = 250
 KeyThresh = 32
 Levels = 6
 Loads <- MCLoads
PROPERTY NextIsCurrent
CHECK_DEADLOCK FALSE
