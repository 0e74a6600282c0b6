SPECIFICATION FairSpec
CONSTANTS
  BufSize = 3
  Size = 3
  MaxBytes = 8
INVARIANTS
  TypeOK
  StaysInBuffer
PROPERTIES
  ReadsTheLines
  CallReturns
