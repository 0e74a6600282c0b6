SPECIFICATION FairSpec
CONSTANTS
  Length = 7
  BufSize = 3
  Missing = Missing
  MaxTrouble = 5
INVARIANTS
  TransferInv
PROPERTIES
  ResumesFaithfully
  CopyCompletes
