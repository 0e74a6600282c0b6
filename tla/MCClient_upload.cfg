SPECIFICATION Spec
CONSTANTS
  Dirs = {root, sub}
  Root = root
  Empty = Empty
  Unknown = Unknown
  MaxAhead = 2
INVARIANTS
  UploadReadsCompletion
CHECK_DEADLOCK FALSE
