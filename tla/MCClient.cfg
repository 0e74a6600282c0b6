SPECIFICATION FairSpec
CONSTANTS
  Dirs = {root, sub}
  Root = root
  Empty = Empty
  Unknown = Unknown
  MaxAhead = 2
INVARIANTS
  TypeOK
  OneContinuation
  TableShowsWd
PROPERTIES
  RepliesInStep
  OperationsEnd
\* An operation whose reply another reader has had never ends: see upload.
CHECK_DEADLOCK FALSE
