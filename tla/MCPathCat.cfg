SPECIFICATION Spec
CONSTANTS
  Letters <- OneLetter
  Others <- OneOther
  MaxArg = 5
  MaxWd = 5
INVARIANTS
  TypeOK
  PathsNormal
  BufferSuffices
PROPERTIES
  ResolvesByWalking
