SPECIFICATION Spec
CONSTANTS
  s1 = s1
  s2 = s2
  Sessions = {s1, s2}
  NULL = NULL
  Names <- EntryNames
  Paths <- TwoByOne
  MaxLeaks = 1
SYMMETRY Interchangeable
INVARIANTS
  FileInv
PROPERTIES
  OwnWdKept
  OnlyInvalidRntoLeaks
