SPECIFICATION Spec
CONSTANTS
  Sessions = {s1, s2}
  Fds = {d1, d2, d3, d4, d5, d6}
  NoFd = NoFd
SYMMETRY ServerSymmetry
INVARIANTS
  ServerInv
PROPERTIES
  OnlyKnownLeaks
