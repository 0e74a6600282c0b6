SPECIFICATION Spec
CONSTANTS
  Handles = {h1, h2}
  NULL = NULL
  Modes <- AllModes
  Lockstep = FALSE
  NonblockingAccept = TRUE
  Faults <- AllFaults
  MaxBlocks = 1
SYMMETRY HandleSymmetry
INVARIANTS
  SessionInv
\* A data thread that waits for ever cannot be joined: see port_stop.
CHECK_DEADLOCK FALSE
