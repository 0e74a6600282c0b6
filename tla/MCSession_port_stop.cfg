SPECIFICATION FairSpec
CONSTANTS
  Handles = {h1, h2}
  NULL = NULL
  Modes <- PortOnly
  Lockstep = TRUE
  NonblockingAccept = TRUE
  Faults <- NoFaults
  MaxBlocks = 1
PROPERTIES
  CommandsHandled
CHECK_DEADLOCK FALSE
