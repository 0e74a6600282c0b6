SPECIFICATION FairSpec
CONSTANTS
  Handles = {h1, h2}
  NULL = NULL
  Modes <- PasvOnly
  Lockstep = TRUE
  NonblockingAccept = FALSE
  Faults <- NoFaults
  MaxBlocks = 1
INVARIANTS
  TransferHasWorker
  AbortEndsTransfer
PROPERTIES
  CommandsHandled
  TransferEnds
