SPECIFICATION Spec
CONSTANTS
  Handles = {h1, h2}
  NULL = NULL
  Modes <- AllModes
  Lockstep = FALSE
  NonblockingAccept = TRUE
  Faults <- CallFaults
  MaxBlocks = 1
SYMMETRY HandleSymmetry
INVARIANTS
  TransferUsesItsFile
  GateExcludesTransfer
  ModeHasThread
  JoinedBeforeReuse
  ConnectsForATransfer
  CompletionFollowsAcceptance
PROPERTIES
  OnlyPassLogsIn
  OnlyUntakenFilesLost
\* pthread_join may wait for ever for a data thread that sleeps: see port_stop.
CHECK_DEADLOCK FALSE
