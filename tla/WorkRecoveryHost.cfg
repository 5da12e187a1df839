\* A lock that hangs stops the document, until the process ends.
SPECIFICATION HostFairSpec
CONSTANTS
  MaxText = 2
  MaxRevision = 2
  MaxRefreshes = 1
  MaxFaults = 1
  RegularSaves = TRUE
  None = None
  Undefined = Undefined
INVARIANTS TypeOK  RecoveryIsCurrent
PROPERTIES TargetNeverRegresses LockFlushesWork LockCompletes SaveSettles
CHECK_DEADLOCK FALSE
