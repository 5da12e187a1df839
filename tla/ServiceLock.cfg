SPECIFICATION ServiceSpec
CONSTANTS
  acquire = acquire
  refresh = refresh
  save = save
  screenLock = screenLock
  None = None
  Maintenance <- MCMaintenance
  Exclusive <- MCExclusive
  Acquisitions <- MCAcquisitions
  Refreshes <- MCRefreshes
  Saves <- MCSaves
PROPERTIES
  HostLockCompletes
CHECK_DEADLOCK FALSE
