SPECIFICATION Spec
CONSTANTS
  MaxText = 2
  MaxRevision = 2
  MaxRefreshes = 1
  MaxFaults = 1
  RegularSaves = TRUE
  None = None
  Undefined = Undefined
PROPERTY LockKeepsWork
