SPECIFICATION Spec
CONSTANTS
  MaxText = 2
  MaxRevision = 2
  MaxRefreshes = 1
  MaxFaults = 0
  RegularSaves = TRUE
  None = None
  Undefined = Undefined
INVARIANT JournalReadable
