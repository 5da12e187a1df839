SPECIFICATION FairSpec
CONSTANTS
  m1 = m1
  m2 = m2
  m3 = m3
  x1 = x1
  x2 = x2
  None = None
  Maintenance <- MCMaintenance
  Exclusive <- MCExclusive
INVARIANTS
  TypeOK
  ExclusiveRunsAlone
PROPERTIES
  NoOvertaking
  EveryCallIsServed
\* Once every call has been made and has settled, nothing is left to do.
CHECK_DEADLOCK FALSE
