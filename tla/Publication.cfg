SPECIFICATION FairSpec
CONSTANTS
  Initial = initial
  Candidates = {c1, c2}
  Foreign = {f1}
  Absent = absent
  Torn = torn
  MaxFaults = 2
  MaxForeign = 2
CHECK_DEADLOCK FALSE
INVARIANT TypeOK
INVARIANT TargetIntact
INVARIANT OnlyWindowClobbers
INVARIANT CompletionIsClean
PROPERTY PublicationLeavesJournal
PROPERTY ImplementsCheckedReplacement
PROPERTY RecoveryCompletes
