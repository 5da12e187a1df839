SPECIFICATION Spec
CONSTANTS
  None = None
  Owner = owner
  Slots = {owner, member}
  Grants = {{}, {"add"}, {"edit", "add", "remove"}}
  Texts = {t1, t2}
  OwnSessions = {ours}
  Theirs = theirs
  MaxOperation = 3
  MaxGeneration = 1
SYMMETRY TextSymmetry
INVARIANTS
  TypeOK
  EditingAuthorized
  OnePublication
  NeverWedged
  HostInStep
  ConfirmedIsTarget
PROPERTIES
  OutcomeJournaled
  NewerTextSurvives
