SPECIFICATION SpecSession
CONSTANTS
  None = None
  Owner = owner
  Slots = {owner, member}
  Grants = {{"edit"}}
  Texts = {t1, t2}
  OwnSessions = {ours}
  Theirs = theirs
  MaxOperation = 3
  MaxGeneration = 1
SYMMETRY TextSymmetry
INVARIANTS
  UnlockShowsDocument
