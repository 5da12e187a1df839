SPECIFICATION Spec
CONSTANTS
  None = None
  Broken = Broken
  MaxEntries = 7
  Owner = owner
  Guest = guest
  Recovery = recovery
  Passwords <- MCPasswords
  Texts <- MCTexts
  Grants <- MCGrants
  Retained = {0, 1}
  MaxMinted = 4
INVARIANTS
  TypeOK
  ResultsDecode
  MembersOpen
  LineageSound
PROPERTIES
  SealedHistoryKept
  TextsKept
