SPECIFICATION Spec
CONSTANTS
  N = 2
  MaxContacts = 1
  Dead = {}
  MaxTries = 1
  MaxChanges = 1
INVARIANTS
  TypeOK
  OnlyWinnerHeard
  LastLegEndsRinging
PROPERTIES
  CallSpec
