SPECIFICATION Spec
CONSTANTS
  N = 2
  MaxContacts = 1
  Dead = {2}
  MaxTries = 1
  MaxChanges = 0
INVARIANTS
  NoLegLeftEndsRinging
