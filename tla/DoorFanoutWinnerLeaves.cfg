SPECIFICATION FairSpec
CONSTANTS
  N = 1
  MaxContacts = 1
  Dead = {}
  MaxTries = 1
  MaxChanges = 0
PROPERTIES
  WinnerLeavingEndsCall
