SPECIFICATION FairSpec
CONSTANTS
  N = 2
  MaxContacts = 2
  Dead = {2}
  MaxTries = 1
  MaxChanges = 0
PROPERTIES
  FanoutResolves
  DevicesFallSilent
