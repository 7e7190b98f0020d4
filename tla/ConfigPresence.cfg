SPECIFICATION FairSpec
CONSTANTS
  Requests = {r1}
  Persons = {p1, p2}
  MaxFaults = 1
  MaxChanges = 1
INVARIANTS
  SavedIsLive
  StatusHonest
  LeftOutIsLive
PROPERTY PresenceFollowed
