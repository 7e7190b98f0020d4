SPECIFICATION FairSpec
CONSTANTS
  Calls = {c1, c2}
  Doors = {d1}
  Cameras = {}
  Devices = {p1}
  Shared = TRUE
  Nobody = Nobody
  NoRow = NoRow
  MaxEvents = 1
  MaxFaults = 1
INVARIANTS
  WarmWhileRinging
PROPERTY WarmStops
CHECK_DEADLOCK FALSE
