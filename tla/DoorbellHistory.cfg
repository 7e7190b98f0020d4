SPECIFICATION Spec
CONSTANTS
  Calls = {c1, c2}
  Doors = {d1}
  Cameras = {d1}
  Devices = {p1}
  Shared = FALSE
  Nobody = Nobody
  NoRow = NoRow
  MaxEvents = 1
  MaxFaults = 1
INVARIANTS
  TypeOK
  RowTellsOwnRing
  HistoryCatchesUp
CHECK_DEADLOCK FALSE
