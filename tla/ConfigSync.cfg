SPECIFICATION Spec
CONSTANTS
  Requests = {r1, r2}
  Persons = {p1}
  MaxFaults = 2
  MaxChanges = 0
INVARIANTS
  TypeOK
  SavedIsLive
  StatusHonest
SYMMETRY Symmetry
