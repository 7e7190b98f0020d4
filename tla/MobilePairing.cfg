SPECIFICATION Spec
CONSTANTS
  Tokens = {t1, t2, t3}
  Phones = {p1, p2}
  Requests = {r1, r2}
  Admin = Admin
  Nobody = Nobody
  NoRow = NoRow
  MaxPairings = 3
  MaxEras = 2
  MaxFaults = 1
INVARIANTS
  TypeOK
  OnePairing
  RevokeSticks
  DevicesGoWithExtension
  NewestPairingLives
SYMMETRY Symmetry
CHECK_DEADLOCK FALSE
