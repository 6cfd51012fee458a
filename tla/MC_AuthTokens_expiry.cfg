SPECIFICATION Spec
CONSTANTS
  Req = {r1, r2}
  AccessLife = 1
  RefreshLife = 2
  Skew = 1
  MaxTime = 3
  MaxPairs = 1
SYMMETRY Symmetry
INVARIANTS TypeOK LogoutRevokes RevokedRefreshesEnd
PROPERTIES RevokedIsRefused
