SPECIFICATION Spec
CONSTANTS
  User = {u1, u2}
  Name = {n1, n2}
  Password = {p1, p2}
  None = None
  Req = {r1, r2}
  MaxChanges = 3
SYMMETRY Symmetry
INVARIANTS TypeOK OneAccountPerName ChangesBounded RepeatsOnlyInRaces
