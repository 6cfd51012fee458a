SPECIFICATION Spec
CONSTANTS
  Id = {i1, i2, i3, i4}
  Name = {n1, n2}
  None = None
  Req = {r1, r2}
SYMMETRY Symmetry
INVARIANTS TypeOK NamesBounded
PROPERTIES WritesAreTested
