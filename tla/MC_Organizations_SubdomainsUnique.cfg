SPECIFICATION Spec
CONSTANTS
  Id = {i1, i2}
  Name = {n1, n2}
  None = None
  Req = {r1, r2}
SYMMETRY Symmetry
INVARIANTS SubdomainsUnique
