SPECIFICATION Spec
CONSTANTS
  Org = {o1}
  User = {u1, u2}
  NoUser = NoUser
  Email = {e1}
  MemId = {m1, m2}
  InvId = {i1, i2}
  Req = {r1, r2}
  MaxFailures = 1
SYMMETRY Symmetry
CHECK_DEADLOCK FALSE
INVARIANTS
  TypeOK
  RosterInv
  ReferentialIntegrity
PROPERTIES
  ConsumedInviteLeftMembership
  LockoutIsForever
