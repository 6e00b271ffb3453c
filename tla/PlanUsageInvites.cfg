SPECIFICATION Spec
CONSTANTS
  u1 = u1
  u2 = u2
  u3 = u3
  i1 = i1
  i2 = i2
  p1 = p1
  p2 = p2
  Requests = {p1, p2}
  Users = {u1}
  InviteIds = {i1, i2}
  Addressee <- MCAddressee2
  Plans <- TwoPlans
  ATTEMPTS = 2
  OpKinds <- PendingKinds
  RoleAsks <- NoAsks
  StraddlingExpiry = FALSE
VIEW LiveState
SYMMETRY RequestSymmetry
INVARIANTS
  CountInv
PROPERTIES
  NeverOverCap
CHECK_DEADLOCK FALSE
