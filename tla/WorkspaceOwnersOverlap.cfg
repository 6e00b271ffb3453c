SPECIFICATION Spec
CONSTANTS
  u1 = u1
  u2 = u2
  u3 = u3
  p1 = p1
  p2 = p2
  Requests = {p1, p2}
  Users = {u1, u2}
  Kinds <- MemberKinds
INVARIANTS
  AnOwnerRemains
SYMMETRY RequestSymmetry
CHECK_DEADLOCK FALSE
