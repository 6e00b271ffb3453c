SPECIFICATION Spec
CONSTANTS
  u1 = u1
  u2 = u2
  u3 = u3
  i1 = i1
  i2 = i2
  p1 = p1
  p2 = p2
  Requests = {p1, p2}
  Users = {u1, u2, u3}
  InviteIds = {i1}
  Addressee <- MCAddressee1
  Plans <- RoomForTwo
  ATTEMPTS = 2
  OpKinds <- MemberKinds
  RoleAsks <- OneAskEach
  StraddlingExpiry = FALSE
VIEW LiveState
SYMMETRY MemberSymmetry
INVARIANTS
  TypeOK
  CountCoversRows
  GuestsCovered
PROPERTIES
  NeverOverCap
  GuestsWithinAllowance
CHECK_DEADLOCK FALSE
