SPECIFICATION FairSpec
CONSTANTS
  w1 = w1
  w2 = w2
  Deliveries = {1, 2}
  Workers = {w1, w2}
  Slots = {0}
  MaxAttempts = 2
  Threshold = 2
  Timeout = 1
  Lease = 2
  Overlap = FALSE
  CrashBeforeRequeue = FALSE
  FAULTS = 1
CHECK_DEADLOCK FALSE
INVARIANTS
  TypeOK
  InFlightWithinLimit
  PostedOnce
  RunBounded
PROPERTIES
  ClosedStaysClosed
  OnlyAdminEnables
  DeliveryEnds
  LogTellsRequests
