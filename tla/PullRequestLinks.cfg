SPECIFICATION FairSpec
CONSTANTS
  i1 = i1
  w1 = w1
  w2 = w2
  Issues = {i1}
  Workers = {w1, w2}
  OnReady = {2}
  EVENTS = 3
  EDITS = 1
  FAULTS = 1
CHECK_DEADLOCK FALSE
INVARIANTS
  TypeOK
  LinksConverge
  NamedStayAttached
  MergeFolded
PROPERTIES
  PersonKept
  MergeReachesLinks
