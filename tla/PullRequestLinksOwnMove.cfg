SPECIFICATION Spec
CONSTANTS
  i1 = i1
  w1 = w1
  w2 = w2
  Issues = {i1}
  Workers = {w1}
  OnReady = {}
  EVENTS = 2
  EDITS = 0
  FAULTS = 0
CHECK_DEADLOCK FALSE
INVARIANT MergeCloses
