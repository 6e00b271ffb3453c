SPECIFICATION Spec
CONSTANTS
  w1 = w1
  w2 = w2
  Teams = {1, 2}
  REST = 3
  Numbers = {1}
  Workers = {w1}
  Starts = {"team", "workspace"}
  Overlap = TRUE
  AGAIN = 0
  FAULTS = 0
CHECK_DEADLOCK FALSE
INVARIANT ThreadsBeforeIssues
