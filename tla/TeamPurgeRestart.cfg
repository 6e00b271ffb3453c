SPECIFICATION Spec
CONSTANTS
  w1 = w1
  w2 = w2
  Teams = {1}
  REST = 3
  Numbers = {1, 2}
  Workers = {w1, w2}
  Starts = {"team", "workspace"}
  Overlap = FALSE
  AGAIN = 1
  FAULTS = 1
CHECK_DEADLOCK FALSE
INVARIANTS
  TypeOK
  ThreadsBeforeIssues
PROPERTIES
  KeepsPromise
VIEW LiveState
SYMMETRY WorkerSymmetry
