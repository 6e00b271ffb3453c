SPECIFICATION FairSpec
CONSTANTS
  w1 = w1
  w2 = w2
  Teams = {1, 2}
  REST = 3
  Numbers = {1, 2}
  Workers = {w1}
  Starts = {"workspace"}
  Overlap = FALSE
  AGAIN = 1
  FAULTS = 1
CHECK_DEADLOCK FALSE
INVARIANTS
  ThreadsBeforeIssues
  ChainInv
  StorageCoversFiles
PROPERTIES
  KeepsPromise
  PurgeEnds
