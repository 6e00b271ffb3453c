SPECIFICATION Spec
CONSTANTS
  i1 = i1
  i2 = i2
  Issues = {i1, i2}
  Cycles = {1, 2}
  Ended = 1
  Next_ = 2
  EDITS = 1
  FAULTS = 1
  RECOUNTS = 1
SYMMETRY IssueSymmetry
CHECK_DEADLOCK FALSE
INVARIANTS
  TypeOK
  ExactUnlessDrifted
  CarriedAreCounted
  SnapshotCurrent
