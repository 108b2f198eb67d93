SPECIFICATION Spec
CONSTANTS
  MaxSweepPoints = 5
  Precision = 10
  One = 20
  Candidates <- MCCandidates
INVARIANTS
  TypeOK
  EndIncluded
  PointsEvenlySpaced
CHECK_DEADLOCK FALSE
