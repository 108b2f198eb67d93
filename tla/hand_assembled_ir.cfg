SPECIFICATION CliSpec
CONSTANTS
  MaxSweepPoints = 8
  Precision = 10
  One = 10
  Unset = Unset
  Written <- MCWritten
  Assembled <- MCAssembled
INVARIANTS
  MalformedIrFailsSafely
CHECK_DEADLOCK FALSE
