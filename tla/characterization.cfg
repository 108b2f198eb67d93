SPECIFICATION CliSpec
CONSTANTS
  MaxSweepPoints = 8
  Precision = 10
  One = 10
  Unset = Unset
  Written <- MCWritten
  Assembled <- MCAssembled
INVARIANTS
  PreflightSuffices
  CompiledProgramsRun
  ResultIsWhole
  DocumentedOrder
  MeasuredAsConfigured
  OutputIsHonest
PROPERTIES
  RunsEnd
CHECK_DEADLOCK FALSE
