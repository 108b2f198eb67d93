SPECIFICATION FairSpec
CONSTANTS
  empty = empty  script = script  crlf = crlf  fileA = fileA  fileB = fileB
  NoSource = NoSource  NoPath = NoPath
  Sources <- MCSources
  Contents <- MCContents
  Shown <- MCShown
  Paths <- MCPaths
  Templates <- MCTemplates
  MaxHistory = 3
  MaxStarts = 2
INVARIANTS
  TypeOK
  CleanMeansSaved
  OperationsAreAccountedFor
  NewestResultsShown
PROPERTIES
  SilentAfterCancel
  OperationsEnd
CHECK_DEADLOCK FALSE
