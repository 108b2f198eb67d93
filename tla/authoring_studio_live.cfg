SPECIFICATION FairSpec
CONSTANTS
  docA = docA  docB = docB  clean = clean  off = off  bad = bad
  NoText = NoText
  Texts <- LiveTexts
  Scripts <- LiveScripts
  ValidScripts <- MCClean
  CleanScripts <- MCClean
  Plain <- LivePlain
  Budget = 1
  MaxRevision = 1
PROPERTIES
  OperationsEnd
  ShutdownCompletes
CHECK_DEADLOCK FALSE
