SPECIFICATION Spec
CONSTANTS
  docA = docA  docB = docB  clean = clean  off = off  bad = bad
  NoText = NoText
  Texts <- MCTexts
  Scripts <- MCScripts
  ValidScripts <- MCValid
  CleanScripts <- MCClean
  Plain <- MCPlain
  Budget = 1
  MaxRevision = 2
INVARIANTS
  TypeOK
  PanelTruthful
  OneOperationAtATime
  RetrieverNeverBypassed
PROPERTIES
  ApplyReplacesWhatWasReviewed
  ImplementsReview
CHECK_DEADLOCK FALSE
