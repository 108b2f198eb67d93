SPECIFICATION FairSpec
CONSTANTS
  SweepDimensions = {"frequency", "temperature"}
  Scripts <- MCScripts
  NoScript = "none"
  Programs <- MCPrograms
  Datasets <- MCDatasets
  Corpora <- MCCorpora
  Plans <- MCPlans
  MaxRepairs = 2
CHECK_DEADLOCK FALSE
INVARIANTS
  AllowIsEarned
  ObserverSawTheSession
  ReportAddsUp
  MatchMeetsRequirements
  RetrievalWithinBudget
PROPERTY
  EvaluationEnds
