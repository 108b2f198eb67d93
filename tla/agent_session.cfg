SPECIFICATION FairSpec
CONSTANTS
  bad1 = bad1  bad2 = bad2  badOther = badOther
  off1 = off1  off2 = off2  offOther = offOther  clean = clean
  NoScript = NoScript
  Scripts <- MCScripts
  Diagnostics <- MCDiagnostics
  Violations <- MCViolations
  MaxRepairs = 3
INVARIANTS
  SharedBudget
  FailureRetainsLastCandidate
  ProgressBetweenCalls
  PromptMatchesVerdict
PROPERTIES
  NoCallAfterStop
  CallReturns
  ImplementsContract
