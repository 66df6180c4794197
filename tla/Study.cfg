SPECIFICATION StudySpec
CONSTANTS
  NumBlocks = 3
  Qualified = {2}
  MaxVersion = 2
  Workers = 2
  Limits = {1, 3}
  MaxRuns = 2
  MaxMishaps = 2
  NumStages = 2
  NumJobs = 1
  SerialBlocks = 2
  SerialLimits = {1, 2}
  SerialVersions = 2
  SerialMishaps = 1
INVARIANTS CompleteFromNamedInventory FullRunSettles QuotesBacked FullRunsClaimCurrent
PROPERTIES ImplementsLedger RunsEnd
CHECK_DEADLOCK FALSE
