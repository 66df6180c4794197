SPECIFICATION Spec
CONSTANTS
  NumBlocks = 2
  Qualified = {}
  MaxVersion = 2
  Workers = 2
  Limits = {1, 2}
  MaxRuns = 2
  MaxMishaps = 0
INVARIANT ClaimIsCurrent
CHECK_DEADLOCK FALSE
