\* A report may be replaced while a context is prepared.
SPECIFICATION Spec
CONSTANTS
  MaxReport = 2
  MaxCalls = 1
  None = None
INVARIANT ChangedEvidenceSeen
CHECK_DEADLOCK FALSE
