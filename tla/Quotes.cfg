SPECIFICATION QuotesSpec
CONSTANTS
  Threads = {t1, t2}
  Requests = {q}
  Limit = 1
  MaxEdition = 2
  MaxSnapshot = 2
  MaxRequests = 3
  MaxRestarts = 1
  MaxReport = 3
  MaxCalls = 2
  None = None
INVARIANTS AnswersAreFresh CollectionContextCurrent
PROPERTIES AnswersStand RequestsEnd
CHECK_DEADLOCK FALSE
