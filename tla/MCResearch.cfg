SPECIFICATION Spec
CONSTANTS
  Collectors = {c1, c2}
  Window = {1, 2}
  Reads = {"x", "y"}
  Evidence <- MCEvidence
  MaxBlocks = {0, 1}
  MaxStarts = 2
  MaxTroubles = 1
  None = None
  NumBlocks = 2
  NumFiles = 2
  PoolSize = 2
  MaxEdition = 2
  MaxRuns = 3
  MaxFaults = 2
  PrepareDies = FALSE
  Latest = 15
  Time <- MCTime
  Points = 3
  Step = 4
  Windows = {13, 16, 23, 26}
  BracketStep = 2
  Ahead = 3
  Minute = 4
  Feeds = {"reverted", "unset", "ok"}
  Logs <- MCLogs
  Branches = {"a", "b", "c", "d"}
  SwapWindow = {1, 2}
  Catalog <- MCCatalog
  MinuteOf <- MCMinutes
  Minutes = {1, 2}
  BinTops = {1, 10, 100}
  MaxExperiments = 3
  MaxRepeats = 1
  Pricers = {0, 1, 2, 3}
  Main = 0
  PriceBlocks = {1, 2}
  Keys = {1, 2}
  MaxCode = 2
  MaxLaunches = 2
  MaxDeaths = 1
  MaxEdits = 1
  Hours = {1, 2, 3, 4, 5}
  DayOf <- MCDays
  Drop <- MCDrops
  Separation = 2
  Count = 3
  MaxIssue = 2
  MaxSelections = 2
  Plans <- MCPlans
  Before = {"a", "b"}
  All = {"a", "b", "c"}
  PinBlocks = {1, 2}
  Sizes = {1, 10}
  Incomplete = {2}
  Canonical = 3
  Datasets <- MCDatasets
  Wanted <- MCWanted
  Replies <- MCReplies
  Seconds <- MCSeconds
  BaseAmount = 12
  MaxJobs = 2
INVARIANTS CompleteManifestTrue PublishedCoherent ReadingsExact SwapsExact ExportBacked SelectionDeepest NeverRegresses
PROPERTIES RecordsKept ScriptsEnd
CHECK_DEADLOCK FALSE
