SPECIFICATION PoolsSpec
CONSTANTS
  Factor = 3
  Wad = 4
  MaxUint = 39
  Halted = Halted
  TotalDai = 14
  TotalGem = 4
  Loaded <- MCLoaded
  MinTick <- MCMinTick
  MaxTick = 4
  Ratio <- MCRatio
  One = 16
  WordBits = 2
  Radius = 1
  WalkTurns = 12
  Precision = 4
  FeeUnit = 20
  AmpUnit = 100
  Turns = 30
  InputLimit = 50
  PriceScale = 10
  FeeScale = 100
  CutScale = 1000
  PriceUnit = 1000
  OracleUnit = 1000
  OracleLimit = 400
  RootUnit = 100
  MinInput = 2
  MinReserve = 10
  Hints = {0, 3}
  Priors <- MCPriors
  Sources <- MCSources
  Amounts <- MCAmounts
  MaxFailed = 1
  MaxTrades = 3
INVARIANTS AcquiredLoads SwapsAsWhole TakerNeverGains QuotesHold ClaimsCovered
PROPERTIES SearchSettlesPreimage TraderNeverGains SearchEnds
CHECK_DEADLOCK FALSE
