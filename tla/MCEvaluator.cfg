\* An evaluation ends.
CHECK_DEADLOCK FALSE
SPECIFICATION EvaluateOrSolve
CONSTANTS
  Tokens <- MCTokens
  PoolIds <- MCPoolIds
  Requests <- MCRequests
  Plans <- MCPlans
  Owners <- MCOwners
  Owner <- MCOwner
  Loaded <- MCLoaded
  CapacityIds <- MCCapacityIds
  Foreign = {"abroad"}
  LitePsms = {"psm", "lite"}
  FreePsms = {"psm", "lite"}
  Dai = "DAI"
  Gem = "USDC"
  Factor = 3
  Swap <- MCSwap
  Inventory <- MCInventory
  Classes <- MCClasses
  ReserveMax = 1000
  Wad = 4
  MaxUint = 100
  Halted = Halted
  GridParts = 3
INVARIANTS PricedOnChainState TokensConserved FeasibleIsFullFill PlansAreBest
