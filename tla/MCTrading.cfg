SPECIFICATION TradeSpec
CONSTANTS
  BPS = 10
  MAX_LP_FEE_BPS = 5
  DUST_FLOOR = 2
  FactionSide = "B"
  Admins = {a1}
  Burned = Burned
  NoConfig = NoConfig
  Fees <- MCFees
  SeedAmounts <- MCSeeds
  Shares <- MCShares
  MaxReserve = 10
  MaxGifts = 0
  STAKING_BPS = 7
  CARNAGE_BPS = 2
  MICRO_TAX = 4
  RENT = 2
  Rates <- MCRates
  TradeAmounts <- MCTrades
  Minimums <- MCMinimums
  MaxTaxed = 5
  MaxSwept = 2
  MaxStrays = 1
INVARIANTS
  NoTaxResidue
  SharesHold
  SweepAccounted
  GrossFloorSuffices
