SPECIFICATION Spec
CONSTANTS
  BPS = 10
  MAX_LP_FEE_BPS = 5
  DUST_FLOOR = 2
  FactionSide = "B"
  Admins = {a1, a2}
  Burned = Burned
  NoConfig = NoConfig
  Fees <- MCFees
  SeedAmounts <- MCSeeds
  Shares <- MCShares
  MaxReserve = 16
  MaxGifts = 1
INVARIANTS
  VaultsMatchReserves
  KCheckNeverFires
  RoundTripLoses
  SplittingLoses
CHECK_DEADLOCK FALSE
