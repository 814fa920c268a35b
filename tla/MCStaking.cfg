\* Two wallets, two epochs, an escrow that strangers may send lamports to.
CONSTANTS
  N = 2
  PRECISION = 4
  MINIMUM_STAKE = 2
  COOLDOWN_SECONDS = 1
  RENT = 1
  U64_MAX = 10
  U128_MAX = 40
  Purse = 3
  Deposits <- MCDeposits
  MaxPending = 3
  MaxEpoch = 2
  MaxTime = 2
  MaxGifts = 1
SPECIFICATION Spec
INVARIANTS
  ExitsStayOpen
  StakeIsBacked
  RewardsAreFunded
PROPERTIES
  SettlementConserves
  CooldownKept
  ImplementsLedger
CHECK_DEADLOCK FALSE
