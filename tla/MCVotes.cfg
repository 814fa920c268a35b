\* Weekly votes while the stakes move.
CONSTANTS
  N = 2
  PRECISION = 4
  MINIMUM_STAKE = 1
  COOLDOWN_SECONDS = 1
  RENT = 1
  U64_MAX = 10
  U128_MAX = 40
  Purse = 2
  Deposits <- NoDeposits
  MaxPending = 0
  MaxEpoch = 0
  MaxTime = 4
  MaxGifts = 0
  GENESIS_MONDAY_00_UTC = 2
  WEEK_SECONDS = 1
SPECIFICATION VoteSpec
INVARIANTS TallyIsReceipts BurnNeedsMajority
PROPERTY DecisionsAdvance
