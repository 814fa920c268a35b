SPECIFICATION Spec
CONSTANTS
  BPS = 10000
  AMM_FEE_BPS = 100
  CARNAGE_CAP_K_NUM = 25
  CARNAGE_CAP_K_DEN = 54
  CARNAGE_FRICTION_BPS_MAX = 2000
  CARNAGE_SLIPPAGE_BPS_ATOMIC = 8500
  CARNAGE_SLIPPAGE_BPS_FALLBACK = 7500
  TRIGGER_BOUNTY_LAMPORTS = 4
  RENT = 2
  Rates <- MCRates
  Pools <- MCPools
  Deposits <- MCDeposits
  Trades <- MCTrades
  MaxDeposited = 14
  MaxTriggers = 3
  MaxTrades = 1
  MaxGifts = 1
INVARIANT
  ProceedsNotStranded
