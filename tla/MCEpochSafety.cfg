\* Safety of the epoch lifecycle from a fresh deployment and from the migration.
CONSTANTS
  Keepers = {keeper}
  Strangers = {stranger}
  VRF_TIMEOUT_SLOTS = 1
  GRACE_SLOTS = 1
  MAX_VRF_ATTEMPTS = 3
  MAX_VRF_PENDING_SLOTS = 8
  CARNAGE_DEADLINE_SLOTS = 2
  CARNAGE_LOCK_SLOTS = 1
  MAX_EPOCH_LENGTH_SLOTS = 3
  MaxEpoch = 2
  Timings <- MCTimings
  Reveals <- MCReveals
  Purchases <- MCPurchases
  LegacyEpochs <- MCLegacy
SPECIFICATION Spec
INVARIANTS
  StrangersNeverLockedOut
  SeedNeverReused
  BoundToNewestRequest
  StakingInStep
  FullRevealWindow
  CarnageBoundToEpoch
  CarnageMatchesHoldings
  RatesFavourCheapSide
PROPERTIES
  CarnageOncePerEpoch
