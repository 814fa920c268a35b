SPECIFICATION Spec
CONSTANTS
  NoKey = NoKey
  NotGiven = NotGiven
  Keys = {k1, k2, k3, k4, k5, k6}
  upgrade_authority = k1
  MIN_EPOCH_LENGTH_SLOTS = 1
  MAX_EPOCH_LENGTH_SLOTS = 2
  MAX_PAUSE_SLOTS = 1
  TimingArgs <- MCTimingArgs
SYMMETRY Interchangeable
INVARIANTS RolesSeparate Recoverable
PROPERTY ImplementsHandover
