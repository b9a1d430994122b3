SPECIFICATION Spec
CONSTANTS
  U64Max = 40
  ONE = 1000
  INITIAL_SWAP_POOL_AMOUNT = 6
  MaxReserve = 12
  MaxSource = 14
  Schedules <- GridSchedules
INVARIANT SwapIsGuaranteedToWork
CHECK_DEADLOCK FALSE
