SPECIFICATION FairLeaveSpec
CONSTANTS
  X = X
  Y = Y
  N = N
  U64Max = 20
  ONE = 1000
  INITIAL_SWAP_POOL_AMOUNT = 6
  Mints = {X, Y}
  NativeMint = N
  Users = {alice}
  Pools <- OnePool
  Builds <- Repaired
  AccountLists <- LeaveLists
  SWAP_CONSTRAINTS = {}
  FeeSchedules <- NoTradeFee
  Amounts = {2, 3}
  Limits = {0, 4}
  Gifts = {1}
  OpeningAmounts = {3, 4}
  Endowment <- Four
INVARIANTS LiquidityTwoSided
PROPERTIES
  ImplementsSharePool
  WithdrawAllPaysBothShares
  CallersGetTheirLimits
  EveryWithdrawalPaysTheOwner
  TheLastProviderGetsOut
CHECK_DEADLOCK FALSE
