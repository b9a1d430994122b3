SPECIFICATION Spec
CONSTANTS
  X = X
  Y = Y
  N = N
  U64Max = 20
  ONE = 1000
  INITIAL_SWAP_POOL_AMOUNT = 6
  Mints = {X, Y}
  NativeMint = N
  Users = {alice}
  Pools <- OnePool
  Builds <- Repaired
  AccountLists <- TradingLists
  SWAP_CONSTRAINTS = {}
  FeeSchedules <- TradingSchedules
  Amounts = {2, 3, 5}
  Limits = {0, 2, 20}
  Gifts = {1}
  OpeningAmounts = {0, 3, 5}
  Endowment <- Six
INVARIANTS LiquidityTwoSided
PROPERTIES ImplementsSharePool CallersGetTheirLimits
CHECK_DEADLOCK FALSE
