SPECIFICATION FairInitSpec
CONSTANTS
  X = X
  Y = Y
  N = N
  U64Max = 20
  ONE = 10
  INITIAL_SWAP_POOL_AMOUNT = 6
  Mints = {X, Y}
  NativeMint = N
  Users = {alice}
  Pools <- OnePool
  Builds <- AsWritten
  AccountLists <- EveryList
  SWAP_CONSTRAINTS = {}
  FeeSchedules <- Free
  Amounts = {2, 4}
  Limits = {0, 20}
  Gifts = {}
  OpeningAmounts = {3}
  Endowment <- Six
PROPERTY PoolOpens
CHECK_DEADLOCK FALSE
