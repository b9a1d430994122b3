SPECIFICATION FairDepositSpec
CONSTANTS
  X = X
  Y = Y
  N = N
  U64Max = 20
  ONE = 10
  INITIAL_SWAP_POOL_AMOUNT = 6
  Mints = {X, Y}
  NativeMint = N
  Users = {alice}
  Pools <- OnePool
  Builds <- VaultsFunded
  AccountLists <- EveryList
  SWAP_CONSTRAINTS = {}
  FeeSchedules <- Free
  Amounts = {2, 4}
  Limits = {0, 20}
  Gifts = {}
  OpeningAmounts = {3}
  Endowment <- Six
PROPERTY DepositAccepted
CHECK_DEADLOCK FALSE
