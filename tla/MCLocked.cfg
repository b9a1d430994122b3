SPECIFICATION Spec
CONSTANTS
  X = X
  Y = Y
  N = N
  U64Max = 30
  ONE = 10
  INITIAL_SWAP_POOL_AMOUNT = 15
  Mints = {X, Y}
  NativeMint = X
  Users = {alice}
  Pools <- OnePool
  Builds <- AnyBuild
  AccountLists <- EveryList
  SWAP_CONSTRAINTS = {}
  FeeSchedules <- OwnerPaid
  Amounts = {1, 3}
  Limits = {0, 30}
  Gifts = {1}
  OpeningAmounts = {3}
  Endowment <- Four
INVARIANTS TypeOK
PROPERTIES LockedUnlessRepaired WorthIsKeptToTheGrain
CHECK_DEADLOCK FALSE
