SPECIFICATION Spec
CONSTANTS
  X = X
  Y = Y
  N = N
  U64Max = 20
  ONE = 10
  INITIAL_SWAP_POOL_AMOUNT = 6
  Mints = {X, Y}
  NativeMint = N
  Users = {alice}
  Pools <- OnePool
  Builds <- Repaired
  AccountLists <- LeaveOneLists
  SWAP_CONSTRAINTS = {}
  FeeSchedules <- Free
  Amounts = {1, 2, 3, 5}
  Limits = {0, 20}
  Gifts = {1}
  OpeningAmounts = {3, 5}
  Endowment <- Six
PROPERTY LeaversTakeNoMoreThanTheirShare
CHECK_DEADLOCK FALSE
