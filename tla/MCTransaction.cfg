SPECIFICATION TxSpec
CONSTANTS
  X = X
  Y = Y
  N = N
  opener = opener
  client = client
  U64Max = 20
  ONE = 1000
  INITIAL_SWAP_POOL_AMOUNT = 6
  Mints = {X, Y}
  NativeMint = N
  Users = {opener, client}
  Pools <- TwoPools
  Builds <- Repaired
  AccountLists <- TwoPoolLists
  SWAP_CONSTRAINTS <- Constraints
  FeeSchedules <- ProductionSchedules
  Amounts = {3}
  Limits = {0, 4}
  Gifts = {}
  OpeningAmounts = {4}
  Endowment <- Uneven
  MaxCommits = 5
INVARIANTS
  TxTypeOK
  FailsOnlyIfImpossible
  OwnAccountsAreAccepted
  VaultsCanPay
  PoolsMeetTheConstraints
PROPERTIES
  ImplementsAmm
  ImplementsSharePool
CHECK_DEADLOCK FALSE
