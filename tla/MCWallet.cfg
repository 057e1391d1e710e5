SPECIFICATION WalletSpec
CONSTANTS
  FEE_BASE = 1
  FEE_IN = 1
  FEE_OUT = 1
  ROUNDS = 7
  Keys = {k1, k2}
  First = k1
  Endowment = {4, 5}
  Incomes = {7}
  Amounts = {3}
  Floors = {0}
  RPC_FLOOR = 1
  Rpc = {"rpc"}
  BATCH = 0
  MAX_BLOCKS = 2
  MAX_TXS = 3
  MAX_STARTS = 2
  MAX_REORGS = 1
  MAX_KEYS = 2
INVARIANTS
  WalletTypeOK
  SeedIsShown
  IncomeIsIncome
  PaymentsAreSound
CHECK_DEADLOCK FALSE
