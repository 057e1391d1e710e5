SPECIFICATION MiningSpec
CONSTANTS
  Cpu = {c1, c2}
  Gpu = {g1}
  THREADS = 1
  p = p
  q = q
  coin = coin
  Payments = {p, q}
  Offered = {q}
  Coins = {coin}
  Spends <- SpendsOfRun
  MAX_BLOCKS = 2
  CLOCK_SET_BACK = FALSE
  MAX_STARTS = 2
  TxIds = {}
  COINBASE_MATURITY = 0
  U64_MAX = 100
  INITIAL_REWARD = 4
  HALVING_INTERVAL = 1
  MAX_SUPPLY = 7
INVARIANTS
  MiningTypeOK
  WorkIsNotWasted
PROPERTIES
  StaleIsAbandoned
  RefusalsEnd
  StopIsObeyed
CHECK_DEADLOCK FALSE
