SPECIFICATION MiningSpec
CONSTANTS
  Cpu = {c1}
  Gpu = {g1}
  THREADS = 1
  p = p
  q = q
  coin = coin
  Payments = {p}
  Offered = {p}
  Coins = {coin}
  Spends <- SpendsOfRun
  CLOCK_SET_BACK = FALSE
  MAX_BLOCKS = 2
  MAX_STARTS = 2
  TxIds = {}
  COINBASE_MATURITY = 0
  U64_MAX = 100
  INITIAL_REWARD = 2
  HALVING_INTERVAL = 3
  MAX_SUPPLY = 9
INVARIANTS
  CoinbasesDiffer
CHECK_DEADLOCK FALSE
