SPECIFICATION MempoolSpec
SYMMETRY AnyThread
CONSTANTS
  t1 = t1
  t2 = t2
  t3 = t3
  t4 = t4
  t5 = t5
  t6 = t6
  c1 = c1
  c2 = c2
  c3 = c3
  p = p
  q = q
  TxIds <- MCTxIds
  Threads <- MCThreads
  Offered <- MCOffered
  Utxos <- MCUtxos
  Size <- MCSize
  MAX_MEMPOOL = 2
  MAX_BLOCK_SIZE = 2
  MIN_RELAY_FEE_PER_KB = 500
  INITIAL_REWARD = 4
  HALVING_INTERVAL = 2
  MAX_SUPPLY = 100
  COINBASE_MATURITY = 0
  U64_MAX = 9000
INVARIANTS
  MempoolTypeOK
  SpentIsBacked
  WithinCapacity
  SerialIsExact
  FeesAreReal
