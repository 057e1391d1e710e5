SPECIFICATION StoreSpec
CONSTANTS
  g = g
  a1 = a1
  a2 = a2
  a3 = a3
  a4 = a4
  b1 = b1
  b2 = b2
  b3 = b3
  x2 = x2
  x3 = x3
  s2 = s2
  o2 = o2
  o3 = o3
  Blocks <- StBlocks
  Genesis = g
  NoHash = NoHash
  Header <- StHeader
  Txs <- StTxs
  TxIds <- MCTxIds
  Bits = {1, 3}
  GENESIS_BITS = 1
  LWMA_WINDOW = 2
  MTP_SPAN = 3
  FUTURE_LIMIT = 11
  Checkpoints <- NoCheckpoints
  MAX_NOW = 0
  lwma_next_bits <- MCLwma
  work_from_bits <- MCWork
  INITIAL_REWARD = 4
  HALVING_INTERVAL = 2
  MAX_SUPPLY = 11
  COINBASE_MATURITY = 0
  U64_MAX = 255
  MAX_CRASHES = 1
  MAX_IO_ERRORS = 0
INVARIANTS
  HeaviestIsFollowed
