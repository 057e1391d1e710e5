SPECIFICATION Spec
CONSTANTS
  g = g
  a1 = a1
  a2 = a2
  a3 = a3
  a4 = a4
  b1 = b1
  b2 = b2
  b3 = b3
  x2 = x2
  x3 = x3
  s2 = s2
  o2 = o2
  o3 = o3
  Blocks <- MCBlocks
  Genesis = g
  NoHash = NoHash
  Header <- MCHeader
  Txs <- MCTxs
  TxIds <- MCTxIds
  Bits = {1, 3}
  GENESIS_BITS = 1
  LWMA_WINDOW = 2
  MTP_SPAN = 3
  FUTURE_LIMIT = 11
  Checkpoints <- NoCheckpoints
  MAX_NOW = 1
  lwma_next_bits <- MCLwma
  work_from_bits <- MCWork
  INITIAL_REWARD = 4
  HALVING_INTERVAL = 2
  MAX_SUPPLY = 11
  COINBASE_MATURITY = 0
  U64_MAX = 255
INVARIANTS
  TypeOK
  IndexIsTree
  LedgerIsReplay
  TipIsHeaviest
  ActiveIndexExact
  ValidatedIsSound
  SupplyWithinCap
  MoneyIsConserved
PROPERTIES
  ImplementsHeaviestChain
