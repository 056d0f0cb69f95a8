CONSTANTS
  Account = {"alice", "bob", "miner", "peer"}
  NoAccount = NoAccount
  StateCacheCapacity = 2
  CacheEvict = 1
  Tx <- MCTx
  From <- MCFrom
  To <- MCTo
  Amount <- MCAmount
  Nonce <- MCNonce
  Coinbase = "miner"
  PeerCoinbase = "peer"
  Reward = 1
  Supply <- MCSupply
  Asked = {"peer"}
  MaxHeight = 2
  NoTask = NoTask
  NoTx = NoTx
  Capacity = 2
SPECIFICATION Spec
INVARIANT SupplyConserved
INVARIANT NonceCountsSent
INVARIANT MinedBlockAccepted
INVARIANT PoolConsistent
CHECK_DEADLOCK FALSE
