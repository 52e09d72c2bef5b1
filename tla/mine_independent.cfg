SPECIFICATION Spec
CONSTANTS
  Txs = {"a", "e"}
  Outs <- PaymentOuts
  Ins <- MCIns
  Creates <- MCCreates
  Adders = {p1, p2}
  MaxPool = 1
  NoTx = NoTx
  Hashes = {1, 2, 3}
  Coins <- MCCoins
  PeerBodies <- SomeBodies
  MaxTemplate = 1
INVARIANTS
  TypeOK
  PoolBounded
  ExtensionApplies
  OutputsMatchChain
CHECK_DEADLOCK FALSE
