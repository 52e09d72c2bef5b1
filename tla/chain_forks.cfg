SPECIFICATION FairSpec
CONSTANTS
  Blocks <- ForkBlocks
  Genesis = "g"
  Parent <- ForkParent
  Height <- MCHeight
  Work <- ForkWork
  Rank <- ForkRank
  Ancestors <- MCAncestors
  Txs <- ForkTxs
  Outs <- ForkOuts
  TxSeq <- ForkTxSeq
  Ins <- ForkIns
  Creates <- ForkCreates
  Value <- ForkValue
  Reward <- MCReward
  Maturity = 1
  Replay <- MCReplay
  NoBlock = NoBlock
  Callers = {c1, c2}
  CheckpointHeight = 2
  CheckpointBlock = "p2"
  MaxStops = 0
INVARIANTS
  TypeOK
  UTXOIsReplay
  IndexIsMainChain
  TxIndexIsMainChain
  TipIsBest
  CheckpointOnChain
PROPERTIES
  LockReleased
CHECK_DEADLOCK FALSE
