SPECIFICATION Spec
CONSTANTS
  Blocks <- StopBlocks
  Genesis = "g"
  Parent <- ForkParent
  Height <- MCHeight
  Work <- ForkWork
  Rank <- ForkRank
  Ancestors <- MCAncestors
  Txs <- ForkTxs
  Outs <- ForkOuts
  TxSeq <- LateTxSeq
  Ins <- ForkIns
  Creates <- ForkCreates
  Value <- ForkValue
  Reward <- MCReward
  Maturity = 1
  Replay <- MCReplay
  NoBlock = NoBlock
  Callers = {c1}
  CheckpointHeight = 0
  CheckpointBlock = "g"
  MaxStops = 0
INVARIANTS
  UTXOIsReplay
CHECK_DEADLOCK FALSE
