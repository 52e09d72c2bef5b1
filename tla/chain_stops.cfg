SPECIFICATION Spec
CONSTANTS
  Blocks <- StopBlocks
  Genesis = "g"
  Parent <- ForkParent
  Height <- MCHeight
  Work <- ForkWork
  Rank <- ForkRank
  Ancestors <- MCAncestors
  Txs <- ForkTxs
  Outs <- ForkOuts
  TxSeq <- BadTxSeq
  Ins <- ForkIns
  Creates <- ForkCreates
  Value <- BadValue
  Reward <- MCReward
  Maturity = 1
  Replay <- MCReplay
  NoBlock = NoBlock
  Callers = {c1}
  CheckpointHeight = 0
  CheckpointBlock = "g"
  MaxStops = 1
INVARIANTS
  IndexCoversTip
  ChainInv
PROPERTIES
  ImplementsBestChain
CHECK_DEADLOCK FALSE
