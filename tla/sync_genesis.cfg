SPECIFICATION FairSpec
CONSTANTS
  Blocks <- ThreeBranches
  Genesis = "g"
  Parent <- ThreeParent
  Height <- MCHeight
  Work <- EvenWork
  Rank <- ThreeRank
  Ancestors <- MCAncestors
  Peers = {"p1", "p2"}
  NoPeer = "none"
  Start = "q1"
  PeerStart <- RivalStart
  PeerEnd <- RivalEnd
  Batch = 1
  QueueSize = 1
  MaxInv = 1
  MaxOrphans = 1
  Activations = {}
  MaxCuts = 0
PROPERTIES
  SyncingClears
CHECK_DEADLOCK FALSE
