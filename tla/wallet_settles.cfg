SPECIFICATION Spec
CONSTANTS
  Me = me
  Typed = {p1, me, junk}
  Payees = {p1, me}
  Amounts = {1}
  FEE = 1
  coinA = coinA
  coinB = coinB
  Coins <- OneCoin
  MaxSends = 1
  Stamps = {1}
  Jobs = {j1}
  Loads = {l1, l2}
  MaxFaults = 1
  SendsCap = 2
  Blank = Blank
  Undefined = Undefined
PROPERTIES
  SendEnds
  BalanceCatchesUp
