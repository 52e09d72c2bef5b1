SPECIFICATION SafetySpec
CONSTANTS
  Me = me
  Typed = {p1, me, junk}
  Payees = {p1, me}
  Amounts = {1}
  FEE = 1
  coinA = coinA
  coinB = coinB
  Coins <- MCCoins
  MaxSends = 3
  Stamps = {1}
  Jobs = {j1, j2}
  Loads = {l1}
  MaxFaults = 1
  SendsCap = 2
  Blank = Blank
  Undefined = Undefined
SYMMETRY SlotSymmetry
VIEW WithoutList
INVARIANTS
  TypeOK
  CashIsConserved
  HistoryIsHonest
  BusyWhileSending
