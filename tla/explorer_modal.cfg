SPECIFICATION Spec
CONSTANTS
  Heights = {h1, h2, h3}
  Addresses = {a1}
  Stored = {h1, h2}
  MaxFetches = 4
  MaxFaults = 1
  Null = Null
INVARIANTS
  ShowsItsOwn
  NothingForgotten
PROPERTIES
  Loads
