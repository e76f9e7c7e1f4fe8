CONSTANTS
  g1 = g1 g2 = g2 g3 = g3 w1 = w1 w2 = w2
  Generators = {g1,g2,g3}
  Writers = {w1}
  Amounts <- MCAmounts
  Provider = "Cosmos"
  MonthsInYear = 2
  MaxMonth = 1
  MaxFaults = 1
SPECIFICATION SerialSpec
SYMMETRY Symmetry
PROPERTY NothingIsForgotten
PROPERTY RegenerateLeavesOne
INVARIANT ListedOnce
CHECK_DEADLOCK FALSE
