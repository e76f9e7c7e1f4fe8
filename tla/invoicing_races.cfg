CONSTANTS
  g1 = g1 g2 = g2 g3 = g3 w1 = w1 w2 = w2
  Generators = {g1,g2}
  Writers = {w1,w2}
  Amounts <- MCAmounts
  Provider = "Sql"
  MonthsInYear = 2
  MaxMonth = 0
  MaxFaults = 1
SPECIFICATION Spec
SYMMETRY Symmetry
INVARIANT BalanceIsKept
CHECK_DEADLOCK FALSE
