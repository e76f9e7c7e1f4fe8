CONSTANTS
  r1 = r1 r2 = r2 g1 = g1 g2 = g2 u1 = u1 u2 = u2 a1 = a1 a2 = a2
  buyer = buyer seller = seller NoOrg = NoOrg
  Requests = {r1,r2}
  Runs = {g1,g2}
  Users = {u1,u2}
  Amphorae = {a1,a2}
  Orgs = {buyer, seller}
  OrgOf <- MCOrgOf
  SellerOf <- MCSellerOf
  Permitted <- MCPermitted
  Price <- MCPrice
  Rate <- MCRate
  Provider = "Cosmos"
  MaxMonth = 2
  MonthsAhead = 0
  MaxFaults = 1
SPECIFICATION SerialSpec
SYMMETRY Symmetry
PROPERTY RunLeavesNoneUncharged
PROPERTY ChargedMonthly
INVARIANT CantPurchaseTwice
CHECK_DEADLOCK FALSE
