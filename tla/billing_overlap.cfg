CONSTANTS
  r1 = r1 r2 = r2 g1 = g1 g2 = g2 u1 = u1 u2 = u2 a1 = a1 a2 = a2
  buyer = buyer seller = seller NoOrg = NoOrg
  Requests = {r1}
  Runs = {g1,g2}
  Users = {u1, u2}
  Amphorae = {a1}
  Orgs = {buyer, seller}
  OrgOf <- MCOrgOf
  SellerOf <- MCSellerOf
  Permitted <- MCPermitted
  Price <- MCPrice
  Rate <- MCRate
  Provider = "Sql"
  MaxMonth = 2
  MonthsAhead = 0
  MaxFaults = 0
SPECIFICATION Spec
SYMMETRY Symmetry
INVARIANT OncePerMonth
CHECK_DEADLOCK FALSE
