CONSTANTS
  r1 = r1 r2 = r2 r3 = r3 r4 = r4
  admin = admin owner = owner buyer = buyer stranger = stranger
  seller = seller customer = customer t0 = t0
  Requests = {r1, r2, r3}
  Users = {admin, owner, buyer, stranger}
  Orgs = {seller, customer}
  NoOrg = NoOrg
  OrgOf <- MCOrgOf
  RoleIn <- MCRoleIn
  GlobalAdmins = {admin}
  GlobalTerms = {t0}
  NoTerms = NoTerms
  All = All
  Targets <- MCTargets
  Priorities <- MCPriorities
  Provider = "Sql"
SPECIFICATION Spec
SYMMETRY Symmetry
INVARIANT TypeOK
INVARIANT TermsAreThere
INVARIANT LevelsAreOrdered
PROPERTY RuleStays
PROPERTY ContentsAreEarned
CHECK_DEADLOCK FALSE
