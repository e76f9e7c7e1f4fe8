CONSTANTS
  r1 = r1 r2 = r2 r3 = r3 r4 = r4 u1 = u1 u2 = u2 s1 = s1
  Requests = {r1, r2, r3, r4}
  Users = {u1, u2}
  Sites = {s1}
  None = None
  MaxUsers = 2
  Provider = "Sql"
  MaxFaults = 1
SPECIFICATION Spec
SYMMETRY Symmetry
INVARIANT TypeOK
INVARIANT HomeIsMembership
INVARIANT AcceptedIsMember
CHECK_DEADLOCK FALSE
