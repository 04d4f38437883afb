SPECIFICATION Spec
CONSTANTS
  u1 = u1 u2 = u2 o1 = o1 o2 = o2 c1 = c1 c2 = c2
  Users = {u1, u2}
  Orgs = {o1, o2}
  Calls = {c1, c2}
  Managed = {u1}
  FirstAdmins = {u2}
  FirstOrgs = {o1}
  MaxConns = 2
  MaxRows = 1
  Null = Null
INVARIANTS WritesWhereAdmitted PoliciesShowTheRightRows
PROPERTIES EveryRequestEnds
