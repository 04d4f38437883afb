SPECIFICATION Spec
CONSTANTS
  v1 = v1 v2 = v2 c1 = c1 c2 = c2
  Vendors = {v1, v2}
  Applicants = {a1}
  Lots = {l1}
  Calls = {c1, c2}
  TTL = 1
  MaxDays = 1
  MaxRepeats = 1
  Null = Null
INVARIANTS MailsTellTheDecision AssignmentIsSound VendorCanLogIn
PROPERTIES VerifiedWasActive
SYMMETRY Symmetry
CHECK_DEADLOCK FALSE
