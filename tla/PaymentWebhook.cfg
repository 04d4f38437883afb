SPECIFICATION FairSpec
CONSTANTS
  p1 = p1 e1 = e1 e2 = e2 e3 = e3
  Payments = {p1}
  Events = {e1, e2, e3}
  Null = Null
INVARIANTS StatusFromGateway SettledIffEmitted
PROPERTIES ReportedIsSettled
CHECK_DEADLOCK FALSE
