SPECIFICATION FairSpec
CONSTANTS
  d1 = d1 d2 = d2
  MaxRows = 4
  EventTypes = {"payment.paid", "refund.created"}
  Drains = {d1, d2}
  BatchSize = 2
  Poison = {4}
  MaxFaults = 2
  Null = Null
INVARIANTS DispatchedOnce
PROPERTIES EveryEventHandled
CHECK_DEADLOCK FALSE
