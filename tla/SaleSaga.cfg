SPECIFICATION FairSpec
CONSTANTS
  l1 = l1 v1 = v1 v2 = v2 p1 = p1 p2 = p2
  Lots = {l1}
  Vendors = {v1, v2}
  Payments = {p1, p2}
  MaxRows = 2
  Null = Null
INVARIANTS SoldLotIsPaid
PROPERTIES SettlementSparesOthers SimulatedSaleCompletes
CHECK_DEADLOCK FALSE
