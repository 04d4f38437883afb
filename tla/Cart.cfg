SPECIFICATION CartSpec
CONSTANTS
  tab1 = tab1 tab2 = tab2 a1 = a1 a2 = a2 n1 = n1 n2 = n2 n3 = n3 user1 = user1
  Tabs = {tab1, tab2}
  Addons = {a1}
  Lines = {n1, n2, n3}
  UserId = user1
  VendorId = user1
  MaxQty = 1
  AddonPrices = {10, 20}
  Rates = {33, 50}
  Base = 100
  Area = 150
  MaxEdits = 1
  None = None
INVARIANTS OverLimitIsBounded TicksAreTheCart
PROPERTIES ShownIsCharged
SYMMETRY Symmetry
CHECK_DEADLOCK FALSE
