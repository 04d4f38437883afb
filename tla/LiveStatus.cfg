SPECIFICATION LiveFairSpec
CONSTANTS
  tab1 = tab1 tab2 = tab2 tab3 = tab3 l1 = l1
  Tabs = {tab1, tab2, tab3}
  Lots = {l1}
  MaxSseConn = 2
  MaxChanges = 2
  MaxInbox = 2
  None = None
INVARIANTS LiveTabIsCurrent PlacesAreAccounted
PROPERTIES StreamComesBack
CHECK_DEADLOCK FALSE
