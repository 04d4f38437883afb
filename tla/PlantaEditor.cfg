SPECIFICATION EditorFairSpec
CONSTANTS
  tab1 = tab1 tab2 = tab2 l1 = l1 l2 = l2 l3 = l3 c1 = c1 c2 = c2
  Editors = {tab1, tab2}
  LotIds = {l1, l2}
  Categories = {c1}
  InitialLots = {l1}
  MaxEdits = 2
  MaxPoints = 1
  None = None
INVARIANTS EditsAreKept
PROPERTIES NeverBackwards DeletedCategoryWasFree SavingEnds
CHECK_DEADLOCK FALSE
