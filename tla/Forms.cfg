SPECIFICATION FormsSpec
CONSTANTS
  t1 = t1 t2 = t2 e1 = e1 e2 = e2
  Tabs = {t1, t2}
  Entries = {e1, e2, e3}
  Unchecked = {e3}
  Openings <- MCOpenings
  MaxPresses = 2
  MaxLookups = 2
  MaxLost = 1
  None = None
INVARIANTS CreatedOnce BadgeIsAboutField
SYMMETRY Symmetry
CHECK_DEADLOCK FALSE
