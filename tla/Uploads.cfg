SPECIFICATION Spec
CONSTANTS
  k1 = k1 k2 = k2 k3 = k3 t1 = t1 t2 = t2
  Keys = {k1, k2, k3}
  Tabs = {t1, t2}
  MaxDownloads = 1
  Null = Null
INVARIANTS FiledWasChecked SentIsFiled
SYMMETRY Symmetry
CHECK_DEADLOCK FALSE
