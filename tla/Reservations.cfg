SPECIFICATION FairSpec
CONSTANTS
  l1 = l1 v1 = v1 t1 = t1 t2 = t2 s1 = s1 s2 = s2 r1 = r1 r2 = r2
  Lots = {l1}
  Vendors = {v1}
  Txs = {t1, t2}
  Scanners = {s1, s2}
  ResIds = {r1, r2}
  TTL = 1
  BatchLimit = 1
  MaxTime = 4
  MaxEvents = 1
  Null = Null
INVARIANTS AtMostOneActive ReservedAnnouncementIsTrue ReleasesAreEmitted OnlyApprovedHold
PROPERTIES EarlyEndIsDeliberate ImplementsLotLease EveryHoldEnds
CHECK_DEADLOCK FALSE
