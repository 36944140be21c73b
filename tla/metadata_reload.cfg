\* Two instances, the first with two overlapping calls, and a third that boots
\* later; no reload outlives its lock and broadcasts are read in time.
SPECIFICATION Spec
CONSTANTS
  i1 = i1
  i2 = i2
  i3 = i3
  p1 = p1
  p2 = p2
  p3 = p3
  p4 = p4
  Inst <- MCInst3
  Call <- MCCall4
  At <- MCAt4
  None = None
  MaxVersion = 2
  MaxBegun = 4
  Faults = {"crash", "redis", "db"}
  LazyReads = FALSE
INVARIANTS
  TypeOK
  OneReloadAtATime
  BroadcastsInOrder
  SettledCachesAgree
PROPERTIES
  CachesFollowTheFeed
SYMMETRY MCSymmetry
CHECK_DEADLOCK FALSE
