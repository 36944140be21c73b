\* Two process lifetimes, two calls overlapping on the first, every fault and
\* the lock-less fill: what survives all of it.
SPECIFICATION FairSpec
CONSTANTS
  i1 = i1
  i2 = i2
  i3 = i3
  p1 = p1
  p2 = p2
  p3 = p3
  p4 = p4
  Inst <- MCInst2
  Call <- MCCall3
  At <- MCAt3
  None = None
  MaxVersion = 0
  MaxBegun = 3
  Faults <- AllFaults
  LazyReads = TRUE
PROPERTIES
  OnlyItsInstanceReleases
  CallsReturn
CHECK_DEADLOCK FALSE
