\* Three process lifetimes, crashes, failing queries and Redis commands; no
\* reload outlives its lock and broadcasts are read in time.
SPECIFICATION Spec
CONSTANTS
  i1 = i1
  i2 = i2
  i3 = i3
  p1 = p1
  p2 = p2
  p3 = p3
  p4 = p4
  Inst <- MCInst
  Call <- MCCall
  At <- MCAt
  None = None
  MaxVersion = 2
  MaxBegun = 4
  Faults = {"crash", "redis", "db"}
INVARIANTS
  ListAndEngineAgree
  SettledEnginesAgree
SYMMETRY MCSymmetry
CHECK_DEADLOCK FALSE
