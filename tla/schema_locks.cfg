\* On SQL two instances, each with two sessions and two calls, and every fault;
\* on MongoDB three calls, two at a time, with one failed statement, crash or
\* expiry of the lock.
SPECIFICATION MCSpec
CONSTANTS
  i1 = i1
  i2 = i2
  s1 = s1
  s2 = s2
  s3 = s3
  s4 = s4
  o1 = o1
  o2 = o2
  o3 = o3
  o4 = o4
  Inst = {i1, i2}
  Session = {s1, s2, s3, s4}
  PoolOf <- MCPoolOf
  Change = {o1, o2, o3, o4}
  At <- MCAt
  None = None
  MaxDepth = 3
  Faults = {"query", "crash", "reap"}
  Edit = {e1, e2}
  Field = {a, b}
  Link = {l, m}
  NoEdit = NoEdit
  MaxSent = 2
  MaxKey = 4
  MaxEdits = 3
  MaxMishaps = 1
SYMMETRY MCSymmetry
INVARIANTS
  TypesOK
  LocksAreKept
  CollectionAsDescribed
PROPERTIES
  KeepsInstancesApart
CHECK_DEADLOCK FALSE
