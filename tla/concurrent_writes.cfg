\* Two processes, two requests at a time and three in all, for two records,
\* two children and one that is born, without failures.
SPECIFICATION WritesSpec
CONSTANTS
  g = g
  h = h
  w1 = w1
  w2 = w2
  s1 = s1
  s2 = s2
  Server = {s1, s2}
  NoServer = NoServer
  Writes = {w1, w2}
  Tags = {g, h}
  FirstKids = {1, 2}
  Bodies <- MCBodies
  MaxRecords = 2
  MaxKids = 3
  MaxWritten = 3
  MaxFlaws = 0
SYMMETRY MCSymmetry
INVARIANTS
  EveryWriteIsSynced
CHECK_DEADLOCK FALSE
