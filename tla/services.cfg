\* Two requests with three calls; two instances and four executions of the
\* scripts; two instances with three requests for two packages; two requests
\* for three contents.  One mishap in each.
SPECIFICATION MCSpec
CONSTANTS
  t = t
  u = u
  a = a
  b = b
  r1 = r1
  r2 = r2
  c1 = c1
  c2 = c2
  f1 = f1
  f2 = f2
  Requests = {r1, r2}
  TableName = {t, u}
  ColumnName = {a, b}
  Orders <- MCOrders
  NoRequest = NoRequest
  MaxRetries = 2
  MaxOrders = 3
  MaxUpsets = 1
  MaxIds = 8
  Starters = {i1, i2}
  Rounds = {1, 2, 3, 4}
  ScriptCount = 2
  NoStarter = NoStarter
  MaxExpiries = 1
  Machine = {m1, m2}
  PkgName = {x, y}
  BaseDeps = {x}
  PkgCall = {c1, c2}
  NoCall = NoCall
  Edits = {"enabled", "system"}
  MaxRows = 2
  MaxAsks = 3
  MaxTroubles = 1
  FileCall = {f1, f2}
  MaxContents = 3
  MaxSlips = 1
SYMMETRY MCSymmetry
INVARIANTS
  TypesOK
  ReportsAreSo
  ScriptsHaveOneRunner
  ServerDependenciesStay
  SettledListsAgree
  FilesAreAsDescribed
PROPERTIES
  LoadedColumnsStay
CHECK_DEADLOCK FALSE
