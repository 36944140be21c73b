\* Columns: both databases, every fault.  Relations: up to two are ever made;
\* the first change that the database does not follow ends the behaviour.
SPECIFICATION MCSpec
CONSTANTS
  i1 = i1
  i2 = i2
  o1 = o1
  o2 = o2
  o3 = o3
  a = a
  b = b
  t = t
  u = u
  p = p
  q = q
  Inst = {i1, i2}
  Change = {o1, o2, o3}
  At <- MCAt
  Name = {a, b}
  MaxId = 3
  NoTable = NoTable
  Unloaded = Unloaded
  None = None
  Dialects = {"postgres", "mysql"}
  MaxBegun = 3
  Faults = {"ddl", "commit", "crash"}
  Tab = {t, u}
  Prop = {p, q}
  NoProp = NoProp
  InvNames = {NoProp, p, q}
  NoTab = NoTab
  NamedAs <- MCNamedAs
  MaxRel = 2
  MaxDirty = 1
  MigDialects = {"mysql"}
SYMMETRY MCSymmetry
INVARIANTS
  TypesOK
  SoundChangesMigrate
  MetadataHasTable
  StoredAsDescribed
CHECK_DEADLOCK FALSE
