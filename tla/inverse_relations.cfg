\* Two tables, two properties, two relations; a change the code does not follow.
SPECIFICATION MigSpec
CONSTANTS
  t = t
  u = u
  p = p
  q = q
  Tab = {t, u}
  Prop = {p, q}
  NoProp = NoProp
  InvNames = {NoProp, q}
  NoTab = NoTab
  NamedAs <- MCNamedAs
  MaxRel = 2
  MaxDirty = 1
  MigDialects = {"postgres", "mysql"}
PROPERTIES
  InverseRelationsStay
CHECK_DEADLOCK FALSE
