\* Two requests, one conversation, a cancel and a failing query; and a loop of
\* two answers with two calls each.
SPECIFICATION MCSpec
CONSTANTS
  r1 = r1
  r2 = r2
  i1 = i1
  Instances = {i1, i2}
  Conversations = {c1}
  Requests = {r1, r2}
  Cancels = {k1}
  Nobody = Nobody
  OldLengths = {0}
  PageLimit = 2
  MaxMessages = 3
  MaxTrouble = 1
  What = {"read", "write", "empty", "other"}
  CallId = {"a", "b"}
  Common = {"read", "write", "empty"}
  Selections <- MCSelections
  Hollow = {"empty"}
  MaxToolIterations = 2
  MaxCalls = 2
INVARIANTS
  TypesOK
  EndedIsAnswered
  RegistryNamesTheRunning
  ResultsAreReused
  CallsAreAnswered
PROPERTIES
  EverythingEnds
CHECK_DEADLOCK FALSE
