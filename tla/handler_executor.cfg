\* Two runs and a pool of one child: the second waits, or is started by a call
\* of the first and waited for by it.
SPECIFICATION FairSpec
CONSTANTS
  Task = {t1, t2}
  Child = {c1}
  None = None
  PoolMax = 1
  MaxOut = 2
  Faults <- AllFaults
INVARIANTS
  TypeOK
  LendingIsExclusive
  OnlyStraysReachOthers
  OverIsSettled
PROPERTIES
  EveryRunEnds
CHECK_DEADLOCK FALSE
