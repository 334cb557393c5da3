CONSTANTS
  Threads = {t1, t2}
  Columns = {k1, k2}
  Slots = {s1}
  Texts = {x1, x2}
  Pools = {p1, p2}
  Addrs = {a1, a2, a3, a4}
  NULL = NULL
  a1 = a1
  a2 = a2
  a3 = a3
  a4 = a4
  k1 = k1
  k2 = k2
  p1 = p1
  p2 = p2
  s1 = s1
  t1 = t1
  t2 = t2
  x1 = x1
  x2 = x2

SPECIFICATION FairSpec
INVARIANTS
  CacheNamesLive
  DestroyedOnce
  CellsInPool
  PoolOutlivesEntries
PROPERTIES
  CellsReadAsWritten
  OperationsFinish
