\* Two threads whose writer may fail; the owner drops its handles, which flushes.
CONSTANTS
  t1 = t1
  t2 = t2
  f1 = f1
  f2 = f2
  Threads = {t1, t2}
  Flushers = {f1}
  None = None
  Capacity = 2
  Sizes = {1, 3}
  MaxPackets = 2
  MaxFlushes = 0
  MaxFailures = 1
SYMMETRY Symmetric
SPECIFICATION Spec
INVARIANTS
  DrainInv
  StreamOrdered
  AtMostOneLateWrite
