\* Two traced threads, one owner of the guard and layer, no write failures.
CONSTANTS
  t1 = t1
  t2 = t2
  f1 = f1
  f2 = f2
  Threads = {t1, t2}
  Flushers = {f1}
  None = None
  Capacity = 2
  Sizes = {1, 3}
  MaxPackets = 2
  MaxFlushes = 1
  MaxFailures = 0
SYMMETRY Symmetric
SPECIFICATION Spec
INVARIANTS
  TypeOK
  NothingLost
  FlushCovers
  ExitedThreadsDrained
  CompleteAtTheEnd
