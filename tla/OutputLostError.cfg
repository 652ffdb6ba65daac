\* A flush completes between a failed write and its record_error.
CONSTANTS
  t1 = t1
  t2 = t2
  f1 = f1
  f2 = f2
  Threads = {t1}
  Flushers = {f1}
  None = None
  Capacity = 2
  Sizes = {3}
  MaxPackets = 1
  MaxFlushes = 1
  MaxFailures = 1
SPECIFICATION Spec
INVARIANTS
  FlushSurfacesError
