\* One thread with more keys than its two cache slots.
CONSTANTS
  Threads = {t1}
  Spans = {s1, s2, s3, s4}
  Names = {n1}
  None = None
  NumSlots = 2
  PoolCap = 1
  MaxKeys = 3
  MayFail = FALSE
SYMMETRY Symmetric
SPECIFICATION Spec
INVARIANTS
  OneOwner
  NothingLeaks
  CachedOnce
