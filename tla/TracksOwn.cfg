\* The README's own lifetime track, when a span is closed where no thread
\* context can be acquired.
CONSTANTS
  Threads = {t1, t2}
  Spans = {s1, s2, s3}
  Names = {n1}
  None = None
  NumSlots = 1
  PoolCap = 1
  MaxKeys = 2
  MayFail = FALSE
SYMMETRY Symmetric
SPECIFICATION Spec
INVARIANT OwnLifetimeTrack
