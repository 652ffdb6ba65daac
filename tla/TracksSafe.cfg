\* Two threads with one cache slot each and pools of one uuid: three spans, one
\* key more than may be pooled, and a writer that may fail.
CONSTANTS
  Threads = {t1, t2}
  Spans = {s1, s2, s3}
  Names = {n1}
  None = None
  NumSlots = 1
  PoolCap = 1
  MaxKeys = 2
  MayFail = TRUE
SYMMETRY Symmetric
SPECIFICATION Spec
INVARIANTS
  TypeOK
  OneOwner
  NothingLeaks
  TracksFit
  PoolsBounded
  SlicesApart
