\* A full ring, an exit and a flush contend for the locks of one ring, over a
\* writer that may fail twice.
CONSTANTS
  t1 = t1
  t2 = t2
  f1 = f1
  f2 = f2
  Threads = {t1}
  Flushers = {f1}
  None = None
  Capacity = 2
  Sizes = {1, 3}
  MaxPackets = 3
  MaxFlushes = 1
  MaxFailures = 2
SPECIFICATION FairSpec
PROPERTIES
  DrainsReturn
  ErrorSticks
  Implements
