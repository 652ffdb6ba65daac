\* Two threads and two spans in every mode, with and without poll slices.
CONSTANTS
  Threads = {t1, t2}
  Spans = {s1, s2}
  None = None
  Modes = {"SpanTracks", "ThreadTracks", "Both"}
  SpareBoxes = 1
  MaxDepth = 2
  MaxFlows = 1
  MayFail = TRUE
SYMMETRY Symmetric
SPECIFICATION Spec
INVARIANTS
  TypeOK
  SlicesMirrorExecution
  FlowEndsRight
  EndIsComplete
  BoxesOwn
