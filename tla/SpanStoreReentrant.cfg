\* A callback made from the user code of on_record.
CONSTANTS
  s1 = s1
  s2 = s2
  s3 = s3
  f1 = f1
  f2 = f2
  f3 = f3
  Frames = {f1, f3}
  Spans = {s1, s2}
  None = None
  Host <- Inside
  Shards = {1, 2}
  SlotCount = 1
  OverShards = {1}
  ShardOf <- MCShardOf
  OverShardOf <- MCOverShardOf
  MaxCalls = 4
SPECIFICATION Spec
INVARIANT ReentrantDropped
