\* Three threads, one slot per shard, two spans in one shard: the overflow map
\* is used, and its spans outlive those in the slots.
CONSTANTS
  s1 = s1
  s2 = s2
  s3 = s3
  f1 = f1
  f2 = f2
  f3 = f3
  Frames = {f1, f2, f3}
  Spans = {s1, s2}
  None = None
  Host <- Apart
  Shards = {1, 2}
  SlotCount = 1
  OverShards = {1}
  ShardOf <- MCShardOf
  OverShardOf <- MCOverShardOf
  MaxCalls = 5
SPECIFICATION FairSpec
INVARIANTS
  TypeOK
  RefsValid
PROPERTIES
  Implements
  CallsReturn
