SPECIFICATION FairSpec
CONSTANTS
  a1 = a1  a2 = a2  b1 = b1  ga = ga  gb = gb
  None = None
  Keys <- MCKeys  Groups <- MCGroups  groupOf <- MCGroupOf
  Procs = {1, 2}
  shardFor <- MCShardFor
  shardCount = 2
  maxEntries = 4
  ttl = 1
  MaxEpoch = 1
  MaxTime = 1
INVARIANTS NoResurrection ShardBound
PROPERTIES EvictsInOrder CallsReturn
ACTION_CONSTRAINT LeastFirst
