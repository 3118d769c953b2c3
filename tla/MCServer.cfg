SPECIFICATION FairSpec
CONSTANTS
  Queries = {1, 2}
  Conns = {3, 4}
  workers = {5, 6}
  Buffers = {11, 12, 13, 14}
  jobsCap = 1
  maxTCPConns = 1
  None = None
INVARIANTS BuffersExclusive RepliesMatch SlotsBounded StopsInOrder
PROPERTY ServeStops
ACTION_CONSTRAINT LeastFirst
CHECK_DEADLOCK FALSE
