SPECIFICATION FairSpec
CONSTANTS
  i1 = i1  i2 = i2  h1 = h1  h2 = h2  k1 = k1  None = None
  Instances = {i1, i2}
  Keys = {k1}
  Handlers = {h1, h2}
  home <- MCHome
  MaxWrites = 2
  MaxDrops = 2
CHECK_DEADLOCK FALSE
INVARIANTS OwnWritesVisible
PROPERTIES ImplementsCoherentCache StaleEntriesGo
