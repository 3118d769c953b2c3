SPECIFICATION FairSpec
CONSTANTS
  l1 = l1  l2 = l2  w1 = w1  w2 = w2  None = None
  Zones <- Apex  Names <- Apex  QNames <- Apex
  Lookups = {l1, l2}  Writers = {w1}
  expiring = FALSE
  MaxContent = 1  MaxWrites = 3  MaxDots = 1
PROPERTIES LookupsReturn StaleEntriesGo
