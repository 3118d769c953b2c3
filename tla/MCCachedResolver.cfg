SPECIFICATION Spec
CONSTANTS
  l1 = l1  l2 = l2  w1 = w1  w2 = w2  None = None
  Zones <- Apex  Names <- Nested  QNames <- Query1
  Lookups = {l1}  Writers = {w1, w2}
  expiring = TRUE
  MaxContent = 1  MaxWrites = 3  MaxDots = 1
INVARIANTS Coherent
PROPERTIES ImplementsCoherentCache
SYMMETRY MCSymmetry
