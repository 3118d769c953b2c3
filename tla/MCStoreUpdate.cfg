SPECIFICATION Spec
CONSTANTS
  p1 = p1  p2 = p2  None = None
  Zones = {"x"}
  Keys <- Pair
  Fields = {"refresh", "minimum"}
  Values = {1, 2}
  TTLs = {1}
  Times = {0}
  Procs = {p1, p2}
  MaxSerial = 2
PROPERTIES UnsetFieldsKept
SYMMETRY MCSymmetry
