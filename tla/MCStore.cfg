SPECIFICATION FairSpec
CONSTANTS
  p1 = p1  p2 = p2  None = None
  Zones = {"x"}
  Keys <- MCKeys
  Fields = {"minimum"}
  Values = {1}
  TTLs = {1, 2}
  Times = {0, 2}
  Procs = {p1, p2}
  MaxSerial = 2
INVARIANTS Consistent
PROPERTIES SerialAdvances CallsReturn
