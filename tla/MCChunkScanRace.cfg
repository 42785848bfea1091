SPECIFICATION Spec
CONSTANTS
  Vecs = {0, 1}
  UNITS = 3
  NC = 2
  bnum = 2
  NonFinite = {}
INVARIANTS ScanExact
