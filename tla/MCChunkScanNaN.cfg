SPECIFICATION Spec
CONSTANTS
  Vecs = {0}
  UNITS = 3
  NC = 2
  bnum = 2
  NonFinite = {0}
INVARIANTS UnitsIndependent
