SPECIFICATION DecisionSpec
CONSTANTS
  Programs <- MCPrograms
  NodesOf <- MCNodesOf
  Ins <- MCIns
  OperandsOf <- MCOperandsOf
  Warmup = 2
  Reliable = FALSE
  Cloned = TRUE
INVARIANTS StaticShapes
