SPECIFICATION DecisionSpec
CONSTANTS
  Programs <- MCPrograms
  NodesOf <- MCNodesOf
  Ins <- MCIns
  OperandsOf <- MCOperandsOf
  Warmup = 2
  Reliable = TRUE
  Cloned = TRUE
INVARIANTS DecisionTypeOK DecisionInv DeterminismIsReal ReplayIsFresh StaticShapes HostWork RecordedRunnersFit
