SPECIFICATION Spec
CONSTANTS
  Pipeline <- MCPipeline
  Outs <- MCOuts
  Shadows <- MCShadows
  Effects <- MCEffects
  Times = {1, 2, 3}
INVARIANTS FloorStands
