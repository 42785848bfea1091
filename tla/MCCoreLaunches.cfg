SPECIFICATION FairSpec
CONSTANTS
  Vecs = {0, 1}
  I = 7
  bnum = 2
  UNITS = 5
  NC = 2
  NonFinite = {2, 4}
  Cleared = {"kkt", "scan"}
  MaxLaunches = 3
INVARIANTS TypeOK SlotExclusion OutputsExact SignalsBalanced StreamInv FirstReadoutZero ScanComplete ExactUnlessOvertaken
PROPERTIES StartsClean ImplementsTileMap EveryLaunchReturns
