SPECIFICATION FairSpec
CONSTANTS
  Vecs = {0, 1}
  I = 7
  bnum = 2
INVARIANTS RingInv SlotExclusion OutputsExact OutputsComplete FlagsBalanced
PROPERTIES ImplementsTileMap Termination
