SPECIFICATION LaunchSpec
CONSTANTS
  Blocks = {b1, b2, b3, b4, b5, b6}
  NoBlock = NoBlock
  RunInputs = {"x", "y"}
  Results <- MCResults
  Arities = {2}
  ScanCopies = 1
SYMMETRY MCSymmetry
INVARIANTS LaunchTypeOK LaunchInv ReadsItsOperands ResultsExact
