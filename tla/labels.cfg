SPECIFICATION Spec
CONSTANTS
  MaxArgs = 1
  MaxDepth = 5
  MaxRegs = 1
  MaxLabels = 4
  MaxBodies = 1
  ParamCounts = {0}
INVARIANTS
  LabelsPlacedOnce
  BranchesLand
