SPECIFICATION Spec
CONSTANTS
  MaxArgs = 1
  MaxDepth = 4
  MaxRegs = 3
  MaxLabels = 0
  MaxBodies = 1
  ParamCounts = {1}
INVARIANTS
  BothExpressionsAdded
