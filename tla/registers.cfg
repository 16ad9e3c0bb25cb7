SPECIFICATION Spec
CONSTANTS
  MaxArgs = 2
  MaxDepth = 5
  MaxRegs = 3
  MaxLabels = 0
  MaxBodies = 1
  ParamCounts = {1}
INVARIANTS
  TypeOK
  DefinedInOrder
  RightOperandHeld
  ComparisonLeftHeld
  ArgumentHeld
  StatementOperandHeld
