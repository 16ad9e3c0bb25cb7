SPECIFICATION TypesSpec
CONSTANTS
  TypeNames = {"A", "V"}
  Declared <- MCDeclared
  Functions <- MCFunctions
  MaxArgs = 2
  MaxChecked = 3
  MaxIfs = 1
INVARIANTS
  TypesTypeOK
  OnlyGapsBroken
  StrongestLeaf
  CrashesKnown
PROPERTIES
  NoFalseAlarm
