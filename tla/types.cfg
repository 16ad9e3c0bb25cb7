SPECIFICATION FairSpec
CONSTANTS
  a = a
  b = b
  Name = {a, b}
  BaseType = integer
  NULL = NULL
  MAXSCOPE = 3
  MaxFuncs = 1
  MaxTypes = 2
  TypeRef = {a, b, integer}
INVARIANTS
  WellNested
  NoDuplicates
PROPERTIES
  ProgressMade
  Termination
