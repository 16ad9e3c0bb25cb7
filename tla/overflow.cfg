SPECIFICATION Spec
CONSTANTS
  a = a
  Name = {a}
  BaseType = integer
  NULL = NULL
  MAXSCOPE = 2
  MaxFuncs = 3
  MaxTypes = 0
  TypeRef = {a, integer}
INVARIANTS
  EveryFunctionOpened
PROPERTIES
  BindingsKept
