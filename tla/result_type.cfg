SPECIFICATION Spec
CONSTANTS
  a = a
  Name = {a}
  BaseType = integer
  NULL = NULL
  MAXSCOPE = 3
  MaxFuncs = 1
  MaxTypes = 0
  TypeRef = {a, integer}
PROPERTIES
  UndefinedResultReported
