SPECIFICATION Spec
CONSTANTS
  a = a
  Name = {a}
  BaseType = integer
  NULL = NULL
  MAXSCOPE = 3
  MaxFuncs = 2
  MaxTypes = 0
  TypeRef = {integer}
PROPERTIES
  InsertionShadows
