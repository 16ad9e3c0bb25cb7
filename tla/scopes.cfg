SPECIFICATION Spec
CONSTANTS
  a = a
  b = b
  Name = {a, b}
  BaseType = integer
  NULL = NULL
  MAXSCOPE = 4
  MaxFuncs = 3
  MaxTypes = 0
  TypeRef = {integer}
INVARIANTS
  TypeOK
  GlobalScopeLast
  DeclaresInOwnScope
  Ownership
  VisibleNamesFound
  FirstDeclarerWins
PROPERTIES
  FirstBindingStays
  ImplementsBlocks
SYMMETRY Symmetry
