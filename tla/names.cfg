SPECIFICATION NamesSpec
CONSTANTS
  a = a
  b = b
  Name = {a, b}
  BaseType = integer
  NULL = NULL
  MAXSCOPE = 3
  MaxFuncs = 3
  MaxTypes = 1
  MaxDecls = 3
  TypeRef = {a, b, integer}
INVARIANTS
  NamesTypeOK
  OwnNamesLocal
  LocalsCleared
  SameSymbolForBoth
  GlobalsDeclared
  TypedOnceDeclared
PROPERTIES
  NoFunctionLeftOut
  DeclarationsTranslated
SYMMETRY NamesSymmetry
