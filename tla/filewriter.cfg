SPECIFICATION FairSpec
CONSTANTS
  c1 = c1
  c2 = c2
  Chunk = {c1, c2}
  MaxOpen = 3
  MaxRuns = 2
INVARIANTS
  TypeOK
  AllOrNothing
  LimitedOutput
PROPERTIES
  ComesToEnd
  RunsEnd
