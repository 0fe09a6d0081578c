CONSTANTS
  Names <- MCNames
  Declarations <- MCDeclarations
  Functions <- MCFunctions
  SourceTypes <- MCSourceTypes
  MaxFiles = 2
  MaxPerFile = 2
SPECIFICATION Spec
INVARIANTS
  NamesHaveRows
  NestingEnds
  HonestNames
  DefinedAreNamed
  OrderMattersForClassesOnly
CHECK_DEADLOCK FALSE
