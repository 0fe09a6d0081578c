CONSTANTS
  Names <- MCNames
  Declarations <- MCDeclarations
  Functions <- MCFunctions
  SourceTypes <- MCSourceTypes
  MaxFiles = 1
  MaxPerFile = 2
SPECIFICATION Spec
INVARIANT UnionsAreUnions
CHECK_DEADLOCK FALSE
