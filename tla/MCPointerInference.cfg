\* Every module of three instructions, and longer ones.
CONSTANTS
  Values <- MCValues
  Functions = {"f", "g"}
  Scalars = {"int"}
  Programs <- MCPrograms
  MaxDepth = 4
  MaxLevel = 2
SPECIFICATION Spec
INVARIANTS
  LevelsFound
  EvidenceIsReached
  LostOnlyByDepth
PROPERTY
  SearchEnds
