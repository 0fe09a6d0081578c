\* A search that is given up at a pointer that is dereferenced.
CONSTANTS
  Values <- MCValues
  Functions = {"f", "g"}
  Scalars = {"int"}
  Programs <- MCPrograms
  MaxDepth = 4
  MaxLevel = 2
SPECIFICATION Spec
INVARIANT DereferencedIsTyped
