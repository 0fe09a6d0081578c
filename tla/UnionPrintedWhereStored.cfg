\* A union of scalars and arrays, and structs that may contain it.
CONSTANTS
  BaseTypes <- MCUnionTypes
  MaxTypes = 3
  MaxNesting = 8
  MaxCount = 3
  MaxFields = 2
SPECIFICATION LayoutSpec
INVARIANT UnionPrintedWhereStored
