\* Structs of scalars and of structs of scalars.
CONSTANTS
  BaseTypes <- Scalars
  MaxTypes = 2
  MaxNesting = 8
  MaxCount = 3
  MaxFields = 2
SPECIFICATION LayoutSpec
INVARIANT NestedPrintedWhereStored
