\* Two definitions of up to three fields.
CONSTANTS
  BaseTypes <- MCBaseTypes
  MaxTypes = 2
  MaxNesting = 8
  MaxCount = 3
  MaxFields = 3
SPECIFICATION LayoutSpec
INVARIANTS
  PrintedWhereStored
  ElementsEnteredWhereStored
  ParametersAgree
