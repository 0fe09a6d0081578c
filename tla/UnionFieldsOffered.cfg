\* An enum with more values than the union has fields.
CONSTANTS
  Types <- MCTypes
  Programs <- MCPrograms
  EnumNumValues <- MCEnumNumValues
  MaxInput = 2
  IntMax = 3
SPECIFICATION Spec
INVARIANT UnionFieldsOffered
