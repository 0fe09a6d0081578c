\* An enum before the last parameter.
CONSTANTS
  Scalars = {"int"}
  Enums <- MCEnums
  EnumTypes <- MCEnumTypes
  Spoils <- MCSpoils
  Pointees = {"int"}
  Arrays = {}
  MaxParams = 2
  MaxDeclarations = 1
SPECIFICATION MatchSpec
INVARIANTS
  AllOverloadsFound
