\* Two overloads, of free functions or of methods, each declared once, in either order.
CONSTANTS
  Scalars = {"int"}
  Enums <- MCEnums
  EnumTypes <- MCEnumTypes
  Spoils <- MCSpoils
  Pointees = {"int"}
  Arrays = {"int"}
  MaxParams = 2
  MaxDeclarations = 1
SPECIFICATION MatchSpec
INVARIANTS
  ParametersFound
  OverloadsFound
