\* A name made up by the Logger pass.
CONSTANTS
  LlvmStructs <- MCLlvmStructs
  StructNames = {"Outer", "Inner"}
  NameOf <- MCNameOf
  NoName = "none"
  Fields <- MCFields
  MaxCsvRows = 2
SPECIFICATION Spec
INVARIANTS
  LoggedHaveRows
