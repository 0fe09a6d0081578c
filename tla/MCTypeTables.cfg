\* Any csv file of up to three rows, any order of types and functions.
CONSTANTS
  LlvmStructs <- MCLlvmStructs
  StructNames = {"Outer", "Inner"}
  NameOf <- MCNameOf
  NoName = "none"
  Fields <- MCFields
  MaxCsvRows = 3
SPECIFICATION Spec
INVARIANTS
  GivenHaveRows
  LoggedNotMisled
