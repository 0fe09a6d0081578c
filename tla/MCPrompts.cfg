\* Two structs in all ways, and an enum with more values than the union has fields.
CONSTANTS
  Types <- MCTypes
  Programs <- MCPrograms
  EnumNumValues <- MCEnumNumValues
  MaxInput = 2
  IntMax = 3
SPECIFICATION FairSpec
INVARIANTS
  PublishedIsLive
  NothingLeaks
  SkipsNothing
PROPERTIES
  ChosenByUser
  EntryEnds
