\* Every memory of two objects with two pointers and a string each.
CONSTANTS
  list = list
  tree = tree
  Objects <- MCObjects
  Fields <- MCFields
  Root = Root
  Null = Null
  Wild = Wild
SPECIFICATION FairSpec
INVARIANTS
  PathRemembered
  NoLoop
  SavePointIsOwn
  FaultStaysInside
PROPERTIES
  WalkEnds
