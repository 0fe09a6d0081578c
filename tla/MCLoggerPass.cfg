\* The target ends by return, by an exception, or by a signal, and the run with it.
CONSTANTS
  FuncNames <- MCFuncNames
  Main <- MCMain
  OldMain <- MCOldMain
  Targets <- MCTargets
  MaxFunctions = 7
  MaxFrames = 5
SPECIFICATION Spec
INVARIANTS
  TypeOK
  PointersLead
  LogShowsCalls
PROPERTIES
  ImplementsCallLog
  PassesEnd
CHECK_DEADLOCK FALSE
