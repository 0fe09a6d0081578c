\* Signal 0 is none, 1 is sent by a user and may be ignored, 2 is SIGSEGV, 3 is
\* one more after it in the loops.
CONSTANTS
  NSignals = 4
  Segv = 2
  Unhandleable = {0}
  Ignored = {1}
  MaxDepth = 2
  MaxGuards = 3
  MaxArrivals = 3
SPECIFICATION FairSpec
INVARIANTS
  HandlerHasFrame
  GuardsMatchHandler
  HandlersRestored
  ReportCounts
PROPERTIES
  SignalIsReported
