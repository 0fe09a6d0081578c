\* Exceptions, longjmp and signals abandon calls; the name of setjmp precedes
\* all others in strcmp order, as "_setjmp" does in a C program.
CONSTANTS
  FuncNames = {1, 2, 3}
  Main = 2
  ReturnsTwice = {1}
  MaxFrames = 3
  UIntMod = 64
SPECIFICATION FairSpec
INVARIANTS
  LiveFramesKept
PROPERTIES
  LogNeedsStream
  ImplementsBrackets
  SignalledRunIsClosed
