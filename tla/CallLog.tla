------------------------------ MODULE CallLog ------------------------------
(***************************************************************************)
(* The run-time call log of the debugger (debuggerController.cpp): the     *)
(* functions logFunctionParameters and logFunctionReturn that the Logger   *)
(* pass inserts around every direct call of the target, the stack of names *)
(* they keep, and the life of the controller's main around them: the       *)
(* target's static constructors, main, the end by return, by an escaping   *)
(* exception, by a signal or by exit, and the target's static destructors. *)
(*                                                                         *)
(* The target is the environment.  Its calls are properly nested, but a    *)
(* C++ exception or a longjmp abandons calls without their                 *)
(* logFunctionReturn, so the log must find out by itself which of its      *)
(* entries are dead.  A function name is the number of its place in the    *)
(* order of strcmp, which is all the log ever asks of it.                  *)
(***************************************************************************)
EXTENDS Integers, Sequences

CONSTANTS
  FuncNames,     \* names of the logged functions, numbered in strcmp order
  Main,          \* the name "main"
  ReturnsTwice,  \* names of logged functions that may return twice (setjmp)
  MaxFrames,     \* bound: most names the log stack may hold
  UIntMod        \* 2^32: the range of the unsigned int indentLevel

ASSUME FuncNamesAssumption == FuncNames \subseteq Nat
ASSUME MainAssumption == Main \in FuncNames
ASSUME ReturnsTwiceAssumption == ReturnsTwice \subseteq FuncNames
ASSUME BoundsAssumption == /\ MaxFrames \in Nat
                           /\ UIntMod \in Nat
                           /\ MaxFrames + 1 < UIntMod

VARIABLES
  phase,          \* where the controller's process is
  o,              \* the log stream: std::cout, the file, or nullptr
  fileOpen,       \* the file stream of main is open
  funcNameStack,  \* the names the log believes to be executing
  indentLevel,    \* the indentation of the next line, an unsigned int
  calls,          \* the target's calls really in progress, outermost first
  armed,          \* setjmp calls that may return again: <<depth, name>>
  unpaired,       \* history: some call has returned a second time
  undefined       \* history: the log read below the bottom of its stack

vars == <<phase, o, fileOpen, funcNameStack, indentLevel, calls, armed,
          unpaired, undefined>>

logVars == <<funcNameStack, indentLevel>>

Phases == {"ctors", "running", "signalled", "closing", "dtors", "ended"}

\* A call in progress, with the place its name took on the log stack: 0 when the
\* call was not logged, or a second return may have popped its name.
Frame == [func : FuncNames, slot : 0..MaxFrames]

\* Code of the target is executing.
TargetRuns == phase \in {"ctors", "running", "dtors"}

\* Arithmetic on an unsigned int: one more, and k less.
PlusOne(x) == IF x + 1 = UIntMod THEN 0 ELSE x + 1
Minus(x, k) == IF x >= k THEN x - k ELSE x - k + UIntMod

-----------------------------------------------------------------------------
(* The two log functions. *)

\* Mutant: the log functions forget to ask whether the log is closed.
Silent_Never == FALSE
Silent == o = "null"

LogFunctionParameters(f) ==
  IF Silent
    THEN UNCHANGED logVars
    ELSE /\ Len(funcNameStack) < MaxFrames
         /\ funcNameStack' = Append(funcNameStack, f)
         /\ indentLevel' = PlusOne(indentLevel)

\* strcmp(top, funcName) > 0: the entry is taken for one that should have
\* returned.  The mutant takes equal names for overdue, too.
Overdue_OrEqual(top, f) == top >= f
Overdue(top, f) == top > f

\* The loop of logFunctionReturn stops at the k-th entry.
StopsAt(k, f) == /\ ~Overdue(funcNameStack[k], f)
                 /\ \A j \in k+1..Len(funcNameStack) : Overdue(funcNameStack[j], f)

\* Pops everything above the k-th entry and the k-th entry itself.
PopTo(k) ==
  /\ funcNameStack' = SubSeq(funcNameStack, 1, k - 1)
  /\ indentLevel' = Minus(indentLevel, Len(funcNameStack) - k + 1)

LogFunctionReturn(f) ==
  IF Silent
    THEN UNCHANGED logVars
    ELSE \E k \in 1..Len(funcNameStack) : StopsAt(k, f) /\ PopTo(k)

\* The loop pops every name and goes on to read funcNameStack[size() - 1] of an
\* empty vector.  The word below the vector's block is no valid address, so
\* strcmp faults: under the handlers of runFunctionWithSignals the run ends by
\* that signal, outside of them the process dies.
PopsPastBottom(f) ==
  /\ ~Silent
  /\ \A j \in 1..Len(funcNameStack) : Overdue(funcNameStack[j], f)
  /\ funcNameStack' = <<>>
  /\ indentLevel' = Minus(indentLevel, Len(funcNameStack) + 1)
  /\ undefined' = TRUE
  /\ calls' = <<>>
  /\ armed' = {}
  /\ phase' = IF phase = "running" THEN "signalled" ELSE "ended"

-----------------------------------------------------------------------------
(* Steps of the target. *)

\* The setjmp calls of frames that are still in progress at this depth.
ArmedUpTo(depth) == {a \in armed : a[1] <= depth}

\* A direct call of the target.  The Logger pass put logFunctionParameters
\* before it.
Call(f) ==
  /\ TargetRuns
  /\ Len(calls) < MaxFrames
  /\ LogFunctionParameters(f)
  /\ calls' = Append(calls, [func |-> f,
                             slot |-> IF Silent THEN 0 ELSE Len(funcNameStack) + 1])
  /\ UNCHANGED <<phase, o, fileOpen, armed, unpaired, undefined>>

\* The innermost call returns and logFunctionReturn runs.  When it is the
\* target's main, the controller goes on to close the log.
Return ==
  /\ TargetRuns
  /\ calls # <<>>
  /\ LET depth == Len(calls) - 1
         f     == calls[Len(calls)].func
     IN \/ /\ LogFunctionReturn(f)
           /\ calls' = SubSeq(calls, 1, depth)
           /\ armed' = ArmedUpTo(depth)
                         \cup (IF f \in ReturnsTwice THEN {<<depth, f>>} ELSE {})
           /\ phase' = IF phase = "running" /\ depth = 0 THEN "closing" ELSE phase
           /\ UNCHANGED undefined
        \/ PopsPastBottom(f)
  /\ UNCHANGED <<o, fileOpen, unpaired>>

\* An exception caught in the frame at this depth, or a longjmp to it, abandons
\* the calls above.  Calls that can throw to a handler are invoke instructions,
\* which the Logger pass leaves alone: nothing is logged.
Unwind(depth) ==
  /\ TargetRuns
  /\ depth < Len(calls)
  /\ phase = "running" => depth > 0
  /\ calls' = SubSeq(calls, 1, depth)
  /\ armed' = ArmedUpTo(depth)
  /\ UNCHANGED <<phase, o, fileOpen, logVars, unpaired, undefined>>

\* longjmp returns a second time from a setjmp of a frame in progress, into the
\* logFunctionReturn the pass placed behind that call.
SecondReturn(depth, f) ==
  /\ TargetRuns
  /\ <<depth, f>> \in armed
  /\ unpaired' = TRUE
  /\ \/ /\ LogFunctionReturn(f)
        /\ calls' = [i \in 1..depth |-> [calls[i] EXCEPT !.slot = 0]]
        /\ armed' = ArmedUpTo(depth)
        /\ UNCHANGED <<phase, undefined>>
     \/ PopsPastBottom(f)
  /\ UNCHANGED <<o, fileOpen>>

\* An exception leaves the target's main and ends in the catch-all of
\* runFunctionWithSignals, which counts as a normal end.
ExceptionEscapes ==
  /\ phase = "running"
  /\ phase' = "closing"
  /\ calls' = <<>>
  /\ armed' = {}
  /\ UNCHANGED <<o, fileOpen, logVars, unpaired, undefined>>

\* A signal reaches signalHandler, which jumps back into runFunctionWithSignals.
Signal ==
  /\ phase = "running"
  /\ phase' = "signalled"
  /\ calls' = <<>>
  /\ armed' = {}
  /\ UNCHANGED <<o, fileOpen, logVars, unpaired, undefined>>

\* The process ends: exit called by the target, or all destructors have run.
Exit ==
  /\ TargetRuns
  /\ phase' = "ended"
  /\ UNCHANGED <<o, fileOpen, logVars, calls, armed, unpaired, undefined>>

-----------------------------------------------------------------------------
(* Steps of the controller's main. *)

\* The target's main has parameters that cannot be entered: main returns 1 with
\* the log still on std::cout.
InvalidMain ==
  /\ phase = "ctors"
  /\ calls = <<>>
  /\ phase' = "dtors"
  /\ armed' = {}
  /\ UNCHANGED <<o, fileOpen, logVars, calls, unpaired, undefined>>

\* Opens the file, logs the call of main and calls it through its wrapper.
StartMain ==
  /\ phase = "ctors"
  /\ calls = <<>>
  /\ fileOpen' = TRUE
  /\ o' = "file"
  /\ LogFunctionParameters(Main)
  /\ calls' = <<[func |-> Main, slot |-> Len(funcNameStack) + 1]>>
  /\ armed' = {}
  /\ phase' = "running"
  /\ UNCHANGED <<unpaired, undefined>>

\* After a signal: every name left on the stack "should have returned".
ReportUnreturned ==
  /\ phase = "signalled"
  /\ funcNameStack' = <<>>
  /\ indentLevel' = Minus(indentLevel, Len(funcNameStack))
  /\ phase' = "closing"
  /\ UNCHANGED <<o, fileOpen, calls, armed, unpaired, undefined>>

\* Mutant: the file is closed but o goes on pointing at it.
Close_KeepsStream ==
  /\ phase = "closing"
  /\ fileOpen' = FALSE
  /\ phase' = "dtors"
  /\ UNCHANGED <<o, logVars, calls, armed, unpaired, undefined>>

\* o = nullptr, f.close(), and main returns: static destructors follow.
Close ==
  /\ phase = "closing"
  /\ o' = "null"
  /\ fileOpen' = FALSE
  /\ phase' = "dtors"
  /\ UNCHANGED <<logVars, calls, armed, unpaired, undefined>>

Terminated == phase = "ended" /\ UNCHANGED vars

Controller == InvalidMain \/ StartMain \/ ReportUnreturned \/ Close

-----------------------------------------------------------------------------
Init ==
  /\ phase = "ctors"
  /\ o = "cout"
  /\ fileOpen = FALSE
  /\ funcNameStack = <<>>
  /\ indentLevel = 0
  /\ calls = <<>>
  /\ armed = {}
  /\ unpaired = FALSE
  /\ undefined = FALSE

Next ==
  \/ \E f \in FuncNames : Call(f)
  \/ Return
  \/ \E depth \in 0..MaxFrames : Unwind(depth)
  \/ \E depth \in 0..MaxFrames, f \in ReturnsTwice : SecondReturn(depth, f)
  \/ ExceptionEscapes
  \/ Signal
  \/ Exit
  \/ Controller
  \/ Terminated

Spec == Init /\ [][Next]_vars

\* The controller is ordinary sequential code: what it can do it goes on to do.
\* Nothing is assumed of the target.
FairSpec == Spec /\ WF_vars(ReportUnreturned \/ Close)

-----------------------------------------------------------------------------
(* Properties. *)

TypeOK ==
  /\ phase \in Phases
  /\ o \in {"cout", "file", "null"}
  /\ fileOpen \in BOOLEAN
  /\ funcNameStack \in Seq(FuncNames)
  /\ Len(funcNameStack) <= MaxFrames
  /\ indentLevel \in 0..UIntMod - 1
  /\ calls \in Seq(Frame)
  /\ armed \subseteq (Nat \X ReturnsTwice)
  /\ unpaired \in BOOLEAN
  /\ undefined \in BOOLEAN

\* The calls in c that have a place have their names in the log stack s, in the same
\* order, and above those of the calls that have none.
FramesKept(c, s) ==
  /\ \A i \in 1..Len(c) : c[i].slot # 0 => c[i].slot \in 1..Len(s) /\ s[c[i].slot] = c[i].func
  /\ \A i, j \in 1..Len(c) : i < j /\ c[i].slot # 0 => c[i].slot < c[j].slot

\* Every call in progress still has its name on the log stack, in the order of
\* the calls, however many abandoned calls lie between: popping overdue names
\* and then one more (logFunctionReturn) never takes a caller's entry away.  A
\* second return may take entries of the calls then in progress, but of none that is
\* made later, however their callers return.
LiveFramesKept ==
  o # "null" => /\ FramesKept(calls, funcNameStack)
                /\ \A i \in 1..Len(calls) : calls[i].slot = 0 => unpaired

\* logFunctionReturn never looks below the bottom of funcNameStack, unless some
\* call of the target returned twice.
NoUnderflow == undefined => unpaired

\* The indentation of the log is the number of names on the stack, also through
\* the report after a signal: the unsigned indentLevel never wraps around.
IndentIsDepth == ~undefined => indentLevel = Len(funcNameStack)

\* The log moves only while its stream can take the line: before main on
\* std::cout, then on the open file, and not from the static destructors that
\* run after main has closed it.
LogNeedsStream ==
  [][funcNameStack' # funcNameStack => \/ o' = "cout"
                                       \/ o' = "file" /\ fileOpen']_vars

\* The entries of the log stack whose calls are in progress.
LiveEntries ==
  {k \in 1..Len(funcNameStack) : \E i \in 1..Len(calls) : calls[i].slot = k}

Brackets == INSTANCE CallBrackets WITH depth <- Len(funcNameStack), live <- LiveEntries

\* The call log implements well-nested brackets: no line closes a call that is in
\* progress, except the one that returns (logFunctionReturn's loop), unless a
\* second return has come since the call was made.
ImplementsBrackets == Brackets!Spec

\* A run that ends by a signal gets its report and its log is closed.
SignalledRunIsClosed ==
  phase = "signalled" ~> (phase = "dtors" /\ o = "null" /\ funcNameStack = <<>>)
=============================================================================
