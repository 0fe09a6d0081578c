--------------------------- MODULE SignalSession ---------------------------
(***************************************************************************)
(* One run of the target under runFunctionWithSignals, step by step, with  *)
(* signals arriving at any of the steps: the handlers of                   *)
(* debuggerController.cpp (handleAllSignals, signalHandler,                *)
(* unhandleSignals), the guards printType puts around memory it may not be *)
(* able to read (controllerLib.cpp, tryPossibleSegFault), and the log      *)
(* functions, whose halves a signal can separate.                          *)
(*                                                                         *)
(* A signal is the number the loops over the signals count with.  The log  *)
(* stack is only its height here; CallLog says what is on it.              *)
(***************************************************************************)
EXTENDS Integers, Sequences

CONSTANTS
  NSignals,      \* the loops run over the signals 0..NSignals-1 (64 in the code)
  Segv,          \* SIGSEGV
  Unhandleable,  \* signals for which signal() answers SIG_ERR (0, SIGKILL, SIGSTOP)
  Ignored,       \* signals the process inherited as ignored, e.g. from nohup
  MaxDepth,      \* bound: most names on the log stack
  MaxGuards,     \* bound: most nested guards
  MaxArrivals    \* bound: most signals sent to the process from outside

Signals == 0..NSignals - 1

ASSUME SignalsAssumption == /\ NSignals \in Nat
                            /\ Unhandleable \subseteq Signals
                            /\ Segv \in Signals \ Unhandleable
ASSUME IgnoredAssumption == Ignored \subseteq Signals \ Unhandleable
ASSUME BoundsAssumption == /\ MaxDepth \in Nat
                           /\ MaxGuards \in Nat
                           /\ MaxArrivals \in Nat

VARIABLES
  pc,                \* where main and runFunctionWithSignals are
  i,                 \* the loop index of handleAllSignals and unhandleSignals
  disposition,       \* the kernel's table: what a signal does
  all_old_handlers,  \* the table handleAllSignals saves it to
  outerPoint,        \* signalHandledReturn: never set, set, or its frame has returned
  sigSent,           \* the local of runFunctionWithSignals
  guards,            \* how many calls of tryPossibleSegFault are in progress
  old_handlers,      \* the vector handleSegFault saves to
  savePoint,         \* the guard savePoint was last set by, 0: one that has returned
  logPc,             \* where the log functions are
  depth,             \* funcNameStack.size()
  indent,            \* indentLevel, before it wraps around
  arrivals,          \* history: signals sent from outside so far
  struck,            \* history: a signal came while unhandleSignals was at work
  torn               \* history: a signal came between the halves of a log function

sigVars   == <<i, disposition, all_old_handlers, outerPoint, sigSent>>
guardVars == <<guards, old_handlers, savePoint>>
logVars   == <<logPc, depth, indent>>
vars == <<pc, sigVars, guardVars, logVars, arrivals, struck, torn>>

\* What a signal does: the default action (the null pointer as a handler),
\* nothing, a handler of the target, signalHandler, or SegFaultHandler.
Dispositions == {"dfl", "ign", "own", "run", "guard"}

Inherited == [s \in Signals |-> IF s \in Ignored THEN "ign" ELSE "dfl"]

\* The halves of the log functions at which stack and indentation disagree.
Halves == {"pushed", "unindented"}
Printing == {"printing", "variadic"}
LogPcs == Halves \cup Printing \cup {"idle", "popped"}

\* The state of the log functions is of interest before and during the run.
Logs == pc \in {"prelog", "target"}

-----------------------------------------------------------------------------
(* The log functions. *)

\* funcNameStack.push_back(funcName)
Push ==
  /\ Logs /\ logPc = "idle" /\ depth < MaxDepth
  /\ pc = "prelog" => depth = 0
  /\ depth' = depth + 1
  /\ logPc' = "pushed"
  /\ UNCHANGED <<pc, sigVars, guardVars, indent, arrivals, struck, torn>>

\* indentLevel++, after which the parameters are printed
IndentMore ==
  /\ Logs /\ logPc = "pushed"
  /\ indent' = indent + 1
  /\ logPc' = "printing"
  /\ UNCHANGED <<pc, sigVars, guardVars, depth, arrivals, struck, torn>>

\* The variadic arguments are printed one level deeper.
VariadicBegins ==
  /\ Logs /\ logPc = "printing" /\ guards = 0
  /\ indent' = indent + 1
  /\ logPc' = "variadic"
  /\ UNCHANGED <<pc, sigVars, guardVars, depth, arrivals, struck, torn>>

VariadicEnds ==
  /\ Logs /\ logPc = "variadic" /\ guards = 0
  /\ indent' = indent - 1
  /\ logPc' = "printing"
  /\ UNCHANGED <<pc, sigVars, guardVars, depth, arrivals, struck, torn>>

\* Mutant: the return value is printed before the name is popped.
IndentLess_PrintsFirst ==
  /\ pc = "target" /\ logPc = "idle" /\ depth > 0
  /\ indent' = indent - 1
  /\ logPc' = "printing"
  /\ UNCHANGED <<pc, sigVars, guardVars, depth, arrivals, struck, torn>>

\* indentLevel-- at the head of logFunctionReturn
IndentLess ==
  /\ pc = "target" /\ logPc = "idle" /\ depth > 0
  /\ indent' = indent - 1
  /\ logPc' = "unindented"
  /\ UNCHANGED <<pc, sigVars, guardVars, depth, arrivals, struck, torn>>

\* The loop over overdue names: pop_back, then indentLevel--.
PopOverdue ==
  /\ pc = "target" /\ logPc = "unindented" /\ depth > 1
  /\ depth' = depth - 1
  /\ logPc' = "popped"
  /\ UNCHANGED <<pc, sigVars, guardVars, indent, arrivals, struck, torn>>

IndentOverdue ==
  /\ pc = "target" /\ logPc = "popped"
  /\ indent' = indent - 1
  /\ logPc' = "unindented"
  /\ UNCHANGED <<pc, sigVars, guardVars, depth, arrivals, struck, torn>>

\* The name that returns is popped, and its value printed.
Pop ==
  /\ pc = "target" /\ logPc = "unindented"
  /\ depth' = depth - 1
  /\ logPc' = "printing"
  /\ UNCHANGED <<pc, sigVars, guardVars, indent, arrivals, struck, torn>>

\* The line is complete.  After the call of main is logged, runFunctionWithSignals
\* begins; after its return is logged, the function it was given has ended.
Printed ==
  /\ Logs /\ logPc = "printing" /\ guards = 0
  /\ logPc' = "idle"
  /\ pc' = CASE pc = "prelog"              -> "install"
             [] pc = "target" /\ depth = 0 -> "uninstall"
             [] OTHER                      -> pc
  /\ i' = 0
  /\ UNCHANGED <<disposition, all_old_handlers, outerPoint, sigSent, guardVars,
                 depth, indent, arrivals, struck, torn>>

-----------------------------------------------------------------------------
(* The guards of printType. *)

SetSavePoint == savePoint' = guards + 1

\* handleSegFault and sigsetjmp: SIGSEGV goes to SegFaultHandler, savePoint here.
EnterGuard ==
  /\ Logs /\ logPc \in Printing /\ guards < MaxGuards
  /\ guards' = guards + 1
  /\ old_handlers' = Append(old_handlers, disposition[Segv])
  /\ disposition' = [disposition EXCEPT ![Segv] = "guard"]
  /\ SetSavePoint
  /\ UNCHANGED <<pc, i, all_old_handlers, outerPoint, sigSent, logVars, arrivals,
                 struck, torn>>

\* Mutant: a guard that saw a fault leaves without unhandleSegFault.
LeaveGuard_KeepsHandler ==
  /\ guards' = guards - 1
  /\ savePoint' = 0
  /\ UNCHANGED <<disposition, old_handlers>>

\* unhandleSegFault, and tryPossibleSegFault returns: savePoint, if it was set by
\* this guard, points at a frame that is gone.
LeaveGuard ==
  /\ guards' = guards - 1
  /\ disposition' = [disposition EXCEPT ![Segv] =
                       IF old_handlers = <<>> THEN "dfl"
                                              ELSE old_handlers[Len(old_handlers)]]
  /\ old_handlers' = SubSeq(old_handlers, 1, Len(old_handlers) - 1)
  /\ savePoint' = 0

GuardReturns ==
  /\ Logs /\ guards > 0
  /\ LeaveGuard
  /\ UNCHANGED <<pc, i, all_old_handlers, outerPoint, sigSent, logVars, arrivals,
                 struck, torn>>

\* Memory that cannot be read, inside a guard whose savePoint is its own:
\* SegFaultHandler jumps there and "segmentation fault" is printed.
FaultCaught ==
  /\ Logs /\ guards > 0
  /\ disposition[Segv] = "guard" /\ savePoint = guards
  /\ LeaveGuard
  /\ UNCHANGED <<pc, i, all_old_handlers, outerPoint, sigSent, logVars, arrivals,
                 struck, torn>>

-----------------------------------------------------------------------------
(* Signals. *)

\* signalHandler jumps to signalHandledReturn; what was under way is abandoned.
\* A jump through a buffer never set, or left by its function, is the end.
JumpOut ==
  IF outerPoint = "set"
    THEN /\ pc' = "jumped"
         /\ guards' = 0
         /\ savePoint' = 0
         /\ logPc' = "idle"
         /\ torn' = (torn \/ logPc \in Halves)
         /\ struck' = (struck \/ pc = "uninstall")
         /\ UNCHANGED <<old_handlers, depth, indent>>
    ELSE /\ pc' = "dead"
         /\ UNCHANGED <<guardVars, logVars, torn, struck>>

\* The process dies of a signal it does not handle.
Killed ==
  /\ pc' = "dead"
  /\ UNCHANGED <<guardVars, logVars, torn, struck>>

\* Another process, or the terminal, sends a signal.
Arrive(s) ==
  /\ pc # "dead" /\ arrivals < MaxArrivals
  /\ s # Segv
  /\ arrivals' = arrivals + 1
  /\ CASE disposition[s] = "run" -> JumpOut
       [] disposition[s] = "dfl" -> Killed
       [] OTHER -> UNCHANGED <<pc, guardVars, logVars, torn, struck>>
  /\ UNCHANGED sigVars

\* The target, or the printing of a value outside all guards, touches memory it
\* may not.  An ignored SIGSEGV kills all the same.
Fault ==
  /\ \/ pc = "target" /\ logPc = "idle"
     \/ Logs /\ logPc \in Printing /\ guards = 0
  /\ CASE disposition[Segv] = "run" -> JumpOut
       [] disposition[Segv] = "own" -> UNCHANGED <<pc, guardVars, logVars, torn, struck>>
       [] OTHER -> Killed
  /\ UNCHANGED <<sigVars, arrivals>>

\* A fault inside a guard in which another one has come and gone: savePoint leads
\* into a frame that has returned.  What runs there on a stack since overwritten
\* faults again, for good or under signalHandler.
FaultAstray ==
  /\ Logs /\ guards > 0
  /\ disposition[Segv] = "guard" /\ savePoint # guards
  /\ Killed \/ JumpOut
  /\ UNCHANGED <<sigVars, arrivals>>

\* The target installs a handler of its own, or has a signal ignored.
TargetHandles(s, d) ==
  /\ pc = "target" /\ logPc = "idle" /\ s \notin Unhandleable
  /\ disposition' = [disposition EXCEPT ![s] = d]
  /\ UNCHANGED <<pc, i, all_old_handlers, outerPoint, sigSent, guardVars, logVars,
                 arrivals, struck, torn>>

-----------------------------------------------------------------------------
(* runFunctionWithSignals. *)

\* One turn of the loop of handleAllSignals.
HandleSignal ==
  /\ pc = "install" /\ i < NSignals
  /\ IF i \in Unhandleable
       THEN /\ all_old_handlers' = [all_old_handlers EXCEPT ![i] = "dfl"]
            /\ UNCHANGED disposition
       ELSE /\ all_old_handlers' = [all_old_handlers EXCEPT ![i] = disposition[i]]
            /\ disposition' = [disposition EXCEPT ![i] = "run"]
  /\ i' = i + 1
  /\ UNCHANGED <<pc, outerPoint, sigSent, guardVars, logVars, arrivals, struck, torn>>

\* sigsetjmp returns 0: the target starts.
SetPoint ==
  /\ pc = "install" /\ i = NSignals
  /\ outerPoint' = "set"
  /\ pc' = "target"
  /\ UNCHANGED <<i, disposition, all_old_handlers, sigSent, guardVars, logVars,
                 arrivals, struck, torn>>

\* An exception of the target ends in catch (...).
CatchAll ==
  /\ pc = "target" /\ logPc = "idle"
  /\ pc' = "uninstall"
  /\ i' = 0
  /\ UNCHANGED <<disposition, all_old_handlers, outerPoint, sigSent, guardVars,
                 logVars, arrivals, struck, torn>>

\* Mutant: the report faults, which brings it back to sigsetjmp.
ReportSignal_Faults ==
  /\ pc = "jumped"
  /\ sigSent' = TRUE
  /\ UNCHANGED <<pc, i, disposition, all_old_handlers, outerPoint, guardVars,
                 logVars, arrivals, struck, torn>>

\* sigsetjmp returns 1: the signal is reported.
ReportSignal ==
  /\ pc = "jumped"
  /\ sigSent' = TRUE
  /\ pc' = "uninstall"
  /\ i' = 0
  /\ UNCHANGED <<disposition, all_old_handlers, outerPoint, guardVars, logVars,
                 arrivals, struck, torn>>

\* Mutant: the entry is cleared before it is used.
UnhandleSignal_ClearsFirst ==
  /\ pc = "uninstall" /\ i < NSignals
  /\ disposition' = [disposition EXCEPT ![i] = IF i \in Unhandleable THEN @ ELSE "dfl"]
  /\ all_old_handlers' = [all_old_handlers EXCEPT ![i] = "dfl"]
  /\ i' = i + 1
  /\ UNCHANGED <<pc, outerPoint, sigSent, guardVars, logVars, arrivals, struck, torn>>

\* One turn of the loop of unhandleSignals.
UnhandleSignal ==
  /\ pc = "uninstall" /\ i < NSignals
  /\ disposition' = [disposition EXCEPT ![i] =
                       IF i \in Unhandleable THEN @ ELSE all_old_handlers[i]]
  /\ all_old_handlers' = [all_old_handlers EXCEPT ![i] = "dfl"]
  /\ i' = i + 1
  /\ UNCHANGED <<pc, outerPoint, sigSent, guardVars, logVars, arrivals, struck, torn>>

\* Mutant: the last signal is left out of the loop.
Leave_OffByOne ==
  /\ pc = "uninstall" /\ i >= NSignals - 1
  /\ outerPoint' = "gone"
  /\ pc' = IF sigSent THEN "report" ELSE "closed"
  /\ UNCHANGED <<i, disposition, all_old_handlers, sigSent, guardVars, logVars,
                 arrivals, struck, torn>>

\* runFunctionWithSignals returns, and with it the frame of signalHandledReturn.
Leave ==
  /\ pc = "uninstall" /\ i = NSignals
  /\ outerPoint' = "gone"
  /\ pc' = IF sigSent THEN "report" ELSE "closed"
  /\ UNCHANGED <<i, disposition, all_old_handlers, sigSent, guardVars, logVars,
                 arrivals, struck, torn>>

\* One line and one indentLevel-- for every name left; then the log is closed.
ReportUnreturned ==
  /\ pc = "report"
  /\ indent' = indent - depth
  /\ depth' = 0
  /\ pc' = "closed"
  /\ UNCHANGED <<sigVars, guardVars, logPc, arrivals, struck, torn>>

\* The process stays as it is: dead, or in the static destructors.
Terminated == pc \in {"closed", "dead"} /\ UNCHANGED vars

LogStep == \/ Push \/ IndentMore \/ VariadicBegins \/ VariadicEnds
           \/ IndentLess \/ PopOverdue \/ IndentOverdue \/ Pop \/ Printed

GuardStep == EnterGuard \/ GuardReturns \/ FaultCaught

Controller == \/ HandleSignal \/ SetPoint
              \/ ReportSignal \/ UnhandleSignal \/ Leave \/ ReportUnreturned

-----------------------------------------------------------------------------
Init ==
  /\ pc = "prelog"
  /\ i = 0
  /\ disposition = Inherited
  /\ all_old_handlers = [s \in Signals |-> "dfl"]
  /\ outerPoint = "unset"
  /\ sigSent = FALSE
  /\ guards = 0
  /\ old_handlers = <<>>
  /\ savePoint = 0
  /\ logPc = "idle"
  /\ depth = 0
  /\ indent = 0
  /\ arrivals = 0
  /\ struck = FALSE
  /\ torn = FALSE

Next ==
  \/ LogStep
  \/ GuardStep
  \/ \E s \in Signals : Arrive(s)
  \/ Fault
  \/ FaultAstray
  \/ \E s \in Signals, d \in {"own", "ign", "dfl"} : TargetHandles(s, d)
  \/ CatchAll
  \/ Controller
  \/ Terminated

Spec == Init /\ [][Next]_vars

\* The controller goes on with what it does; of the target nothing is assumed.
FairSpec == Spec /\ WF_vars(Controller)

-----------------------------------------------------------------------------
(* Properties. *)

TypeOK ==
  /\ pc \in {"prelog", "install", "target", "jumped", "uninstall", "report",
             "closed", "dead"}
  /\ i \in 0..NSignals
  /\ disposition \in [Signals -> Dispositions]
  /\ all_old_handlers \in [Signals -> Dispositions]
  /\ outerPoint \in {"unset", "set", "gone"}
  /\ sigSent \in BOOLEAN
  /\ guards \in Nat
  /\ old_handlers \in Seq(Dispositions)
  /\ savePoint \in Nat
  /\ logPc \in LogPcs
  /\ depth \in Nat
  /\ indent \in Int
  /\ arrivals \in Nat
  /\ struck \in BOOLEAN
  /\ torn \in BOOLEAN

\* Wherever signalHandler can be entered, the frame it jumps to is there, except
\* that while handleAllSignals is at work, and until sigsetjmp has run, the signals
\* it has come to already find none.  In particular no signal is left to it when
\* runFunctionWithSignals has returned, however many signals came while
\* unhandleSignals was restoring the table.
HandlerHasFrame ==
  \A s \in Signals : disposition[s] = "run" => \/ outerPoint = "set"
                                               \/ pc = "install" /\ s < i
                                               \/ pc = "dead"

\* SIGSEGV goes to SegFaultHandler exactly while printType is inside a guard, and
\* old_handlers then holds what it went to before the outermost of them.
GuardsMatchHandler ==
  Logs => /\ disposition[Segv] = "guard" <=> guards > 0
          /\ Len(old_handlers) = guards
          /\ \A g \in 1..guards : old_handlers[g] = "guard" <=> g > 1

\* After the run every signal does what it did before, whatever the target and the
\* guards did to it.  When signals interrupted unhandleSignals, which starts again
\* with the entries it had restored already cleared, a signal may be back at its
\* default instead, but with no handler of the target, the guards or the controller.
HandlersRestored ==
  pc \in {"report", "closed"} =>
    \A s \in Signals : \/ disposition[s] = Inherited[s]
                       \/ struck /\ disposition[s] = "dfl"

\* The report after a signal never counts the unsigned indentLevel below zero,
\* except by one and at its last line, when the signal came between the two halves
\* of a log function.
ReportCounts == pc = "report" => indent >= depth - (IF torn THEN 1 ELSE 0)

\* A run that a signal has ended is reported and the log closed, unless a signal
\* kills the process on the way.
SignalIsReported == pc = "jumped" ~> pc \in {"closed", "dead"}
=============================================================================
