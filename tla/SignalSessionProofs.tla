------------------------ MODULE SignalSessionProofs ------------------------
(***************************************************************************)
(* Proofs about SignalSession for every number of signals, every set of    *)
(* them that was ignored or cannot be handled, any nesting of guards, any  *)
(* height of the log stack and any number of signals that arrive.          *)
(***************************************************************************)
EXTENDS SignalSession, TLAPS

-----------------------------------------------------------------------------
(* The inductive invariant. *)

\* Where signalHandler may be entered: both loops divide the table at i.
PointInv ==
  /\ pc # "dead" => (outerPoint = "set" <=> pc \in {"target", "jumped", "uninstall"})
  /\ \A s \in Signals : all_old_handlers[s] # "run"
  /\ \A s \in Signals : disposition[s] = "run" =>
       \/ pc \in {"target", "jumped", "dead"}
       \/ pc = "install" /\ s < i
       \/ pc = "uninstall" /\ s >= i
  /\ pc = "prelog" => \A g \in 1..Len(old_handlers) : old_handlers[g] # "run"

\* The guards in progress and the handlers they saved.
GuardInv ==
  /\ pc \in {"prelog", "install", "target"} =>
       /\ disposition[Segv] = "guard" <=> guards > 0
       /\ Len(old_handlers) = guards
       /\ \A g \in 1..guards : old_handlers[g] = "guard" <=> g > 1
  /\ pc = "install" => guards = 0
  /\ Logs /\ guards > 0 => logPc \in Printing

\* Stack and indentation at every half of the log functions.
HeightInv ==
  /\ Logs \/ pc = "install" =>
       /\ logPc \in {"idle", "printing", "popped"} => indent = depth
       /\ logPc \in Halves => indent = depth - 1
       /\ logPc \in Halves \cup {"popped"} => depth > 0
       /\ logPc = "variadic" => indent = depth + 1
  /\ pc = "install" => logPc = "idle"
  /\ pc \in {"jumped", "uninstall", "report"} => indent >= depth - (IF torn THEN 1 ELSE 0)

\* What is left of the disposition that the process inherited: lost are, to the
\* default, entries that were restored when a signal interrupted unhandleSignals.
Kept(d, s) == d = Inherited[s] \/ (struck /\ d = "dfl")

\* Where the disposition that the process inherited is kept.
RestoreInv ==
  /\ \A s \in Unhandleable : disposition[s] = "dfl" /\ all_old_handlers[s] = "dfl"
  /\ pc = "prelog" =>
       /\ \A s \in Signals \ {Segv} : disposition[s] = Inherited[s]
       /\ guards = 0 => disposition[Segv] = Inherited[Segv]
       /\ guards > 0 => old_handlers[1] = Inherited[Segv]
  /\ pc = "install" =>
       \A s \in Signals : /\ s < i => all_old_handlers[s] = Inherited[s]
                          /\ s >= i => disposition[s] = Inherited[s]
  /\ pc \in {"target", "jumped"} =>
       \A s \in Signals : Kept(all_old_handlers[s], s)
  /\ pc = "uninstall" =>
       \A s \in Signals : /\ s < i => Kept(disposition[s], s)
                          /\ s >= i => Kept(all_old_handlers[s], s)
                          /\ s < i => all_old_handlers[s] = "dfl"
  /\ pc \in {"report", "closed"} =>
       \A s \in Signals : Kept(disposition[s], s)

IInv == TypeOK /\ PointInv /\ GuardInv /\ HeightInv /\ RestoreInv

\* What the process inherited: ignored or the default, and the default for the
\* signals that cannot be handled.
LEMMA InheritedFacts ==
  /\ Inherited \in [Signals -> Dispositions]
  /\ \A s \in Signals : Inherited[s] \in {"dfl", "ign"}
  /\ \A s \in Unhandleable : s \in Signals /\ Inherited[s] = "dfl"
  /\ Segv \in Signals /\ Segv \notin Unhandleable
BY SignalsAssumption, IgnoredAssumption DEF Inherited, Dispositions

LEMMA InitEstablishes == Init => IInv
<1> SUFFICES ASSUME Init PROVE IInv
  OBVIOUS
<1> USE DEF Init
<1>1. TypeOK
  <2>1. sigSent \in BOOLEAN /\ struck \in BOOLEAN /\ torn \in BOOLEAN
    BY Zenon
  <2>2. /\ disposition \in [Signals -> Dispositions]
        /\ all_old_handlers \in [Signals -> Dispositions]
    BY InheritedFacts DEF Dispositions
  <2>3. i \in 0..NSignals
    BY SignalsAssumption
  <2>4. guards \in Nat /\ old_handlers \in Seq(Dispositions)
    OBVIOUS
  <2>5. logPc \in LogPcs
    BY DEF LogPcs
  <2>6. QED
    BY <2>1, <2>2, <2>3, <2>4, <2>5 DEF TypeOK
<1>2. PointInv
  BY InheritedFacts DEF PointInv
<1>3. GuardInv
  BY InheritedFacts DEF GuardInv
<1>4. HeightInv
  BY DEF HeightInv, Halves
<1>5. RestoreInv
  BY InheritedFacts DEF RestoreInv, Kept
<1>6. QED
  BY <1>1, <1>2, <1>3, <1>4, <1>5 DEF IInv

-----------------------------------------------------------------------------
(* Steps of the log functions. *)

LEMMA LogStepKeeps ==
  ASSUME IInv, LogStep
  PROVE  IInv'
<1>1. /\ TypeOK /\ PointInv /\ GuardInv /\ HeightInv /\ RestoreInv
      /\ UNCHANGED <<disposition, all_old_handlers, outerPoint, sigSent, guardVars,
                     arrivals, struck, torn>>
      /\ Logs
  BY DEF IInv, LogStep, Push, IndentMore, VariadicBegins, VariadicEnds, IndentLess,
         PopOverdue, IndentOverdue, Pop, Printed, sigVars, Logs
<1>2. \/ pc' = pc /\ i' = i
      \/ /\ i' = 0 /\ guards = 0 /\ logPc' = "idle"
         /\ logPc = "printing" /\ UNCHANGED <<depth, indent>>
         /\ \/ pc' = pc
            \/ pc = "prelog" /\ pc' = "install"
            \/ pc = "target" /\ pc' = "uninstall"
  BY DEF LogStep, Push, IndentMore, VariadicBegins, VariadicEnds, IndentLess,
         PopOverdue, IndentOverdue, Pop, Printed, sigVars
<1>3. TypeOK'
  <2>1. depth' \in Nat /\ indent' \in Int
    BY <1>1 DEF TypeOK, HeightInv, LogStep, Push, IndentMore, VariadicBegins,
                VariadicEnds, IndentLess, PopOverdue, IndentOverdue, Pop, Printed,
                Halves, logVars
  <2>2. logPc' \in LogPcs
    BY <1>1 DEF LogStep, Push, IndentMore, VariadicBegins,
                VariadicEnds, IndentLess, PopOverdue, IndentOverdue, Pop, Printed,
                Halves, LogPcs, Printing
  <2>3. i' \in 0..NSignals
    BY <1>1, <1>2, SignalsAssumption DEF TypeOK
  <2>4. QED
    BY <1>1, <1>2, <2>1, <2>2, <2>3 DEF TypeOK, guardVars
<1>4. PointInv'
  BY <1>1, <1>2 DEF PointInv, guardVars, Logs, TypeOK
<1>5. GuardInv'
  <2>1. guards = 0
    BY <1>1 DEF TypeOK, GuardInv, LogStep, Push, IndentMore, VariadicBegins, VariadicEnds,
                IndentLess, PopOverdue, IndentOverdue, Pop, Printed, Printing
  <2>2. QED
    BY <1>1, <1>2, <2>1 DEF GuardInv, guardVars, Logs
<1>6. HeightInv'
  <2>1. CASE Printed
    BY <1>1, <2>1 DEF Printed, HeightInv, Halves, Logs, TypeOK
  <2>2. CASE ~Printed
    BY <1>1, <2>2 DEF LogStep, Push, IndentMore, VariadicBegins, VariadicEnds,
       IndentLess, PopOverdue, IndentOverdue, Pop, HeightInv, Halves, Logs, TypeOK
  <2>3. QED
    BY <2>1, <2>2
<1>7. RestoreInv'
  <2>0. RestoreInv /\ Logs
    BY <1>1
  <2>1. UNCHANGED <<disposition, all_old_handlers, old_handlers, guards, struck>>
    BY <1>1 DEF guardVars
  <2>2. CASE pc' = pc /\ i' = i
    BY ONLY <2>0, <2>1, <2>2 DEF RestoreInv, Kept, Inherited
  <2>3. CASE i' = 0 /\ guards = 0 /\ pc = "prelog" /\ pc' = "install"
    <3>1. \A s \in Signals : disposition[s] = Inherited[s]
      BY <1>1, <2>3 DEF RestoreInv
    <3>2. \A s \in Signals : ~(s < 0)
      BY SignalsAssumption DEF Signals
    <3>3. QED
      BY ONLY <2>0, <2>1, <2>3, <3>1, <3>2 DEF RestoreInv, Inherited
  <2>4. CASE i' = 0 /\ pc = "target" /\ pc' = "uninstall"
    <3>1. \A s \in Signals : Kept(all_old_handlers[s], s)
      BY <1>1, <2>4 DEF RestoreInv
    <3>2. \A s \in Signals : ~(s < 0)
      BY SignalsAssumption DEF Signals
    <3>3. QED
      BY ONLY <2>0, <2>1, <2>4, <3>1, <3>2 DEF RestoreInv, Kept, Inherited
  <2>5. CASE i' = 0 /\ pc' = pc
    BY ONLY <2>0, <2>1, <2>5 DEF RestoreInv, Kept, Inherited, Logs
  <2>6. QED
    BY <1>2, <2>2, <2>3, <2>4, <2>5, Zenon
<1>8. QED
  BY <1>3, <1>4, <1>5, <1>6, <1>7 DEF IInv

-----------------------------------------------------------------------------
(* Steps of the guards. *)

LEMMA EnterGuardKeeps ==
  ASSUME IInv, EnterGuard
  PROVE  IInv'
<1>1. /\ TypeOK /\ PointInv /\ GuardInv /\ HeightInv /\ RestoreInv
      /\ Logs /\ logPc \in Printing
      /\ guards' = guards + 1
      /\ old_handlers' = Append(old_handlers, disposition[Segv])
      /\ disposition' = [disposition EXCEPT ![Segv] = "guard"]
      /\ savePoint' = guards + 1
      /\ UNCHANGED <<pc, i, all_old_handlers, outerPoint, sigSent, logVars, arrivals,
                     struck, torn>>
  BY DEF IInv, EnterGuard, SetSavePoint
<1>2. /\ old_handlers \in Seq(Dispositions)
      /\ disposition \in [Signals -> Dispositions] /\ guards \in Nat
      /\ disposition[Segv] \in Dispositions /\ guards = Len(old_handlers)
  BY <1>1, InheritedFacts DEF TypeOK, GuardInv, Logs
<1>3. guards' \in Nat /\ guards' > 0
  BY <1>1, <1>2
<1>4. /\ old_handlers' \in Seq(Dispositions) /\ Len(old_handlers') = guards + 1
      /\ \A g \in 1..guards : old_handlers'[g] = old_handlers[g]
      /\ old_handlers'[guards + 1] = disposition[Segv]
  BY <1>1, <1>2
<1>5. /\ disposition' \in [Signals -> Dispositions]
      /\ disposition'[Segv] = "guard"
      /\ \A s \in Signals \ {Segv} : disposition'[s] = disposition[s]
  BY <1>1, <1>2, InheritedFacts DEF Dispositions
<1>6. TypeOK'
  BY <1>1, <1>2, <1>3, <1>4, <1>5 DEF TypeOK, logVars
<1>7. PointInv'
  <2>1. pc = "prelog" => disposition[Segv] # "run"
    BY <1>1, InheritedFacts DEF PointInv
  <2>2. QED
    BY <1>1, <1>2, <1>4, <1>5, <2>1 DEF PointInv, logVars
<1>8. GuardInv'
  BY <1>1, <1>2, <1>3, <1>4, <1>5 DEF GuardInv, Logs, logVars
<1>9. HeightInv'
  BY <1>1 DEF HeightInv, Logs, logVars
<1>10. RestoreInv'
  BY <1>1, <1>2, <1>3, <1>4, <1>5, InheritedFacts DEF RestoreInv, Kept, Logs, logVars
<1>11. QED
  BY <1>6, <1>7, <1>8, <1>9, <1>10 DEF IInv

\* Both ways out of a guard end with unhandleSegFault.
LEMMA LeaveGuardKeeps ==
  ASSUME IInv, GuardReturns \/ FaultCaught
  PROVE  IInv'
<1>1. /\ TypeOK /\ PointInv /\ GuardInv /\ HeightInv /\ RestoreInv
      /\ Logs /\ guards > 0 /\ LeaveGuard
      /\ UNCHANGED <<pc, i, all_old_handlers, outerPoint, sigSent, logVars, arrivals,
                     struck, torn>>
  BY DEF IInv, GuardReturns, FaultCaught
<1>2. /\ old_handlers \in Seq(Dispositions)
      /\ disposition \in [Signals -> Dispositions]
      /\ guards \in Nat /\ guards > 0 /\ guards = Len(old_handlers)
      /\ old_handlers[guards] \in Dispositions
  BY <1>1 DEF TypeOK, GuardInv, Logs
<1>3. /\ guards' = guards - 1
      /\ old_handlers' = SubSeq(old_handlers, 1, guards - 1)
      /\ disposition' = [disposition EXCEPT ![Segv] = old_handlers[guards]]
      /\ savePoint' = 0
  <2>1. old_handlers # <<>>
    BY <1>2
  <2>2. guards = Len(old_handlers)
    BY <1>2
  <2>3. disposition' = [disposition EXCEPT ![Segv] = old_handlers[guards]]
    BY <1>1, <2>1, <2>2, Zenon DEF LeaveGuard
  <2>4. QED
    BY <1>1, <2>2, <2>3 DEF LeaveGuard
<1>4. guards' \in Nat /\ (guards' > 0 <=> guards > 1)
  BY <1>2, <1>3
<1>5. /\ old_handlers' \in Seq(Dispositions) /\ Len(old_handlers') = guards - 1
      /\ \A g \in 1..guards - 1 : old_handlers'[g] = old_handlers[g]
  BY <1>2, <1>3
<1>6. /\ disposition' \in [Signals -> Dispositions]
      /\ disposition'[Segv] = old_handlers[guards]
      /\ \A s \in Signals \ {Segv} : disposition'[s] = disposition[s]
  BY <1>2, <1>3, InheritedFacts
<1>7. TypeOK'
  BY <1>1, <1>3, <1>4, <1>5, <1>6 DEF TypeOK, logVars
<1>8. PointInv'
  BY <1>1, <1>2, <1>5, <1>6 DEF PointInv, Logs
<1>9. GuardInv'
  <2>1. \A g \in 1..guards : old_handlers[g] = "guard" <=> g > 1
    BY <1>1, <1>2 DEF GuardInv, Logs
  <2>2. disposition'[Segv] = "guard" <=> guards' > 0
    BY <1>2, <1>4, <1>6, <2>1
  <2>3. QED
    BY <1>1, <1>2, <1>3, <1>4, <1>5, <2>1, <2>2 DEF GuardInv, Logs, logVars
<1>10. HeightInv'
  BY <1>1 DEF HeightInv, Logs, logVars
<1>11. RestoreInv'
  <2>1. guards' = 0 => guards = 1
    BY <1>2, <1>3
  <2>2. QED
    BY <1>1, <1>2, <1>3, <1>4, <1>5, <1>6, <2>1, InheritedFacts DEF RestoreInv, Kept, Logs
<1>12. QED
  BY <1>7, <1>8, <1>9, <1>10, <1>11 DEF IInv

-----------------------------------------------------------------------------
(* Signals. *)

\* The three things a signal can do to the run.
LEMMA DeliveryKeeps ==
  ASSUME IInv, pc \notin {"dead"}, UNCHANGED sigVars, arrivals' \in Nat,
         \/ JumpOut
         \/ Killed
         \/ UNCHANGED <<pc, guardVars, logVars, torn, struck>>
  PROVE  IInv'
<1>1. /\ TypeOK /\ PointInv /\ GuardInv /\ HeightInv /\ RestoreInv
      /\ UNCHANGED <<i, disposition, all_old_handlers, outerPoint, sigSent>>
  BY DEF IInv, sigVars
<1>2. CASE /\ pc' \in {pc, "dead"}
           /\ UNCHANGED <<guardVars, logVars, torn, struck>>
  <2>1. TypeOK'
    BY <1>1, <1>2 DEF TypeOK, guardVars, logVars
  <2>2. PointInv' /\ RestoreInv'
    BY <1>1, <1>2 DEF PointInv, RestoreInv, Kept, guardVars, Inherited
  <2>3. GuardInv' /\ HeightInv'
    BY <1>1, <1>2 DEF GuardInv, HeightInv, Logs, guardVars, logVars
  <2>4. QED
    BY <2>1, <2>2, <2>3 DEF IInv
<1>3. CASE outerPoint = "set" /\ JumpOut
  <2>1. /\ pc \in {"target", "jumped", "uninstall"}
        /\ pc' = "jumped" /\ guards' = 0 /\ savePoint' = 0 /\ logPc' = "idle"
        /\ torn' = (torn \/ logPc \in Halves)
        /\ struck' = (struck \/ pc = "uninstall")
        /\ UNCHANGED <<old_handlers, depth, indent>>
    BY <1>1, <1>3 DEF JumpOut, PointInv
  <2>2. torn' \in BOOLEAN /\ struck' \in BOOLEAN
    BY <2>1, Zenon
  <2>3. TypeOK'
    BY <1>1, <2>1, <2>2 DEF TypeOK, LogPcs
  <2>4. PointInv'
    BY <1>1, <2>1 DEF PointInv
  <2>5. GuardInv'
    BY <2>1 DEF GuardInv, Logs
  <2>6. HeightInv'
    <3> SUFFICES indent >= depth - (IF torn' THEN 1 ELSE 0)
      BY <2>1 DEF HeightInv, Logs, Halves
    <3>1. depth \in Nat /\ indent \in Int /\ logPc \in LogPcs
      BY <1>1 DEF TypeOK
    <3>2. CASE pc = "target"
      <4>1. CASE logPc \in Halves
        <5>1. torn'
          BY <2>1, <4>1, Zenon
        <5>2. indent = depth - 1
          BY <1>1, <3>2, <4>1 DEF HeightInv, Logs
        <5>3. QED
          BY <3>1, <5>1, <5>2
      <4>2. CASE logPc \notin Halves
        <5>1. indent = depth \/ indent = depth + 1
          BY <1>1, <3>1, <3>2, <4>2 DEF HeightInv, Logs, LogPcs, Printing
        <5>2. QED
          BY <3>1, <5>1
      <4>3. QED
        BY <4>1, <4>2
    <3>3. CASE pc \in {"jumped", "uninstall"}
      <4>1. torn => torn'
        BY <2>1, Zenon
      <4>2. indent >= depth - (IF torn THEN 1 ELSE 0)
        BY <1>1, <3>3 DEF HeightInv
      <4>3. QED
        BY <3>1, <4>1, <4>2
    <3>4. QED
      BY <2>1, <3>2, <3>3
  <2>7. RestoreInv'
    <3>1. /\ struck => struck'
          /\ pc = "uninstall" => struck'
      BY <2>1, Zenon
    <3>2. \A s \in Signals : Kept(all_old_handlers[s], s)'
      <4>1. CASE pc = "uninstall"
        <5>1. \A s \in Signals : s < i \/ s >= i
          BY <1>1, SignalsAssumption DEF TypeOK, Signals
        <5>2. \A s \in Signals : Kept(all_old_handlers[s], s) \/ all_old_handlers[s] = "dfl"
          BY <1>1, <4>1, <5>1 DEF RestoreInv
        <5>3. QED
          BY <1>1, <3>1, <4>1, <5>2 DEF Kept, Inherited
      <4>2. CASE pc \in {"target", "jumped"}
        BY <1>1, <3>1, <4>2 DEF RestoreInv, Kept, Inherited
      <4>3. QED
        BY <2>1, <4>1, <4>2
    <3>3. QED
      BY <1>1, <2>1, <3>2 DEF RestoreInv
  <2>8. QED
    BY <2>3, <2>4, <2>5, <2>6, <2>7 DEF IInv
<1>4. QED
  BY <1>2, <1>3 DEF JumpOut, Killed

LEMMA SignalKeeps ==
  ASSUME IInv, (\E s \in Signals : Arrive(s)) \/ Fault \/ FaultAstray
  PROVE  IInv'
<1>1. arrivals \in Nat
  BY DEF IInv, TypeOK
<1>2. CASE \E s \in Signals : Arrive(s)
  <2>1. /\ pc \notin {"dead"} /\ arrivals' = arrivals + 1 /\ UNCHANGED sigVars
        /\ JumpOut \/ Killed \/ UNCHANGED <<pc, guardVars, logVars, torn, struck>>
    BY <1>2 DEF Arrive
  <2>2. QED
    BY <1>1, <2>1, DeliveryKeeps
<1>3. CASE Fault \/ FaultAstray
  <2>1. /\ pc \notin {"dead"} /\ UNCHANGED sigVars /\ arrivals' = arrivals
        /\ JumpOut \/ Killed \/ UNCHANGED <<pc, guardVars, logVars, torn, struck>>
    BY <1>3 DEF Fault, FaultAstray, Logs
  <2>2. QED
    BY <1>1, <2>1, DeliveryKeeps
<1>4. QED
  BY <1>2, <1>3

LEMMA TargetHandlesKeeps ==
  ASSUME IInv, NEW s \in Signals, NEW d \in {"own", "ign", "dfl"}, TargetHandles(s, d)
  PROVE  IInv'
<1>1. /\ TypeOK /\ PointInv /\ GuardInv /\ HeightInv /\ RestoreInv
      /\ pc = "target" /\ logPc = "idle" /\ s \notin Unhandleable
      /\ disposition' = [disposition EXCEPT ![s] = d]
      /\ UNCHANGED <<pc, i, all_old_handlers, outerPoint, sigSent, guardVars, logVars,
                     arrivals, struck, torn>>
  BY DEF IInv, TargetHandles
<1>2. /\ disposition' \in [Signals -> Dispositions]
      /\ disposition'[s] = d
      /\ \A r \in Signals \ {s} : disposition'[r] = disposition[r]
  BY <1>1 DEF TypeOK, Dispositions
<1>3. TypeOK' /\ PointInv' /\ HeightInv'
  BY <1>1, <1>2 DEF TypeOK, PointInv, HeightInv, Logs, guardVars, logVars
<1>4. RestoreInv'
  BY <1>1, <1>2, InheritedFacts DEF RestoreInv, Kept, guardVars
<1>5. GuardInv'
  <2>1. guards = 0
    BY <1>1 DEF TypeOK, GuardInv, Logs, Printing
  <2>2. disposition'[Segv] # "guard"
    BY <1>1, <1>2, <2>1, InheritedFacts DEF GuardInv
  <2>3. QED
    BY <1>1, <2>1, <2>2 DEF GuardInv, guardVars, Logs
<1>6. QED
  BY <1>3, <1>4, <1>5 DEF IInv

-----------------------------------------------------------------------------
(* runFunctionWithSignals. *)

LEMMA HandleSignalKeeps ==
  ASSUME IInv, HandleSignal
  PROVE  IInv'
<1>1. /\ TypeOK /\ PointInv /\ GuardInv /\ HeightInv /\ RestoreInv
      /\ pc = "install" /\ i < NSignals /\ i' = i + 1
      /\ UNCHANGED <<pc, outerPoint, sigSent, guardVars, logVars, arrivals, struck, torn>>
  BY DEF IInv, HandleSignal
<1>2. i \in Signals /\ i \in Nat /\ i' \in 0..NSignals
  BY <1>1, SignalsAssumption DEF TypeOK, Signals
<1>3. /\ all_old_handlers' \in [Signals -> Dispositions]
      /\ disposition' \in [Signals -> Dispositions]
      /\ \A s \in Signals \ {i} : /\ all_old_handlers'[s] = all_old_handlers[s]
                                  /\ disposition'[s] = disposition[s]
      /\ IF i \in Unhandleable
           THEN all_old_handlers'[i] = "dfl" /\ disposition'[i] = disposition[i]
           ELSE all_old_handlers'[i] = disposition[i] /\ disposition'[i] = "run"
  BY <1>1, <1>2 DEF HandleSignal, TypeOK, Dispositions
<1>4. TypeOK'
  BY <1>1, <1>2, <1>3 DEF TypeOK, guardVars, logVars
<1>5. \A s \in Signals : s < i' <=> s < i \/ s = i
  BY <1>1, <1>2, SignalsAssumption DEF Signals
<1>6. \A s \in Signals : s >= i' => s >= i /\ s # i
  BY <1>1, <1>2, SignalsAssumption DEF Signals
<1>7. PointInv'
  BY <1>1, <1>2, <1>3, <1>5, <1>6 DEF PointInv, RestoreInv, guardVars
<1>8. GuardInv'
  BY <1>1, <1>2, <1>3, InheritedFacts DEF GuardInv, Logs, guardVars,
                                          logVars
<1>9. HeightInv'
  BY <1>1 DEF HeightInv, Logs, logVars
<1>10. RestoreInv'
  <2>1. \A s \in Unhandleable : disposition'[s] = "dfl" /\ all_old_handlers'[s] = "dfl"
    BY <1>1, <1>2, <1>3, InheritedFacts DEF RestoreInv
  <2>2. \A s \in Signals : /\ s < i' => all_old_handlers'[s] = Inherited[s]
                           /\ s >= i' => disposition'[s] = Inherited[s]
    BY <1>1, <1>2, <1>3, <1>5, <1>6, InheritedFacts DEF RestoreInv, Signals
  <2>3. QED
    BY <1>1, <2>1, <2>2 DEF RestoreInv
<1>11. QED
  BY <1>4, <1>7, <1>8, <1>9, <1>10 DEF IInv

LEMMA UnhandleSignalKeeps ==
  ASSUME IInv, UnhandleSignal
  PROVE  IInv'
<1>1. /\ TypeOK /\ PointInv /\ GuardInv /\ HeightInv /\ RestoreInv
      /\ pc = "uninstall" /\ i < NSignals /\ i' = i + 1
      /\ UNCHANGED <<pc, outerPoint, sigSent, guardVars, logVars, arrivals, struck, torn>>
  BY DEF IInv, UnhandleSignal
<1>2. i \in Signals /\ i \in Nat /\ i' \in 0..NSignals
  BY <1>1, SignalsAssumption DEF TypeOK, Signals
<1>3. /\ all_old_handlers' \in [Signals -> Dispositions]
      /\ disposition' \in [Signals -> Dispositions]
      /\ \A s \in Signals \ {i} : /\ all_old_handlers'[s] = all_old_handlers[s]
                                  /\ disposition'[s] = disposition[s]
      /\ all_old_handlers'[i] = "dfl"
      /\ disposition'[i] = IF i \in Unhandleable THEN disposition[i] ELSE all_old_handlers[i]
  BY <1>1, <1>2 DEF UnhandleSignal, TypeOK, Dispositions
<1>4. TypeOK'
  BY <1>1, <1>2, <1>3 DEF TypeOK, guardVars, logVars
<1>5. \A s \in Signals : s < i' <=> s < i \/ s = i
  BY <1>1, <1>2, SignalsAssumption DEF Signals
<1>6. \A s \in Signals : (s >= i' <=> s >= i /\ s # i) /\ (s >= i \/ s < i)
  BY <1>1, <1>2, SignalsAssumption DEF Signals
<1>7. disposition'[i] # "run"
  BY <1>1, <1>2, <1>3 DEF PointInv, RestoreInv, Kept
<1>8. PointInv'
  BY <1>1, <1>2, <1>3, <1>5, <1>6, <1>7 DEF PointInv, guardVars
<1>9. GuardInv' /\ HeightInv'
  BY <1>1 DEF GuardInv, HeightInv, Logs, guardVars, logVars
<1>10. RestoreInv'
  <2>1. \A s \in Unhandleable : disposition'[s] = "dfl" /\ all_old_handlers'[s] = "dfl"
    BY <1>1, <1>2, <1>3, InheritedFacts DEF RestoreInv, Kept
  <2>2. \A s \in Signals : /\ s < i' => Kept(disposition'[s], s)
                           /\ s >= i' => Kept(all_old_handlers'[s], s)
                           /\ s < i' => all_old_handlers'[s] = "dfl"
    BY <1>1, <1>2, <1>3, <1>5, <1>6, InheritedFacts DEF RestoreInv, Kept, Signals
  <2>3. QED
    BY <1>1, <2>1, <2>2 DEF RestoreInv, Kept, Inherited
<1>11. QED
  BY <1>4, <1>8, <1>9, <1>10 DEF IInv

\* The remaining steps leave the table alone.
LEMMA PhaseKeeps ==
  ASSUME IInv, SetPoint \/ CatchAll \/ ReportSignal \/ Leave \/ ReportUnreturned
  PROVE  IInv'
<1>1. /\ TypeOK /\ PointInv /\ GuardInv /\ HeightInv /\ RestoreInv
      /\ UNCHANGED <<disposition, all_old_handlers, guardVars, logPc, arrivals, struck, torn>>
  BY DEF IInv, SetPoint, CatchAll, ReportSignal, Leave, ReportUnreturned, logVars, sigVars
<1>2. \/ /\ pc = "install" /\ i = NSignals /\ pc' = "target" /\ outerPoint' = "set"
         /\ i' = i /\ UNCHANGED <<depth, indent>>
      \/ /\ pc = "target" /\ logPc = "idle" /\ pc' = "uninstall" /\ i' = 0
         /\ UNCHANGED <<outerPoint, depth, indent>>
      \/ /\ pc = "jumped" /\ pc' = "uninstall" /\ i' = 0
         /\ UNCHANGED <<outerPoint, depth, indent>>
      \/ /\ pc = "uninstall" /\ i = NSignals /\ pc' \in {"report", "closed"}
         /\ outerPoint' = "gone" /\ i' = i /\ UNCHANGED <<depth, indent>>
      \/ /\ pc = "report" /\ pc' = "closed" /\ depth' = 0 /\ indent' = indent - depth
         /\ UNCHANGED <<outerPoint, i>>
  BY DEF SetPoint, CatchAll, ReportSignal, Leave, ReportUnreturned, logVars, sigVars
<1>3. TypeOK'
  <2>1. sigSent' \in BOOLEAN
    <3>1. sigSent' = sigSent \/ sigSent' = TRUE
      BY DEF SetPoint, CatchAll, ReportSignal, Leave, ReportUnreturned, sigVars
    <3>2. sigSent \in BOOLEAN
      BY <1>1 DEF TypeOK
    <3>3. QED
      BY <3>1, <3>2, Zenon
  <2>2. i' \in 0..NSignals /\ depth' \in Nat /\ indent' \in Int
    BY <1>1, <1>2, SignalsAssumption DEF TypeOK
  <2>3. /\ outerPoint' \in {"unset", "set", "gone"}
        /\ pc' \in {"prelog", "install", "target", "jumped", "uninstall", "report",
                    "closed", "dead"}
    BY <1>1, <1>2 DEF TypeOK
  <2>4. QED
    BY <1>1, <2>1, <2>2, <2>3 DEF TypeOK, guardVars
<1>4. \A s \in Signals : s < NSignals /\ s >= 0 /\ ~(s >= NSignals) /\ ~(s < 0)
  BY SignalsAssumption DEF Signals
<1>5. PointInv'
  BY <1>1, <1>2, <1>4 DEF PointInv, guardVars
<1>6. GuardInv'
  BY <1>1, <1>2 DEF GuardInv, guardVars, Logs
<1>7. HeightInv'
  BY <1>1, <1>2 DEF HeightInv, Logs, Halves, TypeOK
<1>8. RestoreInv'
  BY <1>1, <1>2, <1>4 DEF RestoreInv, Kept, Inherited, guardVars
<1>9. QED
  BY <1>3, <1>5, <1>6, <1>7, <1>8 DEF IInv

LEMMA NextPreserves == IInv /\ [Next]_vars => IInv'
<1> SUFFICES ASSUME IInv, [Next]_vars PROVE IInv'
  OBVIOUS
<1>1. CASE LogStep
  BY <1>1, LogStepKeeps
<1>2. CASE GuardStep
  BY <1>2, EnterGuardKeeps, LeaveGuardKeeps DEF GuardStep
<1>3. CASE (\E s \in Signals : Arrive(s)) \/ Fault \/ FaultAstray
  BY <1>3, SignalKeeps
<1>4. CASE \E s \in Signals, d \in {"own", "ign", "dfl"} : TargetHandles(s, d)
  BY <1>4, TargetHandlesKeeps
<1>5. CASE Controller \/ CatchAll
  BY <1>5, HandleSignalKeeps, UnhandleSignalKeeps, PhaseKeeps DEF Controller
<1>6. CASE UNCHANGED vars
  <2>1. TypeOK' /\ PointInv'
    BY <1>6 DEF IInv, TypeOK, PointInv, vars, sigVars, guardVars, logVars
  <2>2. GuardInv' /\ HeightInv'
    BY <1>6 DEF IInv, GuardInv, HeightInv, Logs, vars, sigVars,
                guardVars, logVars
  <2>3. RestoreInv'
    BY <1>6 DEF IInv, RestoreInv, Kept, Inherited, vars, sigVars, guardVars
  <2>4. QED
    BY <2>1, <2>2, <2>3 DEF IInv
<1>7. QED
  BY <1>1, <1>2, <1>3, <1>4, <1>5, <1>6 DEF Next, Terminated

-----------------------------------------------------------------------------
(* The theorems. *)

\* The invariant holds in every run, wherever signals strike.
THEOREM Invariance == Spec => []IInv
BY InitEstablishes, NextPreserves, PTL DEF Spec

\* Type correctness; in particular the log stack never goes below empty.
THEOREM TypeCorrect == Spec => []TypeOK
<1>1. IInv => TypeOK
  BY DEF IInv
<1>2. QED
  BY <1>1, Invariance, PTL

\* No signal can ever bring signalHandler to jump into a frame that has returned:
\* unhandleSignals leaves none of them to it, even when signals interrupt it.
THEOREM NoJumpIntoTheVoid == Spec => []HandlerHasFrame
<1>1. IInv => HandlerHasFrame
  BY DEF IInv, PointInv, HandlerHasFrame
<1>2. QED
  BY <1>1, Invariance, PTL

\* SIGSEGV goes to SegFaultHandler inside the guards of printType and nowhere
\* else, and the handlers to be restored are those found.
THEOREM GuardsPaired == Spec => []GuardsMatchHandler
<1>1. IInv => GuardsMatchHandler
  BY DEF IInv, GuardInv, GuardsMatchHandler, Logs
<1>2. QED
  BY <1>1, Invariance, PTL

\* After runFunctionWithSignals, every signal does what it did before, or its
\* default if signals came while unhandleSignals was at work.
THEOREM TableRestored == Spec => []HandlersRestored
<1>1. IInv => HandlersRestored
  BY DEF IInv, RestoreInv, Kept, HandlersRestored
<1>2. QED
  BY <1>1, Invariance, PTL

\* The report after a signal counts indentLevel down to zero and not below, or by one
\* below if the signal came between the halves of a log function.
THEOREM ReportExact == Spec => []ReportCounts
<1>1. IInv => ReportCounts
  BY DEF IInv, HeightInv, ReportCounts
<1>2. QED
  BY <1>1, Invariance, PTL

=============================================================================
