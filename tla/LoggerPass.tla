----------------------------- MODULE LoggerPass -----------------------------
(***************************************************************************)
(* From the target's module to its log: the pass librarify gives each      *)
(* function a wrapper and a row, the pass logger puts logFunctionParameters*)
(* and logFunctionReturn around the calls it chooses, and the debugger runs*)
(* what came out, calling main through its wrapper.  What the log functions*)
(* do with their stack is CallLog, of which this module is the target.     *)
(*                                                                         *)
(* Of the target's code only the calls are kept, by basic block.  Where a  *)
(* block goes on to is left open: to any block of the function, or back to *)
(* the caller.                                                             *)
(***************************************************************************)
EXTENDS Integers, Sequences, SequencesExt, FiniteSets

CONSTANTS
  FuncNames,     \* the names of functions, numbered in strcmp order
  Main,          \* the name "main"
  OldMain,       \* the name "old_main" that Librarify gives it
  Targets,       \* modules: the functions in their order
  MaxFunctions,  \* bound: most functions of a module, wrappers included
  MaxFrames      \* bound: most names on the log, and most frames of the target

VARIABLES
  phase,     \* the pass that runs, or the run of the program
  module,    \* the functions of the module
  at,        \* the function the pass is at
  todo,      \* Logger: the uses of that function still to be looked at
  mangled,   \* functionMangledNames
  pointers,  \* functionPointers: functions, 0 for nullptr
  frames,    \* run: the frames of the target, outermost first
  log        \* run: the names the log believes to be executing

vars == <<phase, module, at, todo, mangled, pointers, frames, log>>
tables == <<mangled, pointers>>
running == <<frames, log>>

-----------------------------------------------------------------------------
(* Functions and their instructions.  A function is called by its place in the
   module; its name says whether it ends with "_wrapper".                    *)

Func(name, wrapper, variadic, blocks) ==
  [name |-> name, wrapper |-> wrapper, variadic |-> variadic, blocks |-> blocks]

\* A call: a CallInst or an InvokeInst, of a function by name or through a pointer,
\* with the functions among its arguments.
Call(op, id, to, direct, args) ==
  [op |-> op, id |-> id, to |-> to, direct |-> direct, args |-> args]
\* The calls the Logger pass inserts.
Enter(name) == [op |-> "enter", name |-> name]
Leave(name) == [op |-> "leave", name |-> name]

\* The instructions of a module with n functions, and its functions.
Instructions(n) ==
  [op : {"call", "invoke"}, id : Nat, to : 1..n, direct : BOOLEAN, args : Seq(1..n)]
    \cup [op : {"enter", "leave"}, name : FuncNames]
FunctionSet(n) ==
  [name : FuncNames, wrapper : BOOLEAN, variadic : BOOLEAN, blocks : Seq(Seq(Instructions(n)))]

IsCall(i) == i.op \in {"call", "invoke"}

Funcs == DOMAIN module
Code(f, b) == module[f].blocks[b]

ASSUME NamesAssumption == FuncNames \subseteq Nat /\ {Main, OldMain} \subseteq FuncNames
ASSUME BoundsAssumption == MaxFunctions \in Nat /\ MaxFrames \in Nat \ {0}
\* A linked program with a main: its names are unique, main is an ordinary function, and
\* the name main will get is free.  The instructions of a block are told apart by their ids.
ASSUME TargetsAssumption ==
  \A T \in Targets :
    /\ T \in Seq(FunctionSet(Len(T))) /\ Len(T) <= MaxFunctions
    /\ \A f \in DOMAIN T : T[f].name # OldMain
    /\ \E f \in DOMAIN T : T[f].name = Main /\ ~T[f].wrapper /\ ~T[f].variadic
    /\ \A f, g \in DOMAIN T : T[f].name = T[g].name => f = g
    /\ \A f \in DOMAIN T : \A b \in DOMAIN T[f].blocks :
         /\ IsInjective(T[f].blocks[b])
         /\ \A i \in Range(T[f].blocks[b]) : IsCall(i)

-----------------------------------------------------------------------------
(* The pass librarify. *)

\* Mutant: wrappers are functions like all others.
IsWrapped_All(f) == TRUE
IsWrapped(f) == ~module[f].wrapper

Renamed(name) == IF name = Main THEN OldMain ELSE name

\* Mutant: the early return for a variadic function comes before its pointer.
PointerOf_NoneForVariadic(f) == IF module[f].variadic THEN <<>> ELSE <<Len(module) + 1>>
\* Mutant: there is no early return.
PointerOf_Always(f) == <<Len(module) + 1>>
PointerOf(f) == IF module[f].variadic THEN <<0>> ELSE <<Len(module) + 1>>

WrapperOf(f) ==
  IF module[f].variadic
    THEN <<>>
    ELSE <<Func(Renamed(module[f].name), TRUE, FALSE,
                <<<<Call("call", 1, f, TRUE, <<>>)>>>>)>>

\* The loop over the functions of the module, to whose end it adds.
LibrarifyFunction ==
  /\ phase = "librarify"
  /\ at <= Len(module)
  /\ at' = at + 1
  /\ IF IsWrapped(at)
       THEN /\ Len(module) < MaxFunctions
            /\ mangled' = Append(mangled, module[at].name)
            /\ pointers' = pointers \o PointerOf(at)
            /\ module' = [module EXCEPT ![at].name = Renamed(@)] \o WrapperOf(at)
       ELSE UNCHANGED <<module, tables>>
  /\ UNCHANGED <<phase, todo, running>>

-----------------------------------------------------------------------------
(* The pass logger. *)

\* The places a function is an operand of: 0 for the function that is called.
UsesIn(i, f) ==
  IF IsCall(i)
    THEN (IF i.direct /\ i.to = f THEN {0} ELSE {}) \cup {k \in DOMAIN i.args : i.args[k] = f}
    ELSE {}

CallsIn(g) ==
  UNION {{[in |-> g, block |-> b, call |-> i] : i \in {j \in Range(Code(g, b)) : IsCall(j)}} :
           b \in DOMAIN module[g].blocks}

Users(f) ==
  UNION {{[place |-> c, operand |-> k] : k \in UsesIn(c.call, f)} : c \in UNION {CallsIn(g) : g \in Funcs}}

\* Mutant: the calls of the wrappers are logged, too.
IsLogged_InWrapper(f, u) ==
  LET i == u.place.call IN i.op = "call" /\ i.direct /\ i.to = f
\* The user is a CallInst whose getCalledFunction is f, outside of the wrappers.
IsLogged(f, u) ==
  LET i == u.place.call
  IN  i.op = "call" /\ i.direct /\ i.to = f /\ ~module[u.place.in].wrapper

\* Mutant: the call before goes to the beginning of the block.
Bracketed_FromStart(code, k, name) ==
  <<Enter(name)>> \o SubSeq(code, 1, k) \o <<Leave(name)>> \o SubSeq(code, k + 1, Len(code))
\* One call right before the instruction, one right behind it.
Bracketed(code, k, name) ==
  SubSeq(code, 1, k - 1) \o <<Enter(name), code[k], Leave(name)>> \o SubSeq(code, k + 1, Len(code))

LogCall(f, c) ==
  LET code == Code(c.in, c.block)
      k    == CHOOSE n \in DOMAIN code : code[n] = c.call
  IN  module' = [module EXCEPT ![c.in].blocks[c.block] = Bracketed(code, k, module[f].name)]

\* The next pass begins, the functions of its own left out.
StartLogger ==
  /\ phase = "librarify"
  /\ at > Len(module)
  /\ phase' = "logger"
  /\ at' = 0
  /\ UNCHANGED <<module, todo, tables, running>>

\* The loop over the functions: the users of the next one are to be looked at.
LoggerFunction ==
  /\ phase = "logger"
  /\ todo = {}
  /\ at < Len(module)
  /\ at' = at + 1
  /\ todo' = IF module[at + 1].wrapper THEN {} ELSE Users(at + 1)
  /\ UNCHANGED <<phase, module, tables, running>>

LoggerUser(u) ==
  /\ phase = "logger"
  /\ todo' = todo \ {u}
  /\ IF IsLogged(at, u) THEN LogCall(at, u.place) ELSE UNCHANGED module
  /\ UNCHANGED <<phase, at, tables, running>>

-----------------------------------------------------------------------------
(* The run.  A frame knows what is open on the log on its behalf: the names its
   Enters pushed, with their places.                                         *)

Frame(f) == [func |-> f, block |-> 1, next |-> 1, open |-> <<>>]
Top == frames[Len(frames)]
ReplaceTop(frame) == frames' = [frames EXCEPT ![Len(frames)] = frame]

\* The calls CallLog believes in: that of main by the controller, and the open ones.
OpenOf(fs) ==
  LET open[k \in 0..Len(fs)] == IF k = 0 THEN <<>> ELSE open[k - 1] \o fs[k].open
  IN  open[Len(fs)]
LogCalls == IF phase = "running" THEN <<[func |-> Main, slot |-> 1]>> \o OpenOf(frames) ELSE <<>>

CallLog == INSTANCE CallLog WITH
  ReturnsTwice <- {}, UIntMod <- MaxFrames + 2,
  phase <- IF phase \in {"librarify", "logger"} THEN "ctors" ELSE phase,
  o <- IF phase \in {"librarify", "logger"} THEN "cout" ELSE "file",
  fileOpen <- phase \notin {"librarify", "logger"},
  funcNameStack <- log, indentLevel <- Len(log),
  calls <- LogCalls, armed <- {}, unpaired <- FALSE, undefined <- FALSE

\* The block a frame is in; a declaration has none, and its code is not logged.
BlockOf(frame) ==
  IF module[frame.func].blocks = <<>> THEN <<>> ELSE Code(frame.func, frame.block)

Instruction == BlockOf(Top)[Top.next]
AtInstruction(ops) ==
  phase = "running" /\ Top.next <= Len(BlockOf(Top)) /\ Instruction.op \in ops
AtEnd == phase = "running" /\ Top.next > Len(BlockOf(Top))

PassesDone == phase = "logger" /\ todo = {} /\ at = Len(module)

\* The controller's main looks for "main", logs it and calls its wrapper.
StartMain ==
  /\ PassesDone
  /\ \E i \in DOMAIN mangled :
       /\ mangled[i] = Main
       /\ \A j \in 1..i-1 : mangled[j] # Main
       /\ frames' = <<Frame(pointers[i])>>
  /\ log' = <<Main>>
  /\ phase' = "running"
  /\ UNCHANGED <<module, at, todo, tables>>

LogEnter ==
  /\ AtInstruction({"enter"})
  /\ Len(log) < MaxFrames
  /\ log' = Append(log, Instruction.name)
  /\ ReplaceTop([Top EXCEPT !.next = @ + 1,
                            !.open = Append(@, [func |-> Instruction.name, slot |-> Len(log')])])
  /\ UNCHANGED <<phase, module, at, todo, tables>>

LogLeave ==
  /\ AtInstruction({"leave"})
  /\ CallLog!LogFunctionReturn(Instruction.name)
  /\ ReplaceTop([Top EXCEPT !.next = @ + 1, !.open = Front(@)])
  /\ UNCHANGED <<phase, module, at, todo, tables>>

CallFunction ==
  /\ AtInstruction({"call", "invoke"})
  /\ Len(frames) < MaxFrames
  /\ frames' = Append([frames EXCEPT ![Len(frames)].next = @ + 1], Frame(Instruction.to))
  /\ UNCHANGED <<phase, module, at, todo, tables, log>>

\* A branch, or the unwinding to a landing pad: the frame goes on at another block.
GoTo(fs, k, b) == frames' = [SubSeq(fs, 1, k) EXCEPT ![k].block = b, ![k].next = 1]

Branch ==
  /\ AtEnd
  /\ \E b \in DOMAIN module[Top.func].blocks : GoTo(frames, Len(frames), b)
  /\ UNCHANGED <<phase, module, at, todo, tables, log>>

ReturnFromFunction ==
  /\ AtEnd
  /\ Len(frames) > 1
  /\ frames' = Front(frames)
  /\ UNCHANGED <<phase, module, at, todo, tables, log>>

\* The wrapper of main returns to the controller, which logs that and closes the log.
ReturnFromMain ==
  /\ AtEnd
  /\ Len(frames) = 1
  /\ CallLog!LogFunctionReturn(Main)
  /\ frames' = <<>>
  /\ phase' = "closing"
  /\ UNCHANGED <<module, at, todo, tables>>

\* The call a frame that is not the top is in.
Pending(k) == BlockOf(frames[k])[frames[k].next - 1]
Handlers == {k \in 1..Len(frames) - 1 : Pending(k).op = "invoke"}

\* An exception ends in the landing pad of the innermost invoke.
Throw ==
  /\ phase = "running"
  /\ \E k \in Handlers :
       /\ \A h \in Handlers : h <= k
       /\ \E b \in DOMAIN module[frames[k].func].blocks : GoTo(frames, k, b)
  /\ UNCHANGED <<phase, module, at, todo, tables, log>>

\* An exception that nothing catches, or a signal.
Abort ==
  /\ phase = "running"
  /\ \/ Handlers = {} /\ phase' = "closing"
     \/ phase' = "signalled"
  /\ frames' = <<>>
  /\ UNCHANGED <<module, at, todo, tables, log>>

-----------------------------------------------------------------------------
Init ==
  /\ phase = "librarify"
  /\ module \in Targets
  /\ at = 1
  /\ todo = {}
  /\ mangled = <<>> /\ pointers = <<>>
  /\ frames = <<>> /\ log = <<>>

Passes == LibrarifyFunction \/ StartLogger \/ LoggerFunction
            \/ (\E u \in todo : LoggerUser(u))

Run == LogEnter \/ LogLeave \/ CallFunction \/ Branch \/ ReturnFromFunction
         \/ ReturnFromMain \/ Throw \/ Abort

Next == Passes \/ StartMain \/ Run

\* opt runs the passes to their end; nothing is assumed of the target.
Spec == Init /\ [][Next]_vars /\ WF_vars(Passes)

-----------------------------------------------------------------------------
(* Properties. *)

TypeOK ==
  /\ phase \in {"librarify", "logger", "running", "closing", "signalled"}
  /\ Len(module) <= MaxFunctions
  /\ module \in Seq(FunctionSet(Len(module)))
  /\ at \in 0..Len(module) + 1
  /\ todo # {} => phase = "logger"
  /\ mangled \in Seq(FuncNames)
  /\ pointers \in Seq(0..Len(module))
  /\ frames # <<>> => phase = "running"
  /\ \A k \in DOMAIN frames : frames[k].func \in Funcs
  /\ log \in Seq(FuncNames)

\* The tables stay in step though variadic functions leave early and main is renamed in
\* between: the pointer of a row, if it has one, is a wrapper whose only call is that of
\* the function listed in the row.  The debugger starts main through its row.
PointersLead ==
  /\ Len(pointers) = Len(mangled)
  /\ \A r \in DOMAIN pointers :
       pointers[r] # 0 =>
         \E f \in Funcs :
           /\ Renamed(mangled[r]) = module[f].name /\ ~module[f].wrapper
           /\ module[pointers[r]].blocks = <<<<Call("call", 1, f, TRUE, <<>>)>>>>

\* The frames below the top, in their calls: what is open on the log for each is its call,
\* if that is direct, no invoke and not in a wrapper, once for each time the function is
\* an operand of it; and between the calls nothing is open.  So the log's live entries are
\* the direct calls in progress, in their order.
ShownAs(k) ==
  LET i == Pending(k)
  IN  IF i.op = "call" /\ i.direct /\ ~module[frames[k].func].wrapper /\ ~module[i.to].wrapper
        THEN [n \in 1..Cardinality(UsesIn(i, i.to)) |-> module[i.to].name]
        ELSE <<>>
Shown(frame) == [n \in DOMAIN frame.open |-> frame.open[n].func]

LogShowsCalls ==
  phase = "running" =>
    /\ \A k \in 1..Len(frames) - 1 : Shown(frames[k]) = ShownAs(k)
    /\ Top.next = 1 \/ AtEnd => Top.open = <<>>

\* The debugged program is a target as CallLog takes it to be: whatever it calls, throws
\* and catches, each logFunctionReturn is that of the innermost call logged and not
\* abandoned.
ImplementsCallLog == CallLog!Spec

\* The passes end, though librarify adds to the functions it goes through.
PassesEnd == <>PassesDone
=============================================================================
