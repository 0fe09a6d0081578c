----------------------------- MODULE PrintWalk ------------------------------
(***************************************************************************)
(* printType on a parameter that points into the target's memory: a walk   *)
(* over objects that point to each other, to nothing, or to where nothing  *)
(* can be read (controllerLib.cpp).                                        *)
(*                                                                         *)
(* The target hands over its memory as it is.  It may be cyclic, so that   *)
(* printType remembers the pointers it is behind (enteredPointers), and it *)
(* may be unreadable, so that every pointer is followed inside a guard     *)
(* (tryPossibleSegFault), but a C string is read without one of its own.   *)
(* How the guards treat the table of signals is SignalSession's part.      *)
(***************************************************************************)
EXTENDS Integers, Sequences

CONSTANTS
  Objects,   \* the structs in the target's memory
  Fields,    \* the fields of each: "ptr" (to a struct) or "str" (a char*)
  Root,      \* not an object: it stands for the buffer of parameters
  Null,      \* a pointer printType takes for null: low, all ones, or nearly so
  Wild       \* a pointer to where nothing can be read

ASSUME ObjectsAssumption == /\ Root \notin Objects
                            /\ Null \notin Objects
                            /\ Wild \notin Objects
                            /\ Null # Wild
ASSUME FieldsAssumption == Fields \in [Objects -> Seq({"ptr", "str"})]

\* Where a pointer or a string lies: field k of an object, or the parameter.
Cells == {<<Root, 1>>} \cup UNION {{<<x, k>> : k \in 1..Len(Fields[x])} : x \in Objects}

VARIABLES
  memory,           \* what each cell holds
  pc,               \* "walking", "done", or "lost" after a jump to a stale frame
  walk,             \* the structs being printed, outermost first, and the field
                    \* each is at
  enteredPointers,  \* the cells of the pointers that led there
  savePoint         \* the guard savePoint was set by, 0: one that has returned

vars == <<memory, pc, walk, enteredPointers, savePoint>>

Depth == Len(walk)

\* The object at the end of the walk and the field printType is at.  Before and
\* after the walk it is at the parameter itself.
Here  == walk[Depth]
Kind  == Fields[Here.obj][Here.next]
Cell  == <<Here.obj, Here.next>>
AtField == pc = "walking" /\ walk # <<>> /\ Here.next <= Len(Fields[Here.obj])

\* The same walk, one field further.
Advanced(w) == IF w = <<>> THEN <<>> ELSE [w EXCEPT ![Len(w)].next = @ + 1]

-----------------------------------------------------------------------------
\* Mutant: only the last pointer entered is compared.
IsEntered_LastOnly(c) ==
  enteredPointers # <<>> /\ enteredPointers[Len(enteredPointers)] = c
\* find(enteredPointers, ptr)
IsEntered(c) == \E n \in 1..Len(enteredPointers) : enteredPointers[n] = c

\* Mutant: a guard within another leaves the savePoint as it is.
FollowPointer_KeepsSavePoint ==
  /\ AtField /\ Kind = "ptr"
  /\ ~IsEntered(Cell)
  /\ memory[Cell] \in Objects
  /\ walk' = Append(walk, [obj |-> memory[Cell], next |-> 1])
  /\ enteredPointers' = Append(enteredPointers, Cell)
  /\ UNCHANGED <<memory, pc, savePoint>>

\* A pointer to an object: push_back and a guard around the object's fields.
FollowPointer ==
  /\ AtField /\ Kind = "ptr"
  /\ ~IsEntered(Cell)
  /\ memory[Cell] \in Objects
  /\ walk' = Append(walk, [obj |-> memory[Cell], next |-> 1])
  /\ enteredPointers' = Append(enteredPointers, Cell)
  /\ savePoint' = Depth + 1
  /\ UNCHANGED <<memory, pc>>

\* A pointer to no object: within its guard "&nullptr" is printed, or the first
\* field faults and the jump finds the savePoint just set.  The guard returns.
PointerToNothing ==
  /\ AtField /\ Kind = "ptr"
  /\ ~IsEntered(Cell)
  /\ memory[Cell] \in {Null, Wild}
  /\ walk' = Advanced(walk)
  /\ savePoint' = 0
  /\ UNCHANGED <<memory, pc, enteredPointers>>

\* "loop detected"
LoopDetected ==
  /\ AtField /\ Kind = "ptr"
  /\ IsEntered(Cell)
  /\ walk' = Advanced(walk)
  /\ UNCHANGED <<memory, pc, enteredPointers, savePoint>>

\* The guard of the innermost object ends, by return or by SegFaultHandler.
LeaveObject ==
  /\ walk' = Advanced(SubSeq(walk, 1, Depth - 1))
  /\ enteredPointers' = SubSeq(enteredPointers, 1, Len(enteredPointers) - 1)
  /\ savePoint' = 0

\* A string that is null or can be read.
PrintString ==
  /\ AtField /\ Kind = "str"
  /\ memory[Cell] # Wild
  /\ walk' = Advanced(walk)
  /\ UNCHANGED <<memory, pc, enteredPointers, savePoint>>

\* Mutant: after the fault the guard tries the same object again.
StringFaults_Retries ==
  /\ AtField /\ Kind = "str"
  /\ memory[Cell] = Wild
  /\ IF savePoint = Depth
       THEN UNCHANGED vars
       ELSE pc' = "lost" /\ UNCHANGED <<memory, walk, enteredPointers, savePoint>>

\* Mutant: the fault skips the pop_back of enteredPointers.
StringFaults_KeepsEntered ==
  /\ AtField /\ Kind = "str"
  /\ memory[Cell] = Wild
  /\ walk' = Advanced(SubSeq(walk, 1, Depth - 1))
  /\ savePoint' = 0
  /\ UNCHANGED <<memory, pc, enteredPointers>>

\* A string that cannot be read, with no guard of its own: the object is given up
\* if savePoint is that of its guard.  Otherwise the jump goes to a frame that has
\* returned, and there is no telling what follows.
StringFaults ==
  /\ AtField /\ Kind = "str"
  /\ memory[Cell] = Wild
  /\ IF savePoint = Depth
       THEN LeaveObject /\ UNCHANGED <<memory, pc>>
       ELSE pc' = "lost" /\ UNCHANGED <<memory, walk, enteredPointers, savePoint>>

\* All fields of the object have been printed.
ObjectPrinted ==
  /\ pc = "walking" /\ walk # <<>> /\ Here.next > Len(Fields[Here.obj])
  /\ LeaveObject
  /\ UNCHANGED <<memory, pc>>

\* The walk is back at the parameter.
ParameterPrinted ==
  /\ pc = "walking" /\ walk = <<>>
  /\ pc' = "done"
  /\ UNCHANGED <<memory, walk, enteredPointers, savePoint>>

Ended == pc \in {"done", "lost"} /\ UNCHANGED vars

\* The parameter points to an object; its guard has just been entered.
Init ==
  /\ memory \in [Cells -> Objects \cup {Null, Wild}]
  /\ memory[<<Root, 1>>] \in Objects
  /\ pc = "walking"
  /\ walk = <<[obj |-> memory[<<Root, 1>>], next |-> 1]>>
  /\ enteredPointers = << <<Root, 1>> >>
  /\ savePoint = 1

PrintStep == \/ FollowPointer \/ PointerToNothing \/ LoopDetected
         \/ PrintString \/ StringFaults \/ ObjectPrinted \/ ParameterPrinted

Next == PrintStep \/ Ended

Spec == Init /\ [][Next]_vars

\* printType is called and goes on until it returns.
FairSpec == Spec /\ WF_vars(PrintStep)

-----------------------------------------------------------------------------
(* Properties. *)

TypeOK ==
  /\ memory \in [Cells -> Objects \cup {Null, Wild}]
  /\ pc \in {"walking", "done", "lost"}
  /\ walk \in Seq([obj : Objects, next : Nat \ {0}])
  /\ enteredPointers \in Seq(Cells)
  /\ savePoint \in Nat

\* The pointers on the way from the parameter are exactly those remembered, also
\* when a fault has ended an object early: what printType leaves is forgotten,
\* what it is behind is not.
PathRemembered ==
  /\ Len(enteredPointers) = Depth
  /\ \A n \in 1..Depth : memory[enteredPointers[n]] = walk[n].obj
  /\ \A n \in 2..Depth : enteredPointers[n] = <<walk[n-1].obj, walk[n-1].next>>

\* printType is never behind the same pointer twice, so that it cannot be deeper
\* than there are pointers, however the memory loops.
NoLoop ==
  \A m, n \in 1..Len(enteredPointers) : enteredPointers[m] = enteredPointers[n] => m = n

\* savePoint is that of the guard around the object being printed until the first
\* pointer of the object is followed, and from then on it is stale: a pointer that is
\* a loop leaves it alone, any other takes it along into a guard that returns.
SavePointIsOwn ==
  walk # <<>> =>
    (savePoint = Depth <=>
       \A k \in 1..Here.next - 1 : Fields[Here.obj][k] = "ptr" => IsEntered(<<Here.obj, k>>))

\* An object whose strings all come before its pointers.
StringsFirst(x) ==
  \A j, k \in 1..Len(Fields[x]) : Fields[x][j] = "ptr" /\ j < k => Fields[x][k] = "ptr"

\* A string that cannot be read is given up within the guard around its object,
\* unless it comes after a pointer of that object, whose guard has taken savePoint
\* with it.
FaultStaysInside ==
  pc = "lost" => Depth > 0 /\ ~StringsFirst(Here.obj)

\* Every walk ends, over every memory.
WalkEnds == <>(pc # "walking")
=============================================================================
