------------------------ MODULE ControllerLibProofs -------------------------
(***************************************************************************)
(* Proofs about controllerLib.cpp.                                         *)
(*                                                                         *)
(* First about PrintWalk, for every set of structs, with any fields in any *)
(* order, and every memory, cyclic and unreadable ones among them.  Then   *)
(* about TypeLayout, for every table of type definitions.                  *)
(***************************************************************************)
EXTENDS PrintWalk, TypeLayout, WellFoundedInduction, TLAPS

-----------------------------------------------------------------------------
(* The inductive invariant. *)

Frame == [obj : Objects, next : Nat \ {0}]

\* The walk goes on from each object but the last through a pointer field of it.
PathInv ==
  \A n \in 1..Depth - 1 :
    /\ walk[n].next \in 1..Len(Fields[walk[n].obj])
    /\ Fields[walk[n].obj][walk[n].next] = "ptr"

IInv == TypeOK /\ PathRemembered /\ NoLoop /\ PathInv /\ SavePointIsOwn /\ FaultStaysInside

-----------------------------------------------------------------------------
(* The walk as a sequence. *)

\* Advanced changes nothing but the field of the innermost object.
LEMMA AdvancedFacts ==
  ASSUME NEW w \in Seq(Frame)
  PROVE  /\ Advanced(w) \in Seq(Frame)
         /\ Len(Advanced(w)) = Len(w)
         /\ \A n \in 1..Len(w) : Advanced(w)[n].obj = w[n].obj
         /\ \A n \in 1..Len(w) - 1 : Advanced(w)[n] = w[n]
         /\ w # <<>> => Advanced(w)[Len(w)].next = w[Len(w)].next + 1
<1>1. CASE w = <<>>
  BY <1>1 DEF Advanced
<1>2. CASE w # <<>>
  <2>1. Len(w) \in 1..Len(w) /\ w[Len(w)] \in Frame
    BY <1>2
  <2>2. [w[Len(w)] EXCEPT !.next = @ + 1] \in Frame
    BY <2>1 DEF Frame
  <2>3. Advanced(w) = [w EXCEPT ![Len(w)] = [w[Len(w)] EXCEPT !.next = @ + 1]]
    BY <1>2 DEF Advanced
  <2>4. /\ Advanced(w) \in Seq(Frame) /\ Len(Advanced(w)) = Len(w)
        /\ \A n \in 1..Len(w) - 1 : Advanced(w)[n] = w[n]
        /\ Advanced(w)[Len(w)] = [w[Len(w)] EXCEPT !.next = @ + 1]
    BY <2>1, <2>2, <2>3
  <2>5. /\ Advanced(w)[Len(w)].obj = w[Len(w)].obj
        /\ Advanced(w)[Len(w)].next = w[Len(w)].next + 1
    BY <2>1, <2>4 DEF Frame
  <2>6. \A n \in 1..Len(w) : n \in 1..Len(w) - 1 \/ n = Len(w)
    OBVIOUS
  <2>7. \A n \in 1..Len(w) : Advanced(w)[n].obj = w[n].obj
    BY <2>4, <2>5, <2>6
  <2>8. QED
    BY <2>4, <2>5, <2>7
<1>3. QED
  BY <1>1, <1>2

\* What is known of the field printType is at.
LEMMA AtFieldFacts ==
  ASSUME TypeOK, AtField
  PROVE  /\ pc = "walking" /\ Depth \in Nat \ {0}
         /\ Here \in Frame /\ Here = walk[Depth]
         /\ Here.next \in 1..Len(Fields[Here.obj])
         /\ Cell \in Cells
<1>1. walk \in Seq(Frame) /\ walk # <<>>
  BY DEF TypeOK, Frame, AtField
<1>2. Depth \in Nat \ {0} /\ Here \in Frame
  BY <1>1 DEF Depth, Here
<1>3. Here.next \in 1..Len(Fields[Here.obj]) /\ Here.obj \in Objects
  BY <1>2, FieldsAssumption DEF AtField, Frame
<1>4. Cell \in Cells
  BY <1>3 DEF Cell, Cells
<1>5. QED
  BY <1>2, <1>3, <1>4 DEF AtField, Here

-----------------------------------------------------------------------------
(* Steps. *)

LEMMA InitEstablishes == Init => IInv
<1> SUFFICES ASSUME Init PROVE IInv
  OBVIOUS
<1>1. <<Root, 1>> \in Cells
  BY DEF Cells
<1>2. walk \in Seq(Frame) /\ enteredPointers \in Seq(Cells) /\ Depth = 1
      /\ Len(enteredPointers) = 1
  BY <1>1 DEF Init, Frame, Depth
<1>3. TypeOK
  BY <1>2 DEF Init, TypeOK, Frame
<1>4. PathRemembered /\ NoLoop /\ PathInv /\ FaultStaysInside
  BY <1>2 DEF Init, PathRemembered, NoLoop, PathInv, FaultStaysInside
<1>5. SavePointIsOwn
  <2>1. Here.next = 1 /\ savePoint = Depth
    BY <1>2 DEF Init, Here
  <2>2. QED
    BY <2>1 DEF SavePointIsOwn
<1>6. QED
  BY <1>3, <1>4, <1>5 DEF IInv

LEMMA FollowPointerKeeps ==
  ASSUME IInv, FollowPointer
  PROVE  IInv'
<1>1. /\ pc = "walking" /\ Depth \in Nat \ {0}
      /\ Here \in Frame /\ Here = walk[Depth]
      /\ Here.next \in 1..Len(Fields[Here.obj])
      /\ Cell \in Cells
  BY AtFieldFacts DEF IInv, FollowPointer
<1>2. walk \in Seq(Frame) /\ enteredPointers \in Seq(Cells) /\ Len(enteredPointers) = Depth
  BY DEF IInv, TypeOK, Frame, PathRemembered
<1>3. [obj |-> memory[Cell], next |-> 1] \in Frame
  BY DEF FollowPointer, Frame
<1>4. /\ walk' \in Seq(Frame) /\ Len(walk') = Depth + 1
      /\ \A n \in 1..Depth : walk'[n] = walk[n]
      /\ walk'[Depth + 1].obj = memory[Cell] /\ walk'[Depth + 1].next = 1
  BY <1>2, <1>3 DEF FollowPointer, Depth
<1>5. /\ enteredPointers' \in Seq(Cells) /\ Len(enteredPointers') = Depth + 1
      /\ \A n \in 1..Depth : enteredPointers'[n] = enteredPointers[n]
      /\ enteredPointers'[Depth + 1] = Cell
  BY <1>1, <1>2 DEF FollowPointer
<1>6. Depth' = Depth + 1 /\ savePoint' = Depth + 1 /\ memory' = memory /\ pc' = pc
  BY <1>4 DEF FollowPointer, Depth
<1>7. TypeOK'
  BY <1>1, <1>4, <1>5, <1>6 DEF IInv, TypeOK, Frame
<1>8. PathRemembered'
  <2>1. \A n \in 1..Depth + 1 : n \in 1..Depth \/ n = Depth + 1
    BY <1>1
  <2>2. \A n \in 1..Depth + 1 : memory[enteredPointers'[n]] = walk'[n].obj
    BY <1>1, <1>4, <1>5, <2>1 DEF IInv, PathRemembered
  <2>3. \A n \in 2..Depth + 1 : n - 1 \in 1..Depth /\ n \in 1..Depth + 1
    BY <1>1
  <2>4. Cell = <<walk'[Depth].obj, walk'[Depth].next>>
    BY <1>1, <1>4 DEF Cell
  <2>5. ASSUME NEW n \in 2..Depth + 1
        PROVE  enteredPointers'[n] = <<walk'[n-1].obj, walk'[n-1].next>>
    <3>1. CASE n = Depth + 1
      <4>1. n - 1 = Depth
        BY <1>1, <3>1
      <4>2. QED
        BY <1>5, <2>4, <3>1, <4>1
    <3>2. CASE n # Depth + 1
      <4>1. n \in 2..Depth /\ n \in 1..Depth /\ n - 1 \in 1..Depth
        BY <1>1, <3>2
      <4>2. enteredPointers[n] = <<walk[n-1].obj, walk[n-1].next>>
        BY <4>1 DEF IInv, PathRemembered
      <4>3. QED
        BY <1>4, <1>5, <4>1, <4>2
    <3>3. QED
      BY <3>1, <3>2
  <2>6. QED
    BY <1>5, <1>6, <2>2, <2>5 DEF PathRemembered
<1>9. NoLoop'
  <2>1. \A n \in 1..Depth : enteredPointers[n] # Cell
    BY <1>2 DEF FollowPointer, IsEntered
  <2>2. \A n \in 1..Depth + 1 : n \in 1..Depth \/ n = Depth + 1
    BY <1>1
  <2>3. QED
    BY <1>2, <1>5, <2>1, <2>2 DEF IInv, NoLoop
<1>10. PathInv'
  <2>1. \A n \in 1..Depth' - 1 : n \in 1..Depth - 1 \/ n = Depth
    BY <1>1, <1>6
  <2>2. Fields[walk'[Depth].obj][walk'[Depth].next] = "ptr"
    BY <1>1, <1>4 DEF FollowPointer, Kind
  <2>3. walk'[Depth].next \in 1..Len(Fields[walk'[Depth].obj])
    BY <1>1, <1>4
  <2>4. \A n \in 1..Depth - 1 : walk'[n] = walk[n]
    BY <1>1, <1>4
  <2>5. QED
    BY <2>1, <2>2, <2>3, <2>4 DEF IInv, PathInv
<1>11. SavePointIsOwn' /\ FaultStaysInside'
  <2>1. Here'.next = 1 /\ savePoint' = Depth'
    BY <1>4, <1>6 DEF Here
  <2>2. SavePointIsOwn'
    BY <2>1 DEF SavePointIsOwn
  <2>3. QED
    BY <1>1, <1>6, <2>2 DEF FaultStaysInside
<1>12. QED
  BY <1>7, <1>8, <1>9, <1>10, <1>11 DEF IInv

\* The field printType is at has been printed, and the walk stays where it is.
LEMMA NextFieldKeeps ==
  ASSUME IInv, AtField, walk' = Advanced(walk), UNCHANGED <<memory, pc, enteredPointers>>,
         \/ Kind = "ptr" /\ ~IsEntered(Cell) /\ savePoint' = 0
         \/ (Kind = "ptr" => IsEntered(Cell)) /\ savePoint' = savePoint
  PROVE  IInv'
<1>1. /\ pc = "walking" /\ Depth \in Nat \ {0}
      /\ Here \in Frame /\ Here = walk[Depth]
      /\ Here.next \in 1..Len(Fields[Here.obj])
  BY AtFieldFacts DEF IInv
<1>2. walk \in Seq(Frame) /\ walk # <<>>
  BY DEF IInv, TypeOK, Frame, AtField
<1>3. /\ walk' \in Seq(Frame) /\ Depth' = Depth
      /\ \A n \in 1..Depth : walk'[n].obj = walk[n].obj
      /\ \A n \in 1..Depth - 1 : walk'[n] = walk[n]
      /\ Here'.obj = Here.obj /\ Here'.next = Here.next + 1
  BY ONLY <1>1, <1>2, AdvancedFacts, walk' = Advanced(walk) DEF Depth, Here
<1>4. TypeOK'
  <2>1. savePoint' = 0 \/ savePoint' = savePoint
    OBVIOUS
  <2>2. savePoint' \in Nat
    BY ONLY <2>1, IInv DEF IInv, TypeOK
  <2>3. QED
    BY <1>3, <2>2 DEF IInv, TypeOK, Frame
<1>5. PathRemembered'
  <2>1. \A n \in 2..Depth : n - 1 \in 1..Depth - 1
    BY <1>1
  <2>2. QED
    BY <1>1, <1>3, <2>1 DEF IInv, PathRemembered
<1>6. NoLoop' /\ PathInv'
  BY <1>3 DEF IInv, NoLoop, PathInv
<1>7. SavePointIsOwn'
  <2> DEFINE AllEntered(x) == \A k \in 1..x : Fields[Here.obj][k] = "ptr" => IsEntered(<<Here.obj, k>>)
  <2>1. savePoint = Depth <=> AllEntered(Here.next - 1)
    BY <1>2 DEF IInv, SavePointIsOwn
  <2>2. AllEntered(Here.next) <=> AllEntered(Here.next - 1) /\ (Kind = "ptr" => IsEntered(Cell))
    <3>1. \A k \in 1..Here.next : k \in 1..Here.next - 1 \/ k = Here.next
      BY <1>1
    <3>2. Here.next \in 1..Here.next /\ \A k \in 1..Here.next - 1 : k \in 1..Here.next
      BY <1>1
    <3>3. QED
      BY <3>1, <3>2 DEF Kind, Cell
  <2>3. savePoint' = Depth' <=> AllEntered(Here.next)
    <3>1. CASE Kind = "ptr" /\ ~IsEntered(Cell) /\ savePoint' = 0
      <4>1. savePoint' # Depth'
        BY <1>1, <1>3, <3>1
      <4>2. ~AllEntered(Here.next)
        BY <2>2, <3>1
      <4>3. QED
        BY <4>1, <4>2
    <3>2. CASE (Kind = "ptr" => IsEntered(Cell)) /\ savePoint' = savePoint
      BY <1>3, <2>1, <2>2, <3>2
    <3>3. QED
      BY <3>1, <3>2
  <2>4. Here'.next - 1 = Here.next
    BY <1>1, <1>3 DEF Frame
  <2>5. \A c : IsEntered(c)' <=> IsEntered(c)
    BY DEF IsEntered
  <2>6. QED
    BY <1>3, <2>3, <2>4, <2>5 DEF SavePointIsOwn
<1>8. FaultStaysInside'
  BY <1>1 DEF FaultStaysInside
<1>9. QED
  BY <1>4, <1>5, <1>6, <1>7, <1>8 DEF IInv

\* Back at the object that holds the pointer to it: that pointer is not behind any more,
\* and savePoint went with its guard.
LEMMA LeaveObjectKeeps ==
  ASSUME IInv, pc = "walking", walk # <<>>, LeaveObject, UNCHANGED <<memory, pc>>
  PROVE  IInv'
<1> DEFINE w == SubSeq(walk, 1, Depth - 1)
<1>1. walk \in Seq(Frame) /\ Depth \in Nat \ {0} /\ enteredPointers \in Seq(Cells)
      /\ Len(enteredPointers) = Depth
  BY DEF IInv, TypeOK, Frame, Depth, PathRemembered
<1>2. /\ w \in Seq(Frame) /\ Len(w) = Depth - 1
      /\ \A n \in 1..Depth - 1 : w[n] = walk[n]
  BY <1>1 DEF Depth
<1>3. /\ enteredPointers' \in Seq(Cells) /\ Len(enteredPointers') = Depth - 1
      /\ \A n \in 1..Depth - 1 : enteredPointers'[n] = enteredPointers[n]
  BY <1>1 DEF LeaveObject
<1>4. walk' = Advanced(w) /\ savePoint' = 0 /\ memory' = memory /\ pc' = pc
  BY DEF LeaveObject
<1> HIDE DEF w
<1>5. /\ walk' \in Seq(Frame) /\ Len(walk') = Depth - 1
      /\ \A n \in 1..Depth - 1 : walk'[n].obj = walk[n].obj
      /\ \A n \in 1..(Depth - 1) - 1 : walk'[n] = walk[n]
      /\ Depth - 1 > 0 => walk'[Depth - 1].next = walk[Depth - 1].next + 1
  <2>1. /\ Advanced(w) \in Seq(Frame)
        /\ Len(Advanced(w)) = Len(w)
        /\ \A n \in 1..Len(w) : Advanced(w)[n].obj = w[n].obj
        /\ \A n \in 1..Len(w) - 1 : Advanced(w)[n] = w[n]
        /\ w # <<>> => Advanced(w)[Len(w)].next = w[Len(w)].next + 1
    BY <1>2, AdvancedFacts
  <2>2. Depth - 1 > 0 => w # <<>> /\ Depth - 1 \in 1..Depth - 1
    BY <1>1, <1>2
  <2>3. \A n \in 1..(Depth - 1) - 1 : n \in 1..Depth - 1
    BY <1>1
  <2>4. QED
    BY <1>2, <1>4, <2>1, <2>2, <2>3
<1>6. Depth' = Depth - 1
  BY <1>5 DEF Depth
<1>7. TypeOK'
  BY <1>3, <1>4, <1>5 DEF IInv, TypeOK, Frame
<1>8. PathRemembered'
  <2>1. \A n \in 1..Depth - 1 : n \in 1..Depth
    BY <1>1
  <2>2. \A n \in 2..Depth - 1 : n - 1 \in 1..(Depth - 1) - 1 /\ n \in 2..Depth /\ n \in 1..Depth - 1
    BY <1>1
  <2>3. QED
    BY <1>3, <1>4, <1>5, <1>6, <2>1, <2>2 DEF IInv, PathRemembered
<1>9. NoLoop'
  <2>1. \A n \in 1..Depth - 1 : n \in 1..Len(enteredPointers)
    BY <1>1
  <2>2. QED
    BY <1>3, <2>1 DEF IInv, NoLoop
<1>10. PathInv'
  <2>1. \A n \in 1..(Depth - 1) - 1 : n \in 1..Depth - 1
    BY <1>1
  <2>2. QED
    BY <1>5, <1>6, <2>1 DEF IInv, PathInv
<1>11. SavePointIsOwn'
  <2> SUFFICES ASSUME walk' # <<>>
               PROVE  /\ savePoint' # Depth'
                      /\ \E k \in 1..Here'.next - 1 :
                           /\ Fields[Here'.obj][k] = "ptr"
                           /\ \A n \in 1..Depth - 1 : enteredPointers'[n] # <<Here'.obj, k>>
    BY <1>3 DEF SavePointIsOwn, IsEntered
  <2>1. Depth - 1 > 0 /\ Depth - 1 \in 1..Depth - 1 /\ Depth \in 2..Depth
    BY <1>1, <1>5
  <2> DEFINE k == walk[Depth - 1].next
  <2>2. Here' = walk'[Depth - 1]
    BY <1>6 DEF Here
  <2>3. Here'.obj = walk[Depth - 1].obj /\ Here'.next = k + 1
    BY <1>5, <2>1, <2>2
  <2>4. k \in Nat \ {0} /\ Fields[walk[Depth - 1].obj][k] = "ptr"
    BY <2>1 DEF IInv, PathInv
  <2>5. enteredPointers[Depth] = <<walk[Depth - 1].obj, k>>
    BY <2>1 DEF IInv, PathRemembered
  <2>6. \A n \in 1..Depth - 1 : enteredPointers'[n] # enteredPointers[Depth]
    <3>1. \A n \in 1..Depth - 1 : n \in 1..Len(enteredPointers) /\ n # Depth
      BY <1>1
    <3>2. Depth \in 1..Len(enteredPointers)
      BY <1>1
    <3>3. QED
      BY <1>3, <3>1, <3>2 DEF IInv, NoLoop
  <2>7. \A n \in 1..Depth - 1 : enteredPointers'[n] # <<Here'.obj, k>>
    BY <2>3, <2>5, <2>6
  <2>8. k \in 1..Here'.next - 1
    BY <2>3, <2>4
  <2>9. savePoint' # Depth'
    BY <1>4, <1>6, <2>1
  <2>10. QED
    BY <2>3, <2>4, <2>7, <2>8, <2>9
<1>12. FaultStaysInside'
  BY <1>4 DEF FaultStaysInside
<1>13. QED
  BY <1>7, <1>8, <1>9, <1>10, <1>11, <1>12 DEF IInv

LEMMA StringFaultsKeeps ==
  ASSUME IInv, StringFaults
  PROVE  IInv'
<1>1. /\ pc = "walking" /\ Depth \in Nat \ {0} /\ walk # <<>>
      /\ Here \in Frame
      /\ Here.next \in 1..Len(Fields[Here.obj])
  BY AtFieldFacts DEF IInv, StringFaults, AtField
<1>2. CASE savePoint = Depth
  BY <1>1, <1>2, LeaveObjectKeeps DEF StringFaults
<1>3. CASE savePoint # Depth
  <2>1. pc' = "lost" /\ UNCHANGED <<memory, walk, enteredPointers, savePoint>>
    BY <1>3 DEF StringFaults
  <2>2. ~StringsFirst(Here.obj)
    <3>1. PICK k \in 1..Here.next - 1 : Fields[Here.obj][k] = "ptr"
      BY <1>1, <1>3 DEF IInv, SavePointIsOwn
    <3>2. Fields[Here.obj][Here.next] = "str"
      BY DEF StringFaults, Kind
    <3>3. QED
      BY <1>1, <3>1, <3>2 DEF StringsFirst, Frame
  <2>3. Here' = Here /\ Depth' = Depth
    BY <2>1 DEF Here, Depth
  <2>4. FaultStaysInside' /\ SavePointIsOwn'
    <3>1. FaultStaysInside'
      BY <1>1, <2>2, <2>3 DEF FaultStaysInside
    <3>2. SavePointIsOwn'
      BY <2>1, <2>3 DEF SavePointIsOwn, IInv, IsEntered
    <3>3. QED
      BY <3>1, <3>2
  <2>5. TypeOK' /\ PathRemembered' /\ NoLoop' /\ PathInv'
    BY <2>1, <2>3 DEF IInv, TypeOK, PathRemembered, NoLoop, PathInv
  <2>6. QED
    BY <2>4, <2>5 DEF IInv
<1>4. QED
  BY <1>2, <1>3

LEMMA StepKeeps == IInv /\ [Next]_vars => IInv'
<1> SUFFICES ASSUME IInv, [Next]_vars PROVE IInv'
  OBVIOUS
<1>1. CASE FollowPointer
  BY <1>1, FollowPointerKeeps
<1>2. CASE PointerToNothing
  BY <1>2, NextFieldKeeps DEF PointerToNothing
<1>3. CASE LoopDetected
  BY <1>3, NextFieldKeeps DEF LoopDetected, IInv, TypeOK
<1>4. CASE PrintString
  BY <1>4, NextFieldKeeps DEF PrintString, IInv, TypeOK
<1>5. CASE StringFaults
  BY <1>5, StringFaultsKeeps
<1>6. CASE ObjectPrinted
  BY <1>6, LeaveObjectKeeps DEF ObjectPrinted
<1>7. CASE ParameterPrinted
  BY <1>7 DEF ParameterPrinted, IInv, TypeOK, PathRemembered, NoLoop, PathInv,
              SavePointIsOwn, FaultStaysInside, Depth, Here
<1>8. CASE UNCHANGED vars
  <2>1. Depth' = Depth /\ Here' = Here
    BY <1>8 DEF vars, Depth, Here
  <2>2. SavePointIsOwn'
    BY <1>8, <2>1 DEF vars, IInv, SavePointIsOwn, IsEntered
  <2>3. QED
    BY <1>8, <2>1, <2>2 DEF vars, IInv, TypeOK, PathRemembered, NoLoop, PathInv, FaultStaysInside
<1>9. QED
  BY <1>1, <1>2, <1>3, <1>4, <1>5, <1>6, <1>7, <1>8 DEF Next, PrintStep, Ended

LEMMA Inductive == Spec => []IInv
BY InitEstablishes, StepKeeps, PTL DEF Spec

-----------------------------------------------------------------------------
(* Theorems. *)

\* printType stays within its types over every memory: in particular it enters no
\* pointer but one to an object.
THEOREM TypeCorrect == Spec => []TypeOK
BY Inductive, PTL DEF IInv

\* enteredPointers is the path to where printType is, through faults as well as
\* returns: what the pop_back after tryPossibleSegFault is for.
THEOREM PathExact == Spec => []PathRemembered
BY Inductive, PTL DEF IInv

\* printType is behind each pointer at most once at a time, however the memory
\* of the target loops.
THEOREM NeverTwiceBehind == Spec => []NoLoop
BY Inductive, PTL DEF IInv

\* savePoint is that of the guard around the object being printed exactly until a
\* pointer of the object has been followed: the state after a nested guard has
\* returned, for every order of fields and every memory.
THEOREM SavePointExact == Spec => []SavePointIsOwn
BY Inductive, PTL DEF IInv

\* A string that cannot be read costs at most the object it lies in, unless a
\* pointer of that object was printed before it.
THEOREM FaultContained == Spec => []FaultStaysInside
BY Inductive, PTL DEF IInv

-----------------------------------------------------------------------------
LEMMA LeastNatural ==
  ASSUME NEW T, T \subseteq Nat, T # {}
  PROVE  \E x \in T : \A y \in T : x <= y
<1>1. PICK R : R = OpToRel(<, Nat)
  OBVIOUS
<1>2. \E x \in T : \A y \in T : <<y, x>> \notin R
  BY <1>1, NatLessThanWellFounded, WFMin
<1>3. \A x \in Nat, y \in Nat : y < x => <<y, x>> \in R
  BY <1>1 DEF OpToRel
<1>4. \A x \in Nat, y \in Nat : ~(y < x) => x <= y
  OBVIOUS
<1>5. PICK x \in T : \A y \in T : <<y, x>> \notin R
  BY <1>2
<1>6. ASSUME NEW y \in T PROVE x <= y
  BY <1>3, <1>4, <1>5
<1>7. QED
  BY <1>5, <1>6

LEMMA Induct ==
  ASSUME NEW S, 0 \in S, \A n \in Nat : n \in S => n + 1 \in S
  PROVE  Nat \subseteq S
<1> PICK T : T = Nat \ S
  OBVIOUS
<1>1. CASE T = {}
  BY <1>1
<1>2. CASE T # {}
  <2>1. PICK x \in T : \A y \in T : x <= y
    BY <1>2, LeastNatural
  <2>2. x \in Nat /\ x # 0 /\ x - 1 \in Nat /\ ~(x <= x - 1) /\ (x - 1) + 1 = x
    BY <2>1
  <2>3. x - 1 \in S
    BY <2>1, <2>2
  <2>4. QED
    BY <2>1, <2>2, <2>3
<1>3. QED
  BY <1>1, <1>2

-----------------------------------------------------------------------------
(* What is found out of a type, by each of the walks over types, is found  *)
(* out of those within it one level down.                                  *)

LengthUpTo ==
  CHOOSE found : found = [depth \in 0..MaxNesting |->
    IF depth = 0 THEN [T \in Types |-> 0]
    ELSE [T \in Types |-> ByteLength(found[depth - 1], T)]]

LargestUpTo ==
  CHOOSE found : found = [depth \in 0..MaxNesting |->
    IF depth = 0 THEN [T \in Types |-> 0]
    ELSE [T \in Types |-> LargestContained(found[depth - 1], T)]]

PrintsUpTo ==
  CHOOSE found : found = [depth \in 0..MaxNesting |->
    IF depth = 0 THEN [T \in Types |-> <<>>]
    ELSE [T \in Types |-> Prints(found[depth - 1], T)]]

PushesUpTo(option) ==
  CHOOSE found : found = [depth \in 0..MaxNesting |->
    IF depth = 0 THEN [T \in Types |-> [doRound \in BOOLEAN |-> <<>>]]
    ELSE [T \in Types |-> [doRound \in BOOLEAN |-> Inputs(found[depth - 1], T, doRound, option)]]]

AlignUpTo ==
  CHOOSE found : found = [depth \in 0..MaxNesting |->
    IF depth = 0 THEN [T \in Types |-> 0]
    ELSE [T \in Types |-> Aligns(found[depth - 1], T)]]

SizeUpTo ==
  CHOOSE found : found = [depth \in 0..MaxNesting |->
    IF depth = 0 THEN [T \in Types |-> 0]
    ELSE [T \in Types |-> Sizes(found[depth - 1], T)]]

StoresUpTo ==
  CHOOSE found : found = [depth \in 0..MaxNesting |->
    IF depth = 0 THEN [T \in Types |-> <<>>]
    ELSE [T \in Types |-> Stores(found[depth - 1], T)]]

LEMMA LengthSteps ==
  ASSUME NEW d \in 1..MaxNesting, NEW T \in Types
  PROVE  LengthUpTo[d][T] = ByteLength(LengthUpTo[d - 1], T)
<1> DEFINE Zero == [U \in Types |-> 0]
<1> DEFINE Deeper(f) == [U \in Types |-> ByteLength(f, U)]
<1> DEFINE Is(f, m) == f = [depth \in 0..m |-> IF depth = 0 THEN Zero ELSE Deeper(f[depth - 1])]
<1> DEFINE I == {m \in Nat : \E f : Is(f, m)}
<1>1. 0 \in I
  <2>1. PICK f : f = [depth \in 0..0 |-> Zero]
    OBVIOUS
  <2> HIDE DEF Zero, Deeper
  <2>2. Is(f, 0)
    BY <2>1
  <2>3. QED
    BY <2>2
<1>2. ASSUME NEW m \in Nat, m \in I PROVE m + 1 \in I
  <2>1. PICK f : Is(f, m)
    BY <1>2
  <2>2. PICK g : g = [depth \in 0..m + 1 |-> IF depth <= m THEN f[depth] ELSE Deeper(f[m])]
    OBVIOUS
  <2> HIDE DEF Zero, Deeper
  <2>3. Is(g, m + 1)
    BY <2>1, <2>2
  <2>4. QED
    BY <2>3
<1>3. MaxNesting \in I
  <2> HIDE DEF I
  <2>1. Nat \subseteq I
    BY <1>1, <1>2, Induct
  <2>2. QED
    BY <2>1, BoundsAssumption
<1>4. \E f : Is(f, MaxNesting)
  BY <1>3
<1>5. Is(LengthUpTo, MaxNesting)
  BY <1>4, Zenon DEF LengthUpTo
<1> HIDE DEF Zero
<1>6. LengthUpTo[d] = Deeper(LengthUpTo[d - 1])
  <2> HIDE DEF Deeper
  <2>1. QED
    BY <1>5, BoundsAssumption
<1>7. QED
  BY <1>6

LEMMA LargestSteps ==
  ASSUME NEW d \in 1..MaxNesting, NEW T \in Types
  PROVE  LargestUpTo[d][T] = LargestContained(LargestUpTo[d - 1], T)
<1> DEFINE Zero == [U \in Types |-> 0]
<1> DEFINE Deeper(f) == [U \in Types |-> LargestContained(f, U)]
<1> DEFINE Is(f, m) == f = [depth \in 0..m |-> IF depth = 0 THEN Zero ELSE Deeper(f[depth - 1])]
<1> DEFINE I == {m \in Nat : \E f : Is(f, m)}
<1>1. 0 \in I
  <2>1. PICK f : f = [depth \in 0..0 |-> Zero]
    OBVIOUS
  <2> HIDE DEF Zero, Deeper
  <2>2. Is(f, 0)
    BY <2>1
  <2>3. QED
    BY <2>2
<1>2. ASSUME NEW m \in Nat, m \in I PROVE m + 1 \in I
  <2>1. PICK f : Is(f, m)
    BY <1>2
  <2>2. PICK g : g = [depth \in 0..m + 1 |-> IF depth <= m THEN f[depth] ELSE Deeper(f[m])]
    OBVIOUS
  <2> HIDE DEF Zero, Deeper
  <2>3. Is(g, m + 1)
    BY <2>1, <2>2
  <2>4. QED
    BY <2>3
<1>3. MaxNesting \in I
  <2> HIDE DEF I
  <2>1. Nat \subseteq I
    BY <1>1, <1>2, Induct
  <2>2. QED
    BY <2>1, BoundsAssumption
<1>4. \E f : Is(f, MaxNesting)
  BY <1>3
<1>5. Is(LargestUpTo, MaxNesting)
  BY <1>4, Zenon DEF LargestUpTo
<1> HIDE DEF Zero
<1>6. LargestUpTo[d] = Deeper(LargestUpTo[d - 1])
  <2> HIDE DEF Deeper
  <2>1. QED
    BY <1>5, BoundsAssumption
<1>7. QED
  BY <1>6

LEMMA PrintsSteps ==
  ASSUME NEW d \in 1..MaxNesting, NEW T \in Types
  PROVE  PrintsUpTo[d][T] = Prints(PrintsUpTo[d - 1], T)
<1> DEFINE Zero == [U \in Types |-> <<>>]
<1> DEFINE Deeper(f) == [U \in Types |-> Prints(f, U)]
<1> DEFINE Is(f, m) == f = [depth \in 0..m |-> IF depth = 0 THEN Zero ELSE Deeper(f[depth - 1])]
<1> DEFINE I == {m \in Nat : \E f : Is(f, m)}
<1>1. 0 \in I
  <2>1. PICK f : f = [depth \in 0..0 |-> Zero]
    OBVIOUS
  <2> HIDE DEF Zero, Deeper
  <2>2. Is(f, 0)
    BY <2>1
  <2>3. QED
    BY <2>2
<1>2. ASSUME NEW m \in Nat, m \in I PROVE m + 1 \in I
  <2>1. PICK f : Is(f, m)
    BY <1>2
  <2>2. PICK g : g = [depth \in 0..m + 1 |-> IF depth <= m THEN f[depth] ELSE Deeper(f[m])]
    OBVIOUS
  <2> HIDE DEF Zero, Deeper
  <2>3. Is(g, m + 1)
    BY <2>1, <2>2
  <2>4. QED
    BY <2>3
<1>3. MaxNesting \in I
  <2> HIDE DEF I
  <2>1. Nat \subseteq I
    BY <1>1, <1>2, Induct
  <2>2. QED
    BY <2>1, BoundsAssumption
<1>4. \E f : Is(f, MaxNesting)
  BY <1>3
<1>5. Is(PrintsUpTo, MaxNesting)
  BY <1>4, Zenon DEF PrintsUpTo
<1> HIDE DEF Zero
<1>6. PrintsUpTo[d] = Deeper(PrintsUpTo[d - 1])
  <2> HIDE DEF Deeper
  <2>1. QED
    BY <1>5, BoundsAssumption
<1>7. QED
  BY <1>6

LEMMA PushesSteps ==
  ASSUME NEW option, NEW d \in 1..MaxNesting, NEW T \in Types
  PROVE  PushesUpTo(option)[d][T] = [doRound \in BOOLEAN |-> Inputs(PushesUpTo(option)[d - 1], T, doRound, option)]
<1> DEFINE Zero == [U \in Types |-> [doRound \in BOOLEAN |-> <<>>]]
<1> DEFINE Deeper(f) == [U \in Types |-> [doRound \in BOOLEAN |-> Inputs(f, U, doRound, option)]]
<1> DEFINE Is(f, m) == f = [depth \in 0..m |-> IF depth = 0 THEN Zero ELSE Deeper(f[depth - 1])]
<1> DEFINE I == {m \in Nat : \E f : Is(f, m)}
<1>1. 0 \in I
  <2>1. PICK f : f = [depth \in 0..0 |-> Zero]
    OBVIOUS
  <2> HIDE DEF Zero, Deeper
  <2>2. Is(f, 0)
    BY <2>1
  <2>3. QED
    BY <2>2
<1>2. ASSUME NEW m \in Nat, m \in I PROVE m + 1 \in I
  <2>1. PICK f : Is(f, m)
    BY <1>2
  <2>2. PICK g : g = [depth \in 0..m + 1 |-> IF depth <= m THEN f[depth] ELSE Deeper(f[m])]
    OBVIOUS
  <2> HIDE DEF Zero, Deeper
  <2>3. Is(g, m + 1)
    BY <2>1, <2>2
  <2>4. QED
    BY <2>3
<1>3. MaxNesting \in I
  <2> HIDE DEF I
  <2>1. Nat \subseteq I
    BY <1>1, <1>2, Induct
  <2>2. QED
    BY <2>1, BoundsAssumption
<1>4. \E f : Is(f, MaxNesting)
  BY <1>3
<1>5. Is(PushesUpTo(option), MaxNesting)
  BY <1>4, Zenon DEF PushesUpTo
<1> HIDE DEF Zero
<1>6. PushesUpTo(option)[d] = Deeper(PushesUpTo(option)[d - 1])
  <2> HIDE DEF Deeper
  <2>1. QED
    BY <1>5, BoundsAssumption
<1>7. QED
  BY <1>6

LEMMA AlignSteps ==
  ASSUME NEW d \in 1..MaxNesting, NEW T \in Types
  PROVE  AlignUpTo[d][T] = Aligns(AlignUpTo[d - 1], T)
<1> DEFINE Zero == [U \in Types |-> 0]
<1> DEFINE Deeper(f) == [U \in Types |-> Aligns(f, U)]
<1> DEFINE Is(f, m) == f = [depth \in 0..m |-> IF depth = 0 THEN Zero ELSE Deeper(f[depth - 1])]
<1> DEFINE I == {m \in Nat : \E f : Is(f, m)}
<1>1. 0 \in I
  <2>1. PICK f : f = [depth \in 0..0 |-> Zero]
    OBVIOUS
  <2> HIDE DEF Zero, Deeper
  <2>2. Is(f, 0)
    BY <2>1
  <2>3. QED
    BY <2>2
<1>2. ASSUME NEW m \in Nat, m \in I PROVE m + 1 \in I
  <2>1. PICK f : Is(f, m)
    BY <1>2
  <2>2. PICK g : g = [depth \in 0..m + 1 |-> IF depth <= m THEN f[depth] ELSE Deeper(f[m])]
    OBVIOUS
  <2> HIDE DEF Zero, Deeper
  <2>3. Is(g, m + 1)
    BY <2>1, <2>2
  <2>4. QED
    BY <2>3
<1>3. MaxNesting \in I
  <2> HIDE DEF I
  <2>1. Nat \subseteq I
    BY <1>1, <1>2, Induct
  <2>2. QED
    BY <2>1, BoundsAssumption
<1>4. \E f : Is(f, MaxNesting)
  BY <1>3
<1>5. Is(AlignUpTo, MaxNesting)
  BY <1>4, Zenon DEF AlignUpTo
<1> HIDE DEF Zero
<1>6. AlignUpTo[d] = Deeper(AlignUpTo[d - 1])
  <2> HIDE DEF Deeper
  <2>1. QED
    BY <1>5, BoundsAssumption
<1>7. QED
  BY <1>6

LEMMA SizeSteps ==
  ASSUME NEW d \in 1..MaxNesting, NEW T \in Types
  PROVE  SizeUpTo[d][T] = Sizes(SizeUpTo[d - 1], T)
<1> DEFINE Zero == [U \in Types |-> 0]
<1> DEFINE Deeper(f) == [U \in Types |-> Sizes(f, U)]
<1> DEFINE Is(f, m) == f = [depth \in 0..m |-> IF depth = 0 THEN Zero ELSE Deeper(f[depth - 1])]
<1> DEFINE I == {m \in Nat : \E f : Is(f, m)}
<1>1. 0 \in I
  <2>1. PICK f : f = [depth \in 0..0 |-> Zero]
    OBVIOUS
  <2> HIDE DEF Zero, Deeper
  <2>2. Is(f, 0)
    BY <2>1
  <2>3. QED
    BY <2>2
<1>2. ASSUME NEW m \in Nat, m \in I PROVE m + 1 \in I
  <2>1. PICK f : Is(f, m)
    BY <1>2
  <2>2. PICK g : g = [depth \in 0..m + 1 |-> IF depth <= m THEN f[depth] ELSE Deeper(f[m])]
    OBVIOUS
  <2> HIDE DEF Zero, Deeper
  <2>3. Is(g, m + 1)
    BY <2>1, <2>2
  <2>4. QED
    BY <2>3
<1>3. MaxNesting \in I
  <2> HIDE DEF I
  <2>1. Nat \subseteq I
    BY <1>1, <1>2, Induct
  <2>2. QED
    BY <2>1, BoundsAssumption
<1>4. \E f : Is(f, MaxNesting)
  BY <1>3
<1>5. Is(SizeUpTo, MaxNesting)
  BY <1>4, Zenon DEF SizeUpTo
<1> HIDE DEF Zero
<1>6. SizeUpTo[d] = Deeper(SizeUpTo[d - 1])
  <2> HIDE DEF Deeper
  <2>1. QED
    BY <1>5, BoundsAssumption
<1>7. QED
  BY <1>6

LEMMA StoresSteps ==
  ASSUME NEW d \in 1..MaxNesting, NEW T \in Types
  PROVE  StoresUpTo[d][T] = Stores(StoresUpTo[d - 1], T)
<1> DEFINE Zero == [U \in Types |-> <<>>]
<1> DEFINE Deeper(f) == [U \in Types |-> Stores(f, U)]
<1> DEFINE Is(f, m) == f = [depth \in 0..m |-> IF depth = 0 THEN Zero ELSE Deeper(f[depth - 1])]
<1> DEFINE I == {m \in Nat : \E f : Is(f, m)}
<1>1. 0 \in I
  <2>1. PICK f : f = [depth \in 0..0 |-> Zero]
    OBVIOUS
  <2> HIDE DEF Zero, Deeper
  <2>2. Is(f, 0)
    BY <2>1
  <2>3. QED
    BY <2>2
<1>2. ASSUME NEW m \in Nat, m \in I PROVE m + 1 \in I
  <2>1. PICK f : Is(f, m)
    BY <1>2
  <2>2. PICK g : g = [depth \in 0..m + 1 |-> IF depth <= m THEN f[depth] ELSE Deeper(f[m])]
    OBVIOUS
  <2> HIDE DEF Zero, Deeper
  <2>3. Is(g, m + 1)
    BY <2>1, <2>2
  <2>4. QED
    BY <2>3
<1>3. MaxNesting \in I
  <2> HIDE DEF I
  <2>1. Nat \subseteq I
    BY <1>1, <1>2, Induct
  <2>2. QED
    BY <2>1, BoundsAssumption
<1>4. \E f : Is(f, MaxNesting)
  BY <1>3
<1>5. Is(StoresUpTo, MaxNesting)
  BY <1>4, Zenon DEF StoresUpTo
<1> HIDE DEF Zero
<1>6. StoresUpTo[d] = Deeper(StoresUpTo[d - 1])
  <2> HIDE DEF Deeper
  <2>1. QED
    BY <1>5, BoundsAssumption
<1>7. QED
  BY <1>6

-----------------------------------------------------------------------------
(* Leaves. *)

LeafLength(T) == IF T.kind = "ptr" THEN PtrLength ELSE typeByteLengths[T.name]
Lengths == {1, 2, 4, 8}

LEMMA LeafCases ==
  ASSUME NEW T \in Types, IsLeaf(T)
  PROVE  \/ T.kind = "ptr" /\ T = Ptr
         \/ T.kind = "scalar" /\ \E name \in DOMAIN typeByteLengths : T = Scalar(name)
         \/ T.kind = "enum" /\ T = Enum("int")
<1>1. T.kind \in {"scalar", "ptr", "enum"}
  BY DEF IsLeaf, Enum
<1>2. T \in BaseTypes
  BY <1>1 DEF Types, Elements, Struct, Union
<1>3. CASE T = Ptr
  BY <1>3 DEF Ptr
<1>4. CASE \E name \in DOMAIN typeByteLengths : T \in {Scalar(name), Enum(name)}
  BY <1>4 DEF IsLeaf, Scalar, Enum
<1>5. CASE T.kind = "array"
  BY <1>1, <1>5
<1>6. QED
  BY <1>2, <1>3, <1>4, <1>5, BaseTypesAssumption

LEMMA LeafLengths ==
  ASSUME NEW T \in Types, IsLeaf(T)
  PROVE  LeafLength(T) \in Lengths
BY LeafCases DEF LeafLength, Lengths, PtrLength, typeByteLengths, Scalar, Enum

\* Every walk stops at a leaf.
LEMMA LeafSteps ==
  ASSUME NEW d \in 1..MaxNesting, NEW T \in Types, IsLeaf(T)
  PROVE  /\ LengthUpTo[d][T] = LeafLength(T) /\ LargestUpTo[d][T] = LeafLength(T)
         /\ AlignUpTo[d][T] = LeafLength(T) /\ SizeUpTo[d][T] = LeafLength(T)
<1>1. T.kind \in {"ptr", "scalar", "enum"}
  BY LeafCases
<1>2. LengthUpTo[d][T] = LeafLength(T)
  BY <1>1, LengthSteps DEF ByteLength, LeafLength
<1>3. LargestUpTo[d][T] = LeafLength(T)
  BY <1>1, LargestSteps DEF LargestContained, LeafLength
<1>4. AlignUpTo[d][T] = LeafLength(T)
  BY <1>1, AlignSteps DEF Aligns, LeafLength
<1>5. SizeUpTo[d][T] = LeafLength(T)
  BY <1>1, SizeSteps DEF Sizes, LeafLength
<1>6. QED
  BY <1>2, <1>3, <1>4, <1>5

\* What the walks find are their deepest steps.
LEMMA Founds ==
  ASSUME NEW T
  PROVE  /\ getTypeByteLength(T) = LengthUpTo[MaxNesting][T]
         /\ getLargestTypeSizeContained(T) = LargestUpTo[MaxNesting][T]
         /\ AbiAlign(T) = AlignUpTo[MaxNesting][T]
         /\ AbiSize(T) = SizeUpTo[MaxNesting][T]
         /\ Printed(T) = PrintsUpTo[MaxNesting][T]
         /\ Stored(T) = StoresUpTo[MaxNesting][T]
         /\ \A option : Pushed(T, option) = PushesUpTo(option)[MaxNesting][T][FALSE]
<1>1. getTypeByteLength(T) = LengthUpTo[MaxNesting][T]
  BY DEF getTypeByteLength, Found, LengthUpTo
<1>2. getLargestTypeSizeContained(T) = LargestUpTo[MaxNesting][T]
  BY DEF getLargestTypeSizeContained, Found, LargestUpTo
<1>3. AbiAlign(T) = AlignUpTo[MaxNesting][T]
  BY DEF AbiAlign, Found, AlignUpTo
<1>4. AbiSize(T) = SizeUpTo[MaxNesting][T]
  BY DEF AbiSize, Found, SizeUpTo
<1>5. Printed(T) = PrintsUpTo[MaxNesting][T]
  BY DEF Printed, Found, PrintsUpTo
<1>6. Stored(T) = StoresUpTo[MaxNesting][T]
  BY DEF Stored, Found, StoresUpTo
<1>7. ASSUME NEW option PROVE Pushed(T, option) = PushesUpTo(option)[MaxNesting][T][FALSE]
  BY DEF Pushed, Found, PushesUpTo
<1>8. QED
  BY <1>1, <1>2, <1>3, <1>4, <1>5, <1>6, <1>7

LEMMA Levels == /\ MaxNesting \in 1..MaxNesting /\ MaxNesting - 1 \in 1..MaxNesting
                /\ MaxNesting - 2 \in 1..MaxNesting /\ MaxNesting - 1 - 1 = MaxNesting - 2
BY BoundsAssumption

\* Of a leaf, all find the same.
LEMMA LeafFacts ==
  ASSUME NEW T \in Types, IsLeaf(T)
  PROVE  /\ getTypeByteLength(T) = LeafLength(T) /\ getLargestTypeSizeContained(T) = LeafLength(T)
         /\ AbiAlign(T) = LeafLength(T) /\ AbiSize(T) = LeafLength(T)
BY Levels, LeafSteps, Founds

LEMMA LeafPrints ==
  ASSUME NEW d \in 1..MaxNesting, NEW T \in Types, IsLeaf(T)
  PROVE  /\ PrintsUpTo[d][T] = << <<0, LeafLength(T)>> >>
         /\ StoresUpTo[d][T] = << <<0, LeafLength(T)>> >>
<1>1. PrintsUpTo[d][T] = << <<0, LeafLength(T)>> >>
  <2>1. PrintsUpTo[d][T] = Prints(PrintsUpTo[d - 1], T)
    BY PrintsSteps
  <2>2. QED
    BY <2>1, LeafCases DEF Prints, LeafLength, typeByteLengths, Enum
<1>2. StoresUpTo[d][T] = << <<0, LeafLength(T)>> >>
  <2>1. StoresUpTo[d][T] = Stores(StoresUpTo[d - 1], T)
    BY StoresSteps
  <2>2. T.kind \notin {"array", "struct", "union"}
    BY LeafCases
  <2>3. QED
    BY <2>1, <2>2, LeafFacts DEF Stores
<1>3. QED
  BY <1>1, <1>2

LEMMA LeafPushes ==
  ASSUME NEW option, NEW d \in 1..MaxNesting, NEW T \in Types, IsLeaf(T), NEW doRound \in BOOLEAN
  PROVE  PushesUpTo(option)[d][T][doRound] = <<Push(LeafLength(T), doRound /\ T.kind # "ptr", TRUE)>>
<1>1. PICK f : f = PushesUpTo(option)[d - 1]
  OBVIOUS
<1>2. PushesUpTo(option)[d][T] = [r \in BOOLEAN |-> Inputs(f, T, r, option)]
  BY <1>1, PushesSteps
<1>3. PushesUpTo(option)[d][T][doRound] = Inputs(f, T, doRound, option)
  BY <1>2
<1>4. CASE T.kind = "ptr"
  <2>1. Inputs(f, T, doRound, option) = <<Push(PtrLength, FALSE, TRUE)>>
    BY <1>4 DEF Inputs
  <2>2. QED
    BY <1>3, <1>4, <2>1 DEF LeafLength
<1>5. CASE T.kind = "scalar"
  <2>1. Inputs(f, T, doRound, option) = <<Push(typeByteLengths[T.name], doRound, TRUE)>>
    BY <1>5 DEF Inputs
  <2>2. QED
    BY <1>3, <1>5, <2>1 DEF LeafLength, Push
<1>6. CASE T.kind = "enum"
  <2>1. Inputs(f, T, doRound, option) = <<Push(typeByteLengths.int, doRound, TRUE)>>
    BY <1>6 DEF Inputs
  <2>2. T.kind # "ptr" /\ LeafLength(T) = typeByteLengths.int
    BY <1>6, LeafCases DEF LeafLength, Enum
  <2>3. QED
    BY <1>3, <2>1, <2>2
<1>7. QED
  BY <1>4, <1>5, <1>6, LeafCases

-----------------------------------------------------------------------------
(* The tables. *)

\* Fields are of types that are known, and a struct has some.
LayoutInv ==
  /\ structs \in Seq(Seq(Types)) /\ unions \in Seq(Seq(Types))
  /\ \A k \in DOMAIN structs : structs[k] # <<>>

LEMMA FieldListsFacts ==
  ASSUME NEW fields \in FieldLists
  PROVE  fields \in Seq(Types) /\ fields # <<>>
<1>1. KnownTypes \subseteq Types
  <2>1. ASSUME NEW T \in Elements PROVE Array(T, 2) \in Types
    BY DEF Types, Array
  <2>2. QED
    BY <2>1 DEF KnownTypes, Types
<1>2. PICK n \in 1..MaxFields : fields \in [1..n -> KnownTypes]
  BY DEF FieldLists
<1>3. QED
  BY <1>1, <1>2

LEMMA TypesGrow ==
  ASSUME DOMAIN structs \subseteq DOMAIN structs', DOMAIN unions \subseteq DOMAIN unions'
  PROVE  Types \subseteq Types'
<1>1. Elements \subseteq Elements'
  BY DEF Elements
<1>2. QED
  BY <1>1 DEF Types

LEMMA LayoutInvariance == LayoutSpec => []LayoutInv
<1>1. NoTypes => LayoutInv
  BY DEF NoTypes, LayoutInv
<1>2. LayoutInv /\ [ReadTypes]_tables => LayoutInv'
  <2> SUFFICES ASSUME LayoutInv, [ReadTypes]_tables PROVE LayoutInv'
    OBVIOUS
  <2>1. CASE DefineStruct
    <3>1. PICK fields \in Seq(Types) : structs' = Append(structs, fields) /\ unions' = unions /\ fields # <<>>
      BY <2>1, FieldListsFacts DEF DefineStruct
    <3>2. structs' \in Seq(Seq(Types)) /\ \A k \in DOMAIN structs' : structs'[k] # <<>>
      BY <3>1 DEF LayoutInv
    <3>3. Types \subseteq Types'
      BY <3>1, TypesGrow DEF LayoutInv
    <3>4. QED
      BY <3>1, <3>2, <3>3 DEF LayoutInv
  <2>2. CASE DefineUnion
    <3>1. PICK fields \in Seq(Types) : unions' = Append(unions, fields) /\ structs' = structs
      BY <2>2, FieldListsFacts DEF DefineUnion
    <3>2. unions' \in Seq(Seq(Types))
      BY <3>1 DEF LayoutInv
    <3>3. Types \subseteq Types'
      BY <3>1, TypesGrow DEF LayoutInv
    <3>4. QED
      BY <3>1, <3>2, <3>3 DEF LayoutInv
  <2>3. CASE AllDefined \/ UNCHANGED tables
    <3>1. structs' = structs /\ unions' = unions
      BY <2>3 DEF AllDefined, tables
    <3>2. Types' = Types
      BY <3>1 DEF Types, Elements
    <3>3. QED
      BY <3>1, <3>2 DEF LayoutInv
  <2>4. QED
    BY <2>1, <2>2, <2>3 DEF ReadTypes
<1>3. QED
  BY <1>1, <1>2, PTL DEF LayoutSpec

-----------------------------------------------------------------------------
(* What printType and getTypeByteLength make of flat types and of structs  *)
(* of leaves.                                                              *)

AllLeaves(types) == \A f \in Range(types) : IsLeaf(f)
LengthsOf(types) == [k \in DOMAIN types |-> LeafLength(types[k])]

LEMMA StructIs ==
  ASSUME LayoutInv, NEW T \in Types, T.kind = "struct"
  PROVE  /\ T.index \in DOMAIN structs /\ T = Struct(T.index)
         /\ structs[T.index] \in Seq(Types)
<1>1. T \notin BaseTypes
  BY BaseTypesAssumption DEF Ptr, Scalar, Enum
<1>2. \E k \in DOMAIN structs : T = Struct(k)
  BY <1>1 DEF Types, Elements, Union
<1>3. T.index \in DOMAIN structs /\ T = Struct(T.index)
  BY <1>2 DEF Struct
<1>4. QED
  BY <1>3 DEF LayoutInv

LEMMA StructTypes ==
  ASSUME LayoutInv, NEW k \in DOMAIN structs
  PROVE  Struct(k) \in Types /\ Struct(k).kind = "struct" /\ Struct(k).index = k /\ structs[k] \in Seq(Types)
BY DEF Struct, Types, Elements, LayoutInv

LEMMA LeavesSame ==
  ASSUME NEW types \in Seq(Types), AllLeaves(types), NEW d \in 1..MaxNesting
  PROVE  /\ ForEach(LengthUpTo[d], types) = LengthsOf(types)
         /\ ForEach(LargestUpTo[d], types) = LengthsOf(types)
         /\ ForEach(AlignUpTo[d], types) = LengthsOf(types)
         /\ ForEach(SizeUpTo[d], types) = LengthsOf(types)
         /\ [k \in DOMAIN types |-> getTypeByteLength(types[k])] = LengthsOf(types)
         /\ [k \in DOMAIN types |-> getLargestTypeSizeContained(types[k])] = LengthsOf(types)
         /\ [k \in DOMAIN types |-> AbiAlign(types[k])] = LengthsOf(types)
         /\ [k \in DOMAIN types |-> AbiSize(types[k])] = LengthsOf(types)
         /\ ForEach(PrintsUpTo[d], types) = ForEach(StoresUpTo[d], types)
<1>1. ASSUME NEW k \in DOMAIN types PROVE types[k] \in Types /\ IsLeaf(types[k])
  BY DEF AllLeaves, Range
<1>2. ASSUME NEW k \in DOMAIN types
      PROVE  /\ LengthUpTo[d][types[k]] = LeafLength(types[k]) /\ LargestUpTo[d][types[k]] = LeafLength(types[k])
             /\ AlignUpTo[d][types[k]] = LeafLength(types[k]) /\ SizeUpTo[d][types[k]] = LeafLength(types[k])
  BY <1>1, LeafSteps
<1>3. ASSUME NEW k \in DOMAIN types
      PROVE  /\ getTypeByteLength(types[k]) = LeafLength(types[k])
             /\ getLargestTypeSizeContained(types[k]) = LeafLength(types[k])
             /\ AbiAlign(types[k]) = LeafLength(types[k]) /\ AbiSize(types[k]) = LeafLength(types[k])
  BY <1>1, LeafFacts
<1>4. ASSUME NEW k \in DOMAIN types PROVE PrintsUpTo[d][types[k]] = StoresUpTo[d][types[k]]
  <2>1. PICK f : f = types[k]
    OBVIOUS
  <2>2. f \in Types /\ IsLeaf(f)
    BY <1>1, <2>1
  <2>3. PrintsUpTo[d][f] = << <<0, LeafLength(f)>> >> /\ StoresUpTo[d][f] = << <<0, LeafLength(f)>> >>
    BY <2>2, LeafPrints
  <2>4. QED
    BY <2>1, <2>3
<1>5. QED
  BY <1>2, <1>3, <1>4 DEF ForEach, LengthsOf

\* A struct of leaves: of the same length for printType as for the compiler if
\* nothing is to be filled up at its end, and aligned in the same way.
LEMMA StructOfLeaves ==
  ASSUME LayoutInv, NEW T \in Types, IsStructOf(IsLeaf, T)
  PROVE  LET L == LengthsOf(structs[T.index])
         IN  /\ getTypeByteLength(T) = EndOf(L, L, Len(L))
             /\ AbiSize(T) = RoundUp(EndOf(L, L, Len(L)), AbiAlign(T))
             /\ NoTail(T) => AbiSize(T) = getTypeByteLength(T)
             /\ getLargestTypeSizeContained(T) = MaxOrZero(Range(L))
             /\ AbiAlign(T) = MaxOrZero(Range(L))
<1> PICK fields : fields = structs[T.index]
  OBVIOUS
<1> PICK L : L = LengthsOf(fields)
  OBVIOUS
<1>1. T.kind = "struct" /\ fields \in Seq(Types) /\ AllLeaves(fields)
  BY StructIs DEF IsStructOf, AllLeaves
<1>2. Len(L) = Len(fields)
  BY <1>1 DEF LengthsOf
<1>3. getTypeByteLength(T) = EndOf(L, L, Len(L))
  <2>1. getTypeByteLength(T) = ByteLength(LengthUpTo[MaxNesting - 1], T)
    BY Levels, Founds, LengthSteps
  <2>2. ForEach(LengthUpTo[MaxNesting - 1], fields) = L
    BY <1>1, Levels, LeavesSame
  <2>3. QED
    BY <1>1, <2>1, <2>2 DEF ByteLength
<1>4. AbiSize(T) = RoundUp(EndOf(L, L, Len(L)), AbiAlign(T))
  <2>1. AbiSize(T) = Sizes(SizeUpTo[MaxNesting - 1], T)
    BY Levels, Founds, SizeSteps
  <2>2. ForEach(SizeUpTo[MaxNesting - 1], fields) = L
        /\ [k \in DOMAIN fields |-> AbiAlign(fields[k])] = L
    BY <1>1, Levels, LeavesSame
  <2>3. QED
    BY <1>1, <1>2, <2>1, <2>2 DEF Sizes, AbiEnd
<1>5. NoTail(T) => AbiSize(T) = EndOf(L, L, Len(L))
  <2>1. [k \in DOMAIN fields |-> AbiSize(fields[k])] = L /\ [k \in DOMAIN fields |-> AbiAlign(fields[k])] = L
    BY <1>1, Levels, LeavesSame
  <2>2. QED
    BY <1>2, <2>1 DEF NoTail, AbiEnd
<1>6. getLargestTypeSizeContained(T) = MaxOrZero(Range(L))
  <2>1. getLargestTypeSizeContained(T) = LargestContained(LargestUpTo[MaxNesting - 1], T)
    BY Levels, Founds, LargestSteps
  <2>2. ForEach(LargestUpTo[MaxNesting - 1], fields) = L
    BY <1>1, Levels, LeavesSame
  <2>3. QED
    BY <1>1, <2>1, <2>2 DEF LargestContained
<1>7. AbiAlign(T) = MaxOrZero(Range(L))
  <2>1. AbiAlign(T) = Aligns(AlignUpTo[MaxNesting - 1], T)
    BY Levels, Founds, AlignSteps
  <2>2. ForEach(AlignUpTo[MaxNesting - 1], fields) = L
    BY <1>1, Levels, LeavesSame
  <2>3. QED
    BY <1>1, <2>1, <2>2 DEF Aligns
<1>8. QED
  BY <1>3, <1>4, <1>5, <1>6, <1>7

\* The leaves of a struct, from what was found out of its fields.
LEMMA StructPrints ==
  ASSUME LayoutInv, NEW T \in Types, T.kind = "struct", NEW d \in 1..MaxNesting,
         NEW fields, fields = structs[T.index],
         \A k \in DOMAIN fields :
           /\ PrintsUpTo[d - 1][fields[k]] = StoresUpTo[d - 1][fields[k]]
           /\ getTypeByteLength(fields[k]) = AbiSize(fields[k])
           /\ getLargestTypeSizeContained(fields[k]) = AbiAlign(fields[k])
  PROVE  PrintsUpTo[d][T] = StoresUpTo[d][T]
<1>1. PrintsUpTo[d][T] = Prints(PrintsUpTo[d - 1], T) /\ StoresUpTo[d][T] = Stores(StoresUpTo[d - 1], T)
  BY PrintsSteps, StoresSteps
<1>2. ForEach(PrintsUpTo[d - 1], fields) = ForEach(StoresUpTo[d - 1], fields)
  BY DEF ForEach
<1>3. [k \in DOMAIN fields |-> getTypeByteLength(fields[k])] = [k \in DOMAIN fields |-> AbiSize(fields[k])]
  OBVIOUS
<1>4. [k \in DOMAIN fields |-> getLargestTypeSizeContained(fields[k])] = [k \in DOMAIN fields |-> AbiAlign(fields[k])]
  OBVIOUS
<1>5. QED
  BY <1>1, <1>2, <1>3, <1>4 DEF Prints, Stores

LEMMA ArrayOfLeaf ==
  ASSUME NEW T \in Types, T.kind = "array", IsLeaf(T.of)
  PROVE  /\ T.of \in Types
         /\ getTypeByteLength(T) = AbiSize(T) /\ getLargestTypeSizeContained(T) = AbiAlign(T)
         /\ \A d \in 2..MaxNesting : PrintsUpTo[d][T] = StoresUpTo[d][T]
<1>1. T.of \in Types
  <2>1. CASE T \in BaseTypes
    BY <2>1, BaseTypesAssumption DEF Types, Elements, Ptr, Scalar, Enum
  <2>2. CASE T \notin BaseTypes
    BY <2>2 DEF Types, Elements, Struct, Union
  <2>3. QED
    BY <2>1, <2>2
<1>2. getTypeByteLength(T) = AbiSize(T)
  <2>1. getTypeByteLength(T) = ByteLength(LengthUpTo[MaxNesting - 1], T) /\ AbiSize(T) = Sizes(SizeUpTo[MaxNesting - 1], T)
    BY Levels, Founds, LengthSteps, SizeSteps
  <2>2. LengthUpTo[MaxNesting - 1][T.of] = SizeUpTo[MaxNesting - 1][T.of]
    BY <1>1, Levels, LeafSteps
  <2>3. QED
    BY <2>1, <2>2 DEF ByteLength, Sizes
<1>3. getLargestTypeSizeContained(T) = AbiAlign(T)
  <2>1. getLargestTypeSizeContained(T) = LargestContained(LargestUpTo[MaxNesting - 1], T)
        /\ AbiAlign(T) = Aligns(AlignUpTo[MaxNesting - 1], T)
    BY Levels, Founds, LargestSteps, AlignSteps
  <2>2. AlignUpTo[MaxNesting - 1][T.of] = getTypeByteLength(T.of)
    BY <1>1, Levels, LeafSteps, LeafFacts
  <2>3. QED
    BY <2>1, <2>2 DEF LargestContained, Aligns
<1>4. ASSUME NEW d \in 2..MaxNesting PROVE PrintsUpTo[d][T] = StoresUpTo[d][T]
  <2>1. d \in 1..MaxNesting /\ d - 1 \in 1..MaxNesting
    BY BoundsAssumption
  <2>2. PrintsUpTo[d][T] = Prints(PrintsUpTo[d - 1], T) /\ StoresUpTo[d][T] = Stores(StoresUpTo[d - 1], T)
    BY <2>1, PrintsSteps, StoresSteps
  <2>3. PrintsUpTo[d - 1][T.of] = StoresUpTo[d - 1][T.of] /\ getTypeByteLength(T.of) = AbiSize(T.of)
    BY <1>1, <2>1, LeafPrints, LeafFacts
  <2>4. QED
    BY <2>2, <2>3 DEF Prints, Stores
<1>5. QED
  BY <1>1, <1>2, <1>3, <1>4

LEMMA PrintableFields ==
  ASSUME LayoutInv, NEW f \in Types, IsPrintable(f), NEW d \in 2..MaxNesting
  PROVE  /\ PrintsUpTo[d][f] = StoresUpTo[d][f]
         /\ getTypeByteLength(f) = AbiSize(f)
         /\ getLargestTypeSizeContained(f) = AbiAlign(f)
<1>0. d \in 1..MaxNesting /\ d - 1 \in 1..MaxNesting
  BY BoundsAssumption
<1>1. CASE IsLeaf(f)
  BY <1>0, <1>1, LeafPrints, LeafFacts
<1>2. CASE f.kind = "array" /\ IsLeaf(f.of)
  BY <1>2, ArrayOfLeaf
<1>3. CASE IsStructOf(IsLeaf, f) /\ NoTail(f)
  <2> PICK fields : fields = structs[f.index]
    OBVIOUS
  <2>1. f.kind = "struct" /\ fields \in Seq(Types) /\ AllLeaves(fields)
    BY <1>3, StructIs DEF IsStructOf, AllLeaves
  <2>2. \A k \in DOMAIN fields : fields[k] \in Types /\ IsLeaf(fields[k])
    BY <2>1 DEF AllLeaves, Range
  <2>3. PrintsUpTo[d][f] = StoresUpTo[d][f]
    <3>1. ASSUME NEW k \in DOMAIN fields
          PROVE  /\ PrintsUpTo[d - 1][fields[k]] = StoresUpTo[d - 1][fields[k]]
                 /\ getTypeByteLength(fields[k]) = AbiSize(fields[k])
                 /\ getLargestTypeSizeContained(fields[k]) = AbiAlign(fields[k])
      BY <1>0, <2>2, LeafPrints, LeafFacts
    <3>2. QED
      BY <1>0, <2>1, <3>1, StructPrints
  <2>4. QED
    BY <1>3, <2>3, StructOfLeaves
<1>4. QED
  BY <1>1, <1>2, <1>3 DEF IsPrintable, IsFlat

\* For all tables of types, whatever they hold besides: printType reads a struct
\* of scalars, pointers, int enums, arrays of those and structs of them that end
\* where they are aligned, where the target's compiler has put it.
THEOREM PrintsWhereStored == LayoutSpec => []PrintedWhereStored
<1>1. LayoutInv => PrintedWhereStored
  <2> SUFFICES ASSUME LayoutInv, NEW j \in DOMAIN structs, IsStructOf(IsPrintable, Struct(j))
               PROVE  Printed(Struct(j)) = Stored(Struct(j))
    BY DEF PrintedWhereStored, Structs
  <2> PICK T : T = Struct(j)
    OBVIOUS
  <2> PICK fields : fields = structs[j]
    OBVIOUS
  <2>1. T \in Types /\ T.kind = "struct" /\ T.index = j /\ fields \in Seq(Types)
    BY StructTypes
  <2>2. \A k \in DOMAIN fields : fields[k] \in Types /\ IsPrintable(fields[k])
    BY <2>1 DEF IsStructOf, Range
  <2>3. MaxNesting - 1 \in 2..MaxNesting
    BY BoundsAssumption
  <2>4. ASSUME NEW k \in DOMAIN fields
        PROVE  /\ PrintsUpTo[MaxNesting - 1][fields[k]] = StoresUpTo[MaxNesting - 1][fields[k]]
               /\ getTypeByteLength(fields[k]) = AbiSize(fields[k])
               /\ getLargestTypeSizeContained(fields[k]) = AbiAlign(fields[k])
    BY <2>2, <2>3, PrintableFields
  <2>5. PrintsUpTo[MaxNesting][T] = StoresUpTo[MaxNesting][T]
    BY <2>1, <2>4, Levels, StructPrints
  <2>6. QED
    BY <2>5, Founds
<1>2. QED
  BY <1>1, LayoutInvariance, PTL

-----------------------------------------------------------------------------
(* Sequences put together and positions added up. *)

\* Where each value leads to the next, there is a function of the first n of them.
Leads(V, a, step, n) ==
  \E f \in [0..n -> V] : f[0] = a /\ \A k \in 1..n : f[k] = step[<<k, f[k - 1]>>]

LEMMA Recursion ==
  ASSUME NEW V, NEW a \in V, NEW step \in [Nat \X V -> V]
  PROVE  \A n \in Nat : Leads(V, a, step, n)
<1> DEFINE S == {n \in Nat : Leads(V, a, step, n)}
<1>1. 0 \in S
  <2>1. PICK f : f = [k \in 0..0 |-> a]
    OBVIOUS
  <2>2. f \in [0..0 -> V] /\ f[0] = a /\ \A k \in 1..0 : f[k] = step[<<k, f[k - 1]>>]
    BY <2>1
  <2>3. QED
    BY <2>2 DEF Leads
<1>2. ASSUME NEW n \in Nat, n \in S PROVE n + 1 \in S
  <2>1. PICK f \in [0..n -> V] : f[0] = a /\ \A k \in 1..n : f[k] = step[<<k, f[k - 1]>>]
    BY <1>2 DEF Leads
  <2>2. PICK v \in V : v = step[<<n + 1, f[n]>>]
    <3>1. f[n] \in V /\ n + 1 \in Nat
      OBVIOUS
    <3>2. QED
      BY <3>1
  <2>3. PICK g : g = [k \in 0..n + 1 |-> IF k = n + 1 THEN v ELSE f[k]]
    OBVIOUS
  <2>4. g \in [0..n + 1 -> V]
    BY <2>3
  <2>5. \A k \in 0..n : g[k] = f[k]
    BY <2>3
  <2>6. g[n + 1] = v
    BY <2>3
  <2>7. ASSUME NEW k \in 1..n + 1 PROVE g[k] = step[<<k, g[k - 1]>>]
    <3>1. CASE k = n + 1
      BY <3>1, <2>2, <2>5, <2>6
    <3>2. CASE k \in 1..n
      <4>1. k - 1 \in 0..n /\ k \in 0..n
        BY <3>2
      <4>2. QED
        BY <3>2, <4>1, <2>1, <2>5
    <3>3. QED
      BY <3>1, <3>2
  <2>8. g[0] = a
    BY <2>1, <2>5
  <2>9. QED
    BY <2>4, <2>7, <2>8 DEF Leads
<1> HIDE DEF S
<1>3. Nat \subseteq S
  BY <1>1, <1>2, Induct
<1>4. QED
  BY <1>3 DEF S


\* The function of FlattenSeq.
FlatUpTo(seqs) ==
  CHOOSE flatten : flatten = [i \in 1..Len(seqs) |-> IF i = 1 THEN seqs[i] ELSE flatten[i - 1] \o seqs[i]]

LEMMA FlatSteps ==
  ASSUME NEW S, NEW seqs \in Seq(Seq(S)), seqs # <<>>
  PROVE  /\ FlattenSeq(seqs) = FlatUpTo(seqs)[Len(seqs)]
         /\ FlatUpTo(seqs) \in [1..Len(seqs) -> Seq(S)]
         /\ FlatUpTo(seqs)[1] = seqs[1]
         /\ \A i \in 2..Len(seqs) : FlatUpTo(seqs)[i] = FlatUpTo(seqs)[i - 1] \o seqs[i]
<1> PICK n : n = Len(seqs)
  OBVIOUS
<1>1. n \in Nat /\ n # 0 /\ \A i \in 1..n : seqs[i] \in Seq(S)
  OBVIOUS
<1> PICK V : V = Seq(S)
  OBVIOUS
<1> PICK a : a = <<>>
  OBVIOUS
<1>2. a \in V
  OBVIOUS
<1> DEFINE More(k, s) == IF k \in 1..n THEN s \o seqs[k] ELSE s
<1>3. PICK step : step = [p \in Nat \X V |-> More(p[1], p[2])]
  OBVIOUS
<1>4. ASSUME NEW k \in Nat, NEW s \in V PROVE More(k, s) \in V
  BY <1>1
<1>5. step \in [Nat \X V -> V]
  <2> HIDE DEF More
  <2>1. QED
    BY <1>3, <1>4
<1>6. PICK f \in [0..n -> V] : f[0] = a /\ \A k \in 1..n : f[k] = step[<<k, f[k - 1]>>]
  <2> HIDE DEF More
  <2>1. Leads(V, a, step, n)
    BY ONLY <1>1, <1>2, <1>5, Recursion
  <2>2. QED
    BY ONLY <2>1 DEF Leads
<1>7. ASSUME NEW k \in 1..n PROVE f[k] = f[k - 1] \o seqs[k]
  <2>1. k \in Nat /\ k - 1 \in 0..n
    BY <1>1
  <2>2. f[k - 1] \in V
    BY <2>1
  <2>3. step[<<k, f[k - 1]>>] = More(k, f[k - 1])
    <3> HIDE DEF More
    <3>1. QED
      BY <1>3, <2>1, <2>2
  <2>4. QED
    BY <1>6, <2>3
<1>8. f[1] = seqs[1]
  <2>1. f[1] = f[0] \o seqs[1]
    <3>1. 1 \in 1..n /\ 1 - 1 = 0
      BY <1>1
    <3>2. f[1] = f[1 - 1] \o seqs[1]
      BY <1>7, <3>1
    <3>3. QED
      BY <3>1, <3>2
  <2>2. QED
    BY <1>1, <1>6, <2>1
<1>9. PICK g : g = [i \in 1..n |-> f[i]]
  OBVIOUS
<1>10. g = [i \in 1..n |-> IF i = 1 THEN seqs[i] ELSE g[i - 1] \o seqs[i]]
  <2>1. ASSUME NEW i \in 1..n, i # 1 PROVE g[i] = g[i - 1] \o seqs[i]
    <3>1. i - 1 \in 1..n
      BY <1>1, <2>1
    <3>2. QED
      BY <1>7, <1>9, <3>1
  <2>2. g[1] = seqs[1]
    BY <1>1, <1>8, <1>9
  <2>3. QED
    BY <1>9, <2>1, <2>2
<1>11. FlatUpTo(seqs) = [i \in 1..n |-> IF i = 1 THEN seqs[i] ELSE FlatUpTo(seqs)[i - 1] \o seqs[i]]
  BY <1>10, Zenon DEF FlatUpTo
<1> PICK flat : flat = FlatUpTo(seqs)
  OBVIOUS
<1>12. flat[1] = seqs[1] /\ DOMAIN flat = 1..n
  BY <1>1, <1>11
<1>13. ASSUME NEW i \in 2..n PROVE flat[i] = flat[i - 1] \o seqs[i]
  <2>1. i \in 1..n /\ i # 1
    BY <1>1
  <2>2. flat[i] = IF i = 1 THEN seqs[i] ELSE flat[i - 1] \o seqs[i]
    BY ONLY <1>11, <2>1, flat = FlatUpTo(seqs)
  <2>3. QED
    BY <2>1, <2>2
<1>14. \A i \in Nat : i + 1 <= n => flat[i + 1] \in V
  <2> DEFINE I == {i \in Nat : i + 1 <= n => flat[i + 1] \in V}
  <2>1. 0 \in I
    BY <1>1, <1>12
  <2>2. ASSUME NEW i \in Nat, i \in I PROVE i + 1 \in I
    <3>1. CASE i + 1 + 1 <= n
      <4> PICK k : k = i + 2
        OBVIOUS
      <4>1. k \in 2..n /\ k \in 1..n /\ i + 1 <= n /\ i + 1 + 1 = k /\ k - 1 = i + 1
        BY <1>1, <3>1
      <4>2. flat[k - 1] \in V
        BY <2>2, <4>1
      <4>3. flat[k] = flat[k - 1] \o seqs[k]
        BY ONLY <1>13, <4>1
      <4>4. seqs[k] \in V
        BY ONLY <1>1, <4>1, V = Seq(S)
      <4>5. \A s, t \in V : s \o t \in V
        OBVIOUS
      <4>6. flat[k] \in V
        BY ONLY <4>2, <4>3, <4>4, <4>5
      <4>7. QED
        BY <4>1, <4>6
    <3>2. QED
      BY <3>1
  <2> HIDE DEF I
  <2>3. Nat \subseteq I
    BY <2>1, <2>2, Induct
  <2>4. QED
    BY <2>3 DEF I
<1>15. ASSUME NEW i \in 1..n PROVE flat[i] \in V
  <2>1. i - 1 \in Nat /\ i - 1 + 1 = i /\ i <= n
    BY <1>1
  <2>2. QED
    BY <1>14, <2>1
<1>16. FlattenSeq(seqs) = flat[n]
  BY <1>1 DEF FlattenSeq, FlatUpTo
<1>17. QED
  BY <1>11, <1>12, <1>13, <1>15, <1>16

\* Of sequences of one element each, their elements.
LEMMA FlatSingles ==
  ASSUME NEW S, NEW t \in Seq(S), NEW seqs, DOMAIN seqs = DOMAIN t, seqs = [k \in DOMAIN t |-> <<t[k]>>]
  PROVE  FlattenSeq(seqs) = t
<1>1. PICK n : n = Len(t)
  OBVIOUS
<1>2. n \in Nat /\ DOMAIN t = 1..n /\ \A k \in 1..n : t[k] \in S
  BY <1>1
<1>3. \A k \in 1..n : seqs[k] = <<t[k]>> /\ seqs[k] \in Seq(S)
  BY <1>2
<1>4. seqs \in Seq(Seq(S)) /\ Len(seqs) = n
  BY <1>2, <1>3
<1>5. CASE n = 0
  <2>1. FlattenSeq(seqs) = seqs
    BY <1>4, <1>5 DEF FlattenSeq
  <2>2. QED
    BY <1>1, <1>4, <1>5, <2>1
<1>6. CASE n # 0
  <2> PICK flat : flat = FlatUpTo(seqs)
    OBVIOUS
  <2>1. /\ FlattenSeq(seqs) = flat[n] /\ flat[1] = seqs[1]
        /\ \A i \in 2..n : flat[i] = flat[i - 1] \o seqs[i]
    <3>1. seqs # <<>>
      BY <1>4, <1>6
    <3>2. Len(seqs) = n /\ flat = FlatUpTo(seqs)
      BY <1>4
    <3>3. QED
      BY ONLY <1>4, <3>1, <3>2, FlatSteps
  <2> DEFINE I == {i \in Nat : i + 1 <= n => flat[i + 1] = SubSeq(t, 1, i + 1)}
  <2>2. 0 \in I
    <3>1. 1 \in 1..n
      BY <1>2, <1>6
    <3>2. flat[1] = <<t[1]>>
      BY ONLY <1>3, <2>1, <3>1
    <3>3. SubSeq(t, 1, 1) = <<t[1]>>
      <4>1. Len(SubSeq(t, 1, 1)) = 1 /\ SubSeq(t, 1, 1)[1] = t[1] /\ SubSeq(t, 1, 1) \in Seq(S)
        BY <1>1, <3>1
      <4>2. PICK u : u = SubSeq(t, 1, 1)
        OBVIOUS
      <4>3. u \in Seq(S) /\ Len(u) = 1 /\ u[1] = t[1]
        BY ONLY <4>1, <4>2
      <4>4. PICK e : e = t[1]
        OBVIOUS
      <4>5. u = <<e>>
        BY ONLY <4>3, <4>4
      <4>6. QED
        BY ONLY <4>2, <4>4, <4>5
    <3>4. QED
      BY <3>2, <3>3
  <2>3. ASSUME NEW i \in Nat, i \in I PROVE i + 1 \in I
    <3>1. CASE i + 1 + 1 <= n
      <4> PICK k : k = i + 2
        OBVIOUS
      <4>1. k \in 2..n /\ k \in 1..n /\ i + 1 <= n /\ i + 1 + 1 = k /\ k - 1 = i + 1
        BY <1>2, <3>1
      <4>2. flat[k - 1] = SubSeq(t, 1, k - 1)
        BY <2>3, <4>1
      <4>3. flat[k] = flat[k - 1] \o seqs[k] /\ seqs[k] = <<t[k]>>
        BY ONLY <1>3, <2>1, <4>1
      <4>4. SubSeq(t, 1, k - 1) \o <<t[k]>> = SubSeq(t, 1, k)
        BY <1>1, <1>2, <4>1
      <4>5. flat[k] = SubSeq(t, 1, k)
        BY ONLY <4>2, <4>3, <4>4
      <4>6. QED
        BY <4>1, <4>5
    <3>2. QED
      BY <3>1
  <2> HIDE DEF I
  <2>4. Nat \subseteq I
    BY <2>2, <2>3, Induct
  <2>5. flat[n] = SubSeq(t, 1, n)
    <3>1. n - 1 \in I /\ n - 1 + 1 = n
      BY <1>2, <1>6, <2>4
    <3>2. QED
      BY <1>2, <3>1 DEF I
  <2>6. SubSeq(t, 1, n) = t
    BY <1>1, <1>2
  <2>7. QED
    BY <2>1, <2>5, <2>6
<1>7. QED
  BY <1>5, <1>6

-----------------------------------------------------------------------------
(* Lengths and what is aligned to them. *)

LEMMA RoundFacts ==
  ASSUME NEW x \in Nat, NEW a \in Lengths
  PROVE  /\ RoundUp(x, a) \in Nat
         /\ roundToMultipleOf(x, a) = RoundUp(x, a)
         /\ RoundUp(x, 1) = x /\ RoundUp(0, a) = 0
<1>1. CASE a = 1
  BY <1>1 DEF RoundUp, Padding, roundToMultipleOf
<1>2. CASE a = 2
  BY <1>2 DEF RoundUp, Padding, roundToMultipleOf
<1>3. CASE a = 4
  BY <1>3 DEF RoundUp, Padding, roundToMultipleOf
<1>4. CASE a = 8
  BY <1>4 DEF RoundUp, Padding, roundToMultipleOf
<1>5. QED
  BY <1>1, <1>2, <1>3, <1>4 DEF Lengths

\* The ends of n values that are so long and so aligned, one behind the other.
Climbs(f, n, lengths, aligns) ==
  /\ f \in [0..n -> Nat]
  /\ f[0] = 0
  /\ \A k \in 1..n : f[k] = RoundUp(f[k - 1], aligns[k]) + lengths[k]

LEMMA ClimbExists ==
  ASSUME NEW n \in Nat, NEW lengths \in [1..n -> Lengths], NEW aligns \in [1..n -> Lengths]
  PROVE  \E f : Climbs(f, n, lengths, aligns)
<1> DEFINE Deeper(k, x) == IF k \in 1..n THEN RoundUp(x, aligns[k]) + lengths[k] ELSE x
<1>1. PICK step : step = [p \in Nat \X Nat |-> Deeper(p[1], p[2])]
  OBVIOUS
<1>2. ASSUME NEW k \in Nat, NEW x \in Nat PROVE Deeper(k, x) \in Nat
  <2>1. CASE k \in 1..n
    <3>1. aligns[k] \in Lengths /\ lengths[k] \in Nat
      BY <2>1 DEF Lengths
    <3>2. RoundUp(x, aligns[k]) \in Nat
      BY <3>1, RoundFacts
    <3>3. QED
      BY <2>1, <3>1, <3>2
  <2>2. QED
    BY <2>1
<1> HIDE DEF Deeper
<1>3. step \in [Nat \X Nat -> Nat]
  BY <1>1, <1>2
<1>4. Leads(Nat, 0, step, n)
  <2>1. 0 \in Nat
    OBVIOUS
  <2>2. QED
    BY <1>3, <2>1, Recursion
<1>5. PICK f \in [0..n -> Nat] : f[0] = 0 /\ \A k \in 1..n : f[k] = step[<<k, f[k - 1]>>]
  BY <1>4 DEF Leads
<1>6. ASSUME NEW k \in 1..n PROVE f[k] = RoundUp(f[k - 1], aligns[k]) + lengths[k]
  <2>1. k \in Nat /\ f[k - 1] \in Nat
    OBVIOUS
  <2>2. step[<<k, f[k - 1]>>] = Deeper(k, f[k - 1])
    BY <1>1, <2>1
  <2>3. QED
    BY <1>5, <2>2 DEF Deeper
<1>7. QED
  BY <1>5, <1>6 DEF Climbs

LEMMA OneClimb ==
  ASSUME NEW n \in Nat, NEW lengths, NEW aligns, NEW f, NEW g,
         Climbs(f, n, lengths, aligns), Climbs(g, n, lengths, aligns)
  PROVE  f = g
<1> DEFINE I == {k \in Nat : k <= n => f[k] = g[k]}
<1>1. 0 \in I
  BY DEF Climbs
<1>2. ASSUME NEW k \in Nat, k \in I PROVE k + 1 \in I
  <2>1. CASE k + 1 <= n
    <3> PICK j : j = k + 1
      OBVIOUS
    <3>1. j \in 1..n /\ j - 1 = k /\ k <= n
      BY <2>1
    <3>2. f[j - 1] = g[j - 1]
      BY <1>2, <3>1
    <3>3. f[j] = g[j]
      BY <3>1, <3>2 DEF Climbs
    <3>4. QED
      BY <3>3
  <2>2. QED
    BY <2>1
<1> HIDE DEF I
<1>3. Nat \subseteq I
  BY <1>1, <1>2, Induct
<1>4. \A k \in 0..n : f[k] = g[k]
  BY <1>3 DEF I
<1>5. QED
  BY <1>4 DEF Climbs

LEMMA ClimbsWhen ==
  ASSUME NEW n \in Nat, NEW lengths \in [1..n -> Lengths], NEW aligns \in [1..n -> Lengths],
         NEW g, g = [k \in 0..n |-> g[k]], g[0] = 0,
         \A k \in 1..n : g[k - 1] \in Nat => g[k] = RoundUp(g[k - 1], aligns[k]) + lengths[k]
  PROVE  Climbs(g, n, lengths, aligns)
<1> DEFINE I == {k \in Nat : k <= n => g[k] \in Nat}
<1>1. 0 \in I
  OBVIOUS
<1>2. ASSUME NEW k \in Nat, k \in I PROVE k + 1 \in I
  <2>1. CASE k + 1 <= n
    <3> PICK j : j = k + 1
      OBVIOUS
    <3>1. j \in 1..n /\ j - 1 = k /\ k <= n
      BY <2>1
    <3>2. g[j - 1] \in Nat
      BY <1>2, <3>1
    <3>3. aligns[j] \in Lengths /\ lengths[j] \in Nat
      BY <3>1 DEF Lengths
    <3>4. g[j] = RoundUp(g[j - 1], aligns[j]) + lengths[j]
      BY <3>1, <3>2
    <3>5. RoundUp(g[j - 1], aligns[j]) \in Nat
      BY <3>2, <3>3, RoundFacts
    <3>6. QED
      BY <3>3, <3>4, <3>5
  <2>2. QED
    BY <2>1
<1> HIDE DEF I
<1>3. Nat \subseteq I
  BY <1>1, <1>2, Induct
<1>4. ASSUME NEW k \in 0..n PROVE g[k] \in Nat
  BY <1>3 DEF I
<1>5. g \in [0..n -> Nat]
  BY <1>4
<1>6. ASSUME NEW k \in 1..n PROVE g[k] = RoundUp(g[k - 1], aligns[k]) + lengths[k]
  <2>1. PICK j \in 0..n : j = k - 1
    OBVIOUS
  <2>2. g[j] \in Nat
    BY <1>4
  <2>3. QED
    BY <2>1, <2>2
<1>7. QED
  BY <1>5, <1>6 DEF Climbs

\* The functions of EndOf, Written and Packed.
EndUpTo(lengths, aligns) ==
  CHOOSE end : end = [k \in 0..Len(lengths) |->
    IF k = 0 THEN 0 ELSE RoundUp(end[k - 1], aligns[k]) + lengths[k]]
WrittenUpTo(pushes) ==
  CHOOSE at : at = [k \in 0..Len(pushes) |->
    IF k = 0 THEN 0 ELSE roundToMultipleOf(at[k - 1], pushes[k].round) + pushes[k].length]
PackedUpTo(lengths) ==
  CHOOSE at : at = [k \in 0..Len(lengths) |-> IF k = 0 THEN 0 ELSE at[k - 1] + lengths[k]]

LEMMA EndClimbs ==
  ASSUME NEW lengths \in Seq(Lengths), NEW aligns \in Seq(Lengths), Len(aligns) = Len(lengths)
  PROVE  /\ Climbs(EndUpTo(lengths, aligns), Len(lengths), lengths, aligns)
         /\ \A k : EndOf(lengths, aligns, k) = EndUpTo(lengths, aligns)[k]
<1> PICK n : n = Len(lengths)
  OBVIOUS
<1> PICK g : g = EndUpTo(lengths, aligns)
  OBVIOUS
<1>1. n \in Nat /\ lengths \in [1..n -> Lengths] /\ aligns \in [1..n -> Lengths]
  OBVIOUS
<1>2. PICK f : Climbs(f, n, lengths, aligns)
  BY <1>1, ClimbExists
<1>3. f = [k \in 0..n |-> IF k = 0 THEN 0 ELSE RoundUp(f[k - 1], aligns[k]) + lengths[k]]
  BY <1>1, <1>2 DEF Climbs
<1>4. g = [k \in 0..n |-> IF k = 0 THEN 0 ELSE RoundUp(g[k - 1], aligns[k]) + lengths[k]]
  BY <1>3, Zenon DEF EndUpTo
<1>5. g = [k \in 0..n |-> g[k]] /\ g[0] = 0
      /\ \A k \in 1..n : g[k] = RoundUp(g[k - 1], aligns[k]) + lengths[k]
  BY <1>1, <1>4
<1>6. Climbs(g, n, lengths, aligns)
  BY ONLY <1>1, <1>5, ClimbsWhen
<1>7. ASSUME NEW k PROVE EndOf(lengths, aligns, k) = g[k]
  BY DEF EndOf, EndUpTo
<1>8. QED
  BY <1>6, <1>7

LEMMA PackedClimbs ==
  ASSUME NEW lengths \in Seq(Lengths)
  PROVE  /\ Climbs(PackedUpTo(lengths), Len(lengths), lengths, [k \in DOMAIN lengths |-> 1])
         /\ Packed(lengths) = [k \in DOMAIN lengths |-> PackedUpTo(lengths)[k - 1]]
<1> PICK n : n = Len(lengths)
  OBVIOUS
<1> PICK g : g = PackedUpTo(lengths)
  OBVIOUS
<1> PICK aligns : aligns = [k \in DOMAIN lengths |-> 1]
  OBVIOUS
<1>1. n \in Nat /\ lengths \in [1..n -> Lengths] /\ aligns \in [1..n -> Lengths] /\ DOMAIN lengths = 1..n
      /\ \A k \in 1..n : aligns[k] = 1
  BY DEF Lengths
<1>2. \A x \in Nat : RoundUp(x, 1) = x
  BY RoundFacts DEF Lengths
<1>3. PICK f : Climbs(f, n, lengths, aligns)
  BY <1>1, ClimbExists
<1>4. f = [k \in 0..n |-> IF k = 0 THEN 0 ELSE f[k - 1] + lengths[k]]
  <2>1. ASSUME NEW k \in 1..n PROVE f[k] = f[k - 1] + lengths[k]
    <3>1. f[k - 1] \in Nat /\ f[k] = RoundUp(f[k - 1], 1) + lengths[k]
      BY <1>1, <1>3 DEF Climbs
    <3>2. QED
      BY <1>2, <3>1
  <2>2. QED
    BY <1>3, <2>1 DEF Climbs
<1>5. g = [k \in 0..n |-> IF k = 0 THEN 0 ELSE g[k - 1] + lengths[k]]
  BY <1>4, Zenon DEF PackedUpTo
<1>6. g = [k \in 0..n |-> g[k]] /\ g[0] = 0
      /\ \A k \in 1..n : g[k] = g[k - 1] + lengths[k]
  BY <1>1, <1>5
<1>7. \A k \in 1..n : g[k - 1] \in Nat => g[k] = RoundUp(g[k - 1], aligns[k]) + lengths[k]
  BY ONLY <1>1, <1>2, <1>6
<1>8. Climbs(g, n, lengths, aligns)
  BY ONLY <1>1, <1>6, <1>7, ClimbsWhen
<1>9. Packed(lengths) = [k \in DOMAIN lengths |-> g[k - 1]]
  BY DEF Packed, PackedUpTo
<1>10. QED
  BY <1>8, <1>9

\* A push of a leaf.
LeafPush == [length : Lengths, round : Lengths, isLeaf : {TRUE}]

LEMMA WrittenClimbs ==
  ASSUME NEW pushes \in Seq(LeafPush)
  PROVE  /\ Climbs(WrittenUpTo(pushes), Len(pushes),
                   [k \in DOMAIN pushes |-> pushes[k].length], [k \in DOMAIN pushes |-> pushes[k].round])
         /\ \A k : Written(pushes, k) = WrittenUpTo(pushes)[k]
<1> PICK n : n = Len(pushes)
  OBVIOUS
<1> PICK g : g = WrittenUpTo(pushes)
  OBVIOUS
<1> PICK lengths : lengths = [k \in DOMAIN pushes |-> pushes[k].length]
  OBVIOUS
<1> PICK aligns : aligns = [k \in DOMAIN pushes |-> pushes[k].round]
  OBVIOUS
<1>1. n \in Nat /\ DOMAIN pushes = 1..n /\ \A k \in 1..n : pushes[k] \in LeafPush
  OBVIOUS
<1>2. lengths \in [1..n -> Lengths] /\ aligns \in [1..n -> Lengths]
      /\ \A k \in 1..n : aligns[k] = pushes[k].round /\ lengths[k] = pushes[k].length
  BY <1>1 DEF LeafPush
<1>3. PICK f : Climbs(f, n, lengths, aligns)
  BY <1>1, <1>2, ClimbExists
<1>4. ASSUME NEW x \in Nat, NEW k \in 1..n
      PROVE  roundToMultipleOf(x, pushes[k].round) = RoundUp(x, aligns[k])
  BY <1>2, RoundFacts
<1>5. f = [k \in 0..n |-> IF k = 0 THEN 0 ELSE roundToMultipleOf(f[k - 1], pushes[k].round) + pushes[k].length]
  <2>1. ASSUME NEW k \in 1..n PROVE f[k] = roundToMultipleOf(f[k - 1], pushes[k].round) + pushes[k].length
    <3>1. f[k - 1] \in Nat /\ f[k] = RoundUp(f[k - 1], aligns[k]) + lengths[k]
      BY <1>1, <1>3 DEF Climbs
    <3>2. QED
      BY <1>2, <1>4, <3>1
  <2>2. QED
    BY <1>3, <2>1 DEF Climbs
<1>6. g = [k \in 0..n |-> IF k = 0 THEN 0 ELSE roundToMultipleOf(g[k - 1], pushes[k].round) + pushes[k].length]
  BY <1>5, Zenon DEF WrittenUpTo
<1>7. g = [k \in 0..n |-> g[k]] /\ g[0] = 0
      /\ \A k \in 1..n : g[k] = roundToMultipleOf(g[k - 1], pushes[k].round) + pushes[k].length
  BY <1>1, <1>6
<1>8. \A k \in 1..n : g[k - 1] \in Nat => g[k] = RoundUp(g[k - 1], aligns[k]) + lengths[k]
  BY ONLY <1>2, <1>4, <1>7
<1>9. Climbs(g, n, lengths, aligns)
  BY ONLY <1>1, <1>2, <1>7, <1>8, ClimbsWhen
<1>10. ASSUME NEW k PROVE Written(pushes, k) = g[k]
  BY DEF Written, WrittenUpTo
<1>11. QED
  BY <1>9, <1>10

-----------------------------------------------------------------------------
(* What inputType writes, if all it pushes are leaves. *)

LEMMA EnteredLeaves ==
  ASSUME NEW pushes \in Seq(LeafPush)
  PROVE  Entered(pushes) =
           [k \in DOMAIN pushes |->
              <<RoundUp(WrittenUpTo(pushes)[k - 1], pushes[k].round), pushes[k].length>>]
<1> PICK n : n = Len(pushes)
  OBVIOUS
<1> PICK g : g = WrittenUpTo(pushes)
  OBVIOUS
<1>1. n \in Nat /\ DOMAIN pushes = 1..n /\ \A k \in 1..n : pushes[k] \in LeafPush
  OBVIOUS
<1>2. \A k \in 0..n : g[k] \in Nat
  BY WrittenClimbs DEF Climbs
<1>3. PICK t : t = [k \in DOMAIN pushes |-> <<RoundUp(g[k - 1], pushes[k].round), pushes[k].length>>]
  OBVIOUS
<1>4. ASSUME NEW k \in 1..n
      PROVE  /\ roundToMultipleOf(Written(pushes, k - 1), pushes[k].round) = RoundUp(g[k - 1], pushes[k].round)
             /\ RoundUp(g[k - 1], pushes[k].round) \in Nat /\ pushes[k].length \in Nat /\ pushes[k].isLeaf
  <2>1. PICK j \in 0..n : j = k - 1
    BY <1>1
  <2>2. g[j] \in Nat /\ Written(pushes, j) = g[j]
    BY <1>2, WrittenClimbs
  <2>3. pushes[k].round \in Lengths /\ pushes[k].length \in Nat /\ pushes[k].isLeaf
    <3>1. PICK p \in LeafPush : p = pushes[k]
      BY <1>1
    <3>2. p.round \in Lengths /\ p.length \in Lengths /\ p.isLeaf
      BY DEF LeafPush
    <3>3. Lengths \subseteq Nat
      BY DEF Lengths
    <3>4. QED
      BY ONLY <3>1, <3>2, <3>3
  <2>4. PICK a \in Lengths : a = pushes[k].round
    BY <2>3
  <2>5. PICK x \in Nat : x = g[k - 1] /\ Written(pushes, k - 1) = x
    BY <2>1, <2>2
  <2>6. roundToMultipleOf(x, a) = RoundUp(x, a) /\ RoundUp(x, a) \in Nat
    BY RoundFacts
  <2>7. QED
    BY <2>3, <2>4, <2>5, <2>6
<1>5. t \in Seq(Nat \X Nat)
  BY <1>1, <1>3, <1>4
<1>6. DOMAIN t = DOMAIN pushes
  BY <1>3
<1>7. PICK seqs : seqs = [k \in DOMAIN pushes |->
        IF pushes[k].isLeaf
          THEN << <<roundToMultipleOf(Written(pushes, k - 1), pushes[k].round), pushes[k].length>> >>
          ELSE <<>>]
  OBVIOUS
<1>8. seqs = [k \in DOMAIN t |-> <<t[k]>>]
  <2>1. ASSUME NEW k \in 1..n
        PROVE (IF pushes[k].isLeaf
                 THEN << <<roundToMultipleOf(Written(pushes, k - 1), pushes[k].round), pushes[k].length>> >>
                 ELSE <<>>) = <<t[k]>>
    <3>1. t[k] = <<RoundUp(g[k - 1], pushes[k].round), pushes[k].length>>
      BY <1>1, <1>3
    <3>2. QED
      BY <1>4, <3>1
  <2>2. QED
    BY <1>1, <1>6, <1>7, <2>1
<1>9. FlattenSeq(seqs) = t
  <2>1. DOMAIN seqs = DOMAIN t
    BY <1>8
  <2>2. QED
    BY ONLY <1>5, <1>8, <2>1, FlatSingles
<1>10. QED
  BY <1>3, <1>7, <1>9 DEF Entered

\* The members of a parameter list of leaves.
LEMMA LeafBytes ==
  ASSUME NEW T \in Types, IsLeaf(T)
  PROVE  BytesOf(T) = LeafLength(T)
<1>1. AbiSize(T) = LeafLength(T)
  BY LeafFacts
<1> DEFINE bits == getTypeBitWidth(T)
<1>2. CASE T = Scalar("bool")
  <2>1. bits = 1 /\ LeafLength(T) = 1
    BY <1>2 DEF getTypeBitWidth, LeafLength, Scalar, typeByteLengths
  <2>2. Max({8, 1}) = 8
    BY DEF Max
  <2>3. QED
    BY <2>1, <2>2 DEF BytesOf
<1>3. CASE T # Scalar("bool")
  <2>1. bits = 8 * LeafLength(T)
    BY <1>1, <1>3 DEF getTypeBitWidth, IsLeaf, Enum
  <2>2. LeafLength(T) \in Lengths
    BY LeafLengths
  <2>3. \A L \in Lengths : Max({8, 8 * L}) = 8 * L /\ (8 * L) \div 8 = L
    BY DEF Max, Lengths
  <2>4. QED
    BY <2>1, <2>2, <2>3 DEF BytesOf
<1>4. QED
  BY <1>2, <1>3

LEMMA ParametersOfLeaves ==
  ASSUME NEW types \in Seq(Types), AllLeaves(types)
  PROVE  /\ PrintedParams(types) = LoggedAt(types)
         /\ EnteredParams(types) = WrapperReads(types)
<1> PICK L : L = LengthsOf(types)
  OBVIOUS
<1> PICK n : n = Len(types)
  OBVIOUS
<1>1. ASSUME NEW k \in DOMAIN types PROVE types[k] \in Types /\ IsLeaf(types[k])
  BY DEF AllLeaves, Range
<1>2. L \in Seq(Lengths) /\ Len(L) = n /\ n \in Nat /\ DOMAIN L = 1..n /\ DOMAIN types = 1..n
  <2>1. \A k \in DOMAIN types : LeafLength(types[k]) \in Lengths
    BY <1>1, LeafLengths
  <2>2. QED
    BY <2>1 DEF LengthsOf
<1>3. [k \in DOMAIN types |-> getTypeByteLength(types[k])] = L
  BY Levels, LeavesSame
<1>4. [k \in DOMAIN types |-> BytesOf(types[k])] = L
  BY <1>1, LeafBytes DEF LengthsOf
<1>5. PrintedParams(types) = Packed(L) /\ LoggedAt(types) = Packed(L) /\ WrapperReads(types) = Packed(L)
  BY <1>3, <1>4 DEF PrintedParams, LoggedAt, WrapperReads
<1>6. PICK pushes : pushes = [k \in 1..n |-> [length |-> L[k], round |-> 1, isLeaf |-> TRUE]]
  OBVIOUS
<1>7. pushes \in Seq(LeafPush) /\ Len(pushes) = n /\ DOMAIN pushes = 1..n
  <2>1. \A k \in 1..n : L[k] \in Lengths /\ 1 \in Lengths
    BY <1>2 DEF Lengths
  <2>2. \A k \in 1..n : pushes[k] \in LeafPush
    BY <1>6, <2>1 DEF LeafPush
  <2>3. QED
    BY <1>2, <1>6, <2>2
<1>8. PICK seqs : seqs = [k \in DOMAIN types |-> Pushed(types[k], 1)]
  OBVIOUS
<1>9. seqs = [k \in DOMAIN pushes |-> <<pushes[k]>>]
  <2>1. ASSUME NEW k \in 1..n PROVE Pushed(types[k], 1) = <<pushes[k]>>
    <3>1. PICK T : T = types[k]
      OBVIOUS
    <3>2. T \in Types /\ IsLeaf(T) /\ L[k] = LeafLength(T)
      BY <1>1, <1>2, <3>1 DEF LengthsOf
    <3>3. Pushed(T, 1) = PushesUpTo(1)[MaxNesting][T][FALSE]
      BY Founds
    <3>4. PushesUpTo(1)[MaxNesting][T][FALSE] = <<Push(LeafLength(T), FALSE /\ T.kind # "ptr", TRUE)>>
      BY ONLY <3>2, Levels, LeafPushes
    <3>5. pushes[k] = [length |-> LeafLength(T), round |-> 1, isLeaf |-> TRUE]
      BY <1>6, <3>2
    <3>6. Push(LeafLength(T), FALSE /\ T.kind # "ptr", TRUE) = pushes[k]
      BY <3>5 DEF Push
    <3>7. QED
      BY <3>1, <3>3, <3>4, <3>6
  <2>2. QED
    BY <1>2, <1>7, <1>8, <2>1
<1>10. FlattenSeq(seqs) = pushes
  <2>1. DOMAIN seqs = DOMAIN pushes
    BY <1>9
  <2>2. QED
    BY ONLY <1>7, <1>9, <2>1, FlatSingles
<1>11. PICK g : g = WrittenUpTo(pushes)
  OBVIOUS
<1>12. EnteredParams(types) = [k \in 1..n |-> RoundUp(g[k - 1], 1)]
  <2>1. PICK leaves : leaves = Entered(FlattenSeq([k \in DOMAIN types |-> Pushed(types[k], 1)]))
    OBVIOUS
  <2>2. leaves = [k \in 1..n |-> <<RoundUp(g[k - 1], pushes[k].round), pushes[k].length>>]
    BY <1>7, <1>8, <1>10, <1>11, <2>1, EnteredLeaves
  <2>3. EnteredParams(types) = [k \in DOMAIN leaves |-> leaves[k][1]]
    BY <2>1 DEF EnteredParams
  <2>4. \A k \in 1..n : pushes[k].round = 1
    BY <1>6
  <2>5. QED
    BY <2>2, <2>3, <2>4
<1>13. PICK f : f = PackedUpTo(L)
  OBVIOUS
<1>14. f = g
  <2>1. Climbs(f, n, L, [k \in DOMAIN L |-> 1])
    BY <1>2, <1>13, PackedClimbs
  <2>2. Climbs(g, n, [k \in DOMAIN pushes |-> pushes[k].length], [k \in DOMAIN pushes |-> pushes[k].round])
    BY <1>7, <1>11, WrittenClimbs
  <2>3. [k \in DOMAIN pushes |-> pushes[k].length] = L
    BY <1>2, <1>6, <1>7
  <2>4. [k \in DOMAIN pushes |-> pushes[k].round] = [k \in DOMAIN L |-> 1]
    BY <1>2, <1>6, <1>7
  <2>5. QED
    BY <1>2, <2>1, <2>2, <2>3, <2>4, OneClimb
<1>15. ASSUME NEW k \in 1..n PROVE RoundUp(g[k - 1], 1) = g[k - 1]
  <2>1. PICK j \in 0..n : j = k - 1
    BY <1>2
  <2>2. g[j] \in Nat
    BY <1>7, <1>11, WrittenClimbs DEF Climbs
  <2>3. QED
    BY <2>1, <2>2, RoundFacts DEF Lengths
<1>16. Packed(L) = [k \in 1..n |-> f[k - 1]]
  BY <1>2, <1>13, PackedClimbs
<1>17. EnteredParams(types) = Packed(L)
  BY <1>12, <1>14, <1>15, <1>16
<1>18. QED
  BY <1>5, <1>17

\* For any parameters that are scalars, pointers or int enums: the Logger pass and
\* logFunctionParameters, and inputType and the wrapper, mean the same offsets.
THEOREM OffsetsAgree == LayoutSpec => []ParametersAgree
<1>1. LayoutInv => ParametersAgree
  <2> SUFFICES ASSUME LayoutInv, NEW types \in Range(structs), \A T \in Range(types) : IsLeaf(T)
               PROVE  /\ PrintedParams(types) = LoggedAt(types)
                      /\ EnteredParams(types) = WrapperReads(types)
    BY DEF ParametersAgree
  <2>1. types \in Seq(Types)
    BY DEF LayoutInv, Range
  <2>2. QED
    BY <2>1, ParametersOfLeaves DEF AllLeaves
<1>2. QED
  BY <1>1, LayoutInvariance, PTL

-----------------------------------------------------------------------------
(* Values entered one behind the other.                                    *)

LEMMA ConcatFacts ==
  ASSUME NEW S, NEW s \in Seq(S), NEW t \in Seq(S)
  PROVE  /\ s \o t \in Seq(S) /\ Len(s \o t) = Len(s) + Len(t)
         /\ \A j \in 1..Len(s) : (s \o t)[j] = s[j]
         /\ \A k \in 1..Len(t) : (s \o t)[Len(s) + k] = t[k]
<1>1. s \o t \in Seq(S) /\ Len(s \o t) = Len(s) + Len(t)
  OBVIOUS
<1>2. ASSUME NEW j \in 1..Len(s) PROVE (s \o t)[j] = s[j]
  OBVIOUS
<1>3. ASSUME NEW k \in 1..Len(t) PROVE (s \o t)[Len(s) + k] = t[k]
  OBVIOUS
<1>4. QED
  BY <1>1, <1>2, <1>3

LEMMA MultipleFacts ==
  ASSUME NEW a \in Lengths, NEW b \in Nat, b % a = 0, NEW x \in Nat
  PROVE  /\ RoundUp(b + x, a) = b + RoundUp(x, a)
         /\ (b + RoundUp(x, a)) % a = 0
         /\ \A c \in Lengths : c <= a => b % c = 0
<1>1. CASE a = 1
  BY <1>1 DEF RoundUp, Padding, Lengths
<1>2. CASE a = 2
  BY <1>2 DEF RoundUp, Padding, Lengths
<1>3. CASE a = 4
  BY <1>3 DEF RoundUp, Padding, Lengths
<1>4. CASE a = 8
  BY <1>4 DEF RoundUp, Padding, Lengths
<1>5. QED
  BY <1>1, <1>2, <1>3, <1>4 DEF Lengths

\* What is pushed for fields that are so long, each rounded to its length.
PushesOf(L) == [k \in DOMAIN L |-> [length |-> L[k], round |-> L[k], isLeaf |-> TRUE]]
LeavesOf(L) == [k \in DOMAIN L |-> <<RoundUp(EndUpTo(L, L)[k - 1], L[k]), L[k]>>]

LEMMA PushesOfFacts ==
  ASSUME NEW L \in Seq(Lengths)
  PROVE  PushesOf(L) \in Seq(LeafPush) /\ Len(PushesOf(L)) = Len(L)
<1> PICK P : P = PushesOf(L)
  OBVIOUS
<1>1. Len(L) \in Nat /\ DOMAIN L = 1..Len(L) /\ \A k \in 1..Len(L) : L[k] \in Lengths
  OBVIOUS
<1>2. P = [k \in 1..Len(L) |-> [length |-> L[k], round |-> L[k], isLeaf |-> TRUE]]
  BY <1>1 DEF PushesOf
<1>3. ASSUME NEW k \in 1..Len(L) PROVE [length |-> L[k], round |-> L[k], isLeaf |-> TRUE] \in LeafPush
  BY <1>1 DEF LeafPush
<1>4. QED
  BY <1>1, <1>2, <1>3

LEMMA LeavesOfFacts ==
  ASSUME NEW L \in Seq(Lengths), NEW b \in Nat
  PROVE  /\ LeavesOf(L) \in Seq(Nat \X Nat) /\ Len(LeavesOf(L)) = Len(L)
         /\ Moved(LeavesOf(L), b) \in Seq(Nat \X Nat) /\ Len(Moved(LeavesOf(L), b)) = Len(L)
         /\ \A k \in 1..Len(L) :
              Moved(LeavesOf(L), b)[k] = <<RoundUp(EndUpTo(L, L)[k - 1], L[k]) + b, L[k]>>
<1> PICK E : E = EndUpTo(L, L)
  OBVIOUS
<1> PICK m : m = Len(L)
  OBVIOUS
<1>1. m \in Nat /\ DOMAIN L = 1..m /\ E \in [0..m -> Nat]
  BY EndClimbs DEF Climbs
<1>2. ASSUME NEW k \in 1..m PROVE RoundUp(E[k - 1], L[k]) \in Nat /\ L[k] \in Nat
  <2>1. E[k - 1] \in Nat /\ L[k] \in Lengths /\ L[k] \in Nat
    BY <1>1 DEF Lengths
  <2>2. QED
    BY <2>1, RoundFacts
<1> PICK l : l = LeavesOf(L)
  OBVIOUS
<1>3. l = [k \in 1..m |-> <<RoundUp(E[k - 1], L[k]), L[k]>>]
  BY <1>1 DEF LeavesOf
<1>4. l \in Seq(Nat \X Nat) /\ Len(l) = m
  BY <1>1, <1>2, <1>3
<1>5. Moved(l, b) = [k \in 1..m |-> <<RoundUp(E[k - 1], L[k]) + b, L[k]>>]
  BY <1>3 DEF Moved
<1>6. Moved(l, b) \in Seq(Nat \X Nat) /\ Len(Moved(l, b)) = m
  BY <1>1, <1>2, <1>5
<1>7. QED
  BY <1>4, <1>5, <1>6

\* One more value is pushed where the first of its fields, which is aligned most,
\* is rounded to b: then it lies at b as the compiler would have put it there.
LEMMA OneMore ==
  ASSUME NEW L \in Seq(Lengths), L # <<>>, \A k \in DOMAIN L : L[k] <= L[1],
         NEW p \in Seq(LeafPush), NEW b \in Nat, b % L[1] = 0,
         RoundUp(WrittenUpTo(p)[Len(p)], L[1]) = b
  PROVE  /\ p \o PushesOf(L) \in Seq(LeafPush)
         /\ WrittenUpTo(p \o PushesOf(L))[Len(p \o PushesOf(L))] = b + EndUpTo(L, L)[Len(L)]
         /\ Entered(p) \in Seq(Nat \X Nat)
         /\ Entered(p \o PushesOf(L)) = Entered(p) \o Moved(LeavesOf(L), b)
<1> PICK m : m = Len(L)
  OBVIOUS
<1> PICK n : n = Len(p)
  OBVIOUS
<1> PICK P : P = PushesOf(L)
  OBVIOUS
<1> PICK q : q = p \o P
  OBVIOUS
<1> PICK E : E = EndUpTo(L, L)
  OBVIOUS
<1> PICK W : W = WrittenUpTo(p)
  OBVIOUS
<1> PICK X : X = WrittenUpTo(q)
  OBVIOUS
<1>1. /\ m \in Nat /\ m # 0 /\ n \in Nat /\ DOMAIN L = 1..m /\ DOMAIN p = 1..n
      /\ \A k \in 1..m : L[k] \in Lengths
  OBVIOUS
<1>2. P \in Seq(LeafPush) /\ Len(P) = m /\ \A k \in 1..m : P[k].length = L[k] /\ P[k].round = L[k]
  BY <1>1, PushesOfFacts DEF PushesOf
<1>3. /\ q \in Seq(LeafPush) /\ Len(q) = n + m /\ DOMAIN q = 1..n + m
      /\ \A j \in 1..n : q[j] = p[j]
      /\ \A k \in 1..m : q[n + k] = P[k]
  <2>1. /\ p \o P \in Seq(LeafPush) /\ Len(p \o P) = Len(p) + Len(P)
        /\ \A j \in 1..Len(p) : (p \o P)[j] = p[j]
        /\ \A k \in 1..Len(P) : (p \o P)[Len(p) + k] = P[k]
    <3>1. P \in Seq(LeafPush)
      BY <1>2
    <3>2. p \in Seq(LeafPush)
      OBVIOUS
    <3>3. QED
      BY ONLY <3>1, <3>2, ConcatFacts
  <2>2. Len(P) = m /\ Len(p) = n
    BY <1>2
  <2>3. /\ q \in Seq(LeafPush) /\ Len(q) = n + m
        /\ \A j \in 1..n : q[j] = p[j]
        /\ \A k \in 1..m : q[n + k] = P[k]
    BY ONLY <2>1, <2>2, q = p \o P
  <2>4. DOMAIN q = 1..n + m
    BY ONLY <2>3
  <2>5. QED
    BY <2>3, <2>4
<1>4. Climbs(E, m, L, L)
  BY <1>1, EndClimbs
<1>5. Climbs(W, n, [j \in DOMAIN p |-> p[j].length], [j \in DOMAIN p |-> p[j].round])
  BY WrittenClimbs
<1>6. /\ X \in [0..n + m -> Nat] /\ X[0] = 0
      /\ \A j \in 1..n + m : X[j] = RoundUp(X[j - 1], q[j].round) + q[j].length
  BY <1>3, WrittenClimbs DEF Climbs
<1>7. \A j \in 0..n : X[j] = W[j]
  <2>1. PICK V : V = [j \in 0..n |-> X[j]]
    OBVIOUS
  <2>2. V \in [0..n -> Nat] /\ V[0] = 0
    BY <1>1, <1>6, <2>1
  <2>3. ASSUME NEW j \in 1..n PROVE V[j] = RoundUp(V[j - 1], p[j].round) + p[j].length
    <3>1. j \in 1..n + m /\ j \in 0..n /\ j - 1 \in 0..n
      BY <1>1
    <3>2. X[j] = RoundUp(X[j - 1], q[j].round) + q[j].length
      BY <1>6, <3>1
    <3>3. V[j] = X[j] /\ V[j - 1] = X[j - 1] /\ q[j] = p[j]
      BY <1>3, <2>1, <3>1
    <3>4. QED
      BY <3>2, <3>3
  <2>4. Climbs(V, n, [j \in DOMAIN p |-> p[j].length], [j \in DOMAIN p |-> p[j].round])
    BY <1>1, <2>2, <2>3 DEF Climbs
  <2>5. V = W
    BY ONLY <1>1, <1>5, <2>4, OneClimb
  <2>6. QED
    BY <2>1, <2>5
<1>8. ASSUME NEW k \in 1..m PROVE b % L[k] = 0 /\ L[k] \in Nat
  <2>1. L[1] \in Lengths /\ L[k] \in Lengths /\ L[k] <= L[1]
    BY <1>1
  <2>2. PICK x \in Nat : x = 0
    OBVIOUS
  <2>3. b % L[k] = 0
    BY <2>1, <2>2, MultipleFacts
  <2>4. QED
    BY <2>1, <2>3 DEF Lengths
<1>9. E \in [0..m -> Nat] /\ E[0] = 0 /\ \A k \in 1..m : E[k] = RoundUp(E[k - 1], L[k]) + L[k]
  BY <1>4 DEF Climbs
<1>10. ASSUME NEW k \in 1..m
       PROVE  X[n + k] = RoundUp(X[n + k - 1], L[k]) + L[k]
  <2> PICK j : j = n + k
    OBVIOUS
  <2>1. j \in 1..n + m
    BY <1>1
  <2>2. q[j].round = L[k] /\ q[j].length = L[k]
    BY <1>2, <1>3
  <2>3. X[j] = RoundUp(X[j - 1], q[j].round) + q[j].length
    BY ONLY <1>6, <2>1
  <2>4. QED
    BY <2>2, <2>3
<1>11. RoundUp(X[n], L[1]) = b
  BY <1>1, <1>7
<1>12. \A k \in 1..m : X[n + k] = b + E[k]
  <2> DEFINE I == {k \in Nat : k + 1 <= m => X[n + (k + 1)] = b + E[k + 1]}
  <2>1. 0 \in I
    <3>1. 1 \in 1..m /\ n + 1 - 1 = n /\ 1 - 1 = 0
      BY <1>1
    <3>2. X[n + 1] = RoundUp(X[n + 1 - 1], L[1]) + L[1]
      BY <1>10, <3>1
    <3>3. E[1] = RoundUp(E[1 - 1], L[1]) + L[1] /\ RoundUp(0, L[1]) = 0
      BY <1>1, <1>9, <3>1, RoundFacts
    <3>4. QED
      BY <1>8, <1>9, <1>11, <3>1, <3>2, <3>3
  <2>2. ASSUME NEW k \in Nat, k \in I PROVE k + 1 \in I
    <3>1. CASE k + 1 + 1 <= m
      <4> PICK i : i = k + 2
        OBVIOUS
      <4>1. i \in 1..m /\ i - 1 = k + 1 /\ k + 1 <= m /\ k + 1 + 1 = i /\ i - 1 \in 0..m
            /\ n + i - 1 = n + (k + 1)
        BY <1>1, <3>1
      <4>2. X[n + i - 1] = b + E[i - 1]
        BY <2>2, <4>1
      <4>3. X[n + i] = RoundUp(X[n + i - 1], L[i]) + L[i]
        BY <1>10, <4>1
      <4>4. RoundUp(b + E[i - 1], L[i]) = b + RoundUp(E[i - 1], L[i])
        <5>1. E[i - 1] \in Nat /\ L[i] \in Lengths /\ b % L[i] = 0
          BY <1>1, <1>8, <1>9, <4>1
        <5>2. QED
          BY <5>1, MultipleFacts
      <4>5. E[i] = RoundUp(E[i - 1], L[i]) + L[i] /\ RoundUp(E[i - 1], L[i]) \in Nat /\ L[i] \in Nat
        <5>1. E[i - 1] \in Nat /\ L[i] \in Lengths
          BY <1>1, <1>9, <4>1
        <5>2. QED
          BY <1>8, <1>9, <4>1, <5>1, RoundFacts
      <4>6. X[n + i] = b + E[i]
        BY <4>2, <4>3, <4>4, <4>5
      <4>7. QED
        BY <4>1, <4>6
    <3>2. QED
      BY <3>1
  <2> HIDE DEF I
  <2>3. Nat \subseteq I
    BY <2>1, <2>2, Induct
  <2>4. ASSUME NEW k \in 1..m PROVE X[n + k] = b + E[k]
    <3>1. k - 1 \in Nat /\ k - 1 + 1 = k /\ k - 1 + 1 <= m
      BY <1>1
    <3>2. k - 1 \in I
      BY <2>3, <3>1
    <3>3. QED
      BY <3>1, <3>2 DEF I
  <2>5. QED
    BY <2>4
<1>13. ASSUME NEW k \in 1..m
       PROVE  RoundUp(X[n + k - 1], L[k]) = RoundUp(E[k - 1], L[k]) + b
  <2>1. CASE k = 1
    <3>1. n + k - 1 = n /\ k - 1 = 0
      BY <1>1, <2>1
    <3>2. E[k - 1] = 0 /\ RoundUp(0, L[1]) = 0
      BY <1>1, <1>9, <2>1, <3>1, RoundFacts
    <3>3. QED
      BY <1>11, <2>1, <3>1, <3>2
  <2>2. CASE k # 1
    <3> PICK i : i = k - 1
      OBVIOUS
    <3>1. i \in 1..m /\ i \in 0..m /\ n + k - 1 = n + i
      BY <1>1, <2>2
    <3>2. X[n + i] = b + E[i] /\ E[i] \in Nat
      BY <1>9, <1>12, <3>1
    <3>3. RoundUp(b + E[i], L[k]) = b + RoundUp(E[i], L[k]) /\ RoundUp(E[i], L[k]) \in Nat
      BY <1>1, <1>8, <3>2, MultipleFacts, RoundFacts
    <3>4. QED
      BY <3>1, <3>2, <3>3
  <2>3. QED
    BY <2>1, <2>2
<1>14. X[n + m] = b + E[m]
  BY <1>1, <1>12
<1> PICK M : M = Moved(LeavesOf(L), b)
  OBVIOUS
<1>15. /\ M \in Seq(Nat \X Nat) /\ Len(M) = m
       /\ \A k \in 1..m : M[k] = <<RoundUp(E[k - 1], L[k]) + b, L[k]>>
  BY LeavesOfFacts
<1> PICK F : F = Entered(p)
  OBVIOUS
<1> PICK G : G = Entered(q)
  OBVIOUS
<1>16. F = [j \in 1..n |-> <<RoundUp(W[j - 1], p[j].round), p[j].length>>]
  BY <1>1, EnteredLeaves
<1>17. G = [j \in 1..n + m |-> <<RoundUp(X[j - 1], q[j].round), q[j].length>>]
  BY <1>3, EnteredLeaves
<1>18. F \in Seq(Nat \X Nat) /\ Len(F) = n
  <2>1. ASSUME NEW j \in 1..n PROVE RoundUp(W[j - 1], p[j].round) \in Nat /\ p[j].length \in Nat
    <3>1. PICK x \in Nat : x = W[j - 1]
      <4>1. W \in [0..n -> Nat] /\ j - 1 \in 0..n
        BY <1>1, <1>5 DEF Climbs
      <4>2. QED
        BY ONLY <4>1
    <3>2. PICK e \in LeafPush : e = p[j]
      BY <1>1
    <3>3. e.round \in Lengths /\ e.length \in Lengths /\ Lengths \subseteq Nat
      BY DEF LeafPush, Lengths
    <3>4. RoundUp(x, e.round) \in Nat
      BY <3>3, RoundFacts
    <3>5. QED
      BY <3>1, <3>2, <3>3, <3>4
  <2>2. QED
    BY <1>1, <1>16, <2>1
<1>19. ASSUME NEW j \in 1..n PROVE G[j] = F[j]
  <2>1. j \in 1..n + m /\ j - 1 \in 0..n
    BY <1>1
  <2>2. X[j - 1] = W[j - 1] /\ q[j] = p[j]
    BY <1>3, <1>7, <2>1
  <2>3. QED
    BY <1>16, <1>17, <2>1, <2>2
<1>20. ASSUME NEW k \in 1..m PROVE G[n + k] = M[k]
  <2> PICK j : j = n + k
    OBVIOUS
  <2>1. j \in 1..n + m /\ j - 1 = n + k - 1
    BY <1>1
  <2>2. q[j].round = L[k] /\ q[j].length = L[k]
    BY <1>2, <1>3
  <2>3. G[j] = <<RoundUp(X[j - 1], L[k]), L[k]>>
    BY <1>17, <2>1, <2>2
  <2>4. QED
    BY <1>13, <1>15, <2>1, <2>3
<1>21. G = F \o M
  <2> PICK H : H = F \o M
    OBVIOUS
  <2>1. /\ H \in Seq(Nat \X Nat) /\ Len(H) = n + m /\ DOMAIN H = 1..n + m
        /\ \A j \in 1..n : H[j] = F[j]
        /\ \A k \in 1..m : H[n + k] = M[k]
    <3>1. /\ F \o M \in Seq(Nat \X Nat) /\ Len(F \o M) = Len(F) + Len(M)
          /\ \A j \in 1..Len(F) : (F \o M)[j] = F[j]
          /\ \A k \in 1..Len(M) : (F \o M)[Len(F) + k] = M[k]
      <4>1. F \in Seq(Nat \X Nat) /\ M \in Seq(Nat \X Nat)
        BY <1>15, <1>18
      <4>2. QED
        BY ONLY <4>1, ConcatFacts
    <3>2. Len(F) = n /\ Len(M) = m
      BY <1>15, <1>18
    <3>3. /\ H \in Seq(Nat \X Nat) /\ Len(H) = n + m
          /\ \A j \in 1..n : H[j] = F[j]
          /\ \A k \in 1..m : H[n + k] = M[k]
      BY ONLY <3>1, <3>2, H = F \o M
    <3>4. DOMAIN H = 1..n + m
      BY ONLY <3>3
    <3>5. QED
      BY <3>3, <3>4
  <2>2. H = [j \in 1..n + m |-> H[j]]
    <3>1. PICK V : V = Nat \X Nat
      OBVIOUS
    <3>2. PICK N \in Nat : N = n + m
      BY <1>1
    <3>3. H \in Seq(V) /\ Len(H) = N
      BY <2>1, <3>1, <3>2
    <3>4. H \in [1..N -> V]
      BY ONLY <3>3, <3>2
    <3>5. H = [j \in 1..N |-> H[j]]
      BY ONLY <3>4
    <3>6. QED
      BY <3>2, <3>5
  <2>3. ASSUME NEW j \in 1..n + m PROVE H[j] = G[j]
    <3>1. CASE j \in 1..n
      BY <1>19, <2>1, <3>1
    <3>2. CASE j \notin 1..n
      <4> PICK k : k = j - n
        OBVIOUS
      <4>1. k \in 1..m /\ j = n + k
        BY <1>1, <3>2
      <4>2. H[n + k] = M[k] /\ G[n + k] = M[k]
        BY <1>20, <2>1, <4>1
      <4>3. QED
        BY <4>1, <4>2
    <3>3. QED
      BY <3>1, <3>2
  <2>4. QED
    BY <1>17, <2>2, <2>3
<1>22. QED
  BY <1>3, <1>14, <1>18, <1>21


\* With nothing before it.
LEMMA FirstOne ==
  ASSUME NEW L \in Seq(Lengths), L # <<>>, \A k \in DOMAIN L : L[k] <= L[1]
  PROVE  /\ PushesOf(L) \in Seq(LeafPush)
         /\ WrittenUpTo(PushesOf(L))[Len(PushesOf(L))] = EndUpTo(L, L)[Len(L)]
         /\ Entered(PushesOf(L)) = Moved(LeavesOf(L), 0)
<1> PICK p : p = <<>>
  OBVIOUS
<1> PICK P : P = PushesOf(L)
  OBVIOUS
<1> PICK M : M = Moved(LeavesOf(L), 0)
  OBVIOUS
<1>1. p \in Seq(LeafPush) /\ Len(p) = 0 /\ DOMAIN p = 1..0
  OBVIOUS
<1>2. L[1] \in Lengths
  OBVIOUS
<1>3. RoundUp(WrittenUpTo(p)[Len(p)], L[1]) = 0 /\ 0 % L[1] = 0
  <2>1. WrittenUpTo(p)[0] = 0
    BY <1>1, WrittenClimbs DEF Climbs
  <2>2. \A a \in Lengths : 0 % a = 0
    BY DEF Lengths
  <2>3. QED
    BY <1>1, <1>2, <2>1, <2>2, RoundFacts
<1>4. P \in Seq(LeafPush)
  BY PushesOfFacts
<1>5. p \o P = P
  BY <1>4
<1>6. Entered(p) = <<>>
  <2>1. Entered(p) = [j \in DOMAIN p |-> <<RoundUp(WrittenUpTo(p)[j - 1], p[j].round), p[j].length>>]
    BY ONLY <1>1, EnteredLeaves
  <2>2. QED
    BY <1>1, <2>1
<1>7. M \in Seq(Nat \X Nat)
  BY LeavesOfFacts
<1>8. /\ WrittenUpTo(p \o P)[Len(p \o P)] = 0 + EndUpTo(L, L)[Len(L)]
      /\ Entered(p \o P) = Entered(p) \o M
  <2>1. 0 \in Nat
    OBVIOUS
  <2>2. QED
    BY <1>1, <1>3, <2>1, OneMore
<1>9. EndUpTo(L, L)[Len(L)] \in Nat
  BY EndClimbs DEF Climbs
<1>10. <<>> \o M = M
  BY ONLY <1>7
<1>11. QED
  BY <1>4, <1>5, <1>6, <1>8, <1>9, <1>10

\* As many values as you like: each starts where the one before it, padded to its
\* alignment, ends.
LEMMA Several ==
  ASSUME NEW L \in Seq(Lengths), L # <<>>, \A k \in DOMAIN L : L[k] <= L[1],
         NEW n \in Nat, NEW size, size = RoundUp(EndUpTo(L, L)[Len(L)], L[1])
  PROVE  Entered(FlattenSeq([i \in 1..n |-> PushesOf(L)]))
           = FlattenSeq([i \in 1..n |-> Moved(LeavesOf(L), (i - 1) * size)])
<1> PICK P : P = PushesOf(L)
  OBVIOUS
<1> PICK e : e = EndUpTo(L, L)[Len(L)]
  OBVIOUS
<1> PICK ps : ps = [i \in 1..n |-> P]
  OBVIOUS
<1> PICK ms : ms = [i \in 1..n |-> Moved(LeavesOf(L), (i - 1) * size)]
  OBVIOUS
<1> PICK a \in Lengths : a = L[1]
  OBVIOUS
<1>1. e \in Nat /\ size \in Nat /\ size = RoundUp(e, a)
  <2>1. e \in Nat
    <3>1. Climbs(EndUpTo(L, L), Len(L), L, L)
      BY EndClimbs
    <3>2. EndUpTo(L, L) \in [0..Len(L) -> Nat] /\ Len(L) \in 0..Len(L)
      BY ONLY <3>1, L \in Seq(Lengths) DEF Climbs
    <3>3. QED
      BY ONLY <3>2, e = EndUpTo(L, L)[Len(L)]
  <2>2. QED
    BY <2>1, RoundFacts
<1>2. P \in Seq(LeafPush)
  BY PushesOfFacts
<1>3. ASSUME NEW i \in 1..n PROVE (i - 1) * size \in Nat /\ ms[i] \in Seq(Nat \X Nat)
  <2>1. (i - 1) * size \in Nat
    <3>1. PICK x \in Nat : x = i - 1
      OBVIOUS
    <3>2. x * size \in Nat
      BY ONLY <3>1, <1>1
    <3>3. QED
      BY <3>1, <3>2
  <2>2. QED
    BY <2>1, LeavesOfFacts
<1>4. ps \in Seq(Seq(LeafPush)) /\ Len(ps) = n /\ \A i \in 1..n : ps[i] = P
  BY <1>2
<1>5. ms \in Seq(Seq(Nat \X Nat)) /\ Len(ms) = n
  BY <1>3
<1>6. CASE n = 0
  <2>1. FlattenSeq(ps) = ps /\ FlattenSeq(ms) = ms
    BY <1>4, <1>5, <1>6 DEF FlattenSeq
  <2>2. ps = <<>> /\ ms = <<>>
    BY <1>4, <1>5, <1>6
  <2>3. Entered(<<>>) = <<>>
    <3>1. PICK p : p = <<>>
      OBVIOUS
    <3>2. p \in Seq(LeafPush) /\ DOMAIN p = 1..0
      BY <3>1
    <3>3. Entered(p) = [j \in DOMAIN p |-> <<RoundUp(WrittenUpTo(p)[j - 1], p[j].round), p[j].length>>]
      BY ONLY <3>2, EnteredLeaves
    <3>4. QED
      BY <3>1, <3>2, <3>3
  <2>4. QED
    BY <2>1, <2>2, <2>3
<1>7. CASE n # 0
  <2> PICK f : f = FlatUpTo(ps)
    OBVIOUS
  <2> PICK g : g = FlatUpTo(ms)
    OBVIOUS
  <2>1. /\ FlattenSeq(ps) = f[n] /\ f[1] = P
        /\ \A i \in 2..n : f[i] = f[i - 1] \o P
    <3>1. ps # <<>>
      BY <1>4, <1>7
    <3>2. /\ FlattenSeq(ps) = f[Len(ps)] /\ f[1] = ps[1]
          /\ \A i \in 2..Len(ps) : f[i] = f[i - 1] \o ps[i]
      <4>1. f = FlatUpTo(ps)
        OBVIOUS
      <4>2. QED
        BY ONLY <1>4, <3>1, <4>1, FlatSteps
    <3>3. Len(ps) = n /\ 1 \in 1..n /\ \A i \in 2..n : i \in 1..n
      BY <1>4, <1>7
    <3>4. ps[1] = P /\ \A i \in 2..n : ps[i] = P
      BY ONLY <1>4, <3>3
    <3>5. QED
      BY ONLY <3>2, <3>3, <3>4
  <2>2. /\ FlattenSeq(ms) = g[n] /\ g[1] = ms[1]
        /\ \A i \in 2..n : g[i] = g[i - 1] \o ms[i]
    <3>1. ms # <<>>
      BY <1>5, <1>7
    <3>2. g = FlatUpTo(ms)
      OBVIOUS
    <3>3. /\ FlattenSeq(ms) = g[Len(ms)] /\ g[1] = ms[1]
          /\ \A i \in 2..Len(ms) : g[i] = g[i - 1] \o ms[i]
      BY ONLY <1>5, <3>1, <3>2, FlatSteps
    <3>4. QED
      BY ONLY <1>5, <3>3
  <2> DEFINE Q(i) == /\ f[i] \in Seq(LeafPush) /\ Entered(f[i]) = g[i]
                     /\ WrittenUpTo(f[i])[Len(f[i])] = (i - 1) * size + e
                     /\ (i - 1) * size \in Nat /\ ((i - 1) * size) % a = 0
  <2>3. Q(1)
    <3>1. f[1] \in Seq(LeafPush)
      BY <1>2, <2>1
    <3>2. (1 - 1) * size = 0 /\ 0 % a = 0
      BY <1>1 DEF Lengths
    <3>3. g[1] = Moved(LeavesOf(L), 0)
      <4>1. 1 \in 1..n
        BY <1>7
      <4>2. ms[1] = Moved(LeavesOf(L), (1 - 1) * size)
        BY ONLY <4>1, ms = [i \in 1..n |-> Moved(LeavesOf(L), (i - 1) * size)]
      <4>3. QED
        BY <2>2, <3>2, <4>2
    <3>4. Entered(P) = Moved(LeavesOf(L), 0) /\ WrittenUpTo(P)[Len(P)] = e
      BY FirstOne
    <3>5. QED
      BY <1>1, <2>1, <3>1, <3>2, <3>3, <3>4
  <2>4. ASSUME NEW k \in 2..n, Q(k - 1) PROVE Q(k)
    <3> PICK p : p = f[k - 1]
      OBVIOUS
    <3> PICK c : c = (k - 1 - 1) * size
      OBVIOUS
    <3> PICK b : b = (k - 1) * size
      OBVIOUS
    <3> PICK M : M = Moved(LeavesOf(L), b)
      OBVIOUS
    <3>1. p \in Seq(LeafPush) /\ Entered(p) = g[k - 1] /\ WrittenUpTo(p)[Len(p)] = c + e
          /\ c \in Nat /\ c % a = 0
      BY <2>4
    <3>2. b = c + size
      <4>1. PICK x \in Nat : k = x + 2
        <5>1. k - 2 \in Nat /\ k = (k - 2) + 2
          OBVIOUS
        <5>2. QED
          BY <5>1
      <4>2. k - 1 = x + 1 /\ k - 1 - 1 = x
        BY <4>1
      <4>3. (x + 1) * size = x * size + size
        BY <1>1
      <4>4. QED
        BY <4>2, <4>3
    <3>3. RoundUp(c + e, a) = b /\ b % a = 0 /\ b \in Nat
      <4>1. RoundUp(c + e, a) = c + RoundUp(e, a) /\ (c + RoundUp(e, a)) % a = 0
        BY <1>1, <3>1, MultipleFacts
      <4>2. c + size \in Nat /\ size = RoundUp(e, a)
        <5>1. c \in Nat
          BY <3>1
        <5>2. QED
          BY ONLY <1>1, <5>1
      <4>3. QED
        BY ONLY <3>2, <4>1, <4>2
    <3>4. /\ p \o P \in Seq(LeafPush)
          /\ WrittenUpTo(p \o P)[Len(p \o P)] = b + e
          /\ Entered(p \o P) = Entered(p) \o M
      <4>1. b \in Nat /\ b % L[1] = 0 /\ RoundUp(WrittenUpTo(p)[Len(p)], L[1]) = b
        BY <3>1, <3>3
      <4>2. QED
        BY <3>1, <4>1, OneMore
    <3>5. f[k] = p \o P /\ g[k] = g[k - 1] \o M
      <4>1. f[k] = f[k - 1] \o P
        BY <2>1
      <4>2. g[k] = g[k - 1] \o ms[k]
        BY <2>2
      <4>3. k \in 1..n
        OBVIOUS
      <4>4. ms[k] = Moved(LeavesOf(L), (k - 1) * size)
        BY ONLY <4>3, ms = [i \in 1..n |-> Moved(LeavesOf(L), (i - 1) * size)]
      <4>5. QED
        BY ONLY <4>1, <4>2, <4>4, p = f[k - 1], M = Moved(LeavesOf(L), b), b = (k - 1) * size
    <3>6. QED
      BY <3>1, <3>3, <3>4, <3>5
  <2> HIDE DEF Q
  <2> DEFINE I == {i \in Nat : i + 1 <= n => Q(i + 1)}
  <2>5. 0 \in I
    BY <2>3
  <2>6. ASSUME NEW i \in Nat, i \in I PROVE i + 1 \in I
    <3>1. CASE i + 1 + 1 <= n
      <4>1. PICK k : k = i + 2
        OBVIOUS
      <4>2. k \in 2..n /\ i + 1 <= n /\ i + 1 + 1 = k /\ k - 1 = i + 1
        BY <3>1, <4>1
      <4>3. Q(k - 1)
        BY <2>6, <4>2
      <4>4. Q(k)
        BY <2>4, <4>2, <4>3
      <4>5. QED
        BY <4>2, <4>4
    <3>2. QED
      BY <3>1
  <2> HIDE DEF I
  <2>7. Nat \subseteq I
    BY <2>5, <2>6, Induct
  <2>8. Q(n)
    <3>1. n - 1 \in Nat /\ n - 1 + 1 = n
      BY <1>7
    <3>2. n - 1 \in I
      BY <2>7, <3>1
    <3>3. QED
      BY <3>1, <3>2 DEF I
  <2>9. Entered(f[n]) = g[n]
    BY <2>8 DEF Q
  <2>10. QED
    BY <2>1, <2>2, <2>9
<1>8. QED
  BY <1>6, <1>7

-----------------------------------------------------------------------------
(* What is entered and what is stored, for a struct of scalars.            *)

LEMMA MaxFirst ==
  ASSUME NEW L \in Seq(Lengths), L # <<>>, \A k \in DOMAIN L : L[k] <= L[1]
  PROVE  MaxOrZero(Range(L)) = L[1]
<1> PICK S : S = Range(L) \cup {0}
  OBVIOUS
<1> PICK a : a = L[1]
  OBVIOUS
<1>1. a \in S /\ a \in Nat /\ \A y \in S : y \in Nat /\ a >= y
  BY DEF Range, Lengths
<1>2. PICK x : x = Max(S)
  OBVIOUS
<1>3. x \in S /\ \A y \in S : x >= y
  BY <1>1, <1>2, Zenon DEF Max
<1>4. x = a
  BY <1>1, <1>3
<1>5. QED
  BY <1>2, <1>4 DEF MaxOrZero

\* Fields that are scalars, in a struct that starts with the one aligned most.
LEMMA ScalarFields ==
  ASSUME LayoutInv, NEW T \in Types, IsStructOfScalars(T), T.index \in DOMAIN structs, LargestFirst(T)
  PROVE  LET fields == structs[T.index]
             L      == LengthsOf(fields)
         IN  /\ fields \in Seq(Types) /\ AllLeaves(fields) /\ IsStructOf(IsLeaf, T)
             /\ \A k \in DOMAIN fields : fields[k].kind = "scalar" /\ fields[k] \in Types /\ IsLeaf(fields[k])
             /\ L \in Seq(Lengths) /\ L # <<>> /\ DOMAIN L = DOMAIN fields
             /\ \A k \in DOMAIN L : L[k] <= L[1] /\ L[k] = LeafLength(fields[k])
<1> PICK fields : fields = structs[T.index]
  OBVIOUS
<1> PICK L : L = LengthsOf(fields)
  OBVIOUS
<1>1. T.kind = "struct" /\ fields \in Seq(Types) /\ fields # <<>>
      /\ \A k \in DOMAIN fields : fields[k] \in Types /\ IsScalar(fields[k])
  <2>1. T.kind = "struct" /\ \A f \in Range(fields) : IsScalar(f)
    BY DEF IsStructOfScalars, IsStructOf
  <2>2. fields \in Seq(Types) /\ fields # <<>>
    BY DEF LayoutInv
  <2>3. QED
    BY <2>1, <2>2 DEF Range
<1>2. \A f : IsScalar(f) => IsLeaf(f) /\ f.kind = "scalar"
  BY DEF IsScalar, IsLeaf
<1>3. AllLeaves(fields) /\ IsStructOf(IsLeaf, T)
  BY <1>1, <1>2 DEF AllLeaves, IsStructOf, Range
<1>4. \A k \in DOMAIN fields : L[k] = LeafLength(fields[k]) /\ L[k] \in Lengths
  BY <1>1, <1>2, LeafLengths DEF LengthsOf
<1>5. L \in Seq(Lengths) /\ L # <<>> /\ DOMAIN L = DOMAIN fields
  <2>1. PICK n : n = Len(fields)
    OBVIOUS
  <2>2. n \in Nat /\ n # 0 /\ DOMAIN fields = 1..n
    BY <1>1, <2>1
  <2>3. L = [k \in 1..n |-> L[k]]
    BY <2>2 DEF LengthsOf
  <2>4. \A k \in 1..n : L[k] \in Lengths
    BY <1>4, <2>2
  <2>5. L \in Seq(Lengths) /\ Len(L) = n
    BY ONLY <2>2, <2>3, <2>4
  <2>6. QED
    BY <2>2, <2>5
<1>6. ASSUME NEW k \in DOMAIN L PROVE L[k] <= L[1]
  <2>1. 1 \in DOMAIN fields
    BY <1>1
  <2>2. AbiAlign(fields[k]) <= AbiAlign(fields[1])
    BY <1>5 DEF LargestFirst, Range
  <2>3. AbiAlign(fields[k]) = LeafLength(fields[k]) /\ AbiAlign(fields[1]) = LeafLength(fields[1])
    BY <1>1, <1>2, <1>5, <2>1, LeafFacts
  <2>4. QED
    BY <1>4, <1>5, <2>1, <2>2, <2>3
<1>7. QED
  BY <1>1, <1>2, <1>3, <1>4, <1>5, <1>6

LEMMA StructPushes ==
  ASSUME LayoutInv, NEW T \in Types, IsStructOfScalars(T), T.index \in DOMAIN structs, LargestFirst(T),
         NEW L, L = LengthsOf(structs[T.index])
  PROVE  Pushed(T, 1) = PushesOf(L)
<1> PICK fields : fields = structs[T.index]
  OBVIOUS
<1>1. /\ fields \in Seq(Types) /\ L \in Seq(Lengths) /\ DOMAIN L = DOMAIN fields
      /\ \A k \in DOMAIN fields : fields[k].kind = "scalar" /\ fields[k] \in Types /\ IsLeaf(fields[k])
      /\ \A k \in DOMAIN L : L[k] = LeafLength(fields[k])
  BY ScalarFields
<1> PICK P : P = PushesOf(L)
  OBVIOUS
<1> PICK f : f = PushesUpTo(1)[MaxNesting - 1]
  OBVIOUS
<1> PICK seqs : seqs = [k \in DOMAIN fields |-> f[fields[k]][TRUE]]
  OBVIOUS
<1>2. Pushed(T, 1) = FlattenSeq(seqs)
  <2>1. PushesUpTo(1)[MaxNesting][T] = [doRound \in BOOLEAN |-> Inputs(f, T, doRound, 1)]
    BY Levels, PushesSteps
  <2>2. Pushed(T, 1) = Inputs(f, T, FALSE, 1)
    <3>1. Pushed(T, 1) = PushesUpTo(1)[MaxNesting][T][FALSE]
      BY Founds
    <3>2. [doRound \in BOOLEAN |-> Inputs(f, T, doRound, 1)][FALSE] = Inputs(f, T, FALSE, 1)
      OBVIOUS
    <3>3. QED
      BY ONLY <2>1, <3>1, <3>2
  <2>3. T.kind = "struct"
    BY DEF IsStructOfScalars, IsStructOf
  <2>4. Inputs(f, T, FALSE, 1) = FlattenSeq([k \in DOMAIN structs[T.index] |-> f[structs[T.index][k]][TRUE]])
    BY <2>3 DEF Inputs
  <2>5. QED
    BY <2>2, <2>4
<1>3. P \in Seq(LeafPush) /\ DOMAIN P = DOMAIN fields
  BY <1>1, PushesOfFacts DEF PushesOf
<1>4. seqs = [k \in DOMAIN P |-> <<P[k]>>]
  <2>1. ASSUME NEW k \in DOMAIN fields PROVE f[fields[k]][TRUE] = <<P[k]>>
    <3> PICK U : U = fields[k]
      OBVIOUS
    <3>1. U \in Types /\ IsLeaf(U) /\ U.kind = "scalar" /\ L[k] = LeafLength(U)
      BY <1>1
    <3>2. PushesUpTo(1)[MaxNesting - 1][U][TRUE] = <<Push(LeafLength(U), TRUE /\ U.kind # "ptr", TRUE)>>
      BY ONLY <3>1, Levels, LeafPushes
    <3>3. P[k] = [length |-> LeafLength(U), round |-> LeafLength(U), isLeaf |-> TRUE]
      BY <1>1, <3>1 DEF PushesOf
    <3>4. Push(LeafLength(U), TRUE /\ U.kind # "ptr", TRUE) = P[k]
      BY <3>1, <3>3 DEF Push
    <3>5. QED
      BY <3>2, <3>4
  <2>2. QED
    BY <1>3, <2>1
<1>5. FlattenSeq(seqs) = P
  <2>1. DOMAIN seqs = DOMAIN P
    BY <1>4
  <2>2. QED
    BY ONLY <1>3, <1>4, <2>1, FlatSingles
<1>6. QED
  BY <1>2, <1>5

LEMMA StructStores ==
  ASSUME LayoutInv, NEW T \in Types, IsStructOfScalars(T), T.index \in DOMAIN structs, LargestFirst(T),
         NEW L, L = LengthsOf(structs[T.index])
  PROVE  StoresUpTo[MaxNesting - 1][T] = LeavesOf(L)
<1> PICK fields : fields = structs[T.index]
  OBVIOUS
<1>1. /\ fields \in Seq(Types) /\ L \in Seq(Lengths) /\ DOMAIN L = DOMAIN fields /\ AllLeaves(fields)
      /\ \A k \in DOMAIN fields : fields[k] \in Types /\ IsLeaf(fields[k])
      /\ \A k \in DOMAIN L : L[k] = LeafLength(fields[k])
  BY ScalarFields
<1> PICK f : f = StoresUpTo[MaxNesting - 2]
  OBVIOUS
<1> PICK leaves : leaves = ForEach(f, fields)
  OBVIOUS
<1> PICK seqs : seqs = [k \in DOMAIN leaves |-> Moved(leaves[k], OffsetOf(L, L, k))]
  OBVIOUS
<1> PICK t : t = LeavesOf(L)
  OBVIOUS
<1>2. StoresUpTo[MaxNesting - 1][T] = FlattenSeq(seqs)
  <2>1. StoresUpTo[MaxNesting - 1][T] = Stores(f, T)
    BY Levels, StoresSteps
  <2>2. T.kind = "struct"
    BY DEF IsStructOfScalars, IsStructOf
  <2>3. [k \in DOMAIN fields |-> AbiSize(fields[k])] = L /\ [k \in DOMAIN fields |-> AbiAlign(fields[k])] = L
    BY <1>1, Levels, LeavesSame
  <2>4. Stores(f, T) = OfStruct(leaves, L, L)
    BY <2>2, <2>3 DEF Stores
  <2>5. QED
    BY <2>1, <2>4 DEF OfStruct
<1>3. t \in Seq(Nat \X Nat) /\ DOMAIN t = DOMAIN fields
  <2>1. 0 \in Nat
    OBVIOUS
  <2>2. QED
    BY <1>1, <2>1, LeavesOfFacts DEF LeavesOf
<1>4. ASSUME NEW k \in DOMAIN fields PROVE Moved(leaves[k], OffsetOf(L, L, k)) = <<t[k]>>
  <2> PICK U : U = fields[k]
    OBVIOUS
  <2> PICK x : x = OffsetOf(L, L, k)
    OBVIOUS
  <2>1. leaves[k] = << <<0, L[k]>> >>
    <3>1. U \in Types /\ IsLeaf(U) /\ L[k] = LeafLength(U)
      BY <1>1
    <3>2. StoresUpTo[MaxNesting - 2][U] = << <<0, LeafLength(U)>> >>
      BY ONLY <3>1, Levels, LeafPrints
    <3>3. leaves[k] = f[U]
      BY DEF ForEach
    <3>4. QED
      BY <3>1, <3>2, <3>3
  <2>2. x = RoundUp(EndUpTo(L, L)[k - 1], L[k])
    BY <1>1, EndClimbs DEF OffsetOf
  <2>3. t[k] = <<x, L[k]>>
    BY <1>1, <2>2 DEF LeavesOf
  <2>4. x \in Nat
    <3>1. t[k] \in Nat \X Nat
      BY <1>3
    <3>2. QED
      BY <2>3, <3>1
  <2>5. Moved(<< <<0, L[k]>> >>, x) = << <<0 + x, L[k]>> >>
    BY DEF Moved
  <2>6. 0 + x = x
    BY <2>4
  <2>7. QED
    BY ONLY <2>1, <2>3, <2>5, <2>6, x = OffsetOf(L, L, k)
<1>5. seqs = [k \in DOMAIN t |-> <<t[k]>>]
  <2>1. DOMAIN leaves = DOMAIN fields
    BY DEF ForEach
  <2>2. QED
    BY <1>3, <1>4, <2>1
<1>6. FlattenSeq(seqs) = t
  <2>1. DOMAIN seqs = DOMAIN t
    BY <1>5
  <2>2. QED
    BY ONLY <1>3, <1>5, <2>1, FlatSingles
<1>7. QED
  BY <1>2, <1>6

\* For every such struct and any number of values: those entered for a pointer to it are
\* where the target's array has them, though nothing is pushed between them.
THEOREM ElementsWhereStored == LayoutSpec => []ElementsEnteredWhereStored
<1>1. LayoutInv => ElementsEnteredWhereStored
  <2> SUFFICES ASSUME LayoutInv, NEW j \in DOMAIN structs, NEW T, T = Struct(j),
                      IsStructOfScalars(T), LargestFirst(T), NEW n \in 0..MaxCount
               PROVE  EnteredArray(T, n) = Stored(Array(T, n))
    BY DEF ElementsEnteredWhereStored, Structs
  <2> PICK L : L = LengthsOf(structs[j])
    OBVIOUS
  <2> PICK size : size = AbiSize(T)
    OBVIOUS
  <2>1. T \in Types /\ T.kind = "struct" /\ T.index = j /\ T.index \in DOMAIN structs
    BY StructTypes
  <2>2. n \in Nat
    BY BoundsAssumption
  <2>3. IsStructOf(IsLeaf, T) /\ L \in Seq(Lengths) /\ L # <<>> /\ \A k \in DOMAIN L : L[k] <= L[1]
    BY <2>1, ScalarFields
  <2>4. size = RoundUp(EndUpTo(L, L)[Len(L)], L[1])
    <3>1. AbiSize(T) = RoundUp(EndOf(L, L, Len(L)), AbiAlign(T)) /\ AbiAlign(T) = MaxOrZero(Range(L))
      BY <2>1, <2>3, StructOfLeaves
    <3>2. EndOf(L, L, Len(L)) = EndUpTo(L, L)[Len(L)]
      BY <2>3, EndClimbs
    <3>3. MaxOrZero(Range(L)) = L[1]
      BY <2>3, MaxFirst
    <3>4. QED
      BY <3>1, <3>2, <3>3
  <2>5. EnteredArray(T, n) = Entered(FlattenSeq([i \in 1..n |-> PushesOf(L)]))
    <3>1. Pushed(T, 1) = PushesOf(L)
      BY <2>1, StructPushes
    <3>2. QED
      BY <3>1 DEF EnteredArray
  <2>6. Stored(Array(T, n)) = FlattenSeq([i \in 1..n |-> Moved(LeavesOf(L), (i - 1) * size)])
    <3> PICK A : A = Array(T, n)
      OBVIOUS
    <3>1. A \in Types /\ A.kind = "array" /\ A.of = T /\ A.count = n
      <4>1. T \in Elements
        BY DEF Elements
      <4>2. QED
        BY <2>2, <4>1 DEF Array, Types
    <3>2. Stored(A) = Stores(StoresUpTo[MaxNesting - 1], A)
      BY <3>1, Levels, Founds, StoresSteps
    <3>3. Stores(StoresUpTo[MaxNesting - 1], A) = OfArray(StoresUpTo[MaxNesting - 1][T], size, n)
      BY <3>1 DEF Stores
    <3>4. StoresUpTo[MaxNesting - 1][T] = LeavesOf(L)
      BY <2>1, StructStores
    <3>5. QED
      BY <3>2, <3>3, <3>4 DEF OfArray
  <2>7. QED
    BY <2>2, <2>3, <2>4, <2>5, <2>6, Several
<1>2. QED
  BY <1>1, LayoutInvariance, PTL
=============================================================================
