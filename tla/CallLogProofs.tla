--------------------------- MODULE CallLogProofs ---------------------------
(***************************************************************************)
(* Proofs about CallLog for every set of names, every depth of the stack   *)
(* and every width of the indentation counter.                             *)
(***************************************************************************)
EXTENDS CallLog, TLAPS

-----------------------------------------------------------------------------
(* Operators. *)

\* Subtraction from an unsigned int that does not go below zero is exact.
LEMMA MinusExact ==
  ASSUME NEW x \in Nat, NEW k \in Nat, k <= x, x < UIntMod
  PROVE  /\ Minus(x, k) = x - k
         /\ Minus(x, k) \in 0..UIntMod - 1
BY BoundsAssumption DEF Minus

\* Every subtraction of a small number stays in the range of the counter.
LEMMA MinusInRange ==
  ASSUME NEW x \in 0..UIntMod - 1, NEW k \in 0..UIntMod - 1
  PROVE  Minus(x, k) \in 0..UIntMod - 1
BY BoundsAssumption DEF Minus

\* A prefix of a sequence: its type, its length and its elements.
LEMMA PrefixFacts ==
  ASSUME NEW S, NEW s \in Seq(S), NEW n \in 0..Len(s)
  PROVE  /\ SubSeq(s, 1, n) \in Seq(S)
         /\ Len(SubSeq(s, 1, n)) = n
         /\ \A i \in 1..n : SubSeq(s, 1, n)[i] = s[i]
OBVIOUS

\* Likewise a sequence with one more element.
LEMMA AppendFacts ==
  ASSUME NEW S, NEW s \in Seq(S), NEW e \in S
  PROVE  /\ Append(s, e) \in Seq(S)
         /\ Len(Append(s, e)) = Len(s) + 1
         /\ \A i \in 1..Len(s) : Append(s, e)[i] = s[i]
         /\ Append(s, e)[Len(s) + 1] = e
OBVIOUS

\* Names are compared as numbers.
LEMMA NamesAreNumbers ==
  ASSUME NEW f \in FuncNames
  PROVE  f \in Int
<1>1. f \in Nat
  BY FuncNamesAssumption
<1>2. QED
  BY <1>1

\* The fields of a frame.
LEMMA FrameFields ==
  ASSUME NEW e \in Frame
  PROVE  e.func \in FuncNames /\ e.slot \in 0..MaxFrames
BY DEF Frame

\* Logging a call keeps all frames, the new one included.
LEMMA KeptByAppend ==
  ASSUME NEW c \in Seq(Frame), NEW s \in Seq(FuncNames), NEW f \in FuncNames,
         Len(s) < MaxFrames, FramesKept(c, s)
  PROVE  FramesKept(Append(c, [func |-> f, slot |-> Len(s) + 1]), Append(s, f))
<1> DEFINE e == [func |-> f, slot |-> Len(s) + 1]
           c2 == Append(c, e)
           s2 == Append(s, f)
<1>1. e \in Frame /\ e.func = f /\ e.slot = Len(s) + 1
  BY BoundsAssumption DEF Frame
<1> HIDE DEF e
<1>2. /\ Len(c2) = Len(c) + 1
      /\ \A i \in 1..Len(c) : c2[i] = c[i]
      /\ c2[Len(c) + 1] = e
  BY <1>1, AppendFacts
<1>3. /\ Len(s2) = Len(s) + 1
      /\ \A i \in 1..Len(s) : s2[i] = s[i]
      /\ s2[Len(s) + 1] = f
  BY AppendFacts
<1> HIDE DEF c2, s2
<1>4. \A i \in 1..Len(c2) : c2[i].slot # 0 =>
        c2[i].slot \in 1..Len(s2) /\ s2[c2[i].slot] = c2[i].func
  <2> TAKE i \in 1..Len(c2)
  <2>1. CASE i = Len(c) + 1
    BY <1>1, <1>2, <1>3, <2>1
  <2>2. CASE i \in 1..Len(c)
    BY <1>2, <1>3, <2>2 DEF FramesKept
  <2>3. QED
    BY <1>2, <2>1, <2>2
<1>5. \A i, j \in 1..Len(c2) : i < j /\ c2[i].slot # 0 => c2[i].slot < c2[j].slot
  <2> SUFFICES ASSUME NEW i \in 1..Len(c2), NEW j \in 1..Len(c2), i < j, c2[i].slot # 0
               PROVE  c2[i].slot < c2[j].slot
    OBVIOUS
  <2>1. CASE j = Len(c) + 1
    BY <1>1, <1>2, <2>1 DEF FramesKept
  <2>2. CASE j \in 1..Len(c)
    BY <1>2, <2>2 DEF FramesKept
  <2>3. QED
    BY <1>2, <2>1, <2>2
<1>6. QED
  BY <1>4, <1>5 DEF FramesKept, c2, s2, e

\* The frames of a shorter call stack are kept by every prefix of the log stack
\* that reaches up to the place of the innermost of them.
LEMMA KeptByPrefix ==
  ASSUME NEW c \in Seq(Frame), NEW s \in Seq(FuncNames), FramesKept(c, s),
         NEW depth \in 0..Len(c), NEW n \in 0..Len(s),
         \A i \in 1..depth : c[i].slot <= n
  PROVE  FramesKept(SubSeq(c, 1, depth), SubSeq(s, 1, n))
<1> DEFINE c2 == SubSeq(c, 1, depth)
           s2 == SubSeq(s, 1, n)
<1>1. Len(c2) = depth /\ \A i \in 1..depth : c2[i] = c[i]
  BY PrefixFacts, Zenon
<1>2. Len(s2) = n /\ \A i \in 1..n : s2[i] = s[i]
  BY PrefixFacts, Zenon
<1> HIDE DEF c2, s2
<1>3. \A i \in 1..Len(c2) : c2[i].slot # 0 =>
        c2[i].slot \in 1..Len(s2) /\ s2[c2[i].slot] = c2[i].func
  <2> SUFFICES ASSUME NEW i \in 1..Len(c2), c2[i].slot # 0
               PROVE  c2[i].slot \in 1..Len(s2) /\ s2[c2[i].slot] = c2[i].func
    OBVIOUS
  <2>1. i \in 1..depth /\ i \in 1..Len(c) /\ c2[i] = c[i]
    BY <1>1
  <2>2. c[i].slot \in 1..Len(s) /\ s[c[i].slot] = c[i].func /\ c[i].slot <= n
    BY <2>1 DEF FramesKept
  <2>3. c[i].slot \in 1..n
    BY <2>2
  <2>4. QED
    BY <1>2, <2>1, <2>2, <2>3
<1>4. \A i, j \in 1..Len(c2) : i < j /\ c2[i].slot # 0 => c2[i].slot < c2[j].slot
  <2> SUFFICES ASSUME NEW i \in 1..Len(c2), NEW j \in 1..Len(c2), i < j, c2[i].slot # 0
               PROVE  c2[i].slot < c2[j].slot
    OBVIOUS
  <2>1. /\ i \in 1..Len(c) /\ c2[i] = c[i]
        /\ j \in 1..Len(c) /\ c2[j] = c[j]
    BY <1>1
  <2>2. QED
    BY <2>1 DEF FramesKept
<1>5. QED
  BY <1>3, <1>4 DEF FramesKept, c2, s2

-----------------------------------------------------------------------------
(* The inductive invariant. *)

\* Where the log goes in each phase of the process.
StreamInv ==
  /\ phase = "ctors" => o = "cout"
  /\ phase \in {"running", "signalled", "closing"} => o = "file"
  /\ o = "file" => fileOpen

\* Nothing of the target is in progress once a signal has ended it, and a setjmp
\* call that may return again belongs to a frame in progress.
FrameInv ==
  /\ phase = "signalled" => calls = <<>>
  /\ \A a \in armed : a[1] <= Len(calls)

IInv == TypeOK /\ StreamInv /\ FrameInv /\ LiveFramesKept /\ NoUnderflow /\ IndentIsDepth

LEMMA InitEstablishes == Init => IInv
<1> SUFFICES ASSUME Init PROVE IInv
  OBVIOUS
<1> USE DEF Init
<1>1. TypeOK
  <2>1. 0 \in 0..UIntMod - 1
    BY BoundsAssumption
  <2>2. Len(funcNameStack) <= MaxFrames
    BY BoundsAssumption
  <2>3. fileOpen \in BOOLEAN /\ unpaired \in BOOLEAN /\ undefined \in BOOLEAN
    BY Zenon
  <2>4. phase \in Phases
    BY DEF Phases
  <2>5. QED
    BY <2>1, <2>2, <2>3, <2>4 DEF TypeOK
<1>2. StreamInv /\ FrameInv
  BY DEF StreamInv, FrameInv
<1>3. LiveFramesKept
  BY DEF LiveFramesKept, FramesKept
<1>4. NoUnderflow /\ IndentIsDepth
  BY DEF NoUnderflow, IndentIsDepth
<1>5. QED
  BY <1>1, <1>2, <1>3, <1>4 DEF IInv

-----------------------------------------------------------------------------
(* What the log functions do to the log. *)

\* logFunctionParameters keeps the log well-typed and its indentation exact.
LEMMA ParametersLogged ==
  ASSUME TypeOK, IndentIsDepth, undefined' = undefined,
         NEW f \in FuncNames, LogFunctionParameters(f)
  PROVE  /\ funcNameStack' \in Seq(FuncNames)
         /\ Len(funcNameStack') <= MaxFrames
         /\ indentLevel' \in 0..UIntMod - 1
         /\ IndentIsDepth'
<1>1. CASE Silent
  BY <1>1 DEF LogFunctionParameters, logVars, TypeOK, IndentIsDepth
<1>2. CASE ~Silent
  <2>1. /\ Len(funcNameStack) < MaxFrames
        /\ funcNameStack' = Append(funcNameStack, f)
        /\ indentLevel' = PlusOne(indentLevel)
    BY <1>2 DEF LogFunctionParameters
  <2>2. funcNameStack \in Seq(FuncNames)
    BY DEF TypeOK
  <2>3. funcNameStack' \in Seq(FuncNames) /\ Len(funcNameStack') = Len(funcNameStack) + 1
    BY <2>1, <2>2, AppendFacts, Zenon
  <2>4. Len(funcNameStack') <= MaxFrames
    BY <2>1, <2>2, <2>3, BoundsAssumption
  <2>5. indentLevel' \in 0..UIntMod - 1
    BY <2>1, BoundsAssumption DEF PlusOne, TypeOK
  <2>6. IndentIsDepth'
    BY <2>1, <2>2, <2>3, BoundsAssumption DEF PlusOne, IndentIsDepth
  <2>7. QED
    BY <2>3, <2>4, <2>5, <2>6
<1>3. QED
  BY <1>1, <1>2

\* logFunctionReturn keeps the log well-typed and its indentation exact.
LEMMA ReturnLogged ==
  ASSUME TypeOK, IndentIsDepth, undefined' = undefined,
         NEW f \in FuncNames, LogFunctionReturn(f)
  PROVE  /\ funcNameStack' \in Seq(FuncNames)
         /\ Len(funcNameStack') <= MaxFrames
         /\ indentLevel' \in 0..UIntMod - 1
         /\ IndentIsDepth'
<1>1. CASE Silent
  BY <1>1 DEF LogFunctionReturn, logVars, TypeOK, IndentIsDepth
<1>2. CASE ~Silent
  <2>1. PICK k \in 1..Len(funcNameStack) : PopTo(k)
    BY <1>2 DEF LogFunctionReturn
  <2>2. /\ funcNameStack' = SubSeq(funcNameStack, 1, k - 1)
        /\ indentLevel' = Minus(indentLevel, Len(funcNameStack) - k + 1)
    BY <2>1 DEF PopTo
  <2>3. funcNameStack \in Seq(FuncNames) /\ k - 1 \in 0..Len(funcNameStack)
    BY DEF TypeOK
  <2>4. funcNameStack' \in Seq(FuncNames) /\ Len(funcNameStack') = k - 1
    BY <2>2, <2>3, PrefixFacts, Zenon
  <2>5. Len(funcNameStack') <= MaxFrames
    BY <2>4, BoundsAssumption DEF TypeOK
  <2>6. Len(funcNameStack) - k + 1 \in 0..UIntMod - 1
    BY <2>3, BoundsAssumption DEF TypeOK
  <2>7. indentLevel' \in 0..UIntMod - 1
    BY <2>2, <2>6, MinusInRange DEF TypeOK
  <2>8. IndentIsDepth'
    BY <2>2, <2>3, <2>4, BoundsAssumption DEF IndentIsDepth, Minus
  <2>9. QED
    BY <2>4, <2>5, <2>7, <2>8
<1>3. QED
  BY <1>1, <1>2

\* The loop that runs past the bottom still leaves a typed, if wrong, log.
LEMMA BottomPassed ==
  ASSUME TypeOK, NEW f \in FuncNames, PopsPastBottom(f)
  PROVE  /\ funcNameStack' \in Seq(FuncNames)
         /\ Len(funcNameStack') <= MaxFrames
         /\ indentLevel' \in 0..UIntMod - 1
         /\ phase' \in Phases
         /\ undefined' \in BOOLEAN
<1>1. funcNameStack' = <<>> /\ indentLevel' = Minus(indentLevel, Len(funcNameStack) + 1)
  BY DEF PopsPastBottom
<1>2. Len(funcNameStack) + 1 \in 0..UIntMod - 1
  BY BoundsAssumption DEF TypeOK
<1>3. indentLevel' \in 0..UIntMod - 1
  BY <1>1, <1>2, MinusInRange DEF TypeOK
<1>4. undefined' \in BOOLEAN
  BY Zenon DEF PopsPastBottom
<1>5. phase' \in Phases
  BY DEF PopsPastBottom, Phases
<1>6. QED
  BY <1>1, <1>3, <1>4, <1>5, BoundsAssumption

\* While the innermost call in progress has its entry, the loop of logFunctionReturn
\* for it stops at that entry or above it, so that the entries of all its callers
\* survive: strcmp(name, name) is 0.
LEMMA LoopStopsInTime ==
  ASSUME TypeOK, calls # <<>>, FramesKept(calls, funcNameStack),
         calls[Len(calls)].slot # 0,
         NEW k \in 1..Len(funcNameStack),
         StopsAt(k, calls[Len(calls)].func)
  PROVE  /\ k - 1 \in 0..Len(funcNameStack)
         /\ \A i \in 1..Len(calls)-1 : calls[i].slot <= k - 1
         /\ calls[Len(calls)].slot <= k
<1> DEFINE last == calls[Len(calls)]
<1>1. /\ Len(calls) \in 1..Len(calls)
      /\ \A i \in 1..Len(calls) : calls[i] \in Frame
      /\ Len(funcNameStack) \in Nat
  BY DEF TypeOK
<1>2. \A i \in 1..Len(calls) : calls[i].slot \in Int
  BY <1>1 DEF Frame
<1>3. last.slot \in 1..Len(funcNameStack) /\ funcNameStack[last.slot] = last.func
  BY <1>1 DEF FramesKept
<1>4. last.func \in Int
  <2>1. last.func \in FuncNames
    BY <1>1, FrameFields
  <2>2. QED
    BY <2>1, NamesAreNumbers
<1>5. last.slot <= k
  BY <1>1, <1>2, <1>3, <1>4 DEF StopsAt, Overdue
<1>6. \A i \in 1..Len(calls)-1 : calls[i].slot < last.slot
  BY <1>1, <1>3 DEF FramesKept
<1>7. QED
  BY <1>1, <1>2, <1>5, <1>6

\* Under the same conditions the loop does not run past the bottom.
LEMMA LoopFindsItsEntry ==
  ASSUME TypeOK, calls # <<>>, FramesKept(calls, funcNameStack),
         calls[Len(calls)].slot # 0
  PROVE  ~PopsPastBottom(calls[Len(calls)].func)
<1>1. Len(calls) \in 1..Len(calls) /\ calls[Len(calls)] \in Frame
  BY DEF TypeOK
<1>2. calls[Len(calls)].func \in Int
  <2>1. calls[Len(calls)].func \in FuncNames
    BY <1>1, FrameFields
  <2>2. QED
    BY <2>1, NamesAreNumbers
<1>3. QED
  BY <1>1, <1>2 DEF FramesKept, PopsPastBottom, Overdue

\* Where the innermost call has no place, none of the others has.
LEMMA NoneHasPlace ==
  ASSUME TypeOK, calls # <<>>, FramesKept(calls, funcNameStack),
         calls[Len(calls)].slot = 0
  PROVE  \A i \in 1..Len(calls) : calls[i].slot = 0
<1>1. Len(calls) \in 1..Len(calls) /\ \A i \in 1..Len(calls) : calls[i] \in Frame
  BY DEF TypeOK
<1>2. \A i \in 1..Len(calls) : calls[i].slot \in Nat
  BY <1>1, FrameFields
<1>3. QED
  BY <1>1, <1>2 DEF FramesKept

\* Calls without a place ask nothing of the log stack.
LEMMA UnplacedKept ==
  ASSUME NEW c, NEW s, \A i \in 1..Len(c) : c[i].slot = 0
  PROVE  FramesKept(c, s)
BY DEF FramesKept

-----------------------------------------------------------------------------
(* Every step keeps the invariant: one lemma per action of the target.  The    *)
(* lemmas prove the parts of IInv that the action can disturb.                 *)

LEMMA CallKeeps ==
  ASSUME IInv, NEW f \in FuncNames, Call(f)
  PROVE  IInv'
<1> DEFINE e == [func |-> f, slot |-> IF Silent THEN 0 ELSE Len(funcNameStack) + 1]
<1>1. /\ TypeOK /\ StreamInv /\ FrameInv /\ LiveFramesKept /\ NoUnderflow /\ IndentIsDepth
      /\ TargetRuns /\ LogFunctionParameters(f) /\ calls' = Append(calls, e)
      /\ UNCHANGED <<phase, o, fileOpen, armed, unpaired, undefined>>
  BY DEF IInv, Call
<1>2. e \in Frame
  <2>1. Silent \/ Len(funcNameStack) + 1 \in 0..MaxFrames
    BY <1>1, BoundsAssumption DEF LogFunctionParameters, TypeOK
  <2>2. e.slot \in 0..MaxFrames
    BY <2>1, BoundsAssumption
  <2>3. QED
    BY <2>2 DEF Frame
<1>3. /\ funcNameStack' \in Seq(FuncNames)
      /\ Len(funcNameStack') <= MaxFrames
      /\ indentLevel' \in 0..UIntMod - 1
      /\ IndentIsDepth'
  BY <1>1, ParametersLogged
<1> HIDE DEF e
<1>4. calls \in Seq(Frame)
  BY <1>1 DEF TypeOK
<1>5. calls' \in Seq(Frame) /\ Len(calls') = Len(calls) + 1
  BY <1>1, <1>2, <1>4, AppendFacts, Zenon
<1>6. TypeOK'
  BY <1>1, <1>3, <1>5 DEF TypeOK
<1>7. StreamInv' /\ NoUnderflow'
  BY <1>1 DEF StreamInv, NoUnderflow
<1>8. FrameInv'
  BY <1>1, <1>4, <1>5 DEF FrameInv, TargetRuns, TypeOK
<1>9. LiveFramesKept'
  <2> SUFFICES ASSUME o # "null"
               PROVE  /\ FramesKept(calls', funcNameStack')
                      /\ \A i \in 1..Len(calls') : calls'[i].slot = 0 => unpaired
    BY <1>1 DEF LiveFramesKept
  <2>1. ~Silent
    BY DEF Silent
  <2>2. /\ Len(funcNameStack) < MaxFrames
        /\ funcNameStack' = Append(funcNameStack, f)
        /\ calls' = Append(calls, [func |-> f, slot |-> Len(funcNameStack) + 1])
    BY <1>1, <2>1 DEF LogFunctionParameters, e
  <2>3. funcNameStack \in Seq(FuncNames) /\ FramesKept(calls, funcNameStack)
    BY <1>1 DEF TypeOK, LiveFramesKept
  <2>4. FramesKept(calls', funcNameStack')
    BY <1>4, <2>2, <2>3, KeptByAppend
  <2>5. ASSUME NEW i \in 1..Len(calls'), calls'[i].slot = 0 PROVE unpaired
    <3>1. /\ \A n \in 1..Len(calls) : calls'[n] = calls[n]
          /\ calls'[Len(calls) + 1] = e
      BY <1>1, <1>2, <1>4, AppendFacts
    <3>2. e.slot # 0
      BY <2>1, <2>3 DEF e
    <3>3. i # Len(calls) + 1
      BY <2>5, <3>1, <3>2, Zenon
    <3>4. i \in 1..Len(calls)
      BY <1>4, <1>5, <3>3
    <3>5. calls[i].slot = 0
      BY <2>5, <3>1, <3>4
    <3>6. QED
      BY ONLY <1>1, <3>4, <3>5, o # "null" DEF LiveFramesKept
  <2>6. QED
    BY <2>4, <2>5
<1>10. QED
  BY <1>3, <1>6, <1>7, <1>8, <1>9 DEF IInv

\* The setjmp calls of the frames up to a depth.
LEMMA ArmedFacts ==
  ASSUME TypeOK, NEW depth \in Nat
  PROVE  /\ ArmedUpTo(depth) \subseteq (Nat \X ReturnsTwice)
         /\ \A a \in ArmedUpTo(depth) : a[1] <= depth
BY DEF TypeOK, ArmedUpTo

\* The calls that remain when those above a depth are gone.
LEMMA CallsUpTo ==
  ASSUME TypeOK, NEW depth \in 0..Len(calls)
  PROVE  SubSeq(calls, 1, depth) \in Seq(Frame) /\ Len(SubSeq(calls, 1, depth)) = depth
<1>1. calls \in Seq(Frame)
  BY DEF TypeOK
<1>2. QED
  BY <1>1, PrefixFacts, Zenon

LEMMA UnwindKeeps ==
  ASSUME IInv, NEW depth \in 0..MaxFrames, Unwind(depth)
  PROVE  IInv'
<1>1. /\ TypeOK /\ StreamInv /\ FrameInv /\ LiveFramesKept /\ NoUnderflow /\ IndentIsDepth
      /\ TargetRuns /\ depth < Len(calls)
      /\ calls' = SubSeq(calls, 1, depth) /\ armed' = ArmedUpTo(depth)
      /\ UNCHANGED <<phase, o, fileOpen, funcNameStack, indentLevel, unpaired, undefined>>
  BY DEF IInv, Unwind, logVars
<1>2. calls \in Seq(Frame) /\ funcNameStack \in Seq(FuncNames) /\ depth \in 0..Len(calls)
  BY <1>1, BoundsAssumption DEF TypeOK
<1>3. calls' \in Seq(Frame) /\ Len(calls') = depth
  BY <1>1, <1>2, CallsUpTo
<1>4. /\ armed' \subseteq (Nat \X ReturnsTwice)
      /\ \A a \in armed' : a[1] <= depth
  BY <1>1, <1>2, ArmedFacts
<1>5. TypeOK'
  BY <1>1, <1>3, <1>4 DEF TypeOK
<1>6. StreamInv' /\ NoUnderflow' /\ IndentIsDepth'
  BY <1>1 DEF StreamInv, NoUnderflow, IndentIsDepth
<1>7. FrameInv'
  BY <1>1, <1>3, <1>4 DEF FrameInv, TargetRuns
<1>8. LiveFramesKept'
  <2> SUFFICES ASSUME o # "null"
               PROVE  /\ FramesKept(calls', funcNameStack')
                      /\ \A i \in 1..Len(calls') : calls'[i].slot = 0 => unpaired
    BY <1>1 DEF LiveFramesKept
  <2>1. FramesKept(calls, funcNameStack)
    BY <1>1 DEF LiveFramesKept
  <2>2. \A i \in 1..depth : calls[i].slot <= Len(funcNameStack)
    <3>1. \A i \in 1..depth : i \in 1..Len(calls) /\ Len(funcNameStack) \in Nat
      BY <1>2
    <3>2. QED
      BY <3>1, <2>1 DEF FramesKept
  <2>3. Len(funcNameStack) \in 0..Len(funcNameStack)
    BY <1>2
  <2>4. FramesKept(SubSeq(calls, 1, depth), SubSeq(funcNameStack, 1, Len(funcNameStack)))
    BY <1>2, <2>1, <2>2, <2>3, KeptByPrefix
  <2>5. SubSeq(funcNameStack, 1, Len(funcNameStack)) = funcNameStack
    BY <1>2
  <2>6. \A i \in 1..depth : calls'[i] = calls[i] /\ i \in 1..Len(calls)
    BY <1>1, <1>2, PrefixFacts
  <2>7. \A i \in 1..Len(calls) : calls[i].slot = 0 => unpaired
    BY <1>1 DEF LiveFramesKept
  <2>8. \A i \in 1..Len(calls') : calls'[i].slot = 0 => unpaired
    BY ONLY <1>3, <2>6, <2>7
  <2>9. QED
    BY <1>1, <2>4, <2>5, <2>8
<1>9. QED
  BY <1>5, <1>6, <1>7, <1>8 DEF IInv

\* The loop that runs past the bottom: both ways a call may return end there.
LEMMA BottomKeeps ==
  ASSUME IInv, NEW f \in FuncNames, PopsPastBottom(f), unpaired' = TRUE,
         UNCHANGED <<o, fileOpen>>, phase \in {"ctors", "running", "dtors"}
  PROVE  IInv'
<1>1. /\ TypeOK /\ StreamInv
      /\ calls' = <<>> /\ armed' = {} /\ undefined' = TRUE
      /\ phase' = IF phase = "running" THEN "signalled" ELSE "ended"
  BY DEF IInv, PopsPastBottom
<1>2. TypeOK'
  <2>1. unpaired' \in BOOLEAN
    BY Zenon
  <2>2. QED
    BY <1>1, <2>1, BottomPassed DEF TypeOK
<1>3. StreamInv' /\ FrameInv'
  BY <1>1 DEF StreamInv, FrameInv
<1>4. NoUnderflow' /\ IndentIsDepth'
  BY <1>1 DEF NoUnderflow, IndentIsDepth
<1>5. LiveFramesKept'
  BY <1>1 DEF LiveFramesKept, FramesKept
<1>6. QED
  BY <1>2, <1>3, <1>4, <1>5 DEF IInv

\* The case of an entry found: the calls up to a depth remain.
LEMMA PoppedKeeps ==
  ASSUME IInv, TargetRuns, NEW f \in FuncNames, LogFunctionReturn(f),
         NEW depth \in 0..Len(calls),
         calls' \in Seq(Frame), Len(calls') = depth,
         armed' \subseteq (Nat \X ReturnsTwice),
         \A a \in armed' : a[1] <= depth,
         phase' = phase \/ (phase = "running" /\ phase' = "closing"),
         UNCHANGED <<o, fileOpen, undefined>>,
         unpaired' \in BOOLEAN, unpaired => unpaired', LiveFramesKept'
  PROVE  IInv'
<1>1. TypeOK /\ StreamInv /\ FrameInv /\ NoUnderflow /\ IndentIsDepth
  BY DEF IInv
<1>2. /\ funcNameStack' \in Seq(FuncNames)
      /\ Len(funcNameStack') <= MaxFrames
      /\ indentLevel' \in 0..UIntMod - 1
      /\ IndentIsDepth'
  BY <1>1, ReturnLogged
<1>3. phase' \in Phases
  BY <1>1 DEF TypeOK, Phases
<1>4. TypeOK'
  BY <1>1, <1>2, <1>3 DEF TypeOK
<1>5. StreamInv' /\ NoUnderflow'
  BY <1>1 DEF StreamInv, NoUnderflow
<1>6. FrameInv'
  BY <1>1 DEF FrameInv, TargetRuns
<1>7. QED
  BY <1>2, <1>4, <1>5, <1>6 DEF IInv

LEMMA ReturnKeeps ==
  ASSUME IInv, Return
  PROVE  IInv'
<1> DEFINE depth == Len(calls) - 1
           f     == calls[Len(calls)].func
<1>1. /\ TypeOK /\ FrameInv /\ LiveFramesKept /\ NoUnderflow
      /\ TargetRuns /\ calls # <<>> /\ UNCHANGED <<o, fileOpen, unpaired>>
  BY DEF IInv, Return
<1>2. /\ calls \in Seq(Frame) /\ funcNameStack \in Seq(FuncNames)
      /\ Len(calls) \in 1..Len(calls) /\ depth \in 0..Len(calls) /\ depth \in Nat
  BY <1>1 DEF TypeOK
<1>3. f \in FuncNames
  BY <1>2, FrameFields
<1>4. CASE PopsPastBottom(f)
  <2>1. unpaired \/ o = "null"
    <3> SUFFICES ASSUME o # "null" PROVE unpaired
      OBVIOUS
    <3>1. FramesKept(calls, funcNameStack) /\ (calls[Len(calls)].slot = 0 => unpaired)
      BY <1>1, <1>2 DEF LiveFramesKept
    <3>2. calls[Len(calls)].slot = 0
      BY <1>1, <1>4, <3>1, LoopFindsItsEntry
    <3>3. QED
      BY <3>1, <3>2
  <2>2. unpaired' = TRUE
    BY <1>1, <1>4, <2>1 DEF PopsPastBottom, Silent, TypeOK
  <2>3. QED
    BY <1>1, <1>3, <1>4, <2>2, BottomKeeps DEF TargetRuns
<1>5. CASE /\ LogFunctionReturn(f)
           /\ calls' = SubSeq(calls, 1, depth)
           /\ armed' = ArmedUpTo(depth)
                         \cup (IF f \in ReturnsTwice THEN {<<depth, f>>} ELSE {})
           /\ phase' = IF phase = "running" /\ depth = 0 THEN "closing" ELSE phase
           /\ UNCHANGED undefined
  <2>1. /\ armed' \subseteq (Nat \X ReturnsTwice)
        /\ \A a \in armed' : a[1] <= depth
    BY <1>1, <1>2, <1>5, ArmedFacts
  <2>2. LiveFramesKept'
    <3> SUFFICES ASSUME o # "null"
                 PROVE  /\ FramesKept(calls', funcNameStack')
                        /\ \A i \in 1..Len(calls') : calls'[i].slot = 0 => unpaired
      BY <1>1 DEF LiveFramesKept
    <3>1. /\ ~Silent /\ FramesKept(calls, funcNameStack)
          /\ \A i \in 1..Len(calls) : calls[i].slot = 0 => unpaired
      BY <1>1 DEF Silent, LiveFramesKept
    <3>2. Len(calls') = depth /\ \A i \in 1..depth : calls'[i] = calls[i] /\ i \in 1..Len(calls)
      <4>1. Len(calls') = depth /\ \A i \in 1..depth : calls'[i] = calls[i]
        BY <1>2, <1>5, PrefixFacts, Zenon
      <4>2. \A i \in 1..depth : i \in 1..Len(calls)
        BY <1>2
      <4>3. QED
        BY <4>1, <4>2
    <3>3. \A i \in 1..Len(calls') : calls'[i].slot = 0 => unpaired
      BY ONLY <3>1, <3>2
    <3>4. CASE calls[Len(calls)].slot = 0
      <4>1. \A i \in 1..Len(calls') : calls'[i].slot = 0
        BY <1>1, <3>1, <3>2, <3>4, NoneHasPlace
      <4>2. QED
        BY <3>3, <4>1, UnplacedKept
    <3>5. CASE calls[Len(calls)].slot # 0
      <4>1. PICK k \in 1..Len(funcNameStack) : StopsAt(k, f) /\ PopTo(k)
        BY <1>5, <3>1 DEF LogFunctionReturn
      <4>2. k - 1 \in 0..Len(funcNameStack) /\ \A i \in 1..depth : calls[i].slot <= k - 1
        BY <1>1, <3>1, <3>5, <4>1, LoopStopsInTime
      <4>3. funcNameStack' = SubSeq(funcNameStack, 1, k - 1)
        BY <4>1 DEF PopTo
      <4>4. FramesKept(SubSeq(calls, 1, depth), SubSeq(funcNameStack, 1, k - 1))
        BY <1>2, <3>1, <4>2, KeptByPrefix
      <4>5. QED
        BY <1>5, <3>3, <4>3, <4>4
    <3>6. QED
      BY <3>4, <3>5
  <2>3. phase' = phase \/ (phase = "running" /\ phase' = "closing")
    BY <1>5
  <2>4. unpaired' \in BOOLEAN /\ (unpaired => unpaired')
    BY <1>1 DEF TypeOK
  <2>5. calls' \in Seq(Frame) /\ Len(calls') = depth
    BY <1>1, <1>2, <1>5, CallsUpTo
  <2>6. QED
    BY <1>1, <1>2, <1>3, <1>5, <2>1, <2>2, <2>3, <2>4, <2>5, PoppedKeeps
<1>6. QED
  BY <1>4, <1>5 DEF Return

\* The calls that remain after a second return.
LEMMA PlacesForgotten ==
  ASSUME TypeOK, NEW depth \in 0..Len(calls), NEW c,
         c = [i \in 1..depth |-> [calls[i] EXCEPT !.slot = 0]]
  PROVE  c \in Seq(Frame) /\ Len(c) = depth /\ \A i \in 1..depth : c[i].slot = 0
<1>1. calls \in Seq(Frame) /\ depth \in Nat
  BY DEF TypeOK
<1>2. ASSUME NEW e \in Frame
      PROVE  [e EXCEPT !.slot = 0] \in Frame /\ [e EXCEPT !.slot = 0].slot = 0
  <2>1. 0 \in 0..MaxFrames
    BY BoundsAssumption
  <2>2. QED
    BY ONLY <2>1, e \in Frame DEF Frame
<1>3. \A i \in 1..depth : calls[i] \in Frame
  BY <1>1
<1>4. DOMAIN c = 1..depth /\ \A i \in 1..depth : c[i] = [calls[i] EXCEPT !.slot = 0]
  BY Zenon
<1>5. c = [i \in 1..depth |-> c[i]] /\ \A i \in 1..depth : c[i] \in Frame /\ c[i].slot = 0
  BY <1>2, <1>3, <1>4
<1>6. c \in Seq(Frame) /\ Len(c) = depth
  BY ONLY <1>1, <1>5
<1>7. QED
  BY <1>5, <1>6

LEMMA SecondReturnKeeps ==
  ASSUME IInv, NEW depth \in 0..MaxFrames, NEW f \in ReturnsTwice,
         SecondReturn(depth, f)
  PROVE  IInv'
<1>1. /\ TypeOK /\ FrameInv
      /\ TargetRuns /\ <<depth, f>> \in armed /\ unpaired' = TRUE
      /\ UNCHANGED <<o, fileOpen>>
  BY DEF IInv, SecondReturn
<1>2. depth \in Nat /\ depth \in 0..Len(calls) /\ f \in FuncNames
  <2>1. <<depth, f>>[1] <= Len(calls)
    BY <1>1 DEF FrameInv
  <2>2. QED
    BY <1>1, <2>1, BoundsAssumption, ReturnsTwiceAssumption DEF TypeOK
<1>3. CASE PopsPastBottom(f)
  BY <1>1, <1>2, <1>3, BottomKeeps DEF TargetRuns
<1>4. CASE /\ LogFunctionReturn(f)
           /\ calls' = [i \in 1..depth |-> [calls[i] EXCEPT !.slot = 0]]
           /\ armed' = ArmedUpTo(depth)
           /\ UNCHANGED <<phase, undefined>>
  <2>1. /\ armed' \subseteq (Nat \X ReturnsTwice)
        /\ \A a \in armed' : a[1] <= depth
    BY <1>1, <1>2, <1>4, ArmedFacts
  <2>2. calls' \in Seq(Frame) /\ Len(calls') = depth
        /\ \A i \in 1..depth : calls'[i].slot = 0
    BY <1>1, <1>2, <1>4, PlacesForgotten
  <2>3. LiveFramesKept'
    <3>1. FramesKept(calls', funcNameStack')
      BY <2>2, UnplacedKept
    <3>2. QED
      BY <1>1, <3>1 DEF LiveFramesKept
  <2>4. unpaired' \in BOOLEAN /\ (unpaired => unpaired')
    BY <1>1, Zenon
  <2>5. QED
    BY <1>1, <1>2, <1>4, <2>1, <2>2, <2>3, <2>4, PoppedKeeps
<1>5. QED
  BY <1>3, <1>4 DEF SecondReturn

\* The target ends early: a signal, an exception that nobody catches, exit.
LEMMA EndKeeps ==
  ASSUME IInv, ExceptionEscapes \/ Signal \/ Exit
  PROVE  IInv'
<1>1. /\ TypeOK /\ StreamInv /\ FrameInv /\ LiveFramesKept /\ NoUnderflow /\ IndentIsDepth
      /\ UNCHANGED <<o, fileOpen, funcNameStack, indentLevel, unpaired, undefined>>
  BY DEF IInv, ExceptionEscapes, Signal, Exit, logVars
<1>2. \/ /\ phase = "running" /\ phase' \in {"closing", "signalled"}
         /\ calls' = <<>> /\ armed' = {}
      \/ phase' = "ended" /\ UNCHANGED <<calls, armed>>
  BY DEF ExceptionEscapes, Signal, Exit
<1>3. TypeOK'
  <2>1. calls' \in Seq(Frame) /\ armed' \subseteq (Nat \X ReturnsTwice)
    <3>1. <<>> \in Seq(Frame)
      OBVIOUS
    <3>2. calls \in Seq(Frame) /\ armed \subseteq (Nat \X ReturnsTwice)
      BY <1>1 DEF TypeOK
    <3>3. QED
      BY <1>2, <3>1, <3>2
  <2>2. phase' \in Phases
    BY <1>2 DEF Phases
  <2>3. QED
    BY <1>1, <2>1, <2>2 DEF TypeOK
<1>4. StreamInv' /\ FrameInv' /\ NoUnderflow' /\ IndentIsDepth'
  BY <1>1, <1>2 DEF StreamInv, FrameInv, NoUnderflow, IndentIsDepth
<1>5. LiveFramesKept'
  BY <1>1, <1>2 DEF LiveFramesKept, FramesKept
<1>6. QED
  BY <1>3, <1>4, <1>5 DEF IInv

LEMMA StartMainKeeps ==
  ASSUME IInv, StartMain
  PROVE  IInv'
<1> DEFINE e == [func |-> Main, slot |-> Len(funcNameStack) + 1]
<1>1. /\ TypeOK /\ StreamInv /\ NoUnderflow /\ IndentIsDepth
      /\ phase = "ctors" /\ fileOpen' = TRUE /\ o' = "file"
      /\ LogFunctionParameters(Main)
      /\ calls' = <<e>> /\ armed' = {} /\ phase' = "running"
      /\ UNCHANGED <<unpaired, undefined>>
  BY DEF IInv, StartMain
<1>2. ~Silent
  BY <1>1 DEF StreamInv, Silent
<1>3. /\ Len(funcNameStack) < MaxFrames
      /\ funcNameStack' = Append(funcNameStack, Main)
      /\ funcNameStack \in Seq(FuncNames)
  BY <1>1, <1>2 DEF LogFunctionParameters, TypeOK
<1>4. /\ funcNameStack' \in Seq(FuncNames)
      /\ Len(funcNameStack') <= MaxFrames
      /\ indentLevel' \in 0..UIntMod - 1
      /\ IndentIsDepth'
  BY <1>1, MainAssumption, ParametersLogged
<1>5. e \in Frame
  <2>1. Len(funcNameStack) + 1 \in 0..MaxFrames
    BY <1>3, BoundsAssumption
  <2>2. QED
    BY <2>1, MainAssumption DEF Frame
<1>6. FramesKept(<<>>, funcNameStack)
  BY DEF FramesKept
<1>7. FramesKept(Append(<<>>, e), Append(funcNameStack, Main))
  <2>1. <<>> \in Seq(Frame)
    OBVIOUS
  <2>2. QED
    BY <1>3, <1>6, <2>1, MainAssumption, KeptByAppend
<1>8. calls' = Append(<<>>, e)
  BY <1>1
<1>9. calls' \in Seq(Frame)
  BY <1>1, <1>5
<1>10. Len(calls') = 1 /\ calls'[1].slot # 0
  BY <1>1, <1>3
<1> HIDE DEF e
<1>11. TypeOK'
  <2>1. fileOpen' \in BOOLEAN /\ phase' \in Phases /\ o' \in {"cout", "file", "null"}
    BY <1>1, Zenon DEF Phases
  <2>2. QED
    BY <1>1, <1>4, <1>9, <2>1 DEF TypeOK
<1>12. StreamInv' /\ FrameInv' /\ NoUnderflow'
  BY <1>1 DEF StreamInv, FrameInv, NoUnderflow
<1>13. LiveFramesKept'
  <2>1. FramesKept(calls', funcNameStack')
    BY <1>3, <1>7, <1>8
  <2>2. \A i \in 1..Len(calls') : calls'[i].slot # 0
    BY ONLY <1>10
  <2>3. QED
    BY <2>1, <2>2 DEF LiveFramesKept
<1>14. QED
  BY <1>4, <1>11, <1>12, <1>13 DEF IInv

\* The report empties the stack and brings the indentation back to zero.
LEMMA ReportKeeps ==
  ASSUME IInv, ReportUnreturned
  PROVE  IInv'
<1>1. /\ TypeOK /\ StreamInv /\ FrameInv /\ NoUnderflow /\ IndentIsDepth
      /\ phase = "signalled" /\ phase' = "closing" /\ funcNameStack' = <<>>
      /\ indentLevel' = Minus(indentLevel, Len(funcNameStack))
      /\ UNCHANGED <<o, fileOpen, calls, armed, unpaired, undefined>>
  BY DEF IInv, ReportUnreturned
<1>2. calls' = <<>>
  BY <1>1 DEF FrameInv
<1>3. indentLevel' \in 0..UIntMod - 1
  <2>1. Len(funcNameStack) \in 0..UIntMod - 1
    BY <1>1, BoundsAssumption DEF TypeOK
  <2>2. QED
    BY <1>1, <2>1, MinusInRange DEF TypeOK
<1>4. TypeOK'
  BY <1>1, <1>3, BoundsAssumption DEF TypeOK, Phases
<1>5. StreamInv' /\ FrameInv' /\ NoUnderflow'
  BY <1>1 DEF StreamInv, FrameInv, NoUnderflow
<1>6. IndentIsDepth'
  BY <1>1 DEF IndentIsDepth, Minus, TypeOK
<1>7. LiveFramesKept'
  BY <1>2 DEF LiveFramesKept, FramesKept
<1>8. QED
  BY <1>4, <1>5, <1>6, <1>7 DEF IInv

\* The early end of the controller's main, and the end of the log.
LEMMA LeaveKeeps ==
  ASSUME IInv, InvalidMain \/ Close
  PROVE  IInv'
<1>1. /\ TypeOK /\ StreamInv /\ FrameInv /\ LiveFramesKept /\ NoUnderflow /\ IndentIsDepth
      /\ phase' = "dtors"
      /\ UNCHANGED <<funcNameStack, indentLevel, calls, unpaired, undefined>>
      /\ \/ phase = "ctors" /\ armed' = {} /\ UNCHANGED <<o, fileOpen>>
         \/ o' = "null" /\ fileOpen' = FALSE /\ UNCHANGED armed
  BY DEF IInv, InvalidMain, Close, logVars
<1>2. TypeOK'
  <2>1. fileOpen' \in BOOLEAN /\ o' \in {"cout", "file", "null"}
    BY <1>1, Zenon DEF TypeOK
  <2>2. armed' \subseteq (Nat \X ReturnsTwice)
    BY <1>1 DEF TypeOK
  <2>3. QED
    BY <1>1, <2>1, <2>2 DEF TypeOK, Phases
<1>3. StreamInv' /\ FrameInv' /\ NoUnderflow' /\ IndentIsDepth'
  BY <1>1 DEF StreamInv, FrameInv, NoUnderflow, IndentIsDepth
<1>4. LiveFramesKept'
  BY <1>1 DEF LiveFramesKept
<1>5. QED
  BY <1>2, <1>3, <1>4 DEF IInv

LEMMA NextPreserves == IInv /\ [Next]_vars => IInv'
<1> SUFFICES ASSUME IInv, [Next]_vars PROVE IInv'
  OBVIOUS
<1>1. CASE \E f \in FuncNames : Call(f)
  BY <1>1, CallKeeps
<1>2. CASE Return
  BY <1>2, ReturnKeeps
<1>3. CASE \E depth \in 0..MaxFrames : Unwind(depth)
  BY <1>3, UnwindKeeps
<1>4. CASE \E depth \in 0..MaxFrames, f \in ReturnsTwice : SecondReturn(depth, f)
  BY <1>4, SecondReturnKeeps
<1>5. CASE ExceptionEscapes \/ Signal \/ Exit
  BY <1>5, EndKeeps
<1>6. CASE Controller
  BY <1>6, StartMainKeeps, ReportKeeps, LeaveKeeps DEF Controller
<1>7. CASE UNCHANGED vars
  BY <1>7 DEF vars, IInv, TypeOK, StreamInv, FrameInv, LiveFramesKept, NoUnderflow,
              IndentIsDepth
<1>8. QED
  BY <1>1, <1>2, <1>3, <1>4, <1>5, <1>6, <1>7 DEF Next, Terminated

-----------------------------------------------------------------------------
(* The theorems. *)

\* The invariant holds in every run of the log (debuggerController.cpp).
THEOREM Invariance == Spec => []IInv
BY InitEstablishes, NextPreserves, PTL DEF Spec

\* Type correctness: the stack stays within its bound, and indentLevel within the
\* range of an unsigned int.
THEOREM TypeCorrect == Spec => []TypeOK
<1>1. IInv => TypeOK
  BY DEF IInv
<1>2. QED
  BY <1>1, Invariance, PTL

\* logFunctionReturn never pops the entry of a caller that is still in progress,
\* whatever has been abandoned by exceptions or longjmp before, unless a second return
\* has come since that caller was called.
THEOREM CallersKept == Spec => []LiveFramesKept
<1>1. IInv => LiveFramesKept
  BY DEF IInv
<1>2. QED
  BY <1>1, Invariance, PTL

\* logFunctionReturn reads funcNameStack[size() - 1] of an empty stack only in a
\* target in which some call has returned twice.
THEOREM BottomNeverPassed == Spec => []NoUnderflow
<1>1. IInv => NoUnderflow
  BY DEF IInv
<1>2. QED
  BY <1>1, Invariance, PTL

\* The unsigned indentLevel is the number of names on the stack, and so neither
\* the return loop nor the report after a signal wraps it around.
THEOREM IndentExact == Spec => []IndentIsDepth
<1>1. IInv => IndentIsDepth
  BY DEF IInv
<1>2. QED
  BY <1>1, Invariance, PTL

\* No line is ever logged to a closed file: not by the target's static
\* destructors, which run after main has closed it.
THEOREM NothingLoggedAfterClose == Spec => LogNeedsStream
<1>1. IInv /\ IInv' /\ [Next]_vars
        => [funcNameStack' # funcNameStack => \/ o' = "cout"
                                              \/ o' = "file" /\ fileOpen']_vars
  <2> SUFFICES ASSUME IInv', Next, funcNameStack' # funcNameStack
               PROVE  o' # "null"
    BY DEF IInv, StreamInv, TypeOK
  <2>1. CASE \E f \in FuncNames : Call(f)
    BY <2>1 DEF Call, LogFunctionParameters, Silent, logVars
  <2>2. CASE Return
    BY <2>2 DEF Return, LogFunctionReturn, PopsPastBottom, Silent, logVars
  <2>3. CASE \E depth \in 0..MaxFrames, f \in ReturnsTwice : SecondReturn(depth, f)
    BY <2>3 DEF SecondReturn, LogFunctionReturn, PopsPastBottom, Silent, logVars
  <2>4. CASE \/ \E depth \in 0..MaxFrames : Unwind(depth)
             \/ ExceptionEscapes \/ Signal \/ Exit \/ Terminated
    BY <2>4 DEF Unwind, ExceptionEscapes, Signal, Exit, Terminated, vars, logVars
  <2>5. CASE StartMain \/ InvalidMain \/ Close
    BY <2>5 DEF StartMain, InvalidMain, Close, logVars
  <2>6. CASE ReportUnreturned
    BY <2>6 DEF ReportUnreturned, IInv, StreamInv
  <2>7. QED
    BY <2>1, <2>2, <2>3, <2>4, <2>5, <2>6 DEF Next, Controller
<1>2. QED
  BY <1>1, Invariance, PTL DEF Spec, LogNeedsStream

-----------------------------------------------------------------------------
(* CallLog implements CallBrackets: one lemma for each kind of step.             *)

\* An entry is in progress if it is the place of one of the calls.
LEMMA LiveEntry ==
  ASSUME NEW k \in 1..Len(funcNameStack), NEW i \in 1..Len(calls), calls[i].slot = k
  PROVE  k \in LiveEntries
BY DEF LiveEntries

\* Without a new call, and with the stack as it was, calls can only be abandoned.
LEMMA AbandonedOnly ==
  ASSUME TypeOK, UNCHANGED <<funcNameStack, unpaired>>,
         NEW n \in 0..Len(calls), calls' = SubSeq(calls, 1, n)
  PROVE  Brackets!Nested
<1>1. calls \in Seq(Frame)
  BY DEF TypeOK
<1>2. Len(calls') = n /\ \A i \in 1..n : calls'[i] = calls[i]
  BY <1>1, PrefixFacts, Zenon
<1>3. LiveEntries' \subseteq LiveEntries
  <2> SUFFICES ASSUME NEW k \in LiveEntries' PROVE k \in LiveEntries
    OBVIOUS
  <2>1. PICK i \in 1..n : k \in 1..Len(funcNameStack) /\ calls[i].slot = k
    BY <1>2 DEF LiveEntries
  <2>2. QED
    BY <1>1, <2>1 DEF LiveEntries
<1>4. QED
  BY <1>3 DEF Brackets!Nested, Brackets!Abandon

\* A call is logged: its bracket opens, above all others.
LEMMA OpenRefined ==
  ASSUME TypeOK, FramesKept(calls, funcNameStack), NEW f \in FuncNames,
         funcNameStack' = Append(funcNameStack, f),
         NEW e \in Frame, e.slot = Len(funcNameStack) + 1,
         calls' = Append(calls, e), unpaired' = unpaired
  PROVE  Brackets!Nested
<1>1. calls \in Seq(Frame) /\ funcNameStack \in Seq(FuncNames)
  BY DEF TypeOK
<1>2. /\ Len(calls') = Len(calls) + 1
      /\ \A i \in 1..Len(calls) : calls'[i] = calls[i]
      /\ calls'[Len(calls) + 1] = e
  BY <1>1, AppendFacts
<1>3. Len(funcNameStack') = Len(funcNameStack) + 1
  BY <1>1, AppendFacts, Zenon
<1>4. LiveEntries' = LiveEntries \cup {Len(funcNameStack) + 1}
  <2>1. ASSUME NEW k \in LiveEntries' PROVE k \in LiveEntries \cup {Len(funcNameStack) + 1}
    <3>1. PICK i \in 1..Len(calls') : k \in 1..Len(funcNameStack') /\ calls'[i].slot = k
      BY <2>1 DEF LiveEntries
    <3>2. CASE i = Len(calls) + 1
      BY <1>2, <3>1, <3>2
    <3>3. CASE i \in 1..Len(calls)
      BY <1>2, <3>1, <3>3 DEF LiveEntries, FramesKept
    <3>4. QED
      BY <1>1, <1>2, <3>1, <3>2, <3>3
  <2>2. ASSUME NEW k \in LiveEntries PROVE k \in LiveEntries'
    <3>1. PICK i \in 1..Len(calls) : k \in 1..Len(funcNameStack) /\ calls[i].slot = k
      BY <2>2 DEF LiveEntries
    <3>2. i \in 1..Len(calls') /\ calls'[i].slot = k /\ k \in 1..Len(funcNameStack')
      BY <1>1, <1>2, <1>3, <3>1
    <3>3. QED
      BY <3>2 DEF LiveEntries
  <2>3. Len(funcNameStack) + 1 \in LiveEntries'
    <3>1. Len(calls) + 1 \in 1..Len(calls') /\ Len(funcNameStack) + 1 \in 1..Len(funcNameStack')
      BY <1>1, <1>2, <1>3
    <3>2. QED
      BY <1>2, <3>1 DEF LiveEntries
  <2>4. QED
    BY <2>1, <2>2, <2>3
<1>5. QED
  BY <1>3, <1>4 DEF Brackets!Nested, Brackets!Open

\* The innermost call returns: the loop of logFunctionReturn closes its bracket or
\* stops above it, and the brackets of its callers stay open.
LEMMA CloseRefined ==
  ASSUME TypeOK, calls # <<>>, FramesKept(calls, funcNameStack),
         calls[Len(calls)].slot # 0,
         NEW k \in 1..Len(funcNameStack), StopsAt(k, calls[Len(calls)].func), PopTo(k),
         calls' = SubSeq(calls, 1, Len(calls) - 1), unpaired' = unpaired
  PROVE  Brackets!Nested
<1> DEFINE m == calls[Len(calls)].slot
<1>1. /\ calls \in Seq(Frame) /\ funcNameStack \in Seq(FuncNames)
      /\ Len(calls) \in 1..Len(calls) /\ Len(calls) - 1 \in 0..Len(calls)
  BY DEF TypeOK
<1>2. /\ Len(calls') = Len(calls) - 1
      /\ \A i \in 1..Len(calls) - 1 : calls'[i] = calls[i]
  BY <1>1, PrefixFacts, Zenon
<1>3. k - 1 \in 0..Len(funcNameStack) /\ \A i \in 1..Len(calls) - 1 : calls[i].slot <= k - 1
  BY LoopStopsInTime
<1>4. Len(funcNameStack') = k - 1
  <2>1. funcNameStack' = SubSeq(funcNameStack, 1, k - 1)
    BY DEF PopTo
  <2>2. QED
    BY <1>1, <1>3, <2>1, PrefixFacts, Zenon
<1>5. \A i \in 1..Len(calls) : calls[i].slot # 0 => calls[i].slot \in 1..Len(funcNameStack)
  BY DEF FramesKept
<1>6. m \in 1..Len(funcNameStack) /\ \A i \in 1..Len(calls) - 1 : calls[i].slot < m
  BY <1>1 DEF FramesKept
<1>7. m <= k
  BY LoopStopsInTime
<1>8. m \in LiveEntries /\ \A j \in LiveEntries : j <= m
  BY <1>1, <1>6 DEF LiveEntries
<1>9. LiveEntries' = LiveEntries \ {m}
  <2>1. ASSUME NEW j \in LiveEntries' PROVE j \in LiveEntries \ {m}
    <3>1. PICK i \in 1..Len(calls) - 1 : calls[i].slot = j /\ j \in 1..k - 1
      BY <1>2, <1>4, <2>1 DEF LiveEntries
    <3>2. i \in 1..Len(calls) /\ j # 0 /\ j # m
      BY <1>1, <1>6, <3>1
    <3>3. j \in 1..Len(funcNameStack)
      BY <1>5, <3>1, <3>2
    <3>4. QED
      BY <3>1, <3>2, <3>3 DEF LiveEntries
  <2>2. ASSUME NEW j \in LiveEntries, j # m PROVE j \in LiveEntries'
    <3>1. PICK i \in 1..Len(calls) : j \in 1..Len(funcNameStack) /\ calls[i].slot = j
      BY <2>2 DEF LiveEntries
    <3>2. i \in 1..Len(calls) - 1
      BY <1>1, <2>2, <3>1
    <3>3. i \in 1..Len(calls') /\ calls'[i].slot = j /\ j \in 1..Len(funcNameStack')
      BY <1>2, <1>3, <1>4, <3>1, <3>2
    <3>4. QED
      BY <3>3 DEF LiveEntries
  <2>3. QED
    BY <2>1, <2>2
<1>10. k - 1 \in m - 1..Len(funcNameStack) - 1
  BY <1>1, <1>6, <1>7
<1> HIDE DEF m
<1>11. Brackets!Close
  BY <1>4, <1>8, <1>9, <1>10 DEF Brackets!Close
<1>12. QED
  BY <1>11 DEF Brackets!Nested

\* A step that leaves no call with a place on the log stack, once a call has returned
\* again.
LEMMA AgainRefined ==
  ASSUME TypeOK, unpaired' = TRUE, Len(funcNameStack') \in 0..Len(funcNameStack),
         \A i \in 1..Len(calls') : calls'[i].slot = 0
  PROVE  Brackets!Next
<1>1. LiveEntries' = {}
  BY DEF LiveEntries
<1>2. QED
  BY <1>1 DEF Brackets!Next, Brackets!ReturnAgain

\* Whether or not the loop of logFunctionReturn finds an entry, it only pops.
LEMMA OnlyPops ==
  ASSUME TypeOK, NEW f, LogFunctionReturn(f) \/ PopsPastBottom(f)
  PROVE  Len(funcNameStack') \in 0..Len(funcNameStack)
<1>1. funcNameStack \in Seq(FuncNames) /\ Len(funcNameStack) \in Nat
  BY DEF TypeOK
<1>2. CASE PopsPastBottom(f)
  BY <1>1, <1>2 DEF PopsPastBottom
<1>3. CASE LogFunctionReturn(f) /\ Silent
  BY <1>1, <1>3 DEF LogFunctionReturn, logVars
<1>4. CASE LogFunctionReturn(f) /\ ~Silent
  <2>1. PICK k \in 1..Len(funcNameStack) : funcNameStack' = SubSeq(funcNameStack, 1, k - 1)
    BY <1>4 DEF LogFunctionReturn, PopTo
  <2>2. k - 1 \in 0..Len(funcNameStack)
    BY <1>1
  <2>3. QED
    BY <1>1, <2>1, <2>2, PrefixFacts
<1>5. QED
  BY <1>2, <1>3, <1>4

\* A return, logged or not.
LEMMA ReturnRefined ==
  ASSUME IInv, Return
  PROVE  Brackets!Next
<1> DEFINE f == calls[Len(calls)].func
<1>1. TypeOK /\ LiveFramesKept /\ calls # <<>> /\ unpaired' = unpaired
  BY DEF IInv, Return
<1>2. o # "null" => FramesKept(calls, funcNameStack)
  BY <1>1 DEF LiveFramesKept
<1>3. calls \in Seq(Frame) /\ Len(calls) \in 1..Len(calls) /\ Len(calls) - 1 \in 0..Len(calls)
  BY <1>1 DEF TypeOK
<1>4. CASE Silent
  <2>1. LogFunctionReturn(f) /\ calls' = SubSeq(calls, 1, Len(calls) - 1)
    BY <1>4 DEF Return, PopsPastBottom
  <2>2. funcNameStack' = funcNameStack
    BY <1>4, <2>1 DEF LogFunctionReturn, logVars
  <2>3. QED
    BY <1>1, <1>3, <2>1, <2>2, AbandonedOnly DEF Brackets!Next
<1>5. CASE ~Silent /\ calls[Len(calls)].slot # 0
  <2>1. FramesKept(calls, funcNameStack)
    BY <1>2, <1>5 DEF Silent
  <2>2. ~PopsPastBottom(f)
    BY <1>1, <1>5, <2>1, LoopFindsItsEntry
  <2>3. LogFunctionReturn(f) /\ calls' = SubSeq(calls, 1, Len(calls) - 1)
    BY <2>2 DEF Return
  <2>4. PICK k \in 1..Len(funcNameStack) : StopsAt(k, f) /\ PopTo(k)
    BY <1>5, <2>3 DEF LogFunctionReturn
  <2>5. QED
    BY <1>1, <1>5, <2>1, <2>3, <2>4, CloseRefined DEF Brackets!Next
<1>6. CASE ~Silent /\ calls[Len(calls)].slot = 0
  <2>1. FramesKept(calls, funcNameStack) /\ unpaired
    BY <1>1, <1>3, <1>6 DEF Silent, LiveFramesKept
  <2>2. unpaired' = TRUE
    BY <1>1, <2>1 DEF TypeOK
  <2>3. \A i \in 1..Len(calls) : calls[i].slot = 0
    BY <1>1, <1>6, <2>1, NoneHasPlace
  <2>4. calls' = SubSeq(calls, 1, Len(calls) - 1) \/ calls' = <<>>
    BY DEF Return, PopsPastBottom
  <2>5. \A i \in 1..Len(calls') : calls'[i].slot = 0
    <3>1. CASE calls' = SubSeq(calls, 1, Len(calls) - 1)
      <4>1. Len(calls') = Len(calls) - 1 /\ \A i \in 1..Len(calls) - 1 : calls'[i] = calls[i]
        BY <1>3, <3>1, PrefixFacts, Zenon
      <4>2. \A i \in 1..Len(calls) - 1 : i \in 1..Len(calls)
        BY <1>3
      <4>3. QED
        BY <2>3, <4>1, <4>2
    <3>2. CASE calls' = <<>>
      BY <3>2
    <3>3. QED
      BY <2>4, <3>1, <3>2
  <2>6. Len(funcNameStack') \in 0..Len(funcNameStack)
    <3>1. LogFunctionReturn(f) \/ PopsPastBottom(f)
      BY DEF Return
    <3>2. QED
      BY <1>1, <3>1, OnlyPops
  <2>7. QED
    BY <1>1, <2>2, <2>5, <2>6, AgainRefined
<1>7. QED
  BY <1>4, <1>5, <1>6

\* A second return: no call that was in progress keeps its place.
LEMMA SecondReturnRefined ==
  ASSUME IInv, NEW depth \in 0..MaxFrames, NEW f \in ReturnsTwice, SecondReturn(depth, f)
  PROVE  Brackets!Next
<1>1. TypeOK /\ FrameInv /\ <<depth, f>> \in armed /\ unpaired' = TRUE
  BY DEF IInv, SecondReturn
<1>2. depth \in 0..Len(calls)
  <2>1. <<depth, f>>[1] <= Len(calls)
    BY <1>1 DEF FrameInv
  <2>2. QED
    BY <1>1, <2>1, BoundsAssumption DEF TypeOK
<1>3. \A i \in 1..Len(calls') : calls'[i].slot = 0
  <2>1. CASE calls' = [i \in 1..depth |-> [calls[i] EXCEPT !.slot = 0]]
    BY <1>1, <1>2, <2>1, PlacesForgotten
  <2>2. CASE calls' = <<>>
    BY <2>2
  <2>3. QED
    BY <2>1, <2>2 DEF SecondReturn, PopsPastBottom
<1>4. Len(funcNameStack') \in 0..Len(funcNameStack)
  <2>1. LogFunctionReturn(f) \/ PopsPastBottom(f)
    BY DEF SecondReturn
  <2>2. QED
    BY <1>1, <2>1, OnlyPops
<1>5. QED
  BY <1>1, <1>3, <1>4, AgainRefined

\* A direct call of the target, logged or not.
LEMMA CallRefined ==
  ASSUME IInv, NEW f \in FuncNames, Call(f)
  PROVE  Brackets!Nested
<1>1. TypeOK /\ LiveFramesKept /\ LogFunctionParameters(f) /\ unpaired' = unpaired
  BY DEF IInv, Call
<1>2. calls \in Seq(Frame)
  BY <1>1 DEF TypeOK
<1>3. CASE Silent
  <2>1. funcNameStack' = funcNameStack
    BY <1>1, <1>3 DEF LogFunctionParameters, logVars
  <2>2. calls' = Append(calls, [func |-> f, slot |-> 0])
    BY <1>3 DEF Call
  <2>3. [func |-> f, slot |-> 0] \in Frame
    BY BoundsAssumption DEF Frame
  <2>4. /\ Len(calls') = Len(calls) + 1
        /\ \A i \in 1..Len(calls) : calls'[i] = calls[i]
        /\ calls'[Len(calls) + 1].slot = 0
    BY <1>2, <2>2, <2>3, AppendFacts
  <2>5. LiveEntries' \subseteq LiveEntries
    <3> SUFFICES ASSUME NEW k \in LiveEntries' PROVE k \in LiveEntries
      OBVIOUS
    <3>1. PICK i \in 1..Len(calls') : k \in 1..Len(funcNameStack) /\ calls'[i].slot = k
      BY <2>1 DEF LiveEntries
    <3>2. i \in 1..Len(calls)
      BY <1>2, <2>4, <3>1
    <3>3. QED
      BY <2>4, <3>1, <3>2, LiveEntry
  <2>6. QED
    BY <1>1, <2>1, <2>5 DEF Brackets!Nested, Brackets!Abandon
<1>4. CASE ~Silent
  <2> DEFINE e == [func |-> f, slot |-> Len(funcNameStack) + 1]
  <2>1. Len(funcNameStack) < MaxFrames /\ funcNameStack' = Append(funcNameStack, f)
    BY <1>1, <1>4 DEF LogFunctionParameters
  <2>2. calls' = Append(calls, e)
    BY <1>4 DEF Call
  <2>3. e.slot = Len(funcNameStack) + 1 /\ e \in Frame
    <3>1. Len(funcNameStack) + 1 \in 0..MaxFrames
      BY <1>1, <2>1, BoundsAssumption DEF TypeOK
    <3>2. QED
      BY <3>1 DEF Frame
  <2>4. FramesKept(calls, funcNameStack)
    BY <1>1, <1>4 DEF LiveFramesKept, Silent
  <2> HIDE DEF e
  <2>5. QED
    BY <1>1, <2>1, <2>2, <2>3, <2>4, OpenRefined
<1>5. QED
  BY <1>3, <1>4

\* The controller's call of main, which is the first in progress.
LEMMA StartRefined ==
  ASSUME IInv, StartMain
  PROVE  Brackets!Nested
<1> DEFINE e == [func |-> Main, slot |-> Len(funcNameStack) + 1]
<1>1. /\ TypeOK /\ o # "null" /\ calls = <<>> /\ LogFunctionParameters(Main)
      /\ calls' = <<e>> /\ unpaired' = unpaired
  BY DEF IInv, StreamInv, StartMain
<1>2. Len(funcNameStack) < MaxFrames /\ funcNameStack' = Append(funcNameStack, Main)
  BY <1>1 DEF LogFunctionParameters, Silent
<1>3. e.slot = Len(funcNameStack) + 1 /\ e \in Frame
  <2>1. Len(funcNameStack) + 1 \in 0..MaxFrames
    BY <1>1, <1>2, BoundsAssumption DEF TypeOK
  <2>2. QED
    BY <2>1, MainAssumption DEF Frame
<1>4. calls' = Append(calls, e)
  BY <1>1
<1>5. FramesKept(calls, funcNameStack)
  BY <1>1 DEF FramesKept
<1> HIDE DEF e
<1>6. QED
  BY <1>1, <1>2, <1>3, <1>4, <1>5, MainAssumption, OpenRefined

\* The report after a signal closes all brackets, none of them in progress.
LEMMA ReportRefined ==
  ASSUME IInv, ReportUnreturned
  PROVE  Brackets!Nested
<1>1. calls = <<>> /\ calls' = <<>> /\ funcNameStack' = <<>> /\ unpaired' = unpaired
  BY DEF IInv, FrameInv, ReportUnreturned
<1>2. LiveEntries = {} /\ LiveEntries' = {}
  BY <1>1 DEF LiveEntries
<1>3. Len(funcNameStack') = 0
  BY <1>1
<1>4. QED
  BY <1>1, <1>2, <1>3 DEF Brackets!Nested, Brackets!CloseAll

\* Steps that do not touch the stack leave all calls, some of them or none.
LEMMA LeftRefined ==
  ASSUME IInv,
         \/ \E depth \in 0..MaxFrames : Unwind(depth)
         \/ ExceptionEscapes \/ Signal \/ Exit \/ InvalidMain \/ Close
  PROVE  Brackets!Nested
<1>1. TypeOK /\ UNCHANGED <<funcNameStack, unpaired>>
  BY DEF IInv, Unwind, ExceptionEscapes, Signal, Exit, InvalidMain, Close, logVars
<1>2. calls \in Seq(Frame)
  BY <1>1 DEF TypeOK
<1>3. PICK n \in 0..Len(calls) : calls' = SubSeq(calls, 1, n)
  <2>1. CASE \E depth \in 0..MaxFrames : Unwind(depth)
    <3>1. PICK depth \in 0..MaxFrames : depth < Len(calls) /\ calls' = SubSeq(calls, 1, depth)
      BY <2>1 DEF Unwind
    <3>2. depth \in 0..Len(calls)
      BY <1>2, <3>1, BoundsAssumption
    <3>3. QED
      BY <3>1, <3>2
  <2>2. CASE ExceptionEscapes \/ Signal
    <3>1. calls' = <<>>
      BY <2>2 DEF ExceptionEscapes, Signal
    <3>2. 0 \in 0..Len(calls) /\ SubSeq(calls, 1, 0) = <<>>
      BY <1>2
    <3>3. QED
      BY <3>1, <3>2
  <2>3. CASE Exit \/ InvalidMain \/ Close
    <3>1. calls' = calls
      BY <2>3 DEF Exit, InvalidMain, Close
    <3>2. Len(calls) \in 0..Len(calls) /\ SubSeq(calls, 1, Len(calls)) = calls
      BY <1>2
    <3>3. QED
      BY <3>1, <3>2
  <2>4. QED
    BY <2>1, <2>2, <2>3
<1>4. QED
  BY <1>1, <1>3, AbandonedOnly

LEMMA StepRefined == IInv /\ [Next]_vars => [Brackets!Next]_(Brackets!vars)
<1> SUFFICES ASSUME IInv, [Next]_vars
             PROVE  Brackets!Next \/ UNCHANGED Brackets!vars
  OBVIOUS
<1>1. CASE \E f \in FuncNames : Call(f)
  BY <1>1, CallRefined DEF Brackets!Next
<1>2. CASE Return
  BY <1>2, ReturnRefined
<1>3. CASE \E depth \in 0..MaxFrames, f \in ReturnsTwice : SecondReturn(depth, f)
  BY <1>3, SecondReturnRefined
<1>4. CASE \/ \E depth \in 0..MaxFrames : Unwind(depth)
           \/ ExceptionEscapes \/ Signal \/ Exit \/ InvalidMain \/ Close
  BY <1>4, LeftRefined DEF Brackets!Next
<1>5. CASE StartMain
  BY <1>5, StartRefined DEF Brackets!Next
<1>6. CASE ReportUnreturned
  BY <1>6, ReportRefined DEF Brackets!Next
<1>7. CASE UNCHANGED vars
  BY <1>7 DEF vars, Brackets!vars, LiveEntries
<1>8. QED
  BY <1>1, <1>2, <1>3, <1>4, <1>5, <1>6, <1>7 DEF Next, Controller, Terminated

\* The lines of the log nest like brackets, and no line closes a call that is in
\* progress except the one that returns, whatever is abandoned on the way and however
\* earlier calls have returned again: the log functions of debuggerController.cpp
\* implement CallBrackets.
THEOREM LogNests == Spec => ImplementsBrackets
<1>1. Init => Brackets!Init
  BY DEF Init, Brackets!Init, LiveEntries
<1>2. QED
  BY <1>1, Invariance, StepRefined, PTL DEF Spec, ImplementsBrackets, Brackets!Spec

=============================================================================
