----------------------- MODULE PointerInferenceProofs -----------------------
(***************************************************************************)
(* Proofs about PointerInference for every module, with any values, uses   *)
(* and circles, and every limit on the depth.                              *)
(***************************************************************************)
EXTENDS PointerInference, SequenceTheorems, TLAPS

-----------------------------------------------------------------------------
(* The inductive invariant. *)

FrameSet == [val : Values, next : Nat \ {0}, best : Types]

\* A relation between values and types that the uses of the values keep: it has what
\* users show, and with an answer for the value a user leads to, what follows from it.
\* All that the search finds is in each such relation.
Keeps(G, v, u) ==
  /\ u.op = "typed" => <<v, u.type>> \in G
  /\ u.op = "called" => <<v, FPtr>> \in G
  /\ u.op \in {"ask", "call"} =>
       \A T \in Types : <<u.of, T>> \in G => \A S \in Shifted(T, u.shift) : <<v, S>> \in G
Sound(G) ==
  /\ \A v \in Values, T \in Types : IsVoid(T) => <<v, T>> \in G
  /\ \A v \in Values : \A k \in DOMAIN users[v] : Keeps(G, v, users[v][k])
Sounds == {G \in SUBSET (Values \X Types) : Sound(G)}

\* T is found by right for v.
Justified(v, T) == \A G \in Sounds : <<v, T>> \in G

FrameOK(fr) ==
  /\ fr \in FrameSet
  /\ fr.next \in 1..Len(users[fr.val]) + 1
  /\ fr.val \notin DOMAIN given
  /\ Justified(fr.val, fr.best)
  /\ IsVoid(fr.best) => \A k \in 1..fr.next - 1 : users[fr.val][k].op # "typed"

\* The frame is at a user that leads to w.
Waits(fr, w) ==
  /\ fr.next <= Len(users[fr.val])
  /\ users[fr.val][fr.next].op \in {"ask", "call"}
  /\ users[fr.val][fr.next].of = w

StackInv ==
  /\ stack \in Seq(FrameSet)
  /\ Len(stack) <= MaxDepth + 1
  /\ \A n \in 1..Len(stack) : FrameOK(stack[n])
  /\ \A n \in 1..Len(stack) - 1 : Waits(stack[n], stack[n + 1].val)

MemoryInv ==
  /\ DOMAIN determined \subseteq Values
  /\ \A v \in DOMAIN determined : determined[v] \in Types /\ Justified(v, determined[v])
  /\ LostOnlyByDepth

GivenInv ==
  /\ DOMAIN given \subseteq Values
  /\ AnswersStand

OtherInv == users \in Programs /\ visited \subseteq Functions /\ cut \subseteq Values

IInv == StackInv /\ MemoryInv /\ GivenInv /\ OtherInv

-----------------------------------------------------------------------------
(* Uses and types. *)

LEMMA UseFacts ==
  ASSUME users \in Programs, NEW v \in Values
  PROVE  /\ users[v] \in Seq(Uses)
         /\ Len(users[v]) \in Nat /\ DOMAIN users[v] = 1..Len(users[v])
         /\ \A k \in 1..Len(users[v]) :
              /\ users[v][k].op = "typed" => users[v][k].type \in Types
                                             /\ ~IsVoid(users[v][k].type)
              /\ users[v][k].op \in {"ask", "call"} => /\ users[v][k].of \in Values
                                                      /\ users[v][k].shift \in {-1, 0, 1}
              /\ users[v][k].op = "call" => users[v][k].caller \in Functions
<1>1. users[v] \in Seq(Uses)
  BY ProgramsAssumption
<1>2. Len(users[v]) \in Nat /\ DOMAIN users[v] = 1..Len(users[v])
  BY <1>1
<1>3. ASSUME NEW k \in 1..Len(users[v])
      PROVE  /\ users[v][k].op = "typed" => users[v][k].type \in Types
                                             /\ ~IsVoid(users[v][k].type)
             /\ users[v][k].op \in {"ask", "call"} => /\ users[v][k].of \in Values
                                                      /\ users[v][k].shift \in {-1, 0, 1}
             /\ users[v][k].op = "call" => users[v][k].caller \in Functions
  <2>1. users[v][k] \in Uses
    BY <1>1
  <2>2. users[v][k].op = "typed" =>
          users[v][k].type \in [base : Scalars, stars : {1}]
    BY <2>1 DEF Uses
  <2>3. \A T \in [base : Scalars, stars : {1}] : T \in Types /\ ~IsVoid(T)
    BY ScalarsAssumption DEF Types, IsVoid
  <2>4. users[v][k].op \in {"ask", "call"} => /\ users[v][k].of \in Values
                                              /\ users[v][k].shift \in {-1, 0, 1}
    BY <2>1 DEF Uses
  <2>5. users[v][k].op = "call" => users[v][k].caller \in Functions
    BY <2>1 DEF Uses
  <2>6. QED
    BY <2>2, <2>3, <2>4, <2>5
<1>4. QED
  BY <1>1, <1>2, <1>3

LEMMA TypeFacts ==
  /\ VoidPtr \in Types /\ IsVoid(VoidPtr)
  /\ FPtr \in Types /\ ~IsVoid(FPtr)
  /\ \A T \in Types, shift \in {-1, 0, 1} : Shifted(T, shift) \subseteq Types
<1>1. /\ VoidPtr \in Types /\ IsVoid(VoidPtr) /\ FPtr \in Types /\ ~IsVoid(FPtr)
  BY DEF VoidPtr, FPtr, Type, Types, IsVoid
<1>2. ASSUME NEW T \in Types, NEW shift \in {-1, 0, 1}, NEW S \in Shifted(T, shift)
      PROVE  S \in Types
  <2>1. CASE shift # -1
    BY <2>1, <1>2 DEF Shifted, Type, Types
  <2>2. CASE shift = -1
    BY <2>2, <1>1, <1>2 DEF Shifted, Type, Types
  <2>3. QED
    BY <2>1, <2>2
<1>3. QED
  BY <1>1, <1>2

\* What the location a pointer is stored in says of the pointer.
LEMMA ShiftedDown ==
  ASSUME NEW T, NEW shift, shift = -1, NEW S, S \in Shifted(T, shift)
  PROVE  S = VoidPtr \/ (T # VoidPtr /\ T.stars # 0 /\ S = Type(T.base, T.stars - 1))
<1>1. CASE T.stars = 0
  BY <1>1 DEF Shifted
<1>2. CASE T.stars # 0 /\ T = VoidPtr
  BY <1>2 DEF Shifted
<1>3. CASE T.stars # 0 /\ T # VoidPtr
  BY <1>3 DEF Shifted
<1>4. QED
  BY <1>1, <1>2, <1>3

\* A user that shows the type shows a pointer.
LEMMA UseShape ==
  ASSUME users \in Programs, NEW v \in Values, NEW k \in 1..Len(users[v]),
         users[v][k].op = "typed"
  PROVE  users[v][k].type \in Types /\ users[v][k].type.stars = 1
<1>1. users[v][k] \in Uses
  BY ProgramsAssumption, UseFacts
<1>2. users[v][k].type \in [base : Scalars, stars : {1}]
  BY <1>1 DEF Uses
<1>3. QED
  BY <1>2 DEF Types

\* What holds of the value a user leads to, shifted, holds of this one.
LEMMA ShiftedJustified ==
  ASSUME users \in Programs, NEW v \in Values, NEW k \in 1..Len(users[v]),
         users[v][k].op \in {"ask", "call"},
         NEW T \in Types, Justified(users[v][k].of, T)
  PROVE  /\ Shifted(T, users[v][k].shift) \subseteq Types
         /\ \A S \in Shifted(T, users[v][k].shift) : Justified(v, S)
<1>1. Shifted(T, users[v][k].shift) \subseteq Types
  BY UseFacts, TypeFacts
<1>2. ASSUME NEW S \in Shifted(T, users[v][k].shift), NEW G \in Sounds
      PROVE  <<v, S>> \in G
  <2>1. Keeps(G, v, users[v][k])
    BY UseFacts DEF Sounds, Sound
  <2>2. <<users[v][k].of, T>> \in G
    BY DEF Justified
  <2>3. QED
    BY <2>1, <2>2 DEF Keeps
<1>3. QED
  BY <1>1, <1>2 DEF Justified

\* The users of a value justify what they show.
LEMMA ShownJustified ==
  ASSUME users \in Programs, NEW v \in Values
  PROVE  /\ \A T \in Types : IsVoid(T) => Justified(v, T)
         /\ \A k \in 1..Len(users[v]) :
              /\ users[v][k].op = "typed" => Justified(v, users[v][k].type)
              /\ users[v][k].op = "called" => Justified(v, FPtr)
<1>1. DOMAIN users[v] = 1..Len(users[v])
  BY UseFacts
<1>2. QED
  BY <1>1 DEF Justified, Sounds, Sound, Keeps

\* The frame at the next user.
LEMMA NotedOK ==
  ASSUME users \in Programs, NEW fr, FrameOK(fr),
         fr.next <= Len(users[fr.val]),
         NEW P \in SUBSET Types,
         \A T \in P : Justified(fr.val, T),
         users[fr.val][fr.next].op = "typed" => \E T \in P : ~IsVoid(T)
  PROVE  /\ FrameOK(Noted(fr, P))
         /\ Noted(fr, P).val = fr.val
<1> DEFINE best == Better(fr.best, P)
<1>1. /\ fr \in FrameSet /\ fr.val \in Values /\ fr.next \in Nat \ {0} /\ fr.best \in Types
  BY DEF FrameOK, FrameSet
<1>2. /\ best \in Types /\ Justified(fr.val, best)
      /\ IsVoid(best) => IsVoid(fr.best) /\ ~ \E T \in P : ~IsVoid(T)
  <2>1. CASE IsVoid(fr.best) /\ \E T \in P : ~IsVoid(T)
    BY <2>1 DEF Better
  <2>2. CASE ~(IsVoid(fr.best) /\ \E T \in P : ~IsVoid(T))
    BY <2>2, <1>1 DEF Better, FrameOK
  <2>3. QED
    BY <2>1, <2>2
<1> HIDE DEF best
<1>3. Noted(fr, P) = [val |-> fr.val, next |-> fr.next + 1, best |-> best]
  BY DEF Noted, best
<1>4. Len(users[fr.val]) \in Nat
  BY <1>1, UseFacts
<1>5. IsVoid(best) => \A k \in 1..fr.next : users[fr.val][k].op # "typed"
  <2>1. ASSUME IsVoid(best), NEW k \in 1..fr.next
        PROVE  users[fr.val][k].op # "typed"
    <3>1. CASE k = fr.next
      BY <3>1, <2>1, <1>2
    <3>2. CASE k \in 1..fr.next - 1
      BY <3>2, <2>1, <1>2 DEF FrameOK
    <3>3. QED
      BY <3>1, <3>2, <1>1
  <2>2. QED
    BY <2>1
<1>6. /\ Noted(fr, P) \in FrameSet
      /\ Noted(fr, P).next \in 1..Len(users[fr.val]) + 1
      /\ fr.val \notin DOMAIN given
  BY <1>1, <1>2, <1>3, <1>4 DEF FrameOK, FrameSet
<1>7. QED
  BY <1>1, <1>2, <1>3, <1>5, <1>6 DEF FrameOK

\* The frame that is given an answer for the value it waits for.
LEMMA ToldOK ==
  ASSUME users \in Programs, NEW fr, FrameOK(fr), NEW w, Waits(fr, w),
         NEW T \in Types, Justified(w, T)
  PROVE  /\ FrameOK(Told(fr, T))
         /\ Told(fr, T).val = fr.val
<1> DEFINE u == users[fr.val][fr.next]
           P == Shifted(T, u.shift)
<1>1. fr.val \in Values /\ fr.next \in 1..Len(users[fr.val]) /\ fr.next <= Len(users[fr.val])
  BY UseFacts DEF FrameOK, FrameSet, Waits
<1>2. u.op \in {"ask", "call"} /\ u.of = w
  BY DEF Waits
<1>3. P \subseteq Types /\ \A S \in P : Justified(fr.val, S)
  BY <1>1, <1>2, ShiftedJustified
<1>4. u.op # "typed"
  BY <1>2
<1> HIDE DEF P
<1>5. FrameOK(Noted(fr, P)) /\ Noted(fr, P).val = fr.val
  BY <1>1, <1>3, <1>4, NotedOK
<1>6. QED
  BY <1>5 DEF Told, P

LEMMA FrameIsOK ==
  ASSUME users \in Programs, NEW v \in Values, v \notin DOMAIN given
  PROVE  FrameOK(Frame(v)) /\ Frame(v).val = v
<1>1. Len(users[v]) \in Nat
  BY UseFacts
<1>2. Justified(v, VoidPtr)
  BY TypeFacts, ShownJustified
<1>3. Frame(v) \in FrameSet
  BY TypeFacts DEF Frame, FrameSet
<1>4. QED
  BY <1>1, <1>2, <1>3 DEF Frame, FrameOK

-----------------------------------------------------------------------------
(* The steps. *)

LEMMA InitEstablishes == Init => IInv
<1>1. SUFFICES ASSUME Init PROVE IInv
  OBVIOUS
<1>2. StackInv
  BY <1>1, BoundsAssumption DEF Init, StackInv
<1>3. DOMAIN determined = {} /\ DOMAIN given = {}
  BY <1>1 DEF Init
<1>4. QED
  BY <1>1, <1>2, <1>3 DEF Init, IInv, MemoryInv, GivenInv, OtherInv, LostOnlyByDepth, AnswersStand

\* The innermost frame and the value it asks for.
LEMMA TopFacts ==
  ASSUME IInv, stack # <<>>
  PROVE  /\ Len(stack) \in 1..MaxDepth + 1 /\ stack \in Seq(FrameSet)
         /\ Top = stack[Len(stack)] /\ FrameOK(Top)
         /\ Top.val \in Values /\ Top.next \in Nat \ {0} /\ Top.best \in Types
         /\ Top.val \notin DOMAIN given
<1>1. /\ stack \in Seq(FrameSet) /\ Len(stack) <= MaxDepth + 1
      /\ \A n \in 1..Len(stack) : FrameOK(stack[n])
  BY DEF IInv, StackInv
<1>2. Len(stack) \in Nat /\ Len(stack) # 0
  BY <1>1
<1>3. Len(stack) \in 1..MaxDepth + 1 /\ Len(stack) \in 1..Len(stack)
  BY <1>1, <1>2, BoundsAssumption
<1>4. FrameOK(Top)
  BY <1>1, <1>3 DEF Top
<1>5. QED
  BY <1>1, <1>3, <1>4 DEF Top, FrameOK, FrameSet

LEMMA AskedFacts ==
  ASSUME IInv, Asks
  PROVE  /\ Waits(Top, Use.of) /\ Use.of \in Values
         /\ Top.next \in 1..Len(users[Top.val])
         /\ stack # <<>>
         /\ Use = users[Top.val][Top.next]
         /\ visited' \subseteq Functions
<1>1. stack # <<>> /\ Top.next <= Len(users[Top.val]) /\ Use.op \in {"ask", "call"}
  BY DEF Asks, AtUser
<1>2. Top.next \in 1..Len(users[Top.val])
  BY <1>1, TopFacts, UseFacts DEF IInv, OtherInv
<1>3. Use.of \in Values /\ (Use.op = "call" => Use.caller \in Functions)
  BY <1>1, <1>2, TopFacts, UseFacts DEF IInv, OtherInv, Use
<1>4. visited' \subseteq Functions
  BY <1>3 DEF Asks, AtUser, IInv, OtherInv
<1>5. QED
  BY <1>1, <1>2, <1>3, <1>4 DEF Waits, Use

\* What depends on users and given alone stays as it is with them.
LEMMA SameUsers ==
  ASSUME users' = users, given' = given
  PROVE  /\ \A m : FrameOK(stack[m])' <=> FrameOK(stack'[m])
         /\ \A m, k : Waits(stack[m], stack[k].val)' <=> Waits(stack'[m], stack'[k].val)
         /\ \A v : Justified(v, determined[v])' <=> Justified(v, determined'[v])
BY DEF FrameOK, Waits, Justified, Sounds, Sound, Keeps

LEMMA SameJustified ==
  ASSUME users' = users
  PROVE  \A v : Justified(v, determined[v])' <=> Justified(v, determined'[v])
BY DEF Justified, Sounds, Sound, Keeps

\* The innermost frame goes on to the next user, ...
LEMMA ReplaceKeeps ==
  ASSUME IInv, stack # <<>>, NEW fr, FrameOK(fr), fr.val = Top.val, ReplaceTop(fr),
         users' = users, given' = given
  PROVE  StackInv'
<1> DEFINE n == Len(stack)
<1>1. n \in 1..MaxDepth + 1 /\ stack \in Seq(FrameSet)
  BY TopFacts
<1>2. fr \in FrameSet
  BY DEF FrameOK
<1>3. stack' = [stack EXCEPT ![n] = fr]
  BY DEF ReplaceTop
<1>4. /\ stack' \in Seq(FrameSet) /\ Len(stack') = n
      /\ stack'[n] = fr
      /\ \A m \in 1..n - 1 : stack'[m] = stack[m]
  BY <1>1, <1>2, <1>3
<1>5. \A m \in 1..n : stack'[m].val = stack[m].val
  <2>1. \A m \in 1..n : m = n \/ m \in 1..n - 1
    BY <1>1
  <2>2. QED
    BY <2>1, <1>4 DEF Top
<1>6. \A m \in 1..n : FrameOK(stack'[m])
  <2>1. \A m \in 1..n : m = n \/ m \in 1..n - 1
    BY <1>1
  <2>2. QED
    BY <2>1, <1>4 DEF IInv, StackInv
<1>7. \A m \in 1..n - 1 : Waits(stack'[m], stack'[m + 1].val)
  <2>1. \A m \in 1..n - 1 : m + 1 \in 1..n
    BY <1>1
  <2>2. QED
    BY <2>1, <1>4, <1>5 DEF IInv, StackInv
<1>8. /\ \A m \in 1..n : FrameOK(stack[m])'
      /\ \A m \in 1..n - 1 : Waits(stack[m], stack[m + 1].val)'
  BY <1>6, <1>7, SameUsers
<1>9. QED
  BY <1>1, <1>4, <1>8 DEF StackInv

\* ... or calls attemptFindPointerType again.
LEMMA PushKeeps ==
  ASSUME IInv, Len(stack) <= MaxDepth, NEW w \in Values, w \notin DOMAIN given,
         stack # <<>> => Waits(Top, w),
         stack' = Append(stack, Frame(w)), users' = users, given' = given
  PROVE  StackInv'
<1> DEFINE n == Len(stack)
<1>1. stack \in Seq(FrameSet) /\ n \in Nat /\ n <= MaxDepth
  BY DEF IInv, StackInv
<1>2. FrameOK(Frame(w)) /\ Frame(w).val = w /\ Frame(w) \in FrameSet
  BY FrameIsOK DEF IInv, OtherInv, FrameOK
<1>3. /\ stack' \in Seq(FrameSet) /\ Len(stack') = n + 1
      /\ stack'[n + 1] = Frame(w)
      /\ \A m \in 1..n : stack'[m] = stack[m]
  BY <1>1, <1>2
<1>4. \A m \in 1..n + 1 : m = n + 1 \/ m \in 1..n
  BY <1>1
<1>5. \A m \in 1..n + 1 : FrameOK(stack'[m])
  BY <1>2, <1>3, <1>4 DEF IInv, StackInv
<1>6. ASSUME NEW m \in 1..n PROVE Waits(stack'[m], stack'[m + 1].val)
  <2>1. CASE m = n
    <3>1. stack # <<>> /\ Top = stack[m]
      BY <2>1, <1>6, <1>1 DEF Top
    <3>2. QED
      BY <2>1, <3>1, <1>2, <1>3
  <2>2. CASE m # n
    <3>1. m \in 1..n - 1 /\ m + 1 \in 1..n
      BY <2>2, <1>1
    <3>2. QED
      BY <3>1, <1>3 DEF IInv, StackInv
  <2>3. QED
    BY <2>1, <2>2
<1>7. /\ \A m \in 1..n + 1 : FrameOK(stack[m])'
      /\ \A m \in 1..n : Waits(stack[m], stack[m + 1].val)'
  BY <1>5, <1>6, SameUsers
<1>8. n + 1 <= MaxDepth + 1 /\ (n + 1) - 1 = n
  BY <1>1, BoundsAssumption
<1>9. QED
  BY <1>3, <1>7, <1>8 DEF StackInv

\* An answer is remembered.
LEMMA RememberKeeps ==
  ASSUME IInv, NEW w \in Values, NEW T \in Types, Justified(w, T),
         Dereferenced(w) /\ IsVoid(T) => w \in cut',
         cut \subseteq cut',
         determined' = With(determined, w, T), users' = users
  PROVE  MemoryInv'
<1>1. /\ DOMAIN determined' = DOMAIN determined \cup {w}
      /\ determined'[w] = T
      /\ \A z \in DOMAIN determined : z # w => determined'[z] = determined[z]
  BY DEF With
<1>2. \A v \in DOMAIN determined' : determined'[v] \in Types /\ Justified(v, determined'[v])
  BY <1>1 DEF IInv, MemoryInv
<1>3. \A v \in DOMAIN determined' : determined'[v] \in Types /\ Justified(v, determined[v])'
  BY <1>2, SameJustified
<1>4. \A v : Dereferenced(v)' <=> Dereferenced(v)
  BY DEF Dereferenced
<1>5. LostOnlyByDepth'
  BY <1>1, <1>4 DEF IInv, MemoryInv, LostOnlyByDepth
<1>6. DOMAIN determined' \subseteq Values
  BY <1>1 DEF IInv, MemoryInv
<1>7. QED
  BY <1>3, <1>5, <1>6 DEF MemoryInv

LEMMA MemorySame ==
  ASSUME IInv, determined' = determined, users' = users, cut' = cut
  PROVE  MemoryInv'
<1>1. \A v \in DOMAIN determined' : determined'[v] \in Types /\ Justified(v, determined[v])'
  BY SameJustified DEF IInv, MemoryInv
<1>2. LostOnlyByDepth'
  BY DEF IInv, MemoryInv, LostOnlyByDepth, Dereferenced
<1>3. QED
  BY <1>1, <1>2 DEF IInv, MemoryInv

LEMMA GivenSame ==
  ASSUME IInv, given' = given, determined' = determined
  PROVE  GivenInv'
BY DEF IInv, GivenInv, AnswersStand

\* What no pass was told of may be remembered anew.
LEMMA GivenKeeps ==
  ASSUME IInv, NEW w \in Values, w \notin DOMAIN given, NEW T,
         given' = given, determined' = With(determined, w, T)
  PROVE  GivenInv'
<1>1. \A v \in DOMAIN given : v # w
  OBVIOUS
<1>2. QED
  BY <1>1 DEF IInv, GivenInv, AnswersStand, With

LEMMA ReadTypeKeeps == IInv /\ ReadType => IInv'
<1>1. SUFFICES ASSUME IInv, ReadType PROVE IInv'
  OBVIOUS
<1>2. /\ stack # <<>> /\ Top.next <= Len(users[Top.val]) /\ Use.op = "typed"
      /\ ReplaceTop(Noted(Top, {Use.type}))
      /\ UNCHANGED <<users, visited, determined, given, cut>>
  BY <1>1 DEF ReadType, AtUser
<1>3. /\ Top.next \in 1..Len(users[Top.val]) /\ Use = users[Top.val][Top.next]
      /\ Top.val \in Values /\ FrameOK(Top)
  BY <1>1, <1>2, TopFacts, UseFacts DEF IInv, OtherInv, Use
<1>4. Use.type \in Types /\ ~IsVoid(Use.type) /\ Justified(Top.val, Use.type)
  BY <1>1, <1>2, <1>3, UseFacts, ShownJustified DEF IInv, OtherInv
<1>5. FrameOK(Noted(Top, {Use.type})) /\ Noted(Top, {Use.type}).val = Top.val
  <2>1. /\ {Use.type} \in SUBSET Types
        /\ \A T \in {Use.type} : Justified(Top.val, T)
        /\ \E T \in {Use.type} : ~IsVoid(T)
    BY <1>4
  <2>2. users \in Programs /\ FrameOK(Top) /\ Top.next <= Len(users[Top.val])
    BY <1>1, <1>2, <1>3 DEF IInv, OtherInv
  <2>3. QED
    BY <2>1, <2>2, NotedOK
<1>6. StackInv'
  BY <1>1, <1>2, <1>5, ReplaceKeeps
<1>7. QED
  BY <1>1, <1>2, <1>6, MemorySame, GivenSame DEF IInv, OtherInv

LEMMA SkipCallKeeps == IInv /\ SkipCall => IInv'
<1>1. SUFFICES ASSUME IInv, SkipCall PROVE IInv'
  OBVIOUS
<1>2. /\ stack # <<>> /\ Top.next <= Len(users[Top.val]) /\ Use.op = "call"
      /\ ReplaceTop(Noted(Top, {}))
      /\ UNCHANGED <<users, visited, determined, given, cut>>
  BY <1>1 DEF SkipCall, AtUser
<1>3. users[Top.val][Top.next].op # "typed" /\ FrameOK(Top) /\ users \in Programs
  BY <1>1, <1>2, TopFacts DEF Use, IInv, OtherInv
<1>4. FrameOK(Noted(Top, {})) /\ Noted(Top, {}).val = Top.val
  BY <1>2, <1>3, NotedOK
<1>5. StackInv'
  BY <1>1, <1>2, <1>4, ReplaceKeeps
<1>6. QED
  BY <1>1, <1>2, <1>5, MemorySame, GivenSame DEF IInv, OtherInv

LEMMA AskRememberedKeeps == IInv /\ AskRemembered => IInv'
<1>1. SUFFICES ASSUME IInv, AskRemembered PROVE IInv'
  OBVIOUS
<1>2. /\ Asks /\ Use.of \in DOMAIN determined
      /\ ReplaceTop(Told(Top, determined[Use.of]))
      /\ UNCHANGED <<users, determined, given, cut>>
  BY <1>1 DEF AskRemembered, Remembered
<1>3. Waits(Top, Use.of) /\ stack # <<>> /\ visited' \subseteq Functions
  BY <1>1, <1>2, AskedFacts
<1>4. determined[Use.of] \in Types /\ Justified(Use.of, determined[Use.of])
  BY <1>1, <1>2 DEF IInv, MemoryInv
<1>5. FrameOK(Top) /\ users \in Programs
  BY <1>1, <1>3, TopFacts DEF IInv, OtherInv
<1>6. FrameOK(Told(Top, determined[Use.of])) /\ Told(Top, determined[Use.of]).val = Top.val
  BY <1>3, <1>4, <1>5, ToldOK
<1>7. StackInv'
  BY <1>1, <1>2, <1>3, <1>6, ReplaceKeeps
<1>8. QED
  BY <1>1, <1>2, <1>3, <1>7, MemorySame, GivenSame DEF IInv, OtherInv

LEMMA AskDeeperKeeps == IInv /\ AskDeeper => IInv'
<1>1. SUFFICES ASSUME IInv, AskDeeper PROVE IInv'
  OBVIOUS
<1>2. /\ Asks /\ Use.of \notin DOMAIN determined /\ Len(stack) <= MaxDepth
      /\ stack' = Append(stack, Frame(Use.of))
      /\ UNCHANGED <<users, determined, given, cut>>
  BY <1>1 DEF AskDeeper, Remembered, NewFrame
<1>3. Waits(Top, Use.of) /\ Use.of \in Values /\ visited' \subseteq Functions
  BY <1>1, <1>2, AskedFacts
<1>4. Use.of \notin DOMAIN given
  BY <1>1, <1>2 DEF IInv, GivenInv, AnswersStand
<1>5. StackInv'
  BY <1>1, <1>2, <1>3, <1>4, PushKeeps
<1>6. QED
  BY <1>1, <1>2, <1>3, <1>5, MemorySame, GivenSame DEF IInv, OtherInv

LEMMA GiveUpKeeps == IInv /\ GiveUp => IInv'
<1>1. SUFFICES ASSUME IInv, GiveUp PROVE IInv'
  OBVIOUS
<1>2. /\ Asks /\ Use.of \notin DOMAIN determined
      /\ determined' = With(determined, Use.of, VoidPtr)
      /\ cut' = cut \cup {Use.of}
      /\ ReplaceTop(Told(Top, VoidPtr))
      /\ UNCHANGED <<users, given>>
  BY <1>1 DEF GiveUp, Remembered
<1>3. Waits(Top, Use.of) /\ Use.of \in Values /\ stack # <<>> /\ visited' \subseteq Functions
  BY <1>1, <1>2, AskedFacts
<1>4. VoidPtr \in Types /\ Justified(Use.of, VoidPtr)
  BY <1>1, <1>3, TypeFacts, ShownJustified DEF IInv, OtherInv
<1>5. FrameOK(Top) /\ users \in Programs
  BY <1>1, <1>3, TopFacts DEF IInv, OtherInv
<1>6. FrameOK(Told(Top, VoidPtr)) /\ Told(Top, VoidPtr).val = Top.val
  BY <1>3, <1>4, <1>5, ToldOK
<1>7. StackInv'
  BY <1>1, <1>2, <1>3, <1>6, ReplaceKeeps
<1>8. Use.of \notin DOMAIN given
  BY <1>1, <1>2 DEF IInv, GivenInv, AnswersStand
<1>9. cut \subseteq cut' /\ Use.of \in cut' /\ cut' \subseteq Values
  BY <1>1, <1>2, <1>3 DEF IInv, OtherInv
<1>10. MemoryInv'
  <2> DEFINE w == Use.of
  <2>1. w \in Values /\ Justified(w, VoidPtr) /\ VoidPtr \in Types
        /\ determined' = With(determined, w, VoidPtr) /\ cut \subseteq cut' /\ w \in cut'
        /\ users' = users
    BY <1>2, <1>3, <1>4, <1>9
  <2> HIDE DEF w
  <2>2. QED
    BY <1>1, <2>1, RememberKeeps
<1>11. GivenInv'
  BY <1>1, <1>2, <1>3, <1>8, GivenKeeps
<1>12. QED
  BY <1>1, <1>2, <1>3, <1>7, <1>9, <1>10, <1>11 DEF IInv, OtherInv

LEMMA FrontFacts ==
  ASSUME NEW S, NEW s \in Seq(S), s # <<>>
  PROVE  /\ Front(s) \in Seq(S) /\ Len(Front(s)) = Len(s) - 1
         /\ \A m \in 1..Len(s) - 1 : Front(s)[m] = s[m]
<1>1. PICK n \in Nat : n = Len(s) - 1
  OBVIOUS
<1>2. Front(s) = SubSeq(s, 1, n) /\ (1 <= n \/ n = 0)
  BY <1>1 DEF Front
<1>3. 1 \in Int /\ n \in Int /\ \A i \in 1..n : s[i] \in S
  BY <1>1
<1>4. /\ SubSeq(s, 1, n) \in Seq(S)
      /\ Len(SubSeq(s, 1, n)) = IF 1 <= n THEN n - 1 + 1 ELSE 0
      /\ \A i \in 1..n - 1 + 1 : SubSeq(s, 1, n)[i] = s[1 + i - 1]
  BY <1>3, SubSeqProperties
<1>5. n - 1 + 1 = n /\ \A i \in 1..n : 1 + i - 1 = i
  OBVIOUS
<1>6. QED
  BY <1>1, <1>2, <1>4, <1>5

\* A call of attemptFindPointerType that finds T returns it.
LEMMA ReturnKeeps ==
  ASSUME IInv, stack # <<>>, NEW T \in Types, Justified(Top.val, T),
         Dereferenced(Top.val) => ~IsVoid(T),
         Return(T), visited' \subseteq Functions
  PROVE  IInv'
<1> DEFINE w == Top.val
           outer == Front(stack)
<1>0. PICK n \in 1..MaxDepth + 1 : n = Len(stack)
  BY TopFacts
<1>1. /\ n \in 1..MaxDepth + 1 /\ stack \in Seq(FrameSet)
      /\ Top = stack[n] /\ w \in Values /\ w \notin DOMAIN given
  BY <1>0, TopFacts
<1>2. /\ determined' = With(determined, w, T) /\ users' = users /\ cut' = cut
  BY DEF Return
<1>3. MemoryInv'
  <2> HIDE DEF w
  <2>1. w \in Values /\ Justified(w, T) /\ (Dereferenced(w) /\ IsVoid(T) => w \in cut')
    BY <1>1 DEF w
  <2>2. QED
    BY <2>1, <1>2, RememberKeeps
<1>4. OtherInv'
  BY <1>2 DEF IInv, OtherInv
<1>5. /\ outer \in Seq(FrameSet) /\ Len(outer) = n - 1
      /\ \A m \in 1..n - 1 : outer[m] = stack[m]
  BY <1>0, <1>1, FrontFacts
<1>6. CASE n = 1
  <2>1. outer = <<>>
    BY <1>5, <1>6
  <2>2. stack' = <<>> /\ given' = With(given, w, T)
    BY <2>1 DEF Return
  <2>3. StackInv'
    BY <2>2, BoundsAssumption DEF StackInv
  <2>4. GivenInv'
    <3>1. DOMAIN given' \subseteq Values
      BY <2>2, <1>1 DEF With, IInv, GivenInv
    <3>2. AnswersStand'
      BY <2>2, <1>2 DEF With, IInv, GivenInv, AnswersStand
    <3>3. QED
      BY <3>1, <3>2 DEF GivenInv
  <2>5. QED
    BY <2>3, <2>4, <1>3, <1>4 DEF IInv
<1>7. CASE n # 1
  <2>0. PICK k \in 1..MaxDepth : k = n - 1
    BY <1>1, <1>7, BoundsAssumption
  <2> DEFINE fr == stack[k]
             told == Told(fr, T)
  <2>1. k \in 1..MaxDepth /\ k \in 1..n /\ k \in 1..n - 1 /\ k + 1 = n
    BY <2>0, <1>1, BoundsAssumption
  <2>2. outer # <<>> /\ Len(outer) = k /\ outer[Len(outer)] = fr
    BY <1>5, <2>1
  <2>3. stack' = [outer EXCEPT ![k] = told] /\ given' = given
    BY <2>2 DEF Return
  <2>4. FrameOK(fr) /\ Waits(fr, w)
    BY <2>1, <1>0, <1>1 DEF IInv, StackInv
  <2>5. FrameOK(told) /\ told.val = fr.val
    BY <2>4, ToldOK DEF IInv, OtherInv
  <2>6. told \in FrameSet
    BY <2>5 DEF FrameOK
  <2> HIDE DEF told
  <2>7. /\ stack' \in Seq(FrameSet) /\ Len(stack') = k
        /\ stack'[k] = told
        /\ \A m \in 1..k - 1 : stack'[m] = stack[m]
    <3>1. \A m \in 1..k - 1 : m \in 1..n - 1 /\ m # k
      BY <2>1, <1>1
    <3>2. QED
      BY <1>5, <2>1, <2>2, <2>3, <2>6, <3>1
  <2>8. \A m \in 1..k : m = k \/ m \in 1..k - 1
    BY <2>1
  <2>9. \A m \in 1..k : m \in 1..n /\ FrameOK(stack'[m]) /\ stack'[m].val = stack[m].val
    BY <2>1, <2>5, <2>7, <2>8, <1>0, <1>1 DEF IInv, StackInv
  <2>10. \A m \in 1..k - 1 : Waits(stack'[m], stack'[m + 1].val)
    <3>1. \A m \in 1..k - 1 : m \in 1..n - 1 /\ m + 1 \in 1..k
      BY <2>1, <1>1
    <3>2. QED
      BY <3>1, <2>7, <2>9, <1>0 DEF IInv, StackInv
  <2>11. /\ \A m \in 1..k : FrameOK(stack[m])'
         /\ \A m \in 1..k - 1 : Waits(stack[m], stack[m + 1].val)'
    BY <2>9, <2>10, <1>2, <2>3, SameUsers
  <2>12. StackInv'
    <3>1. k <= MaxDepth + 1
      BY <2>0, BoundsAssumption
    <3>2. QED
      BY <3>1, <2>7, <2>11 DEF StackInv
  <2>13. GivenInv'
    BY <1>1, <1>2, <2>3, GivenKeeps
  <2>14. QED
    BY <2>12, <2>13, <1>3, <1>4 DEF IInv
<1>8. QED
  BY <1>6, <1>7

LEMMA FoundFunctionKeeps == IInv /\ FoundFunction => IInv'
<1>1. SUFFICES ASSUME IInv, FoundFunction PROVE IInv'
  OBVIOUS
<1>2. /\ stack # <<>> /\ Top.next <= Len(users[Top.val]) /\ Use.op = "called"
      /\ Return(FPtr) /\ visited' = visited
  BY <1>1 DEF FoundFunction, AtUser
<1>3. Top.next \in 1..Len(users[Top.val]) /\ Top.val \in Values /\ users \in Programs
  BY <1>1, <1>2, TopFacts, UseFacts DEF IInv, OtherInv
<1>4. Justified(Top.val, FPtr) /\ FPtr \in Types /\ ~IsVoid(FPtr)
  BY <1>2, <1>3, ShownJustified, TypeFacts DEF Use
<1>5. visited' \subseteq Functions
  BY <1>1, <1>2 DEF IInv, OtherInv
<1>6. QED
  BY <1>1, <1>2, <1>4, <1>5, ReturnKeeps

LEMMA FinishKeeps == IInv /\ Finish => IInv'
<1>1. SUFFICES ASSUME IInv, Finish PROVE IInv'
  OBVIOUS
<1>2. /\ stack # <<>> /\ Top.next > Len(users[Top.val]) /\ Return(Top.best)
      /\ visited' \subseteq Functions
  BY <1>1 DEF Finish, IInv, OtherInv
<1>3. FrameOK(Top) /\ Top.val \in Values /\ users \in Programs
  BY <1>1, <1>2, TopFacts DEF IInv, OtherInv
<1>4. Top.best \in Types /\ Justified(Top.val, Top.best)
  BY <1>3 DEF FrameOK, FrameSet
<1>5. Dereferenced(Top.val) => ~IsVoid(Top.best)
  <2>1. /\ DOMAIN users[Top.val] = 1..Len(users[Top.val]) /\ Len(users[Top.val]) \in Nat
        /\ Top.next \in Nat
    BY <1>3, UseFacts DEF FrameOK, FrameSet
  <2>2. \A k \in 1..Len(users[Top.val]) : k \in 1..Top.next - 1
    BY <2>1, <1>2
  <2>3. QED
    BY <1>3, <2>1, <2>2 DEF FrameOK, Dereferenced
<1>6. QED
  BY <1>1, <1>2, <1>4, <1>5, ReturnKeeps

LEMMA AskKeeps ==
  ASSUME IInv, NEW v \in Values, Ask(v)
  PROVE  IInv'
<1>1. stack = <<>> /\ UNCHANGED <<users, visited, determined, cut>>
  BY DEF Ask
<1>2. CASE v \in DOMAIN determined
  <2>1. given' = With(given, v, determined[v]) /\ stack' = stack
    BY <1>2 DEF Ask, Remembered
  <2>2. StackInv'
    BY <1>1, <2>1, BoundsAssumption DEF StackInv
  <2>3. GivenInv'
    <3>1. DOMAIN given' \subseteq Values
      BY <2>1 DEF With, IInv, GivenInv
    <3>2. AnswersStand'
      BY <1>1, <1>2, <2>1 DEF With, IInv, GivenInv, AnswersStand
    <3>3. QED
      BY <3>1, <3>2 DEF GivenInv
  <2>4. QED
    BY <1>1, <2>2, <2>3, MemorySame DEF IInv, OtherInv
<1>3. CASE v \notin DOMAIN determined
  <2>1. given' = given /\ stack' = <<Frame(v)>>
    BY <1>3 DEF Ask, Remembered
  <2>2. v \notin DOMAIN given
    BY <1>3 DEF IInv, GivenInv, AnswersStand
  <2>3. StackInv'
    <3>1. stack' = Append(stack, Frame(v)) /\ Len(stack) <= MaxDepth
      BY <1>1, <2>1, BoundsAssumption
    <3>2. QED
      BY <1>1, <2>1, <2>2, <3>1, PushKeeps
  <2>4. QED
    BY <1>1, <2>1, <2>3, MemorySame, GivenSame DEF IInv, OtherInv
<1>4. QED
  BY <1>2, <1>3

LEMMA StutterKeeps == IInv /\ UNCHANGED vars => IInv'
<1>1. SUFFICES ASSUME IInv, UNCHANGED vars PROVE IInv'
  OBVIOUS
<1>2. users' = users /\ stack' = stack /\ given' = given /\ determined' = determined
      /\ cut' = cut /\ visited' = visited
  BY <1>1 DEF vars
<1>3. StackInv'
  BY <1>1, <1>2, SameUsers DEF IInv, StackInv
<1>4. QED
  BY <1>1, <1>2, <1>3, MemorySame, GivenSame DEF IInv, OtherInv

LEMMA NextKeeps == IInv /\ [Next]_vars => IInv'
BY ReadTypeKeeps, SkipCallKeeps, AskRememberedKeeps, AskDeeperKeeps, GiveUpKeeps,
   FoundFunctionKeeps, FinishKeeps, AskKeeps, StutterKeeps DEF Next, Search

LEMMA Invariance == Spec => []IInv
<1>1. IInv /\ [Next]_vars => IInv'
  BY NextKeeps
<1>2. QED
  BY InitEstablishes, <1>1, PTL DEF Spec

-----------------------------------------------------------------------------
(* The theorems. *)

\* What is in the memory is in every relation that the uses keep.
LEMMA FoundIsSound ==
  ASSUME IInv, NEW G \in SUBSET (Values \X Types), Sound(G), NEW v \in DOMAIN determined
  PROVE  <<v, determined[v]>> \in G
BY DEF IInv, MemoryInv, Justified, Sounds

\* The types the search writes are types, and its calls are no deeper than the limit.
THEOREM TypeCorrect == Spec => []TypeOK
<1>1. IInv => TypeOK
  <2>1. SUFFICES ASSUME IInv PROVE TypeOK
    OBVIOUS
  <2>2. stack \in Seq(FrameSet) /\ DOMAIN stack = 1..Len(stack)
    BY <2>1 DEF IInv, StackInv
  <2>3. \A n \in DOMAIN stack : /\ stack[n].val \in Values
                                /\ stack[n].next \in 1..Len(users[stack[n].val]) + 1
                                /\ stack[n].best \in Types
    BY <2>1, <2>2 DEF IInv, StackInv, FrameOK, FrameSet
  <2>4. DOMAIN determined \subseteq Values /\ \A v \in DOMAIN determined : determined[v] \in Types
    BY <2>1 DEF IInv, MemoryInv
  <2>5. DOMAIN given \subseteq Values /\ \A v \in DOMAIN given : given[v] \in Types
    BY <2>1, <2>4 DEF IInv, GivenInv, AnswersStand
  <2>6. QED
    BY <2>1, <2>3, <2>4, <2>5 DEF TypeOK, IInv, StackInv, OtherInv
<1>2. QED
  BY Invariance, <1>1, PTL

\* What a pass was told of a value stays what the memory says of it.
THEOREM ToldOnce == Spec => []AnswersStand
<1>1. IInv => AnswersStand
  BY DEF IInv, GivenInv
<1>2. QED
  BY Invariance, <1>1, PTL

\* A dereferenced pointer is taken for void* only where a search was given up.
THEOREM LostAtTheLimitOnly == Spec => []LostOnlyByDepth
<1>1. IInv => LostOnlyByDepth
  BY DEF IInv, MemoryInv
<1>2. QED
  BY Invariance, <1>1, PTL

\* The indirections that a leveling gives are kept by the uses, and so are those of the
\* types found.
LEMMA LevelsAreSound ==
  ASSUME users \in Programs, NEW lev \in [Values -> 0..MaxLevel], IsLeveling(lev)
  PROVE  Sound({p \in Values \X Types : IsVoid(p[2]) \/ p[2].stars = lev[p[1]]})
<1> DEFINE Right(v, T) == IsVoid(T) \/ T.stars = lev[v]
           G == {p \in Values \X Types : IsVoid(p[2]) \/ p[2].stars = lev[p[1]]}
<1>1. \A v \in Values, T \in Types : <<v, T>> \in G <=> Right(v, T)
  OBVIOUS
<1> HIDE DEF G
<1>2. ASSUME NEW v \in Values, NEW k \in DOMAIN users[v]
      PROVE  Keeps(G, v, users[v][k])
  <2> DEFINE u == users[v][k]
  <2>1. k \in 1..Len(users[v]) /\ Agrees(lev, v, u)
    BY <1>2, UseFacts DEF IsLeveling
  <2>2. u.op = "typed" => <<v, u.type>> \in G
    <3>1. SUFFICES ASSUME u.op = "typed" PROVE <<v, u.type>> \in G
      OBVIOUS
    <3>2. lev[v] = 1
      BY <2>1, <3>1 DEF Agrees
    <3>3. u.type \in Types /\ u.type.stars = 1
      BY <2>1, <3>1, UseShape
    <3>4. QED
      BY <1>1, <3>2, <3>3
  <2>3. u.op = "called" => <<v, FPtr>> \in G
    BY <2>1, <1>1, TypeFacts DEF Agrees, FPtr, Type
  <2>4. ASSUME u.op \in {"ask", "call"}, NEW T \in Types, <<u.of, T>> \in G,
               NEW S \in Shifted(T, u.shift)
        PROVE  <<v, S>> \in G
    <3>1. u.of \in Values /\ u.shift \in {-1, 0, 1}
      BY <2>1, <2>4, UseFacts
    <3>2. S \in Types
      BY <2>4, <3>1, TypeFacts
    <3>3. lev[v] = lev[u.of] + u.shift
      BY <2>1, <2>4 DEF Agrees
    <3>4. Right(u.of, T)
      BY <1>1, <2>4, <3>1
    <3>5. T.stars \in Nat /\ lev[v] \in Nat /\ lev[u.of] \in Nat
      BY <3>1, BoundsAssumption DEF Types
    <3>6. Right(v, S)
      <4> HIDE DEF u
      <4>1. CASE u.shift # -1
        <5>1. S = Type(T.base, T.stars + u.shift)
          BY <2>4, <4>1 DEF Shifted
        <5>2. QED
          BY <5>1, <4>1, <3>1, <3>3, <3>4, <3>5 DEF Type, IsVoid
      <4>2. CASE u.shift = -1
        <5>1. S = VoidPtr \/ (T # VoidPtr /\ T.stars # 0 /\ S = Type(T.base, T.stars - 1))
          BY <2>4, <4>2, ShiftedDown
        <5>2. CASE S = VoidPtr
          BY <5>2, TypeFacts
        <5>3. CASE T # VoidPtr /\ T.stars # 0 /\ S = Type(T.base, T.stars - 1)
          <6>1. IsVoid(T) => T.stars # 1
            BY <5>3 DEF IsVoid, VoidPtr, Type, Types
          <6>2. QED
            BY <5>3, <6>1, <4>2, <3>3, <3>4, <3>5 DEF Type, IsVoid
        <5>4. QED
          BY <5>1, <5>2, <5>3
      <4>3. QED
        BY <4>1, <4>2
    <3>7. QED
      BY <1>1, <3>2, <3>6
  <2>5. QED
    BY <2>2, <2>3, <2>4 DEF Keeps
<1>3. \A v \in Values, T \in Types : IsVoid(T) => <<v, T>> \in G
  BY <1>1
<1>4. Sound(G)
  BY <1>2, <1>3 DEF Sound
<1>5. QED
  BY <1>4 DEF G

\* In a module whose uses agree, each type found has the right number of stars.
THEOREM LevelsRight == Spec => []LevelsFound
<1>1. ASSUME IInv PROVE LevelsFound
  <2>1. SUFFICES ASSUME NEW lev \in [Values -> 0..MaxLevel], IsLeveling(lev),
                        NEW v \in DOMAIN determined
                 PROVE  IsVoid(determined[v]) \/ determined[v].stars = lev[v]
    BY DEF LevelsFound
  <2> DEFINE G == {p \in Values \X Types : IsVoid(p[2]) \/ p[2].stars = lev[p[1]]}
  <2>2. Sound(G)
    BY <1>1, <2>1, LevelsAreSound DEF IInv, OtherInv
  <2>3. G \in SUBSET (Values \X Types)
    OBVIOUS
  <2> HIDE DEF G
  <2>4. <<v, determined[v]>> \in G
    BY <1>1, <2>2, <2>3, FoundIsSound
  <2>5. QED
    BY <2>4 DEF G
<1>2. QED
  BY Invariance, <1>1, PTL

\* What the values of a set show, that no use leads out of, is kept by the uses.
LEMMA EvidenceIsSound ==
  ASSUME users \in Programs, NEW S \in SUBSET Values, ~LeadsOutOf(S)
  PROVE  Sound({p \in Values \X Types : \/ p[1] \notin S \/ IsVoid(p[2])
                                        \/ \E w \in S : p[2].base \in Shown(w)})
<1> DEFINE Right(v, T) == v \notin S \/ IsVoid(T) \/ \E w \in S : T.base \in Shown(w)
           G == {p \in Values \X Types : \/ p[1] \notin S \/ IsVoid(p[2])
                                         \/ \E w \in S : p[2].base \in Shown(w)}
<1>1. \A v \in Values, T \in Types : <<v, T>> \in G <=> Right(v, T)
  OBVIOUS
<1> HIDE DEF G
<1>2. ASSUME NEW v \in Values, NEW k \in DOMAIN users[v]
      PROVE  Keeps(G, v, users[v][k])
  <2> DEFINE u == users[v][k]
  <2>1. k \in 1..Len(users[v])
    BY <1>2, UseFacts
  <2>2. u.op = "typed" => <<v, u.type>> \in G
    <3>1. SUFFICES ASSUME u.op = "typed" PROVE <<v, u.type>> \in G
      OBVIOUS
    <3>2. u.type \in Types
      BY <2>1, <3>1, UseFacts
    <3>3. u.type.base \in Shown(v)
      BY <1>2, <3>1 DEF Shown
    <3>4. QED
      BY <1>1, <3>2, <3>3
  <2>3. u.op = "called" => <<v, FPtr>> \in G
    <3>1. SUFFICES ASSUME u.op = "called" PROVE <<v, FPtr>> \in G
      OBVIOUS
    <3>2. "f_ptr" \in Shown(v)
      BY <1>2, <3>1 DEF Shown
    <3>3. FPtr \in Types /\ FPtr.base = "f_ptr"
      BY TypeFacts DEF FPtr, Type
    <3>4. QED
      BY <1>1, <3>2, <3>3
  <2>4. ASSUME u.op \in {"ask", "call"}, NEW T \in Types, <<u.of, T>> \in G,
               NEW R \in Shifted(T, u.shift)
        PROVE  <<v, R>> \in G
    <3>1. u.of \in Values /\ u.shift \in {-1, 0, 1}
      BY <2>1, <2>4, UseFacts
    <3>2. R \in Types
      BY <2>4, <3>1, TypeFacts
    <3>3. v \in S => u.of \in S
      BY <1>2, <2>4 DEF LeadsOutOf
    <3>4. Right(u.of, T)
      BY <1>1, <2>4, <3>1
    <3>5. IsVoid(R) \/ (R.base = T.base /\ ~IsVoid(T))
      <4> HIDE DEF u
      <4>1. CASE u.shift # -1
        <5>1. R = Type(T.base, T.stars + u.shift)
          BY <2>4, <4>1 DEF Shifted
        <5>2. T.stars \in Nat
          BY DEF Types
        <5>3. QED
          BY <5>1, <5>2, <4>1, <3>1 DEF Type, IsVoid
      <4>2. CASE u.shift = -1
        <5>1. R = VoidPtr \/ (T # VoidPtr /\ T.stars # 0 /\ R = Type(T.base, T.stars - 1))
          BY <2>4, <4>2, ShiftedDown
        <5>2. CASE R = VoidPtr
          BY <5>2, TypeFacts
        <5>3. CASE T # VoidPtr /\ T.stars # 0 /\ R = Type(T.base, T.stars - 1)
          <6>1. IsVoid(T) => T.stars # 1
            BY <5>3 DEF IsVoid, VoidPtr, Type, Types
          <6>2. T.stars \in Nat
            BY DEF Types
          <6>3. QED
            BY <5>3, <6>1, <6>2 DEF Type, IsVoid
        <5>4. QED
          BY <5>1, <5>2, <5>3
      <4>3. QED
        BY <4>1, <4>2
    <3>6. Right(v, R)
      BY <3>3, <3>4, <3>5
    <3>7. QED
      BY <1>1, <3>2, <3>6
  <2>5. QED
    BY <2>2, <2>3, <2>4 DEF Keeps
<1>3. \A v \in Values, T \in Types : IsVoid(T) => <<v, T>> \in G
  BY <1>1
<1>4. Sound(G)
  BY <1>2, <1>3 DEF Sound
<1>5. QED
  BY <1>4 DEF G

\* Each type found is shown by an instruction that the value's uses lead to.
THEOREM EvidenceReached == Spec => []EvidenceIsReached
<1>1. ASSUME IInv PROVE EvidenceIsReached
  <2>1. SUFFICES ASSUME NEW S \in SUBSET Values, ~LeadsOutOf(S),
                        NEW v \in S \cap DOMAIN determined
                 PROVE  IsVoid(determined[v]) \/ \E w \in S : determined[v].base \in Shown(w)
    BY DEF EvidenceIsReached
  <2> DEFINE G == {p \in Values \X Types : \/ p[1] \notin S \/ IsVoid(p[2])
                                           \/ \E w \in S : p[2].base \in Shown(w)}
  <2>2. Sound(G)
    BY <1>1, <2>1, EvidenceIsSound DEF IInv, OtherInv
  <2>3. G \in SUBSET (Values \X Types)
    OBVIOUS
  <2> HIDE DEF G
  <2>4. <<v, determined[v]>> \in G
    BY <1>1, <2>1, <2>2, <2>3, FoundIsSound
  <2>5. QED
    BY <2>1, <2>4 DEF G
<1>2. QED
  BY Invariance, <1>1, PTL
=============================================================================
