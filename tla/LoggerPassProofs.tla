-------------------------- MODULE LoggerPassProofs --------------------------
(***************************************************************************)
(* Proofs about LoggerPass for every module: what the passes do to it,     *)
(* where its run can get, and what the log shows on the way.               *)
(***************************************************************************)
EXTENDS LoggerPass, FiniteSetTheorems, TLAPS

-----------------------------------------------------------------------------
(* Sequences. *)

LEMMA SeqMonotone ==
  ASSUME NEW S, NEW T, S \subseteq T
  PROVE  Seq(S) \subseteq Seq(T)
OBVIOUS

LEMMA ConcatFacts ==
  ASSUME NEW S, NEW s \in Seq(S), NEW t \in Seq(S)
  PROVE  /\ s \o t \in Seq(S)
         /\ Len(s \o t) = Len(s) + Len(t)
         /\ \A i \in 1..Len(s) : (s \o t)[i] = s[i]
         /\ \A i \in 1..Len(t) : (s \o t)[Len(s) + i] = t[i]
OBVIOUS

LEMMA ConcatThree ==
  ASSUME NEW S, NEW s \in Seq(S), NEW t \in Seq(S), NEW u \in Seq(S)
  PROVE  /\ s \o t \o u \in Seq(S)
         /\ Len(s \o t \o u) = Len(s) + Len(t) + Len(u)
         /\ \A i \in 1..Len(s) : (s \o t \o u)[i] = s[i]
         /\ \A i \in 1..Len(t) : (s \o t \o u)[Len(s) + i] = t[i]
         /\ \A i \in 1..Len(u) : (s \o t \o u)[Len(s) + Len(t) + i] = u[i]
OBVIOUS

LEMMA InOneOfThree ==
  ASSUME NEW S, NEW s \in Seq(S), NEW t \in Seq(S), NEW u \in Seq(S), NEW all, all = s \o t \o u
  PROVE  /\ all \in Seq(S)
         /\ Len(all) = Len(s) + Len(t) + Len(u)
         /\ \A i \in 1..Len(s) : all[i] = s[i]
         /\ \A i \in 1..Len(t) : all[Len(s) + i] = t[i]
         /\ \A i \in 1..Len(u) : all[Len(s) + Len(t) + i] = u[i]
BY ConcatThree

LEMMA AppendFacts ==
  ASSUME NEW S, NEW s \in Seq(S), NEW e \in S
  PROVE  /\ Append(s, e) \in Seq(S)
         /\ Len(Append(s, e)) = Len(s) + 1
         /\ \A i \in 1..Len(s) : Append(s, e)[i] = s[i]
         /\ Append(s, e)[Len(s) + 1] = e
OBVIOUS

LEMMA PrefixFacts ==
  ASSUME NEW S, NEW s \in Seq(S), NEW n \in 0..Len(s)
  PROVE  /\ SubSeq(s, 1, n) \in Seq(S)
         /\ Len(SubSeq(s, 1, n)) = n
         /\ \A i \in 1..n : SubSeq(s, 1, n)[i] = s[i]
OBVIOUS

LEMMA FrontTyped ==
  ASSUME NEW S, NEW s \in Seq(S)
  PROVE  Front(s) \in Seq(S)
BY DEF Front

LEMMA ReplaceFacts ==
  ASSUME NEW S, NEW s \in Seq(S), NEW i \in 1..Len(s), NEW e \in S
  PROVE  /\ [s EXCEPT ![i] = e] \in Seq(S)
         /\ Len([s EXCEPT ![i] = e]) = Len(s)
         /\ [s EXCEPT ![i] = e][i] = e
         /\ \A j \in 1..Len(s) : j # i => [s EXCEPT ![i] = e][j] = s[j]
OBVIOUS

LEMMA InSequences ==
  ASSUME NEW S, NEW e \in S
  PROVE  <<<<e>>>> \in Seq(Seq(S))
<1>1. <<e>> \in Seq(S)
  OBVIOUS
<1>2. QED
  BY <1>1

\* What a larger module has room for.
LEMMA SetsGrow ==
  ASSUME NEW n \in Nat, NEW k \in Nat, n <= k
  PROVE  /\ Instructions(n) \subseteq Instructions(k)
         /\ FunctionSet(n) \subseteq FunctionSet(k)
<1>1. 1..n \subseteq 1..k
  OBVIOUS
<1>2. Seq(1..n) \subseteq Seq(1..k)
  BY <1>1, SeqMonotone
<1>3. Instructions(n) \subseteq Instructions(k)
  BY <1>1, <1>2 DEF Instructions
<1>4. Seq(Instructions(n)) \subseteq Seq(Instructions(k))
  BY <1>3, SeqMonotone
<1>5. Seq(Seq(Instructions(n))) \subseteq Seq(Seq(Instructions(k)))
  BY <1>4, SeqMonotone
<1>6. FunctionSet(n) \subseteq FunctionSet(k)
  BY <1>5 DEF FunctionSet
<1>7. QED
  BY <1>3, <1>6

LEMMA FunctionFields ==
  ASSUME NEW n, NEW F \in FunctionSet(n)
  PROVE  /\ F.name \in FuncNames /\ F.wrapper \in BOOLEAN /\ F.variadic \in BOOLEAN
         /\ F.blocks \in Seq(Seq(Instructions(n)))
BY DEF FunctionSet

-----------------------------------------------------------------------------
(* The inductive invariant. *)

ModuleInv ==
  /\ module \in Seq(FunctionSet(Len(module)))
  /\ Len(module) <= MaxFunctions
  /\ phase \in {"librarify", "logger", "running", "closing", "signalled"}
  /\ phase = "librarify" => at \in 1..Len(module) + 1
  /\ phase # "librarify" => at \in 0..Len(module)

\* The uses Logger still has to look at are in the module: what it inserts moves the
\* instructions of a block, but takes none away.
InPlace(c) ==
  /\ c.in \in Funcs
  /\ c.block \in DOMAIN module[c.in].blocks
  /\ \E n \in DOMAIN Code(c.in, c.block) : Code(c.in, c.block)[n] = c.call
TodoInv ==
  /\ todo # {} => phase = "logger" /\ at \in Funcs
  /\ \A u \in todo : InPlace(u.place)

\* A pointer is that of a wrapper, which Logger does not change.
Leads(r) ==
  \E f \in Funcs :
    /\ Renamed(mangled[r]) = module[f].name /\ ~module[f].wrapper
    /\ module[pointers[r]].wrapper
    /\ module[pointers[r]].blocks = <<<<Call("call", 1, f, TRUE, <<>>)>>>>
RowsInv ==
  /\ mangled \in Seq(FuncNames) /\ pointers \in Seq(0..Len(module))
  /\ Len(pointers) = Len(mangled)
  /\ \A r \in 1..Len(pointers) : pointers[r] # 0 => Leads(r)

\* Main has a row with a pointer, or Librarify has yet to come to it.
MainInv ==
  /\ \A f \in Funcs : module[f].name = Main => ~module[f].variadic
  /\ \A r \in 1..Len(mangled) : mangled[r] = Main => pointers[r] # 0
  /\ \/ \E r \in 1..Len(mangled) : mangled[r] = Main
     \/ /\ phase = "librarify"
        /\ \E f \in at..Len(module) : module[f].name = Main /\ ~module[f].wrapper

FrameSet ==
  [func : Funcs, block : Nat, next : Nat \ {0},
   open : Seq([func : FuncNames, slot : Nat])]

\* A frame is in one of its function's blocks, if there are any.
InBlock(frame) ==
  LET blocks == module[frame.func].blocks
  IN  blocks = <<>> \/ frame.block \in DOMAIN blocks
FramesInv ==
  /\ frames \in Seq(FrameSet)
  /\ (phase = "running") <=> (frames # <<>>)
  /\ \A k \in 1..Len(frames) : InBlock(frames[k])
  /\ log \in Seq(FuncNames)

IInv == ModuleInv /\ TodoInv /\ RowsInv /\ MainInv /\ FramesInv

LEMMA FuncsAre ==
  ASSUME ModuleInv
  PROVE  /\ Len(module) \in Nat /\ Funcs = 1..Len(module)
         /\ \A f \in Funcs : module[f] \in FunctionSet(Len(module))
BY DEF ModuleInv, Funcs

LEMMA InitEstablishes == Init => IInv
<1> SUFFICES ASSUME Init PROVE IInv
  OBVIOUS
<1> USE DEF Init
<1>1. /\ module \in Seq(FunctionSet(Len(module)))
      /\ \E f \in DOMAIN module : module[f].name = Main /\ ~module[f].wrapper /\ ~module[f].variadic
      /\ \A f, g \in DOMAIN module : module[f].name = module[g].name => f = g
  BY TargetsAssumption
<1>2. Len(module) \in Nat /\ DOMAIN module = 1..Len(module)
  BY <1>1
<1>3. Len(module) <= MaxFunctions
  BY TargetsAssumption
<1>4. ModuleInv
  BY <1>1, <1>2, <1>3 DEF ModuleInv
<1>5. TodoInv
  BY DEF TodoInv
<1>6. RowsInv
  BY DEF RowsInv
<1>7. MainInv
  BY <1>1, <1>2 DEF MainInv, Funcs
<1>8. FramesInv
  BY DEF FramesInv
<1>9. QED
  BY <1>4, <1>5, <1>6, <1>7, <1>8 DEF IInv

-----------------------------------------------------------------------------
(* The passes. *)

\* The row of a function, and the wrapper at the end of the module if it gets one.
LEMMA FunctionWrapped ==
  ASSUME ModuleInv, LibrarifyFunction, IsWrapped(at),
         mangled \in Seq(FuncNames), pointers \in Seq(0..Len(module)), at \in Funcs
  PROVE  LET n == Len(module)
             F == module[at]
         IN  /\ n \in Nat
             /\ Len(module') = (IF F.variadic THEN n ELSE n + 1)
             /\ Len(module') <= MaxFunctions
             /\ module' \in Seq(FunctionSet(Len(module')))
             /\ \A f \in 1..n : f # at => module'[f] = module[f]
             /\ module'[at] = [F EXCEPT !.name = Renamed(@)]
             /\ ~F.variadic =>
                  /\ module'[n + 1].name = Renamed(F.name)
                  /\ module'[n + 1].wrapper /\ ~module'[n + 1].variadic
                  /\ module'[n + 1].blocks = <<<<Call("call", 1, at, TRUE, <<>>)>>>>
             /\ mangled' = Append(mangled, F.name)
             /\ pointers' = Append(pointers, IF F.variadic THEN 0 ELSE n + 1)
<1> DEFINE n == Len(module)
           F == module[at]
           F1 == [F EXCEPT !.name = Renamed(@)]
           mod1 == [module EXCEPT ![at] = F1]
           W == Func(Renamed(F.name), TRUE, FALSE, <<<<Call("call", 1, at, TRUE, <<>>)>>>>)
<1>1. /\ Len(module) < MaxFunctions
      /\ mangled' = Append(mangled, F.name)
      /\ pointers' = pointers \o PointerOf(at)
      /\ module' = mod1 \o WrapperOf(at)
  BY DEF LibrarifyFunction
<1>2. /\ n \in Nat /\ at \in 1..n /\ module \in Seq(FunctionSet(n))
      /\ n + 1 <= MaxFunctions
  BY <1>1, FuncsAre, BoundsAssumption DEF ModuleInv
<1>3. F \in FunctionSet(n)
  BY <1>2
<1>4. /\ Renamed(F.name) \in FuncNames /\ F1 \in FunctionSet(n)
  BY <1>3, NamesAssumption DEF FunctionSet, Renamed
<1> HIDE DEF n, F, F1
<1>5. /\ mod1 \in Seq(FunctionSet(n)) /\ Len(mod1) = n /\ mod1[at] = F1
      /\ \A f \in 1..n : f # at => mod1[f] = module[f]
  BY <1>2, <1>4 DEF n
<1> HIDE DEF mod1
<1>6. CASE F.variadic
  <2>1. WrapperOf(at) = <<>> /\ PointerOf(at) = <<0>>
    BY <1>6 DEF WrapperOf, PointerOf, F
  <2>2. module' = mod1
    BY <1>1, <1>5, <2>1
  <2>3. pointers' = Append(pointers, 0)
    BY <1>1, <2>1
  <2>4. module'[at] = [F EXCEPT !.name = Renamed(@)]
    BY <1>5, <2>2 DEF F1
  <2>5. Len(module') = n /\ n <= MaxFunctions
    BY <1>2, <1>5, <2>2, BoundsAssumption
  <2>6. QED
    BY <1>1, <1>2, <1>5, <1>6, <2>2, <2>3, <2>4, <2>5 DEF F, n
<1>7. CASE ~F.variadic
  <2>1. WrapperOf(at) = <<W>> /\ PointerOf(at) = <<n + 1>>
    BY <1>7 DEF WrapperOf, PointerOf, F, n
  <2>2. W \in FunctionSet(n + 1)
    <3>1. Call("call", 1, at, TRUE, <<>>) \in Instructions(n + 1)
      BY <1>2 DEF Call, Instructions
    <3>2. <<<<Call("call", 1, at, TRUE, <<>>)>>>> \in Seq(Seq(Instructions(n + 1)))
      BY <3>1, InSequences
    <3>3. QED
      BY <1>4, <3>2 DEF Func, FunctionSet
  <2>8. /\ W.name = Renamed(F.name) /\ W.wrapper /\ ~W.variadic
        /\ W.blocks = <<<<Call("call", 1, at, TRUE, <<>>)>>>>
    BY DEF Func
  <2> HIDE DEF W
  <2>3. mod1 \in Seq(FunctionSet(n + 1))
    <3>1. FunctionSet(n) \subseteq FunctionSet(n + 1)
      BY <1>2, SetsGrow
    <3>2. QED
      BY <1>5, <3>1, SeqMonotone
  <2>4. module' = Append(mod1, W)
    BY <1>1, <2>1, <2>2, <2>3
  <2>5. /\ Len(module') = n + 1 /\ module'[n + 1] = W /\ module' \in Seq(FunctionSet(n + 1))
        /\ \A f \in 1..n : module'[f] = mod1[f]
    BY <1>5, <2>2, <2>3, <2>4, AppendFacts
  <2>6. pointers' = Append(pointers, n + 1)
    BY <1>1, <2>1
  <2>7. QED
    <3>1. /\ Len(module') = n + 1 /\ n + 1 <= MaxFunctions
          /\ module'[at] = [F EXCEPT !.name = Renamed(@)]
          /\ \A f \in 1..n : f # at => module'[f] = module[f]
      BY <1>2, <1>5, <2>5 DEF F1
    <3>2. QED
      BY <1>1, <1>2, <1>7, <2>5, <2>6, <2>8, <3>1 DEF F, n
<1>8. QED
  BY <1>6, <1>7

LEMMA RenamedTwice ==
  ASSUME NEW x
  PROVE  Renamed(Renamed(x)) = Renamed(x)
BY DEF Renamed

LEMMA LibrarifyFunctionKeeps ==
  ASSUME IInv, LibrarifyFunction
  PROVE  IInv'
<1>1. /\ ModuleInv /\ TodoInv /\ RowsInv /\ MainInv /\ FramesInv
      /\ phase = "librarify" /\ phase' = phase /\ at' = at + 1 /\ at <= Len(module)
      /\ UNCHANGED <<todo, frames, log>>
  BY DEF IInv, LibrarifyFunction, running
<1>2. at \in Funcs /\ Len(module) \in Nat /\ Funcs = 1..Len(module)
  BY <1>1, FuncsAre DEF ModuleInv
<1>3. todo = {} /\ frames = <<>> /\ log \in Seq(FuncNames)
  BY <1>1 DEF TodoInv, FramesInv
<1>4. TodoInv' /\ FramesInv'
  BY <1>1, <1>3 DEF TodoInv, FramesInv
<1>5. CASE ~IsWrapped(at)
  <2>1. UNCHANGED <<module, mangled, pointers>> /\ module[at].wrapper
    BY <1>5 DEF LibrarifyFunction, tables, IsWrapped
  <2>2. ModuleInv'
    BY <1>1, <1>2, <2>1 DEF ModuleInv
  <2>3. RowsInv'
    BY <1>1, <2>1 DEF RowsInv, Leads, Funcs
  <2>4. MainInv'
    BY <1>1, <1>2, <2>1 DEF MainInv, Funcs
  <2>5. QED
    BY <1>4, <2>2, <2>3, <2>4 DEF IInv
<1>6. CASE IsWrapped(at)
  <2> DEFINE n == Len(module)
             F == module[at]
             p == IF F.variadic THEN 0 ELSE n + 1
             R == Len(mangled)
  <2>1. /\ mangled \in Seq(FuncNames) /\ pointers \in Seq(0..n) /\ Len(pointers) = R /\ R \in Nat
    BY <1>1 DEF RowsInv
  <2>2. /\ Len(module') = (IF F.variadic THEN n ELSE n + 1)
        /\ Len(module') <= MaxFunctions
        /\ module' \in Seq(FunctionSet(Len(module')))
        /\ \A f \in 1..n : f # at => module'[f] = module[f]
        /\ module'[at] = [F EXCEPT !.name = Renamed(@)]
        /\ ~F.variadic =>
             /\ module'[n + 1].name = Renamed(F.name)
             /\ module'[n + 1].wrapper /\ ~module'[n + 1].variadic
             /\ module'[n + 1].blocks = <<<<Call("call", 1, at, TRUE, <<>>)>>>>
        /\ mangled' = Append(mangled, F.name)
        /\ pointers' = Append(pointers, p)
    BY <1>1, <1>2, <1>6, <2>1, FunctionWrapped
  <2>3. F \in FunctionSet(n) /\ ~F.wrapper
    BY <1>1, <1>2, <1>6, FuncsAre DEF IsWrapped
  <2>4. /\ module'[at].name = Renamed(F.name) /\ module'[at].wrapper = F.wrapper
        /\ module'[at].variadic = F.variadic /\ F.name \in FuncNames /\ F.variadic \in BOOLEAN
    BY <2>2, <2>3 DEF FunctionSet
  <2>5. n <= Len(module') /\ Len(module') \in Nat /\ p \in 0..Len(module')
    BY <1>2, <2>2
  <2>6. /\ Len(mangled') = R + 1 /\ mangled' \in Seq(FuncNames)
        /\ \A r \in 1..R : mangled'[r] = mangled[r]
        /\ mangled'[R + 1] = F.name
    BY <2>1, <2>2, <2>4, AppendFacts
  <2>7. /\ Len(pointers') = R + 1 /\ pointers' \in Seq(0..Len(module'))
        /\ \A r \in 1..R : pointers'[r] = pointers[r]
        /\ pointers'[R + 1] = p
    <3>1. 0..n \subseteq 0..Len(module')
      BY <1>2, <2>5
    <3>2. pointers \in Seq(0..Len(module'))
      BY <2>1, <3>1, SeqMonotone
    <3>3. QED
      BY <2>1, <2>2, <2>5, <3>2, AppendFacts
  <2>8. Funcs' = 1..Len(module')
    BY <2>2, <2>5 DEF Funcs
  <2>9. ASSUME ~F.variadic
        PROVE  /\ module'[n + 1].name = Renamed(F.name)
               /\ module'[n + 1].wrapper /\ ~module'[n + 1].variadic
               /\ module'[n + 1].blocks = <<<<Call("call", 1, at, TRUE, <<>>)>>>>
    BY <2>2, <2>9
  <2> HIDE DEF F, p, R
  <2>10. ModuleInv'
    BY <1>1, <1>2, <2>2, <2>5 DEF ModuleInv
  <2>11. RowsInv'
    <3>1. ASSUME NEW r \in 1..R, pointers[r] # 0
          PROVE  Leads(r)'
      <4>1. PICK f \in Funcs :
              /\ Renamed(mangled[r]) = module[f].name /\ ~module[f].wrapper
              /\ module[pointers[r]].wrapper
              /\ module[pointers[r]].blocks = <<<<Call("call", 1, f, TRUE, <<>>)>>>>
        BY <1>1, <2>1, <3>1 DEF RowsInv, Leads
      <4>2. pointers[r] \in 1..n /\ pointers[r] # at
        BY <2>1, <2>3, <3>1, <4>1 DEF F
      <4>3. module'[pointers[r]] = module[pointers[r]]
        BY <2>2, <4>2
      <4>4. f \in Funcs' /\ Renamed(mangled[r]) = module'[f].name /\ ~module'[f].wrapper
        <5>1. CASE f = at
          BY <1>2, <2>3, <2>4, <2>5, <2>8, <4>1, <5>1, RenamedTwice DEF F
        <5>2. CASE f # at
          BY <1>2, <2>2, <2>5, <2>8, <4>1, <5>2
        <5>3. QED
          BY <5>1, <5>2
      <4>5. QED
        BY <2>6, <2>7, <4>1, <4>3, <4>4 DEF Leads
    <3>2. ASSUME NEW r \in 1..Len(pointers'), r = R + 1, p # 0
          PROVE  Leads(r)'
      <4>1. p = n + 1 /\ ~F.variadic
        BY <3>2 DEF p
      <4> HIDE DEF n
      <4>2. at \in Funcs' /\ Renamed(F.name) = module'[at].name /\ ~module'[at].wrapper
        BY <1>2, <2>3, <2>4, <2>5, <2>8 DEF n
      <4>3. mangled'[r] = F.name /\ pointers'[r] = n + 1
        BY <2>6, <2>7, <3>2, <4>1
      <4>4. /\ module'[pointers'[r]].wrapper
            /\ module'[pointers'[r]].blocks = <<<<Call("call", 1, at, TRUE, <<>>)>>>>
        BY <2>9, <4>1, <4>3 DEF n
      <4>5. QED
        BY <4>2, <4>3, <4>4 DEF Leads
    <3>3. ASSUME NEW r \in 1..Len(pointers'), pointers'[r] # 0
          PROVE  Leads(r)'
      <4>1. r \in 1..R \/ r = R + 1
        BY <2>1, <2>7
      <4>2. QED
        BY <2>7, <3>1, <3>2, <3>3, <4>1
    <3>4. QED
      BY <2>6, <2>7, <3>3 DEF RowsInv
  <2>12. MainInv'
    <3>1. ASSUME NEW f \in Funcs', module'[f].name = Main
          PROVE  ~module'[f].variadic
      <4>1. CASE f = at
        <5>1. F.name = Main
          BY <2>4, <3>1, <4>1 DEF Renamed
        <5>2. QED
          BY <1>1, <1>2, <2>4, <4>1, <5>1 DEF MainInv, F
      <4>2. CASE f \in 1..n /\ f # at
        BY <1>1, <1>2, <2>2, <3>1, <4>2 DEF MainInv
      <4>3. CASE f = n + 1 /\ ~F.variadic
        BY <2>9, <4>3
      <4>4. QED
        BY <1>2, <2>2, <2>8, <4>1, <4>2, <4>3
    <3>2. ASSUME NEW r \in 1..Len(mangled'), mangled'[r] = Main
          PROVE  pointers'[r] # 0
      <4>1. CASE r \in 1..R
        BY <1>1, <2>6, <2>7, <3>2, <4>1 DEF MainInv, R
      <4>2. CASE r = R + 1
        <5>1. ~F.variadic
          BY <1>1, <1>2, <2>6, <3>2, <4>2 DEF MainInv, F
        <5>2. QED
          BY <1>2, <2>7, <4>2, <5>1 DEF p
      <4>3. QED
        BY <2>1, <2>6, <4>1, <4>2
    <3>3. \/ \E r \in 1..Len(mangled') : mangled'[r] = Main
          \/ \E f \in at + 1..Len(module') : module'[f].name = Main /\ ~module'[f].wrapper
      <4>1. CASE \E r \in 1..R : mangled[r] = Main
        BY <2>1, <2>6, <4>1
      <4>2. CASE \E f \in at..n : module[f].name = Main /\ ~module[f].wrapper
        <5>1. PICK f \in at..n : module[f].name = Main /\ ~module[f].wrapper
          BY <4>2
        <5>2. CASE f = at
          BY <2>1, <2>6, <5>1, <5>2 DEF F
        <5>3. CASE f # at
          BY <1>2, <2>2, <2>5, <5>1, <5>3
        <5>4. QED
          BY <5>2, <5>3
      <4>3. QED
        BY <1>1, <4>1, <4>2 DEF MainInv, R
    <3>4. QED
      BY <1>1, <3>1, <3>2, <3>3 DEF MainInv
  <2>13. QED
    BY <1>4, <2>10, <2>11, <2>12 DEF IInv
<1>7. QED
  BY <1>5, <1>6

LEMMA StartLoggerKeeps ==
  ASSUME IInv, StartLogger
  PROVE  IInv'
<1>1. /\ ModuleInv /\ TodoInv /\ RowsInv /\ MainInv /\ FramesInv
      /\ phase = "librarify" /\ phase' = "logger" /\ at' = 0 /\ at > Len(module)
      /\ UNCHANGED <<module, todo, mangled, pointers, frames, log>>
  BY DEF IInv, StartLogger, tables, running
<1>2. Len(module) \in Nat /\ at \in 1..Len(module) + 1
  BY <1>1, FuncsAre DEF ModuleInv
<1>3. ModuleInv'
  BY <1>1, <1>2 DEF ModuleInv
<1>4. TodoInv'
  BY <1>1 DEF TodoInv
<1>5. RowsInv'
  BY <1>1 DEF RowsInv, Leads, Funcs
<1>6. MainInv'
  BY <1>1, <1>2 DEF MainInv, Funcs
<1>7. FramesInv'
  BY <1>1 DEF FramesInv
<1>8. QED
  BY <1>3, <1>4, <1>5, <1>6, <1>7 DEF IInv

\* What is a use of a function lies in the module.
LEMMA UsersInPlace ==
  ASSUME NEW f, NEW u \in Users(f)
  PROVE  InPlace(u.place)
<1>1. PICK c \in UNION {CallsIn(g) : g \in Funcs} : u.place = c
  BY DEF Users
<1>2. PICK g \in Funcs : c \in CallsIn(g)
  BY <1>1
<1>3. PICK b \in DOMAIN module[g].blocks :
        \E i \in Range(Code(g, b)) : c = [in |-> g, block |-> b, call |-> i]
  BY <1>2 DEF CallsIn
<1> PICK i \in Range(Code(g, b)) : c = [in |-> g, block |-> b, call |-> i]
  BY <1>3
<1>4. c.in = g /\ c.block = b /\ c.call = i
  OBVIOUS
<1>5. \E n \in DOMAIN Code(g, b) : Code(g, b)[n] = i
  BY DEF Range
<1>6. QED
  BY <1>1, <1>2, <1>3, <1>4, <1>5 DEF InPlace

LEMMA LoggerFunctionKeeps ==
  ASSUME IInv, LoggerFunction
  PROVE  IInv'
<1>1. /\ ModuleInv /\ RowsInv /\ MainInv /\ FramesInv
      /\ phase = "logger" /\ at < Len(module) /\ at' = at + 1
      /\ todo' = {} \/ todo' = Users(at + 1)
      /\ UNCHANGED <<phase, module, mangled, pointers, frames, log>>
  BY DEF IInv, LoggerFunction, tables, running
<1>2. Len(module) \in Nat /\ at \in 0..Len(module) /\ Funcs = 1..Len(module)
  BY <1>1, FuncsAre DEF ModuleInv
<1>3. ModuleInv'
  BY <1>1, <1>2 DEF ModuleInv
<1>4. TodoInv'
  <2>1. at' \in Funcs'
    BY <1>1, <1>2 DEF Funcs
  <2>2. ASSUME NEW u \in todo'
        PROVE  InPlace(u.place)'
    <3>1. InPlace(u.place)
      BY <1>1, <2>2, UsersInPlace
    <3>2. QED
      BY <1>1, <3>1 DEF InPlace, Funcs, Code
  <2>3. QED
    BY <1>1, <2>1, <2>2 DEF TodoInv
<1>5. RowsInv'
  BY <1>1 DEF RowsInv, Leads, Funcs
<1>6. MainInv'
  BY <1>1 DEF MainInv, Funcs
<1>7. FramesInv'
  BY <1>1 DEF FramesInv
<1>8. QED
  BY <1>3, <1>4, <1>5, <1>6, <1>7 DEF IInv

LEMMA SliceFacts ==
  ASSUME NEW S, NEW s \in Seq(S), NEW k \in 1..Len(s)
  PROVE  /\ SubSeq(s, 1, k - 1) \in Seq(S)
         /\ Len(SubSeq(s, 1, k - 1)) = k - 1
         /\ \A i \in 1..k-1 : SubSeq(s, 1, k - 1)[i] = s[i]
         /\ SubSeq(s, k + 1, Len(s)) \in Seq(S)
         /\ Len(SubSeq(s, k + 1, Len(s))) = Len(s) - k
         /\ \A i \in 1..Len(s)-k : SubSeq(s, k + 1, Len(s))[i] = s[k + i]
OBVIOUS

\* What Logger inserts, and where the instructions of the block are then.
LEMMA BracketedAt ==
  ASSUME NEW S, NEW code \in Seq(S), NEW k \in 1..Len(code), NEW name,
         Enter(name) \in S, Leave(name) \in S,
         NEW longer, longer = Bracketed(code, k, name)
  PROVE  /\ longer \in Seq(S) /\ Len(longer) = Len(code) + 2
         /\ \A n \in 1..k-1 : longer[n] = code[n]
         /\ longer[k] = Enter(name) /\ longer[k + 1] = code[k] /\ longer[k + 2] = Leave(name)
         /\ \A n \in k+1..Len(code) : longer[n + 2] = code[n]
<1>1. PICK before : before = SubSeq(code, 1, k - 1)
  OBVIOUS
<1>2. PICK middle : middle = <<Enter(name), code[k], Leave(name)>>
  OBVIOUS
<1>3. PICK behind : behind = SubSeq(code, k + 1, Len(code))
  OBVIOUS
<1>4. PICK all : all = before \o middle \o behind
  OBVIOUS
<1>5. longer = all
  BY <1>1, <1>2, <1>3, <1>4 DEF Bracketed
<1>6. /\ before \in Seq(S) /\ Len(before) = k - 1
      /\ \A i \in 1..k-1 : before[i] = code[i]
      /\ behind \in Seq(S) /\ Len(behind) = Len(code) - k
      /\ \A i \in 1..Len(code)-k : behind[i] = code[k + i]
  BY <1>1, <1>3, SliceFacts
<1>7. /\ middle \in Seq(S) /\ Len(middle) = 3
      /\ middle[1] = Enter(name) /\ middle[2] = code[k] /\ middle[3] = Leave(name)
  BY <1>2
<1>8. /\ all \in Seq(S)
      /\ Len(all) = Len(before) + Len(middle) + Len(behind)
      /\ \A i \in 1..Len(before) : all[i] = before[i]
      /\ \A i \in 1..Len(middle) : all[Len(before) + i] = middle[i]
      /\ \A i \in 1..Len(behind) : all[Len(before) + Len(middle) + i] = behind[i]
  <2>1. before \in Seq(S) /\ middle \in Seq(S) /\ behind \in Seq(S)
    BY <1>6, <1>7
  <2>2. QED
    BY ONLY <1>4, <2>1, InOneOfThree
<1>9. Len(code) \in Nat /\ k \in 1..Len(code)
  OBVIOUS
<1>10. Len(before) + Len(middle) = k + 2 /\ Len(all) = Len(code) + 2
  BY ONLY <1>6, <1>7, <1>8, <1>9
<1>11. \A n \in 1..k-1 : all[n] = code[n]
  BY ONLY <1>6, <1>8, <1>9
<1>12. all[k] = Enter(name) /\ all[k + 1] = code[k] /\ all[k + 2] = Leave(name)
  <2>1. \A i \in 1..3 : all[k - 1 + i] = middle[i]
    BY ONLY <1>6, <1>7, <1>8
  <2>2. all[k - 1 + 1] = middle[1] /\ all[k - 1 + 2] = middle[2] /\ all[k - 1 + 3] = middle[3]
    BY ONLY <2>1
  <2>3. k - 1 + 1 = k /\ k - 1 + 2 = k + 1 /\ k - 1 + 3 = k + 2
    BY ONLY <1>9
  <2>4. QED
    BY ONLY <1>7, <2>2, <2>3
<1>13. ASSUME NEW n \in k+1..Len(code)
       PROVE  all[n + 2] = code[n]
  <2>1. /\ n - k \in 1..Len(code)-k /\ k + 2 + (n - k) = n + 2 /\ k + (n - k) = n
    BY ONLY <1>9, <1>13
  <2>2. all[k + 2 + (n - k)] = behind[n - k] /\ behind[n - k] = code[k + (n - k)]
    BY ONLY <1>6, <1>8, <1>10, <2>1
  <2>3. QED
    BY ONLY <2>1, <2>2
<1>14. QED
  BY ONLY <1>5, <1>8, <1>10, <1>11, <1>12, <1>13

\* The instructions of the block are moved and none is lost.
LEMMA BracketedFacts ==
  ASSUME NEW S, NEW code \in Seq(S), NEW k \in 1..Len(code), NEW name,
         Enter(name) \in S, Leave(name) \in S
  PROVE  /\ Bracketed(code, k, name) \in Seq(S)
         /\ \A n \in DOMAIN code :
              \E m \in DOMAIN Bracketed(code, k, name) : Bracketed(code, k, name)[m] = code[n]
<1>1. PICK longer : longer = Bracketed(code, k, name)
  OBVIOUS
<1>2. /\ longer \in Seq(S) /\ Len(longer) = Len(code) + 2
      /\ \A n \in 1..k-1 : longer[n] = code[n]
      /\ longer[k + 1] = code[k]
      /\ \A n \in k+1..Len(code) : longer[n + 2] = code[n]
  BY <1>1, BracketedAt
<1>3. /\ Len(code) \in Nat /\ k \in 1..Len(code)
      /\ DOMAIN code = 1..Len(code) /\ DOMAIN longer = 1..Len(code) + 2
  BY <1>2
<1>4. ASSUME NEW n \in 1..Len(code)
      PROVE  \E m \in 1..Len(code) + 2 : longer[m] = code[n]
  <2>1. CASE n < k
    BY ONLY <1>2, <1>3, <1>4, <2>1
  <2>2. CASE n = k
    <3>1. k + 1 \in 1..Len(code) + 2
      BY ONLY <1>3
    <3>2. QED
      BY ONLY <1>2, <2>2, <3>1
  <2>3. CASE n > k
    <3>1. n \in k+1..Len(code) /\ n + 2 \in 1..Len(code) + 2
      BY ONLY <1>3, <1>4, <2>3
    <3>2. QED
      BY ONLY <1>2, <3>1
  <2>4. QED
    BY ONLY <1>3, <1>4, <2>1, <2>2, <2>3
<1>5. QED
  BY ONLY <1>1, <1>2, <1>3, <1>4

\* A logged use: its block is bracketed, and that is all that changes in the module.
LEMMA CallLogged ==
  ASSUME ModuleInv, NEW c, InPlace(c), NEW f \in Funcs, LogCall(f, c)
  PROVE  /\ module' \in Seq(FunctionSet(Len(module))) /\ Len(module') = Len(module)
         /\ \A g \in Funcs : g # c.in => module'[g] = module[g]
         /\ \A g \in Funcs : /\ module'[g].name = module[g].name
                             /\ module'[g].wrapper = module[g].wrapper
                             /\ module'[g].variadic = module[g].variadic
         /\ \A d : InPlace(d) => InPlace(d)'
         /\ DOMAIN module'[c.in].blocks = DOMAIN module[c.in].blocks
         /\ \A d \in DOMAIN module[c.in].blocks :
              d # c.block => module'[c.in].blocks[d] = module[c.in].blocks[d]
         /\ LET code == module[c.in].blocks[c.block]
            IN  \E k \in 1..Len(code) :
                  /\ code[k] = c.call
                  /\ module'[c.in].blocks[c.block] = Bracketed(code, k, module[f].name)
<1> PICK n : n = Len(module)
  OBVIOUS
<1>1. /\ n \in Nat /\ Funcs = 1..n /\ module \in Seq(FunctionSet(n))
      /\ c.in \in 1..n /\ module[c.in] \in FunctionSet(n) /\ module[f].name \in FuncNames
  <2>1. n \in Nat /\ Funcs = 1..n /\ \A g \in Funcs : module[g] \in FunctionSet(n)
    BY FuncsAre
  <2>2. module \in Seq(FunctionSet(n))
    BY DEF ModuleInv
  <2>3. module[f].name \in FuncNames
    BY <2>1, FunctionFields
  <2>4. QED
    BY <2>1, <2>2, <2>3 DEF InPlace
<1> PICK G : G = module[c.in]
  OBVIOUS
<1> PICK b : b = c.block
  OBVIOUS
<1> PICK code : code = G.blocks[b]
  OBVIOUS
<1>2. /\ G.blocks \in Seq(Seq(Instructions(n))) /\ b \in 1..Len(G.blocks)
      /\ code \in Seq(Instructions(n)) /\ code = Code(c.in, b)
  <2>1. G.blocks \in Seq(Seq(Instructions(n)))
    BY <1>1, FunctionFields
  <2>2. b \in DOMAIN G.blocks
    BY DEF InPlace
  <2>3. QED
    BY <2>1, <2>2 DEF Code
<1> PICK k : k = CHOOSE i \in DOMAIN code : code[i] = c.call
  OBVIOUS
<1>3. k \in 1..Len(code) /\ code[k] = c.call
  <2>1. \E i \in DOMAIN code : code[i] = c.call
    BY <1>2 DEF InPlace
  <2>2. k \in DOMAIN code /\ code[k] = c.call
    BY <2>1
  <2>3. QED
    BY <1>2, <2>2
<1> PICK longer : longer = Bracketed(code, k, module[f].name)
  OBVIOUS
<1>4. /\ longer \in Seq(Instructions(n))
      /\ \A i \in DOMAIN code : \E m \in DOMAIN longer : longer[m] = code[i]
  <2>1. /\ Enter(module[f].name) \in Instructions(n) /\ Leave(module[f].name) \in Instructions(n)
    BY <1>1 DEF Enter, Leave, Instructions
  <2>2. QED
    BY ONLY <1>2, <1>3, <2>1, BracketedFacts, longer = Bracketed(code, k, module[f].name)
<1>5. module' = [module EXCEPT ![c.in].blocks[c.block] = longer]
  BY <1>2 DEF LogCall
<1> PICK H : H = [G EXCEPT !.blocks = [G.blocks EXCEPT ![b] = longer]]
  OBVIOUS
<1>6. module' = [module EXCEPT ![c.in] = H]
  BY ONLY <1>5, G = module[c.in], b = c.block,
          H = [G EXCEPT !.blocks = [G.blocks EXCEPT ![b] = longer]]
<1>7. /\ [G.blocks EXCEPT ![b] = longer] \in Seq(Seq(Instructions(n)))
      /\ Len([G.blocks EXCEPT ![b] = longer]) = Len(G.blocks)
      /\ [G.blocks EXCEPT ![b] = longer][b] = longer
      /\ \A d \in 1..Len(G.blocks) : d # b => [G.blocks EXCEPT ![b] = longer][d] = G.blocks[d]
  BY ONLY <1>2, <1>4, ReplaceFacts
<1>8. /\ H \in FunctionSet(n) /\ H.name = G.name /\ H.wrapper = G.wrapper /\ H.variadic = G.variadic
      /\ H.blocks = [G.blocks EXCEPT ![b] = longer]
  <2>1. G \in FunctionSet(n)
    BY <1>1
  <2>2. QED
    BY ONLY <1>7, <2>1, H = [G EXCEPT !.blocks = [G.blocks EXCEPT ![b] = longer]] DEF FunctionSet
<1>9. /\ module' \in Seq(FunctionSet(n)) /\ Len(module') = n /\ module'[c.in] = H
      /\ \A g \in 1..n : g # c.in => module'[g] = module[g]
  BY ONLY <1>1, <1>6, <1>8, ReplaceFacts, n = Len(module)
<1>10. \A g \in Funcs : /\ module'[g].name = module[g].name
                        /\ module'[g].wrapper = module[g].wrapper
                        /\ module'[g].variadic = module[g].variadic
  BY ONLY <1>1, <1>8, <1>9, G = module[c.in]
<1>11. ASSUME NEW d, InPlace(d)
       PROVE  InPlace(d)'
  <2>1. d.in \in 1..n /\ d.in \in Funcs' /\ d.in \in DOMAIN module'
    BY ONLY <1>1, <1>9, <1>11 DEF InPlace, Funcs
  <2>2. CASE d.in # c.in
    <3>1. module'[d.in] = module[d.in]
      BY <1>9, <2>1, <2>2
    <3>2. QED
      BY ONLY <1>11, <2>1, <3>1 DEF InPlace, Code
  <2>3. CASE d.in = c.in
    <3>1. /\ d.block \in DOMAIN G.blocks
          /\ \E i \in DOMAIN G.blocks[d.block] : G.blocks[d.block][i] = d.call
      BY ONLY <1>11, <2>3, G = module[c.in] DEF InPlace, Code
    <3>2. module'[d.in].blocks = H.blocks /\ DOMAIN H.blocks = DOMAIN G.blocks
      BY ONLY <1>2, <1>7, <1>8, <1>9, <2>3
    <3>3. \E i \in DOMAIN H.blocks[d.block] : H.blocks[d.block][i] = d.call
      <4>1. CASE d.block = b
        <5>1. H.blocks[d.block] = longer
          BY ONLY <1>7, <1>8, <4>1
        <5>2. PICK i \in DOMAIN code : code[i] = d.call
          BY ONLY <3>1, <4>1, code = G.blocks[b]
        <5>3. QED
          BY ONLY <1>4, <5>1, <5>2
      <4>2. CASE d.block # b
        <5>1. H.blocks[d.block] = G.blocks[d.block]
          BY ONLY <1>2, <1>7, <1>8, <3>1, <4>2
        <5>2. QED
          BY <3>1, <5>1
      <4>3. QED
        BY <4>1, <4>2
    <3>4. QED
      BY ONLY <2>1, <3>1, <3>2, <3>3 DEF InPlace, Code
  <2>4. QED
    BY <2>2, <2>3
<1>12. /\ DOMAIN module'[c.in].blocks = DOMAIN module[c.in].blocks
       /\ \A d \in DOMAIN module[c.in].blocks :
            d # c.block => module'[c.in].blocks[d] = module[c.in].blocks[d]
  <2>1. DOMAIN G.blocks = 1..Len(G.blocks) /\ DOMAIN H.blocks = 1..Len(G.blocks)
    BY ONLY <1>2, <1>7, <1>8
  <2>2. \A d \in 1..Len(G.blocks) : d # b => H.blocks[d] = G.blocks[d]
    BY ONLY <1>7, <1>8
  <2>3. QED
    BY ONLY <1>9, <2>1, <2>2, G = module[c.in], b = c.block
<1>13. \E j \in 1..Len(code) :
         /\ code[j] = c.call
         /\ module'[c.in].blocks[c.block] = Bracketed(code, j, module[f].name)
  <2>1. module'[c.in].blocks[b] = longer
    BY ONLY <1>7, <1>8, <1>9
  <2>2. QED
    BY ONLY <1>3, <2>1, b = c.block, longer = Bracketed(code, k, module[f].name)
<1>14. code = module[c.in].blocks[c.block]
  OBVIOUS
<1>15. /\ module' \in Seq(FunctionSet(Len(module))) /\ Len(module') = Len(module)
       /\ \A g \in Funcs : g # c.in => module'[g] = module[g]
  BY ONLY <1>1, <1>9, n = Len(module)
<1>16. QED
  BY ONLY <1>10, <1>11, <1>12, <1>13, <1>14, <1>15

LEMMA LoggerUserKeeps ==
  ASSUME IInv, NEW u \in todo, LoggerUser(u)
  PROVE  IInv'
<1>1. /\ ModuleInv /\ TodoInv /\ RowsInv /\ MainInv /\ FramesInv
      /\ phase = "logger" /\ todo' = todo \ {u}
      /\ UNCHANGED <<phase, at, mangled, pointers, frames, log>>
  BY DEF IInv, LoggerUser, tables, running
<1>2. at \in Funcs /\ \A v \in todo : InPlace(v.place)
  BY <1>1 DEF TodoInv
<1>3. CASE ~IsLogged(at, u)
  <2>1. UNCHANGED module
    BY <1>3 DEF LoggerUser
  <2>2. ModuleInv' /\ MainInv' /\ FramesInv'
    BY <1>1, <2>1 DEF ModuleInv, MainInv, FramesInv, Funcs
  <2>5. RowsInv'
    BY <1>1, <2>1 DEF RowsInv, Leads, Funcs
  <2>3. TodoInv'
    BY <1>1, <1>2, <2>1 DEF TodoInv, InPlace, Funcs, Code
  <2>4. QED
    BY <2>2, <2>3, <2>5 DEF IInv
<1>4. CASE IsLogged(at, u)
  <2>1. LogCall(at, u.place) /\ ~module[u.place.in].wrapper
    BY <1>4 DEF LoggerUser, IsLogged
  <2>2. /\ module' \in Seq(FunctionSet(Len(module))) /\ Len(module') = Len(module)
        /\ \A g \in Funcs : g # u.place.in => module'[g] = module[g]
        /\ \A g \in Funcs : /\ module'[g].name = module[g].name
                            /\ module'[g].wrapper = module[g].wrapper
                            /\ module'[g].variadic = module[g].variadic
        /\ \A d : InPlace(d) => InPlace(d)'
    BY <1>1, <1>2, <2>1, CallLogged
  <2>3. Len(module) \in Nat /\ Funcs = 1..Len(module) /\ Funcs' = Funcs
    BY <1>1, <2>2, FuncsAre DEF Funcs
  <2>4. ModuleInv'
    BY <1>1, <2>2 DEF ModuleInv
  <2>5. TodoInv'
    BY <1>1, <1>2, <2>2, <2>3 DEF TodoInv
  <2>6. RowsInv'
    <3>1. ASSUME NEW r \in 1..Len(pointers), pointers[r] # 0
          PROVE  Leads(r)'
      <4>1. PICK f \in Funcs :
              /\ Renamed(mangled[r]) = module[f].name /\ ~module[f].wrapper
              /\ module[pointers[r]].wrapper
              /\ module[pointers[r]].blocks = <<<<Call("call", 1, f, TRUE, <<>>)>>>>
        BY <1>1, <3>1 DEF RowsInv, Leads
      <4>2. pointers[r] \in Funcs
        BY <1>1, <2>3, <3>1 DEF RowsInv
      <4>3. module'[pointers[r]] = module[pointers[r]]
        BY <2>1, <2>2, <4>1, <4>2
      <4>4. QED
        BY <1>1, <2>2, <2>3, <4>1, <4>3 DEF Leads
    <3>2. QED
      BY <1>1, <2>2, <3>1 DEF RowsInv
  <2>7. MainInv'
    BY <1>1, <2>2, <2>3 DEF MainInv
  <2>8. FramesInv'
    <3>1. frames = <<>> /\ log \in Seq(FuncNames)
      BY <1>1 DEF FramesInv
    <3>2. QED
      BY <1>1, <3>1 DEF FramesInv
  <2>9. QED
    BY <2>4, <2>5, <2>6, <2>7, <2>8 DEF IInv
<1>5. QED
  BY <1>3, <1>4

-----------------------------------------------------------------------------
(* The run. *)

\* The passes are over: of the invariant, a step of the run can disturb only the frames.
LEMMA OnlyFrames ==
  ASSUME IInv, phase # "librarify", todo = {},
         phase' \in {"running", "closing", "signalled"},
         UNCHANGED <<module, at, todo, tables>>, FramesInv'
  PROVE  IInv'
<1>1. /\ ModuleInv /\ RowsInv /\ MainInv
      /\ UNCHANGED <<module, at, todo, mangled, pointers>>
  BY DEF IInv, tables
<1>2. ModuleInv'
  BY <1>1 DEF ModuleInv
<1>3. TodoInv'
  BY <1>1 DEF TodoInv
<1>4. RowsInv'
  BY <1>1 DEF RowsInv, Leads, Funcs
<1>5. MainInv'
  BY <1>1 DEF MainInv, Funcs
<1>6. QED
  BY <1>2, <1>3, <1>4, <1>5 DEF IInv

LEMMA RunFacts ==
  ASSUME IInv, phase = "running"
  PROVE  /\ ModuleInv /\ FramesInv /\ todo = {}
         /\ Len(frames) \in 1..Len(frames) /\ Top \in FrameSet /\ InBlock(Top)
<1>1. ModuleInv /\ FramesInv /\ TodoInv
  BY DEF IInv
<1>2. todo = {}
  BY <1>1 DEF TodoInv
<1>3. frames \in Seq(FrameSet) /\ frames # <<>> /\ \A k \in 1..Len(frames) : InBlock(frames[k])
  BY <1>1 DEF FramesInv
<1>4. Len(frames) \in 1..Len(frames)
  BY <1>3
<1>5. QED
  BY <1>1, <1>2, <1>3, <1>4 DEF Top

\* The instruction a frame is at is one of the module.
LEMMA InstructionTyped ==
  ASSUME IInv, NEW ops, AtInstruction(ops)
  PROVE  Instruction \in Instructions(Len(module)) /\ Instruction.op \in ops
<1>1. /\ phase = "running" /\ Top.next <= Len(BlockOf(Top)) /\ Instruction.op \in ops
  BY DEF AtInstruction
<1>2. ModuleInv /\ Top \in FrameSet /\ InBlock(Top)
  BY <1>1, RunFacts
<1>3. /\ Top.func \in Funcs /\ Top.next \in Nat \ {0}
      /\ module[Top.func].blocks \in Seq(Seq(Instructions(Len(module))))
  BY <1>2, FuncsAre, FunctionFields DEF FrameSet
<1>4. module[Top.func].blocks # <<>>
  BY <1>1, <1>3 DEF BlockOf
<1>5. /\ BlockOf(Top) = module[Top.func].blocks[Top.block]
      /\ Top.block \in DOMAIN module[Top.func].blocks
  BY <1>2, <1>4 DEF BlockOf, Code, InBlock
<1>6. BlockOf(Top) \in Seq(Instructions(Len(module)))
  BY <1>3, <1>5
<1>7. Top.next \in 1..Len(BlockOf(Top))
  BY <1>1, <1>3, <1>6
<1>8. QED
  BY <1>1, <1>6, <1>7 DEF Instruction

\* The top frame goes on: it stays in its block.
LEMMA ReplaceTopKeeps ==
  ASSUME IInv, phase = "running", UNCHANGED <<phase, module>>,
         NEW next \in Nat \ {0}, NEW open \in Seq([func : FuncNames, slot : Nat]),
         ReplaceTop([Top EXCEPT !.next = next, !.open = open]),
         log' \in Seq(FuncNames)
  PROVE  FramesInv'
<1> PICK n : n = Len(frames)
  OBVIOUS
<1> PICK frame : frame = [Top EXCEPT !.next = next, !.open = open]
  OBVIOUS
<1>1. FramesInv /\ n \in 1..n /\ n = Len(frames) /\ Top \in FrameSet /\ InBlock(Top)
  BY RunFacts
<1>2. frames \in Seq(FrameSet) /\ \A k \in 1..n : InBlock(frames[k])
  BY <1>1 DEF FramesInv
<1>3. frame \in FrameSet /\ frame.func = Top.func /\ frame.block = Top.block
  BY <1>1 DEF FrameSet
<1>4. InBlock(frame)
  BY <1>1, <1>3 DEF InBlock
<1>5. frames' = [frames EXCEPT ![n] = frame]
  BY DEF ReplaceTop
<1>6. /\ frames' \in Seq(FrameSet) /\ Len(frames') = n /\ frames'[n] = frame
      /\ \A k \in 1..n : k # n => frames'[k] = frames[k]
  BY ONLY <1>1, <1>2, <1>3, <1>5, ReplaceFacts
<1>7. \A k \in 1..n : InBlock(frames'[k])
  BY <1>2, <1>4, <1>6
<1>8. frames' # <<>>
  BY <1>1, <1>6
<1>9. QED
  BY <1>6, <1>7, <1>8 DEF FramesInv, FrameSet, InBlock, Funcs

\* A frame goes on at another block, those above it are gone.
LEMMA GoToKeeps ==
  ASSUME IInv, phase = "running", UNCHANGED <<phase, module, log>>,
         NEW k \in 1..Len(frames), NEW b \in DOMAIN module[frames[k].func].blocks,
         GoTo(frames, k, b)
  PROVE  FramesInv'
<1>1. ModuleInv /\ FramesInv
  BY RunFacts
<1>2. /\ frames \in Seq(FrameSet) /\ \A j \in 1..Len(frames) : InBlock(frames[j])
      /\ log \in Seq(FuncNames)
  BY <1>1 DEF FramesInv
<1>3. frames[k] \in FrameSet /\ b \in Nat
  <2>1. frames[k] \in FrameSet
    BY <1>2
  <2>2. module[frames[k].func].blocks \in Seq(Seq(Instructions(Len(module))))
    BY <1>1, <2>1, FuncsAre, FunctionFields DEF FrameSet
  <2>3. QED
    BY <2>1, <2>2
<1> PICK below : below = SubSeq(frames, 1, k)
  OBVIOUS
<1>4. /\ below \in Seq(FrameSet) /\ Len(below) = k /\ k \in 1..k
      /\ \A i \in 1..k : below[i] = frames[i]
  BY <1>2, PrefixFacts
<1> PICK frame : frame = [frames[k] EXCEPT !.block = b, !.next = 1]
  OBVIOUS
<1>5. frame \in FrameSet /\ frame.func = frames[k].func /\ frame.block = b
  <2>1. PICK F \in FrameSet : F = frames[k]
    BY <1>3
  <2>2. PICK there : there = [F EXCEPT !.block = b]
    OBVIOUS
  <2>3. there \in FrameSet /\ there.func = F.func /\ there.block = b
    BY ONLY <1>3, <2>1, <2>2 DEF FrameSet
  <2>4. frame = [there EXCEPT !.next = 1]
    BY <2>1, <2>2
  <2>5. 1 \in Nat \ {0}
    OBVIOUS
  <2>6. frame \in FrameSet /\ frame.func = there.func /\ frame.block = there.block
    BY ONLY <2>3, <2>4, <2>5 DEF FrameSet
  <2>7. QED
    BY <2>1, <2>3, <2>6
<1>6. InBlock(frame)
  BY <1>5 DEF InBlock
<1>7. frames' = [below EXCEPT ![k] = frame]
  <2>1. frames' = [below EXCEPT ![k].block = b, ![k].next = 1]
    BY DEF GoTo
  <2>2. below[k] = frames[k]
    BY <1>4
  <2>3. QED
    BY ONLY <1>4, <2>1, <2>2, frame = [frames[k] EXCEPT !.block = b, !.next = 1]
<1>8. /\ frames' \in Seq(FrameSet) /\ Len(frames') = k /\ frames'[k] = frame
      /\ \A j \in 1..k : j # k => frames'[j] = below[j]
  BY ONLY <1>4, <1>5, <1>7, ReplaceFacts
<1>9. \A j \in 1..k : InBlock(frames'[j])
  <2>1. \A j \in 1..k : InBlock(frames[j])
    BY <1>2
  <2>2. QED
    BY ONLY <1>4, <1>6, <1>8, <2>1
<1>10. frames' # <<>>
  BY <1>8
<1>11. QED
  BY <1>2, <1>8, <1>9, <1>10 DEF FramesInv, FrameSet, InBlock, Funcs

LEMMA StartMainKeeps ==
  ASSUME IInv, StartMain
  PROVE  IInv'
<1>1. /\ phase = "logger" /\ todo = {} /\ phase' = "running" /\ log' = <<Main>>
      /\ UNCHANGED <<module, at, todo, tables>>
  BY DEF StartMain, PassesDone
<1>2. PICK i \in DOMAIN mangled : mangled[i] = Main /\ frames' = <<Frame(pointers[i])>>
  BY DEF StartMain
<1>3. RowsInv /\ MainInv /\ ModuleInv
  BY DEF IInv
<1>4. /\ i \in 1..Len(mangled) /\ i \in 1..Len(pointers)
      /\ pointers[i] \in 1..Len(module) /\ Leads(i)
  BY <1>2, <1>3, FuncsAre DEF RowsInv, MainInv
<1>5. pointers[i] \in Funcs /\ 1 \in DOMAIN module[pointers[i]].blocks
  BY <1>3, <1>4, FuncsAre DEF Leads
<1>6. Frame(pointers[i]) \in FrameSet /\ InBlock(Frame(pointers[i]))
  BY <1>5 DEF Frame, FrameSet, InBlock
<1>7. frames' \in Seq(FrameSet) /\ Len(frames') = 1 /\ frames'[1] = Frame(pointers[i])
  BY <1>2, <1>6
<1>8. log' \in Seq(FuncNames)
  BY <1>1, NamesAssumption
<1>9. FramesInv'
  <2>1. frames' # <<>> /\ \A k \in 1..Len(frames') : InBlock(frames'[k])
    <3>1. \A k \in 1..Len(frames') : k = 1
      BY ONLY <1>7
    <3>2. Len(<<>>) = 0 /\ 1 # 0
      OBVIOUS
    <3>3. frames' # <<>>
      BY ONLY <1>7, <3>2
    <3>4. QED
      BY ONLY <1>6, <1>7, <3>1, <3>3
  <2>2. FrameSet' = FrameSet /\ \A f : InBlock(f) => InBlock(f)'
    BY <1>1 DEF FrameSet, InBlock, Funcs
  <2>3. QED
    BY <1>1, <1>7, <1>8, <2>1, <2>2 DEF FramesInv
<1>10. QED
  BY <1>1, <1>9, OnlyFrames

LEMMA LogEnterKeeps ==
  ASSUME IInv, LogEnter
  PROVE  IInv'
<1> DEFINE entry == [func |-> Instruction.name, slot |-> Len(log')]
<1>1. /\ phase = "running" /\ AtInstruction({"enter"})
      /\ log' = Append(log, Instruction.name)
      /\ ReplaceTop([Top EXCEPT !.next = Top.next + 1, !.open = Append(Top.open, entry)])
      /\ UNCHANGED <<phase, module, at, todo, tables>>
  BY DEF LogEnter, AtInstruction
<1>2. Instruction \in Instructions(Len(module)) /\ Instruction.op = "enter"
  BY <1>1, InstructionTyped
<1>3. Instruction.name \in FuncNames
  BY <1>2 DEF Instructions
<1>4. FramesInv /\ todo = {} /\ Top \in FrameSet
  BY <1>1, RunFacts
<1>5. log' \in Seq(FuncNames) /\ Len(log') \in Nat
  BY <1>1, <1>3, <1>4 DEF FramesInv
<1>6. Top.next + 1 \in Nat \ {0} /\ Append(Top.open, entry) \in Seq([func : FuncNames, slot : Nat])
  BY <1>3, <1>4, <1>5 DEF FrameSet
<1>7. FramesInv'
  BY <1>1, <1>5, <1>6, ReplaceTopKeeps
<1>8. QED
  BY <1>1, <1>4, <1>7, OnlyFrames

\* logFunctionReturn leaves a part of the log.
LEMMA LogShrinks ==
  ASSUME IInv, phase = "running", NEW f, CallLog!LogFunctionReturn(f)
  PROVE  log' \in Seq(FuncNames)
<1>1. log \in Seq(FuncNames)
  BY DEF IInv, FramesInv
<1>2. PICK k \in 1..Len(log) : log' = SubSeq(log, 1, k - 1)
  BY DEF CallLog!LogFunctionReturn, CallLog!Silent, CallLog!PopTo
<1>3. QED
  BY <1>1, <1>2

LEMMA LogLeaveKeeps ==
  ASSUME IInv, LogLeave
  PROVE  IInv'
<1>1. /\ phase = "running" /\ CallLog!LogFunctionReturn(Instruction.name)
      /\ ReplaceTop([Top EXCEPT !.next = Top.next + 1, !.open = Front(Top.open)])
      /\ UNCHANGED <<phase, module, at, todo, tables>>
  BY DEF LogLeave, AtInstruction
<1>2. todo = {} /\ Top \in FrameSet
  BY <1>1, RunFacts
<1>3. log' \in Seq(FuncNames)
  BY <1>1, LogShrinks
<1>4. Top.next + 1 \in Nat \ {0} /\ Front(Top.open) \in Seq([func : FuncNames, slot : Nat])
  BY <1>2, FrontTyped DEF FrameSet
<1>5. FramesInv'
  BY <1>1, <1>3, <1>4, ReplaceTopKeeps
<1>6. QED
  BY <1>1, <1>2, <1>5, OnlyFrames

LEMMA CallFunctionKeeps ==
  ASSUME IInv, CallFunction
  PROVE  IInv'
<1> PICK n : n = Len(frames)
  OBVIOUS
<1> PICK callee : callee = Frame(Instruction.to)
  OBVIOUS
<1>1. /\ phase = "running" /\ AtInstruction({"call", "invoke"})
      /\ frames' = Append([frames EXCEPT ![n].next = @ + 1], callee)
      /\ UNCHANGED <<phase, module, at, todo, tables, log>>
  BY DEF CallFunction, AtInstruction
<1>2. /\ ModuleInv /\ FramesInv /\ todo = {} /\ n \in 1..n /\ n = Len(frames)
      /\ Top \in FrameSet /\ InBlock(Top) /\ Top = frames[n]
  BY <1>1, RunFacts DEF Top
<1>3. Instruction \in Instructions(Len(module)) /\ Instruction.op \in {"call", "invoke"}
  BY <1>1, InstructionTyped
<1>4. Instruction.to \in Funcs
  BY <1>2, <1>3, FuncsAre DEF Instructions
<1>5. callee \in FrameSet /\ InBlock(callee)
  <2>1. module[Instruction.to].blocks \in Seq(Seq(Instructions(Len(module))))
    BY <1>2, <1>4, FuncsAre, FunctionFields
  <2>2. module[Instruction.to].blocks = <<>> \/ 1 \in DOMAIN module[Instruction.to].blocks
    BY <2>1
  <2>3. QED
    BY <1>4, <2>2 DEF Frame, FrameSet, InBlock
<1> PICK caller : caller = [Top EXCEPT !.next = @ + 1]
  OBVIOUS
<1>6. caller \in FrameSet /\ caller.func = Top.func /\ caller.block = Top.block
  <2>1. Top \in FrameSet /\ Top.next + 1 \in Nat \ {0}
    BY <1>2 DEF FrameSet
  <2>2. QED
    BY ONLY <2>1, caller = [Top EXCEPT !.next = @ + 1] DEF FrameSet
<1>7. InBlock(caller)
  BY <1>2, <1>6 DEF InBlock
<1> PICK below : below = [frames EXCEPT ![n] = caller]
  OBVIOUS
<1>8. frames \in Seq(FrameSet) /\ log \in Seq(FuncNames) /\ \A k \in 1..n : InBlock(frames[k])
  BY <1>2 DEF FramesInv
<1>9. /\ below \in Seq(FrameSet) /\ Len(below) = n /\ below[n] = caller
      /\ \A k \in 1..n : k # n => below[k] = frames[k]
  BY ONLY <1>2, <1>6, <1>8, ReplaceFacts, below = [frames EXCEPT ![n] = caller]
<1>10. frames' = Append(below, callee)
  BY ONLY <1>1, <1>2, <1>8, below = [frames EXCEPT ![n] = caller], caller = [Top EXCEPT !.next = @ + 1]
<1>11. /\ frames' \in Seq(FrameSet) /\ Len(frames') = n + 1 /\ frames'[n + 1] = callee
       /\ \A k \in 1..n : frames'[k] = below[k]
  BY ONLY <1>5, <1>9, <1>10, AppendFacts
<1>12. ASSUME NEW k \in 1..n+1
       PROVE  InBlock(frames'[k])
  <2>1. CASE k = n + 1
    BY <1>5, <1>11, <2>1
  <2>2. CASE k = n
    BY <1>2, <1>7, <1>9, <1>11, <2>2
  <2>3. CASE k # n /\ k # n + 1
    <3>1. k \in 1..n
      BY ONLY <1>2, <1>12, <2>3
    <3>2. frames'[k] = frames[k]
      BY ONLY <1>9, <1>11, <2>3, <3>1
    <3>3. QED
      BY <1>8, <3>1, <3>2
  <2>4. QED
    BY <2>1, <2>2, <2>3
<1>13. frames' # <<>>
  BY <1>2, <1>11
<1>14. FramesInv'
  <2>1. FrameSet' = FrameSet /\ \A f : InBlock(f) => InBlock(f)'
    BY <1>1 DEF FrameSet, InBlock, Funcs
  <2>2. log' \in Seq(FuncNames) /\ phase' = "running"
    BY <1>1, <1>8
  <2>3. \A k \in 1..Len(frames') : InBlock(frames'[k])
    BY <1>11, <1>12
  <2>4. QED
    BY <1>11, <1>13, <2>1, <2>2, <2>3 DEF FramesInv
<1>15. QED
  BY <1>1, <1>2, <1>14, OnlyFrames

LEMMA BranchKeeps ==
  ASSUME IInv, Branch
  PROVE  IInv'
<1>1. phase = "running" /\ UNCHANGED <<phase, module, at, todo, tables, log>>
  BY DEF Branch, AtEnd
<1>2. todo = {} /\ Len(frames) \in 1..Len(frames)
  BY <1>1, RunFacts
<1>3. PICK b \in DOMAIN module[frames[Len(frames)].func].blocks : GoTo(frames, Len(frames), b)
  BY DEF Branch, Top
<1>4. FramesInv'
  BY <1>1, <1>2, <1>3, GoToKeeps
<1>5. QED
  BY <1>1, <1>2, <1>4, OnlyFrames

LEMMA ReturnFromFunctionKeeps ==
  ASSUME IInv, ReturnFromFunction
  PROVE  IInv'
<1>1. /\ phase = "running" /\ UNCHANGED <<phase, module, at, todo, tables, log>>
      /\ Len(frames) > 1 /\ frames' = Front(frames)
  BY DEF ReturnFromFunction, AtEnd
<1>2. FramesInv /\ todo = {} /\ Len(frames) \in 1..Len(frames)
  BY <1>1, RunFacts
<1>3. frames \in Seq(FrameSet) /\ Len(frames) - 1 \in 0..Len(frames)
  BY <1>2 DEF FramesInv
<1>4. frames' = SubSeq(frames, 1, Len(frames) - 1)
  BY <1>1 DEF Front
<1>5. /\ frames' \in Seq(FrameSet) /\ Len(frames') = Len(frames) - 1
      /\ \A k \in 1..Len(frames)-1 : frames'[k] = frames[k]
  BY <1>3, <1>4, PrefixFacts
<1>6. \A k \in 1..Len(frames') : InBlock(frames'[k])
  BY <1>2, <1>3, <1>5 DEF FramesInv
<1>7. frames' # <<>>
  BY <1>1, <1>2, <1>5
<1>8. FramesInv'
  BY <1>1, <1>2, <1>5, <1>6, <1>7 DEF FramesInv, FrameSet, InBlock, Funcs
<1>9. QED
  BY <1>1, <1>2, <1>8, OnlyFrames

LEMMA ThrowKeeps ==
  ASSUME IInv, Throw
  PROVE  IInv'
<1>1. phase = "running" /\ UNCHANGED <<phase, module, at, todo, tables, log>>
  BY DEF Throw
<1>2. todo = {} /\ Len(frames) \in 1..Len(frames)
  BY <1>1, RunFacts
<1>3. PICK k \in Handlers :
        \E b \in DOMAIN module[frames[k].func].blocks : GoTo(frames, k, b)
  BY DEF Throw
<1>4. PICK b \in DOMAIN module[frames[k].func].blocks : GoTo(frames, k, b)
  BY <1>3
<1>5. k \in 1..Len(frames)
  BY <1>2 DEF Handlers
<1>6. FramesInv'
  BY <1>1, <1>4, <1>5, GoToKeeps
<1>7. QED
  BY <1>1, <1>2, <1>6, OnlyFrames

\* The run ends, with no frame left.
LEMMA EndKeeps ==
  ASSUME IInv, ReturnFromMain \/ Abort
  PROVE  IInv'
<1>1. /\ phase = "running" /\ phase' \in {"closing", "signalled"} /\ frames' = <<>>
      /\ UNCHANGED <<module, at, todo, tables>>
  BY DEF ReturnFromMain, Abort, AtEnd
<1>2. FramesInv /\ todo = {}
  BY <1>1, RunFacts
<1>3. log' \in Seq(FuncNames)
  <2>1. CASE ReturnFromMain
    BY <1>1, <2>1, LogShrinks DEF ReturnFromMain
  <2>2. CASE Abort
    BY <1>2, <2>2 DEF Abort, FramesInv
  <2>3. QED
    BY <2>1, <2>2
<1>4. FramesInv'
  BY <1>1, <1>3 DEF FramesInv
<1>5. QED
  BY <1>1, <1>2, <1>4, OnlyFrames

-----------------------------------------------------------------------------
(* The theorems. *)

LEMMA NextPreserves ==
  ASSUME IInv, [Next]_vars
  PROVE  IInv'
<1>1. CASE UNCHANGED vars
  <2>1. UNCHANGED <<phase, module, at, todo, mangled, pointers, frames, log>>
    BY <1>1 DEF vars
  <2>2. ModuleInv' /\ TodoInv'
    BY <2>1 DEF IInv, ModuleInv, TodoInv, InPlace, Code, Funcs
  <2>3. RowsInv' /\ MainInv'
    BY <2>1 DEF IInv, RowsInv, Leads, MainInv, Funcs
  <2>4. FramesInv'
    BY <2>1 DEF IInv, FramesInv, FrameSet, InBlock, Funcs
  <2>5. QED
    BY <2>2, <2>3, <2>4 DEF IInv
<1>2. CASE Passes
  BY <1>2, LibrarifyFunctionKeeps, StartLoggerKeeps, LoggerFunctionKeeps, LoggerUserKeeps
     DEF Passes
<1>3. CASE StartMain
  BY <1>3, StartMainKeeps
<1>4. CASE Run
  BY <1>4, LogEnterKeeps, LogLeaveKeeps, CallFunctionKeeps, BranchKeeps,
     ReturnFromFunctionKeeps, ThrowKeeps, EndKeeps DEF Run
<1>5. QED
  BY <1>1, <1>2, <1>3, <1>4 DEF Next

LEMMA InvariantGives ==
  ASSUME IInv
  PROVE  TypeOK /\ PointersLead
<1>1. ModuleInv /\ TodoInv /\ RowsInv /\ FramesInv
  BY DEF IInv
<1>2. Len(module) \in Nat /\ at \in 0..Len(module) + 1
  <2>1. Len(module) \in Nat
    BY <1>1, FuncsAre
  <2>2. at \in 1..Len(module) + 1 \/ at \in 0..Len(module)
    BY <1>1 DEF ModuleInv
  <2>3. QED
    BY ONLY <2>1, <2>2
<1>3. \A k \in DOMAIN frames : frames[k].func \in Funcs
  <2>1. frames \in Seq(FrameSet)
    BY <1>1 DEF FramesInv
  <2>2. \A k \in DOMAIN frames : frames[k] \in FrameSet
    BY ONLY <2>1
  <2>3. QED
    BY <2>2 DEF FrameSet
<1>4. TypeOK
  <2>1. /\ phase \in {"librarify", "logger", "running", "closing", "signalled"}
        /\ Len(module) <= MaxFunctions /\ module \in Seq(FunctionSet(Len(module)))
    BY <1>1 DEF ModuleInv
  <2>2. /\ todo # {} => phase = "logger"
        /\ mangled \in Seq(FuncNames) /\ pointers \in Seq(0..Len(module))
    BY <1>1 DEF TodoInv, RowsInv
  <2>3. (frames # <<>> => phase = "running") /\ log \in Seq(FuncNames)
    BY <1>1 DEF FramesInv
  <2>4. QED
    BY <1>2, <1>3, <2>1, <2>2, <2>3 DEF TypeOK
<1>5. PointersLead
  <2>1. /\ Len(pointers) = Len(mangled) /\ DOMAIN pointers = 1..Len(pointers)
        /\ \A r \in 1..Len(pointers) : pointers[r] # 0 => Leads(r)
    BY <1>1 DEF RowsInv
  <2>2. QED
    BY <2>1 DEF PointersLead, Leads
<1>6. QED
  BY <1>4, <1>5

LEMMA Invariance == Spec => []IInv
<1>1. Init => IInv
  BY InitEstablishes
<1>2. IInv /\ [Next]_vars => IInv'
  BY NextPreserves
<1>3. QED
  BY <1>1, <1>2, PTL DEF Spec

\* Whatever module the passes are given and whatever it calls, throws and branches to, the
\* run never leaves it: each frame is in a function of the module, though Logger has moved
\* its instructions, and the rows and the log hold functions' names.
THEOREM TypeCorrect == Spec => []TypeOK
<1>1. IInv => TypeOK
  BY InvariantGives
<1>2. QED
  BY <1>1, Invariance, PTL

\* For every module: librarify's two tables stay in step, and a pointer is that of a
\* wrapper whose only call, after Logger too, is the function listed in its row.
THEOREM RowsLead == Spec => []PointersLead
<1>1. IInv => PointersLead
  BY InvariantGives
<1>2. QED
  BY <1>1, Invariance, PTL

-----------------------------------------------------------------------------
(* What the log shows.  The inserted calls of a block nest around its calls: there is a
   sequence s of what is open before each instruction, and behind the last.  *)

Nestings(code) ==
  {s \in [1..Len(code)+1 -> Seq(FuncNames)] :
     /\ s[1] = <<>> /\ s[Len(code) + 1] = <<>>
     /\ \A p \in 1..Len(code) :
          /\ code[p].op = "enter" => s[p + 1] = Append(s[p], code[p].name)
          /\ code[p].op = "leave" => s[p] = Append(s[p + 1], code[p].name)
          /\ IsCall(code[p]) => s[p + 1] = s[p]}

\* At a call, the name of its function is open for each use of the function in the call
\* that Logger has dealt with.
Place(g, b, i) == [in |-> g, block |-> b, call |-> i]
IsDone(g, b, i, k) ==
  i.to < at \/ (i.to = at /\ [place |-> Place(g, b, i), operand |-> k] \notin todo)
DealtWith(g, b, i) == {k \in UsesIn(i, i.to) : IsDone(g, b, i, k)}
IsShown(g, i) == i.op = "call" /\ i.direct /\ ~module[g].wrapper /\ ~module[i.to].wrapper
Expected(g, b, i) ==
  IF IsShown(g, i) THEN [n \in 1..Cardinality(DealtWith(g, b, i)) |-> module[i.to].name] ELSE <<>>
AsExpected(g, b, code, s) ==
  \A p \in 1..Len(code) : IsCall(code[p]) => s[p] = Expected(g, b, code[p])

Distinct(code) == \A p, q \in DOMAIN code : IsCall(code[p]) /\ code[p] = code[q] => p = q
Nested(g, b) == \E s : s \in Nestings(Code(g, b)) /\ AsExpected(g, b, Code(g, b), s)
BlocksInv ==
  \A g \in Funcs : \A b \in DOMAIN module[g].blocks :
    /\ Distinct(Code(g, b))
    /\ phase = "librarify" => \A p \in DOMAIN Code(g, b) : IsCall(Code(g, b)[p])
    /\ phase # "librarify" => Nested(g, b)

UsesInv ==
  /\ \A u \in todo :
       /\ u = [place |-> Place(u.place.in, u.place.block, u.place.call), operand |-> u.operand]
       /\ IsCall(u.place.call) /\ u.operand \in UsesIn(u.place.call, at)
       /\ ~module[at].wrapper
  /\ phase = "running" => at = Len(module) /\ todo = {}

\* A frame has open what is open where it is in its block.
Follows(frame, s) ==
  /\ s \in Nestings(BlockOf(frame))
  /\ AsExpected(frame.func, frame.block, BlockOf(frame), s)
  /\ frame.next \in 1..Len(BlockOf(frame)) + 1
  /\ Shown(frame) = s[frame.next]
ShowsRight(frame) == \E s : Follows(frame, s)
\* A frame below the top is in a call.
InCall(frame) == frame.next # 1 /\ IsCall(BlockOf(frame)[frame.next - 1])
ShownInv ==
  /\ \A k \in 1..Len(frames) : ShowsRight(frames[k])
  /\ \A k \in 1..Len(frames)-1 : InCall(frames[k])

NestInv == BlocksInv /\ UsesInv /\ ShownInv

-----------------------------------------------------------------------------
LEMMA RepeatOnce ==
  ASSUME NEW S, NEW x \in S, NEW m \in Nat
  PROVE  /\ [n \in 1..m |-> x] \in Seq(S)
         /\ [n \in 1..m+1 |-> x] = Append([n \in 1..m |-> x], x)
OBVIOUS

LEMMA FrontAppend ==
  ASSUME NEW S, NEW s \in Seq(S), NEW x \in S
  PROVE  Front(Append(s, x)) = s
BY DEF Front

\* What is open in a block of length L, where the k-th instruction got one more call of the
\* log functions on each side.
Widened(s, L, k, name) ==
  [p \in 1..L+3 |-> IF p <= k THEN s[p] ELSE IF p <= k + 2 THEN Append(s[k], name) ELSE s[p - 2]]

LEMMA BracketedBalanced ==
  ASSUME NEW S, NEW code \in Seq(S), NEW k \in 1..Len(code), NEW name \in FuncNames,
         Enter(name) \in S, Leave(name) \in S,
         NEW s, s \in Nestings(code), IsCall(code[k]),
         NEW longer, longer = Bracketed(code, k, name),
         NEW t, t = Widened(s, Len(code), k, name)
  PROVE  /\ t \in Nestings(longer) /\ Len(longer) = Len(code) + 2
         /\ \A p \in 1..k-1 : t[p] = s[p] /\ longer[p] = code[p]
         /\ t[k + 1] = Append(s[k], name) /\ longer[k + 1] = code[k]
         /\ \A p \in k+1..Len(code) : t[p + 2] = s[p] /\ longer[p + 2] = code[p]
<1> PICK L : L = Len(code)
  OBVIOUS
<1>1. /\ L \in Nat /\ k \in 1..L /\ L = Len(code)
  OBVIOUS
<1>2. /\ Len(longer) = L + 2
      /\ \A n \in 1..k-1 : longer[n] = code[n]
      /\ longer[k] = Enter(name) /\ longer[k + 1] = code[k] /\ longer[k + 2] = Leave(name)
      /\ \A n \in k+1..L : longer[n + 2] = code[n]
  <2>1. /\ Len(longer) = Len(code) + 2
        /\ \A n \in 1..k-1 : longer[n] = code[n]
        /\ longer[k] = Enter(name) /\ longer[k + 1] = code[k] /\ longer[k + 2] = Leave(name)
        /\ \A n \in k+1..Len(code) : longer[n + 2] = code[n]
    BY ONLY BracketedAt, code \in Seq(S), k \in 1..Len(code), Enter(name) \in S, Leave(name) \in S,
            longer = Bracketed(code, k, name), SMTT(30)
  <2>2. QED
    BY ONLY <2>1, L = Len(code)
<1>3. /\ s \in [1..L+1 -> Seq(FuncNames)] /\ s[1] = <<>> /\ s[L + 1] = <<>>
      /\ \A p \in 1..L :
           /\ code[p].op = "enter" => s[p + 1] = Append(s[p], code[p].name)
           /\ code[p].op = "leave" => s[p] = Append(s[p + 1], code[p].name)
           /\ IsCall(code[p]) => s[p + 1] = s[p]
  BY DEF Nestings
<1> PICK more : more = Append(s[k], name)
  OBVIOUS
<1>4. s[k] \in Seq(FuncNames) /\ more \in Seq(FuncNames) /\ s[k + 1] = s[k]
  <2>1. s[k] \in Seq(FuncNames)
    BY <1>1, <1>3
  <2>2. s[k + 1] = s[k]
    BY <1>1, <1>3
  <2>3. QED
    BY <2>1, <2>2
<1>0. t = [p \in 1..L+3 |-> IF p <= k THEN s[p] ELSE IF p <= k + 2 THEN more ELSE s[p - 2]]
  BY DEF Widened
<1>5. /\ \A p \in 1..k : t[p] = s[p]
      /\ t[k + 1] = more /\ t[k + 2] = more
      /\ \A p \in k+1..L+1 : t[p + 2] = s[p]
  BY ONLY <1>0, <1>1
<1>6. t \in [1..L+3 -> Seq(FuncNames)]
  <2>1. ASSUME NEW p \in 1..L+3
        PROVE  (IF p <= k THEN s[p] ELSE IF p <= k + 2 THEN more ELSE s[p - 2]) \in Seq(FuncNames)
    <3>1. (p <= k => p \in 1..L+1) /\ (~(p <= k + 2) => p - 2 \in 1..L+1)
      BY ONLY <1>1, <2>1
    <3>2. QED
      BY ONLY <1>3, <1>4, <2>1, <3>1
  <2>2. QED
    BY ONLY <1>0, <2>1
<1>7. t[1] = <<>> /\ t[L + 3] = <<>>
  <2>1. t[1] = s[1]
    BY ONLY <1>1, <1>5
  <2>2. t[(L + 1) + 2] = s[L + 1]
    BY ONLY <1>1, <1>5
  <2>3. (L + 1) + 2 = L + 3
    BY ONLY <1>1
  <2>4. QED
    BY ONLY <1>3, <2>1, <2>2, <2>3
<1>9. ASSUME NEW p \in 1..L+2
      PROVE  /\ longer[p].op = "enter" => t[p + 1] = Append(t[p], longer[p].name)
             /\ longer[p].op = "leave" => t[p] = Append(t[p + 1], longer[p].name)
             /\ IsCall(longer[p]) => t[p + 1] = t[p]
  <2>1. CASE p < k
    <3>1. p \in 1..k-1 /\ p \in 1..k /\ p + 1 \in 1..k /\ p \in 1..L
      BY ONLY <1>1, <1>9, <2>1
    <3>2. longer[p] = code[p] /\ t[p] = s[p] /\ t[p + 1] = s[p + 1]
      BY ONLY <1>2, <1>5, <3>1
    <3>3. QED
      BY ONLY <1>3, <3>1, <3>2
  <2>2. CASE p = k
    <3>1. longer[p] = Enter(name) /\ t[p] = s[k] /\ t[p + 1] = more
      BY ONLY <1>1, <1>2, <1>5, <2>2
    <3>2. longer[p].op = "enter" /\ longer[p].name = name
      BY <3>1 DEF Enter
    <3>3. QED
      BY ONLY <3>1, <3>2, more = Append(s[k], name) DEF IsCall
  <2>3. CASE p = k + 1
    <3>1. longer[p] = code[k] /\ t[p] = more /\ t[p + 1] = more
      <4>1. p + 1 = k + 2
        BY ONLY <1>1, <2>3
      <4>2. QED
        BY ONLY <1>2, <1>5, <2>3, <4>1
    <3>2. IsCall(longer[p])
      BY ONLY <3>1, IsCall(code[k])
    <3>3. QED
      BY ONLY <3>1, <3>2 DEF IsCall
  <2>4. CASE p = k + 2
    <3>1. longer[p] = Leave(name) /\ t[p] = more /\ t[p + 1] = s[k + 1]
      <4>1. p + 1 = (k + 1) + 2 /\ k + 1 \in k+1..L+1
        BY ONLY <1>1, <2>4
      <4>2. QED
        BY ONLY <1>2, <1>5, <2>4, <4>1
    <3>2. longer[p].op = "leave" /\ longer[p].name = name
      BY <3>1 DEF Leave
    <3>3. QED
      BY ONLY <1>4, <3>1, <3>2, more = Append(s[k], name) DEF IsCall
  <2>5. CASE p > k + 2
    <3>1. p - 2 \in k+1..L /\ p - 2 \in k+1..L+1 /\ p - 1 \in k+1..L+1 /\ p - 2 \in 1..L
      BY ONLY <1>1, <1>9, <2>5
    <3>2. (p - 2) + 2 = p /\ (p - 1) + 2 = p + 1 /\ (p - 2) + 1 = p - 1
      BY ONLY <1>1, <1>9
    <3>3. longer[p] = code[p - 2] /\ t[p] = s[p - 2] /\ t[p + 1] = s[(p - 2) + 1]
      BY ONLY <1>2, <1>5, <3>1, <3>2
    <3>4. QED
      BY ONLY <1>3, <3>1, <3>3
  <2>6. QED
    BY ONLY <1>1, <1>9, <2>1, <2>2, <2>3, <2>4, <2>5
<1>10. t \in Nestings(longer)
  <2>1. Len(longer) + 1 = L + 3
    BY ONLY <1>1, <1>2
  <2>2. QED
    BY ONLY <1>2, <1>6, <1>7, <1>9, <2>1 DEF Nestings
<1>11. \A p \in 1..k-1 : t[p] = s[p]
  BY ONLY <1>1, <1>5
<1>12. \A p \in k+1..L : t[p + 2] = s[p]
  BY ONLY <1>1, <1>5
<1>13. QED
  BY <1>2, <1>5, <1>10, <1>11, <1>12

-----------------------------------------------------------------------------
(* The passes. *)

LEMMA BlockTyped ==
  ASSUME ModuleInv, NEW g \in Funcs, NEW b \in DOMAIN module[g].blocks
  PROVE  Code(g, b) \in Seq(Instructions(Len(module)))
<1>1. module[g].blocks \in Seq(Seq(Instructions(Len(module))))
  BY FuncsAre, FunctionFields
<1>2. QED
  BY <1>1 DEF Code

\* A call of the module is of one of its functions, and its uses are finitely many.
LEMMA CallFacts ==
  ASSUME ModuleInv, NEW i \in Instructions(Len(module)), IsCall(i)
  PROVE  /\ i.to \in Funcs /\ i.op \in {"call", "invoke"}
         /\ IsFiniteSet(UsesIn(i, i.to))
<1>1. /\ i \in [op : {"call", "invoke"}, id : Nat, to : Funcs, direct : BOOLEAN, args : Seq(Funcs)]
  BY FuncsAre DEF Instructions, IsCall
<1>2. UsesIn(i, i.to) \subseteq 0..Len(i.args)
  BY <1>1 DEF UsesIn
<1>3. Len(i.args) \in Nat
  BY <1>1
<1>4. IsFiniteSet(0..Len(i.args))
  BY <1>3, FS_Interval
<1>5. QED
  BY <1>1, <1>2, <1>4, FS_Subset

LEMMA InitNests == Init => NestInv
<1> SUFFICES ASSUME Init PROVE NestInv
  OBVIOUS
<1> USE DEF Init
<1>1. \A f \in DOMAIN module : \A b \in DOMAIN module[f].blocks :
         /\ IsInjective(module[f].blocks[b])
         /\ \A i \in Range(module[f].blocks[b]) : IsCall(i)
  BY TargetsAssumption
<1>2. BlocksInv
  BY <1>1 DEF BlocksInv, Funcs, Code, Distinct, IsInjective, Range
<1>3. UsesInv
  BY DEF UsesInv
<1>4. ShownInv
  BY DEF ShownInv
<1>5. QED
  BY <1>2, <1>3, <1>4 DEF NestInv

\* Before the run there are no frames.
LEMMA NoFrames ==
  ASSUME FramesInv, phase # "running", UNCHANGED frames
  PROVE  ShownInv'
BY DEF FramesInv, ShownInv

LEMMA LibrarifyFunctionNests ==
  ASSUME IInv, NestInv, LibrarifyFunction
  PROVE  NestInv'
<1>1. /\ ModuleInv /\ RowsInv /\ FramesInv /\ TodoInv /\ BlocksInv
      /\ phase = "librarify" /\ phase' = phase /\ at <= Len(module)
      /\ UNCHANGED <<todo, frames>>
  BY DEF IInv, NestInv, LibrarifyFunction, running
<1>2. at \in Funcs /\ Len(module) \in Nat /\ Funcs = 1..Len(module)
  BY <1>1, FuncsAre DEF ModuleInv
<1>3. UsesInv' /\ ShownInv'
  <2>1. todo = {}
    BY <1>1 DEF TodoInv
  <2>2. QED
    BY <1>1, <2>1, NoFrames DEF UsesInv
<1>4. \A g \in Funcs : \A b \in DOMAIN module[g].blocks :
        /\ Distinct(Code(g, b))
        /\ \A p \in DOMAIN Code(g, b) : IsCall(Code(g, b)[p])
  BY <1>1 DEF BlocksInv
<1>5. CASE ~IsWrapped(at)
  <2>1. UNCHANGED module
    BY <1>5 DEF LibrarifyFunction
  <2>2. BlocksInv'
    BY <1>1, <1>4, <2>1 DEF BlocksInv, Funcs, Code, Distinct
  <2>3. QED
    BY <1>3, <2>2 DEF NestInv
<1>6. CASE IsWrapped(at)
  <2> PICK n : n = Len(module)
    OBVIOUS
  <2>1. /\ Len(module') = (IF module[at].variadic THEN n ELSE n + 1)
        /\ module' \in Seq(FunctionSet(Len(module')))
        /\ \A f \in 1..n : f # at => module'[f] = module[f]
        /\ module'[at] = [module[at] EXCEPT !.name = Renamed(@)]
        /\ ~module[at].variadic =>
             module'[n + 1].blocks = <<<<Call("call", 1, at, TRUE, <<>>)>>>>
    BY <1>1, <1>2, <1>6, FunctionWrapped DEF RowsInv
  <2>2. module'[at].blocks = module[at].blocks
    BY <1>1, <1>2, <2>1, FuncsAre DEF FunctionSet
  <2>3. \A f \in 1..n : module'[f].blocks = module[f].blocks
    BY <2>1, <2>2
  <2>4. ASSUME NEW g \in Funcs', NEW b \in DOMAIN module'[g].blocks
        PROVE  /\ Distinct(Code(g, b)')
               /\ \A p \in DOMAIN Code(g, b)' : IsCall(Code(g, b)'[p])
    <3>1. g \in 1..n \/ (g = n + 1 /\ ~module[at].variadic)
      BY <1>2, <2>1 DEF Funcs
    <3>2. CASE g \in 1..n
      BY <1>2, <1>4, <2>3, <2>4, <3>2 DEF Code
    <3>3. CASE g = n + 1 /\ ~module[at].variadic
      <4> PICK code : code = Code(g, b)'
        OBVIOUS
      <4> PICK call : call = Call("call", 1, at, TRUE, <<>>)
        OBVIOUS
      <4>0. module'[g].blocks = <<<<call>>>> /\ b \in DOMAIN module'[g].blocks
        BY <2>1, <2>4, <3>3
      <4>1. code = <<call>>
        <5>1. code = module'[g].blocks[b]
          BY DEF Code
        <5>2. QED
          BY ONLY <4>0, <5>1
      <4>2. DOMAIN code = {1} /\ code[1].op = "call"
        BY <4>1 DEF Call
      <4>3. QED
        BY <4>2 DEF Distinct, IsCall
    <3>4. QED
      BY <3>1, <3>2, <3>3
  <2>5. BlocksInv'
    BY <1>1, <2>4 DEF BlocksInv, Distinct
  <2>6. QED
    BY <1>3, <2>5 DEF NestInv
<1>7. QED
  BY <1>5, <1>6

LEMMA StartLoggerNests ==
  ASSUME IInv, NestInv, StartLogger
  PROVE  NestInv'
<1>1. /\ ModuleInv /\ FramesInv /\ TodoInv /\ BlocksInv
      /\ phase = "librarify" /\ phase' = "logger" /\ at' = 0
      /\ UNCHANGED <<module, todo, frames>>
  BY DEF IInv, NestInv, StartLogger, running
<1>2. UsesInv' /\ ShownInv'
  <2>1. todo = {}
    BY <1>1 DEF TodoInv
  <2>2. QED
    BY <1>1, <2>1, NoFrames DEF UsesInv
<1>3. ASSUME NEW g \in Funcs, NEW b \in DOMAIN module[g].blocks
      PROVE  Distinct(Code(g, b)) /\ Nested(g, b)'
  <2> PICK code : code = Code(g, b)
    OBVIOUS
  <2>1. /\ Distinct(Code(g, b)) /\ \A p \in DOMAIN code : IsCall(code[p])
    BY <1>1, <1>3 DEF BlocksInv
  <2>2. code \in Seq(Instructions(Len(module)))
    BY <1>1, <1>3, BlockTyped
  <2> PICK s : s = [p \in 1..Len(code)+1 |-> <<>>]
    OBVIOUS
  <2>3. s \in Nestings(code)
    <3>1. /\ s \in [1..Len(code)+1 -> Seq(FuncNames)]
          /\ s[1] = <<>> /\ s[Len(code) + 1] = <<>>
          /\ \A p \in 1..Len(code) : s[p + 1] = s[p]
      BY <2>2
    <3>2. \A p \in 1..Len(code) : IsCall(code[p])
      BY <2>1, <2>2
    <3>3. QED
      BY <3>1, <3>2 DEF Nestings, IsCall
  <2>4. ASSUME NEW p \in 1..Len(code)
        PROVE  s[p] = Expected(g, b, code[p])'
    <3> PICK i : i = code[p]
      OBVIOUS
    <3>1. i \in Instructions(Len(module)) /\ IsCall(i)
      BY <2>1, <2>2
    <3>2. i.to \in 1..Len(module)
      BY <1>1, <3>1, CallFacts, FuncsAre
    <3>3. DealtWith(g, b, i)' = {}
      BY <1>1, <3>2 DEF DealtWith, IsDone
    <3>4. [n \in 1..Cardinality(DealtWith(g, b, i)') |-> module'[i.to].name] = <<>>
      <4>1. Cardinality({}) = 0
        BY FS_EmptySet
      <4>2. QED
        BY <3>3, <4>1
    <3>5. Expected(g, b, i)' = <<>>
      BY <3>4 DEF Expected
    <3>6. QED
      BY <2>2, <3>5
  <2>5. Code(g, b)' = code
    BY <1>1 DEF Code
  <2>6. QED
    BY <2>1, <2>3, <2>4, <2>5 DEF Nested, AsExpected
<1>4. BlocksInv'
  BY <1>1, <1>3 DEF BlocksInv, Distinct, Code, Funcs
<1>5. QED
  BY <1>2, <1>4 DEF NestInv

\* Where the calls and what was dealt with stay, the blocks stay nested.
LEMMA StayNested ==
  ASSUME NEW g, NEW b, Nested(g, b), Code(g, b)' = Code(g, b),
         \A p \in 1..Len(Code(g, b)) :
           IsCall(Code(g, b)[p]) => Expected(g, b, Code(g, b)[p])' = Expected(g, b, Code(g, b)[p])
  PROVE  Nested(g, b)'
<1> PICK code : code = Code(g, b)
  OBVIOUS
<1>1. PICK s : s \in Nestings(code) /\ AsExpected(g, b, code, s)
  BY DEF Nested
<1>2. \A p \in 1..Len(code) : IsCall(code[p]) => s[p] = Expected(g, b, code[p])'
  BY <1>1 DEF AsExpected
<1>3. QED
  BY <1>1, <1>2 DEF Nested, AsExpected

LEMMA PlaceIsUser ==
  ASSUME NEW f, NEW c \in UNION {CallsIn(h) : h \in Funcs}, NEW k \in UsesIn(c.call, f)
  PROVE  [place |-> c, operand |-> k] \in Users(f)
<1> DEFINE calls == UNION {CallsIn(h) : h \in Funcs}
           usesOf(d) == {[place |-> d, operand |-> j] : j \in UsesIn(d.call, f)}
<1>1. Users(f) = UNION {usesOf(d) : d \in calls}
  BY DEF Users
<1>2. [place |-> c, operand |-> k] \in usesOf(c)
  OBVIOUS
<1>3. usesOf(c) \in {usesOf(d) : d \in calls}
  OBVIOUS
<1> HIDE DEF usesOf, calls
<1>4. QED
  BY <1>1, <1>2, <1>3

LEMMA LoggerFunctionNests ==
  ASSUME IInv, NestInv, LoggerFunction
  PROVE  NestInv'
<1>1. /\ ModuleInv /\ FramesInv /\ BlocksInv
      /\ phase = "logger" /\ phase' = phase /\ at < Len(module) /\ at' = at + 1 /\ todo = {}
      /\ todo' = IF module[at + 1].wrapper THEN {} ELSE Users(at + 1)
      /\ UNCHANGED <<module, frames>>
  BY DEF IInv, NestInv, LoggerFunction, running
<1>2. ShownInv'
  BY <1>1, NoFrames
<1>3. Len(module) \in Nat /\ at \in 0..Len(module) /\ Funcs = 1..Len(module)
  BY <1>1, FuncsAre DEF ModuleInv
<1>4. UsesInv'
  <2>1. ASSUME NEW u \in todo'
        PROVE  /\ u = [place |-> Place(u.place.in, u.place.block, u.place.call), operand |-> u.operand]
               /\ IsCall(u.place.call) /\ u.operand \in UsesIn(u.place.call, at')
               /\ ~module'[at'].wrapper
    <3>1. u \in Users(at') /\ ~module'[at'].wrapper
      BY <1>1, <2>1
    <3>2. PICK g \in Funcs : \E c \in CallsIn(g) :
            \E k \in UsesIn(c.call, at') : u = [place |-> c, operand |-> k]
      BY <3>1 DEF Users
    <3>3. PICK c \in CallsIn(g) :
            \E k \in UsesIn(c.call, at') : u = [place |-> c, operand |-> k]
      BY <3>2
    <3>4. PICK b \in DOMAIN module[g].blocks :
            \E i \in {j \in Range(Code(g, b)) : IsCall(j)} : c = [in |-> g, block |-> b, call |-> i]
      BY <3>3 DEF CallsIn
    <3>5. QED
      BY <3>1, <3>3, <3>4 DEF Place
  <2>2. QED
    BY <1>1, <2>1 DEF UsesInv, Place
<1>5. ASSUME NEW g \in Funcs, NEW b \in DOMAIN module[g].blocks
      PROVE  Distinct(Code(g, b)) /\ Nested(g, b)'
  <2>1. Distinct(Code(g, b)) /\ Nested(g, b)
    BY <1>1, <1>5 DEF BlocksInv
  <2>2. ASSUME NEW p \in 1..Len(Code(g, b)), IsCall(Code(g, b)[p])
        PROVE  Expected(g, b, Code(g, b)[p])' = Expected(g, b, Code(g, b)[p])
    <3> PICK i : i = Code(g, b)[p]
      OBVIOUS
    <3>0. SUFFICES Expected(g, b, i)' = Expected(g, b, i)
      BY <1>1 DEF Code
    <3>1. Code(g, b) \in Seq(Instructions(Len(module)))
      BY <1>1, <1>5, BlockTyped
    <3>2. i \in Instructions(Len(module)) /\ IsCall(i) /\ i \in Range(Code(g, b))
      BY <2>2, <3>1 DEF Range
    <3>3. i.to \in 1..Len(module)
      BY <1>1, <1>3, <3>2, CallFacts
    <3>4. CASE ~IsShown(g, i)
      <4>1. ~IsShown(g, i)'
        BY <1>1, <3>4 DEF IsShown
      <4>2. QED
        BY <3>0, <3>4, <4>1 DEF Expected
    <3>5. CASE IsShown(g, i)
      <4>1. ASSUME NEW k \in UsesIn(i, i.to)
            PROVE  IsDone(g, b, i, k)' <=> IsDone(g, b, i, k)
        <5>1. CASE i.to = at + 1
          <6>1. [place |-> Place(g, b, i), operand |-> k] \in Users(at + 1)
            <7>1. Place(g, b, i) \in CallsIn(g)
              BY <1>5, <3>2 DEF CallsIn, Place
            <7>2. Place(g, b, i).call = i
              BY DEF Place
            <7>3. QED
              <8> PICK c : c = Place(g, b, i)
                OBVIOUS
              <8>1. c \in UNION {CallsIn(h) : h \in Funcs} /\ k \in UsesIn(c.call, at + 1)
                BY <1>5, <4>1, <5>1, <7>1, <7>2
              <8>2. QED
                BY <8>1, PlaceIsUser
          <6>2. todo' = Users(at + 1)
            BY <1>1, <3>5, <5>1 DEF IsShown
          <6>3. ~IsDone(g, b, i, k)'
            BY <1>1, <1>3, <5>1, <6>1, <6>2 DEF IsDone, Place
          <6>4. ~IsDone(g, b, i, k)
            BY <1>3, <5>1 DEF IsDone
          <6>5. QED
            BY <6>3, <6>4
        <5>2. CASE i.to # at + 1
          BY <1>1, <1>3, <3>3, <5>2 DEF IsDone, Place
        <5>3. QED
          BY <5>1, <5>2
      <4>2. DealtWith(g, b, i)' = DealtWith(g, b, i)
        BY <4>1 DEF DealtWith
      <4>3. IsShown(g, i)'
        BY <1>1, <3>5 DEF IsShown
      <4>4. QED
        BY <1>1, <3>0, <3>5, <4>2, <4>3 DEF Expected
    <3>6. QED
      BY <3>4, <3>5
  <2>3. Code(g, b)' = Code(g, b)
    BY <1>1 DEF Code
  <2>4. QED
    BY <2>1, <2>2, <2>3, StayNested
<1>6. BlocksInv'
  BY <1>1, <1>5 DEF BlocksInv, Distinct, Code, Funcs
<1>7. QED
  BY <1>2, <1>4, <1>6 DEF NestInv

\* Where the calls of the longer block come from.
LEMMA BracketedOrigin ==
  ASSUME NEW S, NEW code \in Seq(S), NEW k \in 1..Len(code), NEW name,
         Enter(name) \in S, Leave(name) \in S,
         NEW longer, longer = Bracketed(code, k, name),
         NEW q \in 1..Len(code) + 2, IsCall(longer[q])
  PROVE  \E p \in 1..Len(code) :
           /\ longer[q] = code[p]
           /\ q = (IF p < k THEN p ELSE IF p = k THEN k + 1 ELSE p + 2)
<1> PICK L : L = Len(code)
  OBVIOUS
<1>1. L \in Nat /\ k \in 1..L /\ q \in 1..L+2
  OBVIOUS
<1>2. /\ \A n \in 1..k-1 : longer[n] = code[n]
      /\ longer[k] = Enter(name) /\ longer[k + 1] = code[k] /\ longer[k + 2] = Leave(name)
      /\ \A n \in k+1..L : longer[n + 2] = code[n]
  <2>1. /\ Len(longer) = Len(code) + 2
        /\ \A n \in 1..k-1 : longer[n] = code[n]
        /\ longer[k] = Enter(name) /\ longer[k + 1] = code[k] /\ longer[k + 2] = Leave(name)
        /\ \A n \in k+1..Len(code) : longer[n + 2] = code[n]
    BY ONLY BracketedAt, code \in Seq(S), k \in 1..Len(code), Enter(name) \in S, Leave(name) \in S,
            longer = Bracketed(code, k, name), SMTT(30)
  <2>2. QED
    BY ONLY <2>1, L = Len(code)
<1>3. ~IsCall(longer[k]) /\ ~IsCall(longer[k + 2])
  BY <1>2 DEF Enter, Leave, IsCall
<1>4. q # k /\ q # k + 2
  BY <1>3
<1>5. CASE q < k
  BY ONLY <1>1, <1>2, <1>5, L = Len(code), longer = Bracketed(code, k, name)
<1>6. CASE q = k + 1
  BY ONLY <1>1, <1>2, <1>6, L = Len(code), longer = Bracketed(code, k, name)
<1>7. CASE q > k + 2
  <2>1. /\ q - 2 \in k+1..L /\ q - 2 \in 1..L /\ (q - 2) + 2 = q
        /\ ~(q - 2 < k) /\ q - 2 # k
    BY ONLY <1>1, <1>7
  <2>2. longer[q] = code[q - 2]
    BY ONLY <1>2, <2>1
  <2>3. QED
    BY ONLY <2>1, <2>2, L = Len(code), longer = Bracketed(code, k, name)
<1>8. QED
  BY ONLY <1>1, <1>4, <1>5, <1>6, <1>7

LEMMA BracketedDistinct ==
  ASSUME NEW S, NEW code \in Seq(S), NEW k \in 1..Len(code), NEW name,
         Enter(name) \in S, Leave(name) \in S, Distinct(code)
  PROVE  Distinct(Bracketed(code, k, name))
<1> PICK longer : longer = Bracketed(code, k, name)
  OBVIOUS
<1>1. DOMAIN longer = 1..Len(code) + 2 /\ DOMAIN code = 1..Len(code) /\ Len(code) \in Nat
  BY BracketedAt
<1>2. ASSUME NEW q \in DOMAIN longer, NEW r \in DOMAIN longer,
             IsCall(longer[q]), longer[q] = longer[r]
      PROVE  q = r
  <2>1. \A x \in 1..Len(code) + 2 : IsCall(longer[x]) =>
          \E p \in 1..Len(code) :
            /\ longer[x] = code[p]
            /\ x = (IF p < k THEN p ELSE IF p = k THEN k + 1 ELSE p + 2)
    BY ONLY BracketedOrigin, code \in Seq(S), k \in 1..Len(code),
            Enter(name) \in S, Leave(name) \in S, longer = Bracketed(code, k, name) DEF IsCall
  <2>2. PICK p \in 1..Len(code) :
          /\ longer[q] = code[p]
          /\ q = (IF p < k THEN p ELSE IF p = k THEN k + 1 ELSE p + 2)
    BY <1>1, <1>2, <2>1
  <2>3. PICK o \in 1..Len(code) :
          /\ longer[r] = code[o]
          /\ r = (IF o < k THEN o ELSE IF o = k THEN k + 1 ELSE o + 2)
    BY <1>1, <1>2, <2>1
  <2>4. p = o
    BY <1>1, <1>2, <2>2, <2>3 DEF Distinct
  <2>5. QED
    BY ONLY <2>2, <2>3, <2>4
<1>3. QED
  BY <1>2 DEF Distinct

\* Whether a use is dealt with depends on nothing but whether it was the one looked at.
LEMMA OthersAsBefore ==
  ASSUME IInv, NEW u \in todo, LoggerUser(u), NEW g, NEW b, NEW i,
         i.to \in Funcs,
         \A h \in Funcs : /\ module'[h].name = module[h].name
                          /\ module'[h].wrapper = module[h].wrapper,
         g \in Funcs,
         u.place # Place(g, b, i) \/ i.to # at \/ ~IsShown(g, i)
  PROVE  Expected(g, b, i)' = Expected(g, b, i)
<1>1. at' = at /\ todo' = todo \ {u}
  BY DEF LoggerUser
<1>2. IsShown(g, i)' <=> IsShown(g, i)
  BY DEF IsShown
<1>3. CASE ~IsShown(g, i)
  BY <1>2, <1>3 DEF Expected
<1>4. CASE IsShown(g, i)
  <2>1. i.to # at \/ \A k : [place |-> Place(g, b, i), operand |-> k] # u
    BY <1>4
  <2>2. DealtWith(g, b, i)' = DealtWith(g, b, i)
    BY <1>1, <2>1 DEF DealtWith, IsDone, Place
  <2>3. QED
    BY <1>2, <1>4, <2>2 DEF Expected
<1>5. QED
  BY <1>3, <1>4

\* The use looked at is dealt with then.
LEMMA OneMoreDone ==
  ASSUME IInv, NestInv, NEW u \in todo, LoggerUser(u), NEW g, NEW b, NEW i,
         i \in Instructions(Len(module)), IsCall(i), g \in Funcs,
         \A h \in Funcs : /\ module'[h].name = module[h].name
                          /\ module'[h].wrapper = module[h].wrapper,
         u.place = Place(g, b, i), IsLogged(at, u)
  PROVE  /\ module[at].name \in FuncNames
         /\ Expected(g, b, i) \in Seq(FuncNames)
         /\ Expected(g, b, i)' = Append(Expected(g, b, i), module[at].name)
<1>1. /\ at' = at /\ todo' = todo \ {u} /\ ModuleInv /\ TodoInv /\ UsesInv
  BY DEF IInv, NestInv, LoggerUser
<1>2. /\ i = u.place.call /\ g = u.place.in /\ b = u.place.block
  BY DEF Place
<1>3. i.op = "call" /\ i.direct /\ i.to = at /\ ~module[g].wrapper
  BY <1>2 DEF IsLogged
<1>4. at \in Funcs /\ module[at].name \in FuncNames
  BY <1>1, FuncsAre, FunctionFields DEF TodoInv
<1>5. /\ u = [place |-> Place(g, b, i), operand |-> u.operand]
      /\ u.operand \in UsesIn(i, at) /\ ~module[at].wrapper
  BY <1>1, <1>2 DEF UsesInv
<1>6. IsShown(g, i) /\ IsShown(g, i)'
  BY <1>3, <1>4, <1>5 DEF IsShown
<1>7. DealtWith(g, b, i)' = DealtWith(g, b, i) \cup {u.operand}
  <2>1. ASSUME NEW k \in UsesIn(i, at)
        PROVE  IsDone(g, b, i, k)' <=> IsDone(g, b, i, k) \/ k = u.operand
    <3>1. [place |-> Place(g, b, i), operand |-> k] = u <=> k = u.operand
      BY <1>5
    <3>2. IsDone(g, b, i, k) <=> at < at \/ [place |-> Place(g, b, i), operand |-> k] \notin todo
      BY <1>3 DEF IsDone
    <3>3. IsDone(g, b, i, k)' <=> at < at \/ [place |-> Place(g, b, i), operand |-> k] \notin todo \ {u}
      BY <1>1, <1>3 DEF IsDone, Place
    <3>4. QED
      BY <3>1, <3>2, <3>3
  <2>2. QED
    BY <1>3, <1>5, <2>1 DEF DealtWith
<1>8. u.operand \notin DealtWith(g, b, i)
  <2>1. ~(at < at)
    BY <1>1, <1>4, FuncsAre
  <2>2. QED
    BY <1>3, <1>5, <2>1 DEF DealtWith, IsDone
<1>9. IsFiniteSet(DealtWith(g, b, i))
  <2>1. IsFiniteSet(UsesIn(i, i.to))
    BY <1>1, CallFacts
  <2>2. QED
    BY <2>1, FS_Subset DEF DealtWith
<1>10. /\ Cardinality(DealtWith(g, b, i)) \in Nat
       /\ Cardinality(DealtWith(g, b, i)') = Cardinality(DealtWith(g, b, i)) + 1
  BY <1>7, <1>8, <1>9, FS_CardinalityType, FS_AddElement
<1> PICK m : m = Cardinality(DealtWith(g, b, i))
  OBVIOUS
<1>11. Expected(g, b, i) = [n \in 1..m |-> module[at].name]
  BY <1>3, <1>6 DEF Expected
<1>12. Expected(g, b, i)' = [n \in 1..m + 1 |-> module[at].name]
  BY <1>3, <1>4, <1>6, <1>10 DEF Expected
<1>13. /\ [n \in 1..m |-> module[at].name] \in Seq(FuncNames)
       /\ [n \in 1..m + 1 |-> module[at].name] = Append([n \in 1..m |-> module[at].name], module[at].name)
  <2> PICK name : name = module[at].name
    OBVIOUS
  <2>1. name \in FuncNames /\ m \in Nat
    BY <1>4, <1>10
  <2>2. /\ [n \in 1..m |-> name] \in Seq(FuncNames)
        /\ [n \in 1..m + 1 |-> name] = Append([n \in 1..m |-> name], name)
    BY ONLY <2>1, RepeatOnce
  <2>3. QED
    BY ONLY <2>2, name = module[at].name
<1>14. QED
  BY ONLY <1>4, <1>11, <1>12, <1>13

LEMMA LoggerUserNests ==
  ASSUME IInv, NestInv, NEW u \in todo, LoggerUser(u)
  PROVE  NestInv'
<1>1. /\ ModuleInv /\ TodoInv /\ FramesInv /\ BlocksInv /\ UsesInv
      /\ phase = "logger" /\ todo' = todo \ {u} /\ UNCHANGED <<phase, at, frames>>
  BY DEF IInv, NestInv, LoggerUser, running
<1>2. ShownInv'
  BY <1>1, NoFrames
<1>3. at \in Funcs /\ InPlace(u.place)
  BY <1>1 DEF TodoInv
<1>4. \A g \in Funcs : \A b \in DOMAIN module[g].blocks : Distinct(Code(g, b)) /\ Nested(g, b)
  BY <1>1 DEF BlocksInv
<1>5. CASE ~IsLogged(at, u)
  <2>1. UNCHANGED module
    BY <1>5 DEF LoggerUser
  <2>2. UsesInv'
    BY <1>1, <2>1 DEF UsesInv, Place
  <2>3. ASSUME NEW g \in Funcs, NEW b \in DOMAIN module[g].blocks
        PROVE  Nested(g, b)'
    <3>1. Code(g, b)' = Code(g, b)
      BY <2>1 DEF Code
    <3>2. ASSUME NEW p \in 1..Len(Code(g, b)), IsCall(Code(g, b)[p])
          PROVE  Expected(g, b, Code(g, b)[p])' = Expected(g, b, Code(g, b)[p])
      <4> PICK i : i = Code(g, b)[p]
        OBVIOUS
      <4>1. i \in Instructions(Len(module)) /\ IsCall(i)
        BY <1>1, <2>3, <3>2, BlockTyped
      <4>2. i.to \in Funcs
        BY <1>1, <4>1, CallFacts
      <4>3. u.place # Place(g, b, i) \/ i.to # at \/ ~IsShown(g, i)
        <5>1. SUFFICES ASSUME u.place = Place(g, b, i), IsShown(g, i)
                       PROVE  i.to # at
          OBVIOUS
        <5>2. u.place.call = i /\ u.place.in = g
          BY <5>1 DEF Place
        <5>3. i.op = "call" /\ i.direct /\ ~module[g].wrapper
          BY <5>1 DEF IsShown
        <5>4. QED
          BY <1>5, <5>2, <5>3 DEF IsLogged
      <4>4. Expected(g, b, i)' = Expected(g, b, i)
        BY <2>1, <2>3, <4>2, <4>3, OthersAsBefore
      <4>5. QED
        BY <3>1, <4>4
    <3>3. QED
      BY <1>4, <2>3, <3>1, <3>2, StayNested
  <2>4. BlocksInv'
    BY <1>1, <1>4, <2>1, <2>3 DEF BlocksInv, Distinct, Code, Funcs
  <2>5. QED
    BY <1>2, <2>2, <2>4 DEF NestInv
<1>6. CASE IsLogged(at, u)
  <2> PICK c : c = u.place
    OBVIOUS
  <2> PICK name : name = module[at].name
    OBVIOUS
  <2>1. LogCall(at, c)
    BY <1>6 DEF LoggerUser
  <2>2. /\ Len(module') = Len(module)
        /\ \A g \in Funcs : g # c.in => module'[g] = module[g]
        /\ \A h \in Funcs : /\ module'[h].name = module[h].name
                            /\ module'[h].wrapper = module[h].wrapper
        /\ DOMAIN module'[c.in].blocks = DOMAIN module[c.in].blocks
        /\ \A d \in DOMAIN module[c.in].blocks :
             d # c.block => module'[c.in].blocks[d] = module[c.in].blocks[d]
        /\ module' \in Seq(FunctionSet(Len(module)))
    BY <1>1, <1>3, <2>1, CallLogged
  <2>3. \E k \in 1..Len(Code(c.in, c.block)) :
           /\ Code(c.in, c.block)[k] = c.call
           /\ module'[c.in].blocks[c.block] = Bracketed(Code(c.in, c.block), k, name)
    BY <1>1, <1>3, <2>1, CallLogged DEF Code
  <2>4. Funcs' = Funcs /\ Funcs = 1..Len(module)
    BY <1>1, <2>2, FuncsAre DEF Funcs
  <2>5. UsesInv'
    BY <1>1, <1>3, <2>2 DEF UsesInv, Place
  <2>6. /\ c.in \in Funcs /\ c.block \in DOMAIN module[c.in].blocks
        /\ c = Place(c.in, c.block, c.call)
    BY <1>1, <1>3 DEF InPlace, UsesInv, Place
  <2>7. ASSUME NEW g \in Funcs, NEW b \in DOMAIN module[g].blocks, g # c.in \/ b # c.block
        PROVE  Distinct(Code(g, b)') /\ Nested(g, b)'
    <3>1. Code(g, b)' = Code(g, b)
      BY <2>2, <2>7 DEF Code
    <3>2. ASSUME NEW p \in 1..Len(Code(g, b)), IsCall(Code(g, b)[p])
          PROVE  Expected(g, b, Code(g, b)[p])' = Expected(g, b, Code(g, b)[p])
      <4> PICK i : i = Code(g, b)[p]
        OBVIOUS
      <4>1. i \in Instructions(Len(module)) /\ IsCall(i)
        BY <1>1, <2>7, <3>2, BlockTyped
      <4>2. i.to \in Funcs
        BY <1>1, <4>1, CallFacts
      <4>3. u.place # Place(g, b, i)
        BY <2>7 DEF Place
      <4>4. Expected(g, b, i)' = Expected(g, b, i)
        BY <2>2, <2>7, <4>2, <4>3, OthersAsBefore
      <4>5. QED
        BY <3>1, <4>4
    <3>3. QED
      BY <1>4, <2>7, <3>1, <3>2, StayNested
  <2>8. Distinct(Code(c.in, c.block)') /\ Nested(c.in, c.block)'
    <3> PICK g : g = c.in
      OBVIOUS
    <3> PICK b : b = c.block
      OBVIOUS
    <3> PICK code : code = Code(g, b)
      OBVIOUS
    <3>1. PICK k \in 1..Len(code) :
            code[k] = c.call /\ module'[g].blocks[b] = Bracketed(code, k, name)
      BY <2>3
    <3> PICK longer : longer = Bracketed(code, k, name)
      OBVIOUS
    <3> PICK S : S = Instructions(Len(module))
      OBVIOUS
    <3> PICK call : call = c.call
      OBVIOUS
    <3>2. code \in Seq(S) /\ Distinct(code) /\ Nested(g, b) /\ g \in Funcs
      BY <1>1, <1>4, <2>6, BlockTyped
    <3>3. call \in S /\ IsCall(call) /\ code[k] = call
      BY <1>1, <3>1, <3>2 DEF UsesInv
    <3>4. /\ name \in FuncNames
          /\ Expected(g, b, call) \in Seq(FuncNames)
          /\ Expected(g, b, call)' = Append(Expected(g, b, call), name)
      BY <1>6, <2>2, <2>6, <3>2, <3>3, OneMoreDone, SMTT(30)
    <3>5. Enter(name) \in S /\ Leave(name) \in S
      BY <3>4 DEF Enter, Leave, Instructions
    <3>6. PICK s : s \in Nestings(code) /\ AsExpected(g, b, code, s)
      BY <3>2 DEF Nested
    <3> PICK t : t = Widened(s, Len(code), k, name)
      OBVIOUS
    <3>7. /\ t \in Nestings(longer) /\ Len(longer) = Len(code) + 2
          /\ \A p \in 1..k-1 : t[p] = s[p] /\ longer[p] = code[p]
          /\ t[k + 1] = Append(s[k], name) /\ longer[k + 1] = code[k]
          /\ \A p \in k+1..Len(code) : t[p + 2] = s[p] /\ longer[p + 2] = code[p]
      <4>1. code \in Seq(S) /\ k \in 1..Len(code) /\ IsCall(code[k]) /\ s \in Nestings(code)
        BY <3>1, <3>2, <3>3, <3>6
      <4>2. name \in FuncNames
        BY <3>4
      <4>3. QED
        BY ONLY <3>5, <4>1, <4>2, BracketedBalanced, longer = Bracketed(code, k, name),
                t = Widened(s, Len(code), k, name), SMTT(30) DEF IsCall
    <3>8. ASSUME NEW q \in 1..Len(longer), IsCall(longer[q])
          PROVE  t[q] = Expected(g, b, longer[q])'
      <4>1. PICK p \in 1..Len(code) :
              /\ longer[q] = code[p]
              /\ q = (IF p < k THEN p ELSE IF p = k THEN k + 1 ELSE p + 2)
        <5>1. q \in 1..Len(code) + 2
          BY <3>7, <3>8
        <5>2. QED
          BY <3>1, <3>2, <3>5, <3>8, <5>1, BracketedOrigin
      <4>2. Len(code) \in Nat /\ k \in 1..Len(code)
        BY <3>1, <3>2
      <4>3. s[p] = Expected(g, b, code[p])
        BY <3>6, <3>8, <4>1 DEF AsExpected
      <4>4. CASE p = k
        <5>1. q = k + 1 /\ longer[q] = call /\ t[q] = Append(s[k], name)
          BY ONLY <3>3, <3>7, <4>1, <4>2, <4>4
        <5>2. s[k] = Expected(g, b, call)
          BY <3>3, <4>3, <4>4
        <5>3. QED
          BY <3>4, <5>1, <5>2
      <4>5. CASE p # k
        <5>1. t[q] = s[p]
          <6>1. CASE p < k
            BY ONLY <3>7, <4>1, <4>2, <6>1
          <6>2. CASE p > k
            BY ONLY <3>7, <4>1, <4>2, <6>2
          <6>3. QED
            BY ONLY <4>1, <4>2, <4>5, <6>1, <6>2
        <5> PICK i : i = code[p]
          OBVIOUS
        <5>2. i # call
          BY <3>2, <3>3, <3>8, <4>1, <4>5 DEF Distinct
        <5>3. u.place # Place(g, b, i)
          BY <5>2 DEF Place
        <5>4. i.to \in Funcs
          BY <1>1, <3>2, <3>8, <4>1, CallFacts
        <5>5. Expected(g, b, i)' = Expected(g, b, i)
          BY <2>2, <3>2, <5>3, <5>4, OthersAsBefore
        <5>6. QED
          BY <4>1, <4>3, <5>1, <5>5
      <4>6. QED
        BY <4>4, <4>5
    <3>9. Code(g, b)' = longer
      BY <3>1 DEF Code
    <3>10. Nested(g, b)'
      <4>1. AsExpected(g, b, Code(g, b), t)'
        BY <3>8, <3>9 DEF AsExpected
      <4>2. QED
        BY <3>7, <3>9, <4>1 DEF Nested
    <3>11. Distinct(longer)
      BY <3>1, <3>2, <3>5, BracketedDistinct
    <3>12. QED
      BY <3>9, <3>10, <3>11
  <2>9. BlocksInv'
    <3>1. ASSUME NEW g \in Funcs', NEW b \in DOMAIN module'[g].blocks
          PROVE  Distinct(Code(g, b)') /\ Nested(g, b)'
      <4>1. g \in Funcs /\ b \in DOMAIN module[g].blocks
        BY <2>2, <2>4, <3>1
      <4>2. QED
        BY <2>7, <2>8, <4>1
    <3>2. QED
      BY <1>1, <3>1 DEF BlocksInv, Distinct
  <2>10. QED
    BY <1>2, <2>5, <2>9 DEF NestInv
<1>7. QED
  BY <1>5, <1>6

-----------------------------------------------------------------------------
(* The run. *)

EntrySet == [func : FuncNames, slot : Nat]

LEMMA ShownFacts ==
  ASSUME NEW open \in Seq(EntrySet), NEW shown, shown = [n \in DOMAIN open |-> open[n].func]
  PROVE  /\ shown \in Seq(FuncNames) /\ Len(shown) = Len(open) /\ Len(open) \in Nat
         /\ DOMAIN open = 1..Len(open)
         /\ \A i \in 1..Len(open) : shown[i] = open[i].func
<1>1. DOMAIN open = 1..Len(open) /\ Len(open) \in Nat
  OBVIOUS
<1>2. \A n \in 1..Len(open) : open[n] \in EntrySet
  OBVIOUS
<1>3. \A n \in 1..Len(open) : open[n].func \in FuncNames
  BY <1>2 DEF EntrySet
<1> PICK L : L = Len(open)
  OBVIOUS
<1>4. shown \in [1..L -> FuncNames]
  BY <1>1, <1>3
<1>5. L \in Nat
  BY <1>1
<1>6. shown \in Seq(FuncNames) /\ Len(shown) = L
  BY ONLY <1>4, <1>5
<1>7. \A i \in 1..L : shown[i] = open[i].func
  BY <1>1
<1>8. QED
  BY <1>1, <1>6, <1>7

LEMMA ShownOfMore ==
  ASSUME NEW open \in Seq(EntrySet), NEW e \in EntrySet,
         NEW more, more = Append(open, e)
  PROVE  [n \in DOMAIN more |-> more[n].func] = Append([n \in DOMAIN open |-> open[n].func], e.func)
<1> PICK shown : shown = [n \in DOMAIN open |-> open[n].func]
  OBVIOUS
<1> PICK longer : longer = [n \in DOMAIN more |-> more[n].func]
  OBVIOUS
<1>1. /\ shown \in Seq(FuncNames) /\ Len(shown) = Len(open) /\ Len(open) \in Nat
      /\ \A i \in 1..Len(open) : shown[i] = open[i].func
  BY ShownFacts
<1>2. /\ more \in Seq(EntrySet) /\ Len(more) = Len(open) + 1
      /\ \A i \in 1..Len(open) : more[i] = open[i]
      /\ more[Len(open) + 1] = e
  BY AppendFacts
<1>3. /\ longer \in Seq(FuncNames) /\ Len(longer) = Len(more)
      /\ \A i \in 1..Len(more) : longer[i] = more[i].func
  BY <1>2, ShownFacts
<1>4. e.func \in FuncNames
  BY DEF EntrySet
<1> PICK both : both = Append(shown, e.func)
  OBVIOUS
<1>5. /\ both \in Seq(FuncNames) /\ Len(both) = Len(open) + 1
      /\ \A i \in 1..Len(open) : both[i] = shown[i]
      /\ both[Len(open) + 1] = e.func
  BY <1>1, <1>4, AppendFacts
<1>6. \A i \in 1..Len(open) + 1 : both[i] = longer[i]
  <2>1. ASSUME NEW i \in 1..Len(open) + 1
        PROVE  both[i] = longer[i]
    <3>1. CASE i = Len(open) + 1
      BY ONLY <1>2, <1>3, <1>5, <2>1, <3>1
    <3>2. CASE i \in 1..Len(open)
      BY ONLY <1>1, <1>2, <1>3, <1>5, <2>1, <3>2
    <3>3. QED
      BY ONLY <1>1, <2>1, <3>1, <3>2
  <2>2. QED
    BY ONLY <2>1
<1>7. both = longer
  BY ONLY <1>2, <1>3, <1>5, <1>6
<1>8. QED
  BY <1>7

LEMMA ShownOfFront ==
  ASSUME NEW open \in Seq(EntrySet), NEW less, less = Front(open)
  PROVE  [n \in DOMAIN less |-> less[n].func] = Front([n \in DOMAIN open |-> open[n].func])
<1> PICK shown : shown = [n \in DOMAIN open |-> open[n].func]
  OBVIOUS
<1> PICK shorter : shorter = [n \in DOMAIN less |-> less[n].func]
  OBVIOUS
<1>1. /\ shown \in Seq(FuncNames) /\ Len(shown) = Len(open) /\ Len(open) \in Nat
      /\ \A i \in 1..Len(open) : shown[i] = open[i].func
  BY ShownFacts
<1>2. CASE Len(open) = 0
  <2>1. open = <<>> /\ shown = <<>>
    BY ONLY <1>1, <1>2, open \in Seq(EntrySet)
  <2>2. less = <<>> /\ Front(shown) = <<>>
    BY <2>1 DEF Front
  <2>3. shorter = <<>>
    BY ONLY <2>2, shorter = [n \in DOMAIN less |-> less[n].func]
  <2>4. QED
    BY <2>2, <2>3
<1>3. CASE Len(open) # 0
  <2> PICK L : L = Len(open) - 1
    OBVIOUS
  <2>1. L \in 0..Len(open) /\ L \in 0..Len(shown) /\ L = Len(open) - 1
    BY ONLY <1>1, <1>3, L = Len(open) - 1
  <2>2. /\ Len(less) = L /\ less \in Seq(EntrySet)
        /\ \A i \in 1..L : less[i] = open[i]
    BY <2>1, PrefixFacts DEF Front
  <2> PICK front : front = Front(shown)
    OBVIOUS
  <2>3. /\ Len(front) = L /\ front \in Seq(FuncNames)
        /\ \A i \in 1..L : front[i] = shown[i]
    BY <1>1, <2>1, PrefixFacts DEF Front
  <2>4. /\ shorter \in Seq(FuncNames) /\ Len(shorter) = L
        /\ \A i \in 1..L : shorter[i] = less[i].func
    BY <2>2, ShownFacts
  <2>5. ASSUME NEW i \in 1..L
        PROVE  front[i] = shorter[i]
    <3>1. i \in 1..Len(open)
      BY ONLY <1>1, <2>1, <2>5
    <3>2. front[i] = open[i].func /\ shorter[i] = open[i].func
      BY ONLY <1>1, <2>2, <2>3, <2>4, <2>5, <3>1
    <3>3. QED
      BY ONLY <3>2
  <2>6. front = shorter
    BY ONLY <2>3, <2>4, <2>5
  <2>7. QED
    BY <2>6
<1>4. QED
  BY <1>2, <1>3

LEMMA NoneShown ==
  ASSUME NEW frame \in FrameSet
  PROVE  Shown(frame) = <<>> <=> frame.open = <<>>
<1>1. frame.open \in Seq(EntrySet)
  BY DEF FrameSet, EntrySet
<1>2. DOMAIN Shown(frame) = DOMAIN frame.open
  BY DEF Shown
<1>3. QED
  BY <1>1, <1>2 DEF Shown

\* The code a frame is in.
LEMMA BlockOfTyped ==
  ASSUME ModuleInv, NEW frame \in FrameSet, InBlock(frame)
  PROVE  /\ BlockOf(frame) \in Seq(Instructions(Len(module)))
         /\ \/ BlockOf(frame) = <<>> /\ module[frame.func].blocks = <<>>
            \/ /\ BlockOf(frame) = Code(frame.func, frame.block)
               /\ frame.block \in DOMAIN module[frame.func].blocks
<1>1. frame.func \in Funcs
  BY DEF FrameSet
<1>2. CASE module[frame.func].blocks = <<>>
  BY <1>2 DEF BlockOf
<1>3. CASE module[frame.func].blocks # <<>>
  BY <1>1, <1>3, BlockTyped DEF BlockOf, InBlock
<1>4. QED
  BY <1>2, <1>3

\* A frame at the beginning of a block has nothing open, and that is right.
LEMMA StartFollows ==
  ASSUME ModuleInv, BlocksInv, phase # "librarify", NEW frame \in FrameSet, InBlock(frame),
         frame.next = 1, frame.open = <<>>
  PROVE  \E s : Follows(frame, s)
<1>1. frame.func \in Funcs /\ Shown(frame) = <<>>
  BY NoneShown DEF FrameSet
<1>2. BlockOf(frame) \in Seq(Instructions(Len(module)))
  BY BlockOfTyped
<1>3. 1 \in 1..Len(BlockOf(frame)) + 1
  BY <1>2
<1>4. CASE BlockOf(frame) = <<>>
  <2> PICK s : s = [p \in 1..1 |-> <<>>]
    OBVIOUS
  <2>1. s \in [1..1 -> Seq(FuncNames)] /\ s[1] = <<>>
    OBVIOUS
  <2>2. Len(<<>>) = 0
    OBVIOUS
  <2>3. s \in Nestings(<<>>)
    BY <2>1, <2>2 DEF Nestings
  <2>4. AsExpected(frame.func, frame.block, <<>>, s)
    BY <2>2 DEF AsExpected
  <2>5. QED
    BY <1>1, <1>3, <1>4, <2>1, <2>3, <2>4 DEF Follows
<1>5. CASE /\ BlockOf(frame) = Code(frame.func, frame.block)
           /\ frame.block \in DOMAIN module[frame.func].blocks
  <2>1. Nested(frame.func, frame.block)
    BY <1>1, <1>5 DEF BlocksInv
  <2>2. PICK s : /\ s \in Nestings(BlockOf(frame))
                 /\ AsExpected(frame.func, frame.block, BlockOf(frame), s)
    BY <1>5, <2>1 DEF Nested
  <2>3. s[1] = <<>>
    BY <2>2 DEF Nestings
  <2>4. QED
    BY <1>1, <1>3, <2>2, <2>3 DEF Follows
<1>6. QED
  BY <1>4, <1>5, BlockOfTyped

\* What a frame is to have open does not change in the run.
LEMMA FollowsStill ==
  ASSUME NEW frame, NEW s, Follows(frame, s), UNCHANGED <<module, at, todo>>
  PROVE  Follows(frame, s)'
<1>1. BlockOf(frame)' = BlockOf(frame)
  BY DEF BlockOf, Code
<1>2. \A i : Expected(frame.func, frame.block, i)' = Expected(frame.func, frame.block, i)
  BY DEF Expected, IsShown, DealtWith, IsDone, Place
<1>3. AsExpected(frame.func, frame.block, BlockOf(frame), s)'
  BY <1>1, <1>2 DEF Follows, AsExpected
<1>4. QED
  BY <1>1, <1>3 DEF Follows, Shown

\* Before a call the names shown are those expected at it, and behind it, too.
LEMMA AtCall ==
  ASSUME NEW frame, NEW s, Follows(frame, s),
         NEW p \in 1..Len(BlockOf(frame)), IsCall(BlockOf(frame)[p])
  PROVE  s[p + 1] = s[p] /\ s[p] = Expected(frame.func, frame.block, BlockOf(frame)[p])
BY DEF Follows, Nestings, AsExpected

\* Of the invariant, a step of the run can disturb only what the frames have open.
LEMMA OnlyShown ==
  ASSUME NestInv, phase # "librarify", phase' # "librarify",
         UNCHANGED <<module, at, todo>>,
         phase' = "running" => at = Len(module) /\ todo = {},
         ShownInv'
  PROVE  NestInv'
<1>1. BlocksInv /\ UsesInv
  BY DEF NestInv
<1>2. ASSUME NEW g, NEW b, Nested(g, b)
      PROVE  Nested(g, b)'
  <2>1. Code(g, b)' = Code(g, b)
    BY DEF Code
  <2>2. \A i : Expected(g, b, i)' = Expected(g, b, i)
    BY DEF Expected, IsShown, DealtWith, IsDone, Place
  <2>3. QED
    BY <1>2, <2>1, <2>2 DEF Nested, AsExpected
<1>3. BlocksInv'
  BY <1>1, <1>2 DEF BlocksInv, Distinct, Code, Funcs
<1>4. UsesInv'
  BY <1>1 DEF UsesInv, Place
<1>5. QED
  BY <1>3, <1>4 DEF NestInv

\* A step of the run leaves frames that show what is right, the lower ones in their calls.
LEMMA RunNests ==
  ASSUME IInv, NestInv, phase = "running", UNCHANGED <<phase, module, at, todo>>,
         NEW n \in Nat, Len(frames') = n,
         \A k \in 1..n : ShowsRight(frames'[k]),
         \A k \in 1..n-1 : InCall(frames'[k])
  PROVE  NestInv'
<1>1. ASSUME NEW frame, ShowsRight(frame)
      PROVE  ShowsRight(frame)'
  BY <1>1, FollowsStill DEF ShowsRight
<1>2. ASSUME NEW frame, InCall(frame)
      PROVE  InCall(frame)'
  <2>1. BlockOf(frame)' = BlockOf(frame)
    BY DEF BlockOf, Code
  <2>2. QED
    BY <1>2, <2>1 DEF InCall
<1>3. ShownInv'
  BY <1>1, <1>2 DEF ShownInv
<1>4. at = Len(module) /\ todo = {}
  BY DEF NestInv, UsesInv
<1>5. QED
  BY <1>3, <1>4, OnlyShown

\* The k-th frame is the new top, with what it shows changed.
LEMMA TopNests ==
  ASSUME IInv, NestInv, phase = "running", UNCHANGED <<phase, module, at, todo>>,
         NEW k \in 1..Len(frames), NEW frame \in FrameSet, ShowsRight(frame),
         frames' = [SubSeq(frames, 1, k) EXCEPT ![k] = frame]
  PROVE  NestInv'
<1>1. frames \in Seq(FrameSet) /\ ShownInv
  BY DEF IInv, FramesInv, NestInv
<1> PICK below : below = SubSeq(frames, 1, k)
  OBVIOUS
<1>2. Len(frames) \in Nat /\ k \in 0..Len(frames) /\ k \in 1..k /\ k \in Nat
  BY <1>1
<1>3. /\ below \in Seq(FrameSet) /\ Len(below) = k
      /\ \A j \in 1..k : below[j] = frames[j]
  BY <1>1, <1>2, PrefixFacts
<1>4. frames' = [below EXCEPT ![k] = frame]
  OBVIOUS
<1>5. /\ Len(frames') = k /\ frames'[k] = frame
      /\ \A j \in 1..k : j # k => frames'[j] = below[j]
  BY ONLY <1>2, <1>3, <1>4, frame \in FrameSet, ReplaceFacts
<1>6. ASSUME NEW j \in 1..k
      PROVE  ShowsRight(frames'[j])
  <2>1. j \in 1..Len(frames)
    BY ONLY <1>2, <1>6
  <2>2. ShowsRight(frames[j])
    BY <1>1, <2>1 DEF ShownInv
  <2>3. frames'[j] = frame \/ frames'[j] = frames[j]
    BY ONLY <1>3, <1>5, <1>6
  <2>4. QED
    BY <2>2, <2>3
<1>7. ASSUME NEW j \in 1..k-1
      PROVE  InCall(frames'[j])
  <2>1. j \in 1..Len(frames)-1 /\ j \in 1..k /\ j # k
    BY ONLY <1>2, <1>7
  <2>2. InCall(frames[j])
    BY <1>1, <2>1 DEF ShownInv
  <2>3. frames'[j] = frames[j]
    BY ONLY <1>3, <1>5, <2>1
  <2>4. QED
    BY <2>2, <2>3
<1>8. QED
  BY <1>2, <1>5, <1>6, <1>7, RunNests

\* One instruction further.
LEMMA OneFurther ==
  ASSUME NEW frame, NEW s, Follows(frame, s), BlockOf(frame) \in Seq(Instructions(Len(module))),
         frame.next <= Len(BlockOf(frame)), NEW next, next = frame.next + 1,
         NEW moved, moved.func = frame.func, moved.block = frame.block,
         moved.next = next, Shown(moved) = s[next]
  PROVE  Follows(moved, s)
<1>1. BlockOf(moved) = BlockOf(frame)
  BY DEF BlockOf
<1> PICK L : L = Len(BlockOf(frame))
  OBVIOUS
<1>2. frame.next \in 1..L + 1 /\ L \in Nat /\ frame.next <= L
  BY DEF Follows
<1>3. next \in 1..L + 1
  BY ONLY <1>2, next = frame.next + 1
<1>4. QED
  BY <1>1, <1>3 DEF Follows

LEMMA TopFacts ==
  ASSUME IInv, NestInv, phase = "running"
  PROVE  /\ ModuleInv /\ BlocksInv /\ Top \in FrameSet /\ InBlock(Top) /\ ShowsRight(Top)
         /\ Len(frames) \in 1..Len(frames) /\ Top = frames[Len(frames)]
         /\ frames \in Seq(FrameSet)
         /\ BlockOf(Top) \in Seq(Instructions(Len(module)))
<1>1. /\ ModuleInv /\ Top \in FrameSet /\ InBlock(Top) /\ FramesInv
      /\ Len(frames) \in 1..Len(frames)
  BY RunFacts
<1>2. ShowsRight(Top)
  BY <1>1 DEF NestInv, ShownInv, Top
<1>3. BlockOf(Top) \in Seq(Instructions(Len(module)))
  BY <1>1, BlockOfTyped
<1>4. QED
  BY <1>1, <1>2, <1>3 DEF NestInv, Top, FramesInv

LEMMA WholeSequence ==
  ASSUME NEW S, NEW s \in Seq(S)
  PROVE  SubSeq(s, 1, Len(s)) = s
OBVIOUS

LEMMA LogEnterNests ==
  ASSUME IInv, NestInv, LogEnter
  PROVE  NestInv'
<1> PICK entry : entry = [func |-> Instruction.name, slot |-> Len(log')]
  OBVIOUS
<1> PICK top : top = Top
  OBVIOUS
<1> PICK moved : moved = [top EXCEPT !.next = @ + 1, !.open = Append(@, entry)]
  OBVIOUS
<1>1. /\ phase = "running" /\ AtInstruction({"enter"})
      /\ log' = Append(log, Instruction.name)
      /\ frames' = [frames EXCEPT ![Len(frames)] = moved]
      /\ UNCHANGED <<phase, module, at, todo>>
  BY DEF LogEnter, AtInstruction, ReplaceTop
<1>2. /\ top \in FrameSet /\ ShowsRight(top) /\ Len(frames) \in 1..Len(frames)
      /\ frames \in Seq(FrameSet) /\ BlockOf(top) \in Seq(Instructions(Len(module)))
  BY <1>1, TopFacts
<1>3. /\ top.next <= Len(BlockOf(top)) /\ Instruction = BlockOf(top)[top.next]
      /\ Instruction.op = "enter" /\ Instruction.name \in FuncNames
  <2>1. Instruction \in Instructions(Len(module)) /\ Instruction.op = "enter"
    BY <1>1, InstructionTyped
  <2>2. QED
    BY <1>1, <2>1 DEF AtInstruction, Instruction, Instructions
<1>4. entry \in EntrySet /\ entry.func = Instruction.name
  <2>1. log \in Seq(FuncNames)
    BY DEF IInv, FramesInv
  <2>2. Len(log') \in Nat
    BY <1>1, <1>3, <2>1
  <2>3. QED
    BY <1>3, <2>2 DEF EntrySet
<1> PICK more : more = Append(top.open, entry)
  OBVIOUS
<1>5. /\ top.open \in Seq(EntrySet) /\ top.next \in Nat \ {0}
      /\ more \in Seq(EntrySet) /\ top.next + 1 \in Nat \ {0}
  <2>1. top.open \in Seq(EntrySet) /\ top.next \in Nat \ {0}
    BY <1>2 DEF FrameSet, EntrySet
  <2>2. more \in Seq(EntrySet)
    BY <1>4, <2>1, AppendFacts
  <2>3. QED
    BY <2>1, <2>2
<1>6. /\ moved \in FrameSet /\ moved.func = top.func /\ moved.block = top.block
      /\ moved.next = top.next + 1 /\ moved.open = more
  BY ONLY <1>2, <1>5, moved = [top EXCEPT !.next = @ + 1, !.open = Append(@, entry)],
          more = Append(top.open, entry) DEF FrameSet, EntrySet
<1>7. PICK s : Follows(top, s)
  BY <1>2 DEF ShowsRight
<1>8. Shown(moved) = s[top.next + 1]
  <2>1. Shown(moved) = Append(Shown(top), Instruction.name)
    BY <1>4, <1>5, <1>6, ShownOfMore DEF Shown
  <2>2. Shown(top) = s[top.next] /\ top.next \in 1..Len(BlockOf(top))
    BY <1>2, <1>3, <1>7 DEF Follows
  <2>3. s[top.next + 1] = Append(s[top.next], Instruction.name)
    BY <1>3, <1>7, <2>2 DEF Follows, Nestings
  <2>4. QED
    BY <2>1, <2>2, <2>3
<1>9. ShowsRight(moved)
  <2> PICK next : next = top.next + 1
    OBVIOUS
  <2>1. moved.next = next /\ Shown(moved) = s[next]
    BY <1>6, <1>8
  <2>2. Follows(moved, s)
    BY ONLY <1>2, <1>3, <1>6, <1>7, <2>1, next = top.next + 1, OneFurther
  <2>3. QED
    BY <2>2 DEF ShowsRight
<1>10. frames' = [SubSeq(frames, 1, Len(frames)) EXCEPT ![Len(frames)] = moved]
  BY <1>1, <1>2, WholeSequence
<1>11. QED
  BY <1>1, <1>2, <1>6, <1>9, <1>10, TopNests

LEMMA LogLeaveNests ==
  ASSUME IInv, NestInv, LogLeave
  PROVE  NestInv'
<1> PICK top : top = Top
  OBVIOUS
<1> PICK moved : moved = [top EXCEPT !.next = @ + 1, !.open = Front(@)]
  OBVIOUS
<1>1. /\ phase = "running" /\ AtInstruction({"leave"})
      /\ frames' = [frames EXCEPT ![Len(frames)] = moved]
      /\ UNCHANGED <<phase, module, at, todo>>
  BY DEF LogLeave, AtInstruction, ReplaceTop
<1>2. /\ top \in FrameSet /\ ShowsRight(top) /\ Len(frames) \in 1..Len(frames)
      /\ frames \in Seq(FrameSet) /\ BlockOf(top) \in Seq(Instructions(Len(module)))
  BY <1>1, TopFacts
<1>3. /\ top.next <= Len(BlockOf(top)) /\ BlockOf(top)[top.next].op = "leave"
  BY <1>1 DEF AtInstruction, Instruction
<1> PICK less : less = Front(top.open)
  OBVIOUS
<1>5. /\ top.open \in Seq(EntrySet) /\ top.next \in Nat \ {0}
      /\ less \in Seq(EntrySet) /\ top.next + 1 \in Nat \ {0}
  BY <1>2, FrontTyped DEF FrameSet, EntrySet
<1>6. /\ moved \in FrameSet /\ moved.func = top.func /\ moved.block = top.block
      /\ moved.next = top.next + 1 /\ moved.open = less
  BY ONLY <1>2, <1>5, moved = [top EXCEPT !.next = @ + 1, !.open = Front(@)],
          less = Front(top.open) DEF FrameSet, EntrySet
<1>7. PICK s : Follows(top, s)
  BY <1>2 DEF ShowsRight
<1>8. Shown(moved) = s[top.next + 1]
  <2>1. Shown(moved) = Front(Shown(top))
    BY <1>5, <1>6, ShownOfFront DEF Shown
  <2>2. Shown(top) = s[top.next] /\ top.next \in 1..Len(BlockOf(top))
    BY <1>2, <1>3, <1>7 DEF Follows
  <2>3. PICK next : next = top.next + 1
    OBVIOUS
  <2>4. s[top.next] = Append(s[next], BlockOf(top)[top.next].name) /\ s[next] \in Seq(FuncNames)
    BY <1>3, <1>7, <2>2, <2>3 DEF Follows, Nestings
  <2>5. BlockOf(top)[top.next].name \in FuncNames
    BY <1>1, InstructionTyped DEF Instruction, Instructions
  <2>6. s[next] = Front(s[top.next])
    BY <2>4, <2>5, FrontAppend
  <2>7. QED
    BY <2>1, <2>2, <2>3, <2>6
<1>9. ShowsRight(moved)
  <2> PICK next : next = top.next + 1
    OBVIOUS
  <2>1. moved.next = next /\ Shown(moved) = s[next]
    BY <1>6, <1>8
  <2>2. Follows(moved, s)
    BY ONLY <1>2, <1>3, <1>6, <1>7, <2>1, next = top.next + 1, OneFurther
  <2>3. QED
    BY <2>2 DEF ShowsRight
<1>10. frames' = [SubSeq(frames, 1, Len(frames)) EXCEPT ![Len(frames)] = moved]
  BY <1>1, <1>2, WholeSequence
<1>11. QED
  BY <1>1, <1>2, <1>6, <1>9, <1>10, TopNests

\* Each frame is in its code, and shows what it is to show there.
LEMMA FrameFacts ==
  ASSUME IInv, NestInv, NEW k \in 1..Len(frames)
  PROVE  /\ frames[k] \in FrameSet /\ InBlock(frames[k]) /\ ShowsRight(frames[k])
         /\ BlockOf(frames[k]) \in Seq(Instructions(Len(module)))
         /\ frames \in Seq(FrameSet)
<1>1. frames \in Seq(FrameSet) /\ InBlock(frames[k]) /\ ModuleInv
  BY DEF IInv, FramesInv
<1>2. frames[k] \in FrameSet
  BY <1>1
<1>3. ShowsRight(frames[k])
  BY DEF NestInv, ShownInv
<1>4. QED
  BY <1>1, <1>2, <1>3, BlockOfTyped

\* At both ends of a block nothing is open.
LEMMA NothingAtEnds ==
  ASSUME NEW frame \in FrameSet, ShowsRight(frame),
         BlockOf(frame) \in Seq(Instructions(Len(module))),
         frame.next = 1 \/ frame.next > Len(BlockOf(frame))
  PROVE  frame.open = <<>>
<1>1. PICK s : Follows(frame, s)
  BY DEF ShowsRight
<1> PICK L : L = Len(BlockOf(frame))
  OBVIOUS
<1>2. /\ frame.next \in 1..L + 1 /\ Shown(frame) = s[frame.next] /\ s[1] = <<>> /\ s[L + 1] = <<>>
      /\ L \in Nat /\ (frame.next = 1 \/ frame.next > L)
  BY <1>1 DEF Follows, Nestings
<1>3. frame.next = 1 \/ frame.next = L + 1
  BY ONLY <1>2
<1>4. Shown(frame) = <<>>
  BY ONLY <1>2, <1>3
<1>5. QED
  BY <1>4, NoneShown

\* A frame in a call has open what is expected at it.
LEMMA ShownInCall ==
  ASSUME NEW frame \in FrameSet, ShowsRight(frame), InCall(frame),
         BlockOf(frame) \in Seq(Instructions(Len(module)))
  PROVE  /\ Shown(frame) = Expected(frame.func, frame.block, BlockOf(frame)[frame.next - 1])
         /\ frame.next - 1 \in 1..Len(BlockOf(frame))
<1>1. PICK s : Follows(frame, s)
  BY DEF ShowsRight
<1> PICK p : p = frame.next - 1
  OBVIOUS
<1> PICK L : L = Len(BlockOf(frame))
  OBVIOUS
<1>2. frame.next \in 1..L + 1 /\ frame.next # 1 /\ L \in Nat
  BY <1>1 DEF Follows, InCall
<1>3. p \in 1..L /\ p + 1 = frame.next
  BY ONLY <1>2, p = frame.next - 1
<1>4. IsCall(BlockOf(frame)[p]) /\ Shown(frame) = s[p + 1]
  BY <1>1, <1>3 DEF Follows, InCall
<1>5. s[p + 1] = s[p] /\ s[p] = Expected(frame.func, frame.block, BlockOf(frame)[p])
  BY <1>1, <1>3, <1>4, AtCall
<1>6. QED
  BY <1>3, <1>4, <1>5

LEMMA StartMainNests ==
  ASSUME IInv, NestInv, StartMain
  PROVE  NestInv'
<1>1. /\ phase = "logger" /\ todo = {} /\ at = Len(module) /\ phase' = "running"
      /\ UNCHANGED <<module, at, todo>>
  BY DEF StartMain, PassesDone
<1>2. PICK i \in DOMAIN mangled : mangled[i] = Main /\ frames' = <<Frame(pointers[i])>>
  BY DEF StartMain
<1>3. RowsInv /\ MainInv /\ ModuleInv /\ BlocksInv
  BY DEF IInv, NestInv
<1>4. i \in 1..Len(mangled) /\ i \in 1..Len(pointers) /\ pointers[i] # 0 /\ Leads(i)
  BY <1>2, <1>3 DEF RowsInv, MainInv
<1> PICK frame : frame = Frame(pointers[i])
  OBVIOUS
<1>5. /\ pointers[i] \in Funcs /\ 1 \in DOMAIN module[pointers[i]].blocks
  <2>1. pointers[i] \in 1..Len(module)
    BY <1>3, <1>4, FuncsAre DEF RowsInv
  <2>2. QED
    BY <1>3, <1>4, <2>1, FuncsAre DEF Leads
<1>6. frame \in FrameSet /\ InBlock(frame) /\ frame.next = 1 /\ frame.open = <<>>
  BY <1>5 DEF Frame, FrameSet, InBlock
<1>7. ShowsRight(frame)
  BY <1>1, <1>3, <1>6, StartFollows DEF ShowsRight
<1>8. ShowsRight(frame)'
  BY <1>1, <1>7, FollowsStill DEF ShowsRight
<1>9. Len(frames') = 1 /\ frames'[1] = frame /\ \A k \in 1..1 : k = 1
  BY <1>2
<1>10. ShownInv'
  <2>1. ~(\E k \in 1..1-1 : TRUE)
    OBVIOUS
  <2>2. QED
    BY <1>8, <1>9, <2>1 DEF ShownInv
<1>11. QED
  BY <1>1, <1>10, OnlyShown

LEMMA CallFunctionNests ==
  ASSUME IInv, NestInv, CallFunction
  PROVE  NestInv'
<1> PICK n : n = Len(frames)
  OBVIOUS
<1> PICK top : top = Top
  OBVIOUS
<1> PICK caller : caller = [top EXCEPT !.next = @ + 1]
  OBVIOUS
<1> PICK callee : callee = Frame(Instruction.to)
  OBVIOUS
<1> PICK below : below = [frames EXCEPT ![n] = caller]
  OBVIOUS
<1>1. /\ phase = "running" /\ AtInstruction({"call", "invoke"})
      /\ frames' = Append([frames EXCEPT ![n].next = @ + 1], callee)
      /\ UNCHANGED <<phase, module, at, todo>>
  BY DEF CallFunction, AtInstruction
<1>2. /\ top \in FrameSet /\ ShowsRight(top) /\ n \in 1..n /\ n = Len(frames)
      /\ frames \in Seq(FrameSet) /\ BlockOf(top) \in Seq(Instructions(Len(module)))
      /\ ModuleInv /\ BlocksInv /\ top = frames[n]
  BY <1>1, TopFacts
<1>3. /\ top.next <= Len(BlockOf(top)) /\ Instruction = BlockOf(top)[top.next]
      /\ IsCall(BlockOf(top)[top.next])
  BY <1>1 DEF AtInstruction, Instruction, IsCall
<1>4. Instruction.to \in Funcs
  <2>1. Instruction \in Instructions(Len(module)) /\ IsCall(Instruction)
    BY <1>1, <1>3, InstructionTyped
  <2>2. QED
    BY <1>2, <2>1, CallFacts
<1>5. callee \in FrameSet /\ InBlock(callee) /\ callee.next = 1 /\ callee.open = <<>>
  <2>1. module[Instruction.to].blocks \in Seq(Seq(Instructions(Len(module))))
    BY <1>2, <1>4, FuncsAre, FunctionFields
  <2>2. module[Instruction.to].blocks = <<>> \/ 1 \in DOMAIN module[Instruction.to].blocks
    BY <2>1
  <2>3. QED
    BY <1>4, <2>2 DEF Frame, FrameSet, InBlock
<1>6. ShowsRight(callee)
  BY <1>1, <1>2, <1>5, StartFollows DEF ShowsRight
<1>7. top.next \in Nat \ {0} /\ top.next + 1 \in Nat \ {0}
  BY <1>2 DEF FrameSet
<1>8. /\ caller \in FrameSet /\ caller.func = top.func /\ caller.block = top.block
      /\ caller.next = top.next + 1 /\ caller.open = top.open
  BY ONLY <1>2, <1>7, caller = [top EXCEPT !.next = @ + 1] DEF FrameSet
<1>9. PICK s : Follows(top, s)
  BY <1>2 DEF ShowsRight
<1> PICK next : next = top.next + 1
  OBVIOUS
<1>10. Shown(caller) = s[next]
  <2>1. Shown(caller) = Shown(top)
    BY <1>8 DEF Shown
  <2>2. Shown(top) = s[top.next] /\ top.next \in 1..Len(BlockOf(top))
    BY <1>2, <1>3, <1>9 DEF Follows
  <2>3. s[top.next + 1] = s[top.next]
    BY <1>3, <1>9, <2>2, AtCall
  <2>4. QED
    BY <2>1, <2>2, <2>3
<1>11. ShowsRight(caller)
  <2>1. caller.next = next
    BY <1>8
  <2>2. Follows(caller, s)
    BY ONLY <1>2, <1>3, <1>8, <1>9, <1>10, <2>1, next = top.next + 1, OneFurther
  <2>3. QED
    BY <2>2 DEF ShowsRight
<1>12. InCall(caller)
  <2>1. BlockOf(caller) = BlockOf(top)
    BY <1>8 DEF BlockOf
  <2>2. caller.next # 1 /\ caller.next - 1 = top.next
    BY ONLY <1>7, <1>8
  <2>3. QED
    BY <1>3, <2>1, <2>2 DEF InCall
<1>13. /\ below \in Seq(FrameSet) /\ Len(below) = n /\ below[n] = caller
       /\ \A k \in 1..n : k # n => below[k] = frames[k]
  BY ONLY <1>2, <1>8, ReplaceFacts, below = [frames EXCEPT ![n] = caller]
<1>14. frames' = Append(below, callee)
  BY ONLY <1>1, <1>2, below = [frames EXCEPT ![n] = caller], caller = [top EXCEPT !.next = @ + 1]
<1>15. /\ Len(frames') = n + 1 /\ frames'[n + 1] = callee
       /\ \A k \in 1..n : frames'[k] = below[k]
  BY ONLY <1>5, <1>13, <1>14, AppendFacts
<1>16. ASSUME NEW k \in 1..n + 1
       PROVE  /\ ShowsRight(frames'[k])
              /\ k \in 1..(n + 1) - 1 => InCall(frames'[k])
  <2>1. CASE k = n + 1
    <3>1. k \notin 1..(n + 1) - 1
      BY ONLY <1>2, <2>1
    <3>2. QED
      BY <1>6, <1>15, <2>1, <3>1
  <2>2. CASE k = n
    <3>1. frames'[k] = caller
      BY ONLY <1>2, <1>13, <1>15, <2>2
    <3>2. QED
      BY <1>11, <1>12, <3>1
  <2>3. CASE k # n /\ k # n + 1
    <3>1. k \in 1..n /\ k \in 1..n-1
      BY ONLY <1>2, <1>16, <2>3
    <3>2. frames'[k] = frames[k]
      BY ONLY <1>13, <1>15, <2>3, <3>1
    <3>3. ShowsRight(frames[k]) /\ InCall(frames[k])
      BY <1>2, <3>1 DEF NestInv, ShownInv
    <3>4. QED
      BY <3>2, <3>3
  <2>4. QED
    BY <2>1, <2>2, <2>3
<1> PICK m : m = n + 1
  OBVIOUS
<1>17. /\ m \in Nat /\ Len(frames') = m /\ m = n + 1 /\ \A k \in 1..m-1 : k \in 1..m
  BY ONLY <1>2, <1>15, m = n + 1
<1>18. /\ \A k \in 1..m : ShowsRight(frames'[k])
       /\ \A k \in 1..m-1 : InCall(frames'[k])
  BY <1>16, <1>17
<1>19. QED
  BY <1>1, <1>17, <1>18, RunNests

\* A frame with nothing open goes on at another block.
LEMMA GoToNests ==
  ASSUME IInv, NestInv, phase = "running", UNCHANGED <<phase, module, at, todo>>,
         NEW k \in 1..Len(frames), NEW b \in DOMAIN module[frames[k].func].blocks,
         GoTo(frames, k, b), frames[k].open = <<>>
  PROVE  NestInv'
<1> PICK old : old = frames[k]
  OBVIOUS
<1> PICK there : there = [old EXCEPT !.block = b]
  OBVIOUS
<1> PICK moved : moved = [there EXCEPT !.next = 1]
  OBVIOUS
<1>1. old \in FrameSet /\ old.open = <<>> /\ frames \in Seq(FrameSet)
  BY FrameFacts
<1>2. ModuleInv /\ BlocksInv
  BY DEF IInv, NestInv
<1>3. b \in DOMAIN module[old.func].blocks /\ b \in Nat
  <2>1. module[old.func].blocks \in Seq(Seq(Instructions(Len(module))))
    BY <1>1, <1>2, FuncsAre, FunctionFields DEF FrameSet
  <2>2. QED
    BY <2>1
<1>4. there \in FrameSet /\ there.func = old.func /\ there.block = b /\ there.open = <<>>
  BY ONLY <1>1, <1>3, there = [old EXCEPT !.block = b] DEF FrameSet
<1>5. 1 \in Nat \ {0}
  OBVIOUS
<1>6. /\ moved \in FrameSet /\ moved.func = old.func /\ moved.block = b
      /\ moved.next = 1 /\ moved.open = <<>>
  BY ONLY <1>4, <1>5, moved = [there EXCEPT !.next = 1] DEF FrameSet
<1>7. InBlock(moved)
  BY <1>3, <1>6 DEF InBlock
<1>8. ShowsRight(moved)
  BY <1>2, <1>6, <1>7, StartFollows DEF ShowsRight
<1> PICK below : below = SubSeq(frames, 1, k)
  OBVIOUS
<1>9. /\ below \in Seq(FrameSet) /\ Len(below) = k /\ k \in 1..k
      /\ \A i \in 1..k : below[i] = frames[i]
  BY <1>1, PrefixFacts
<1>10. frames' = [below EXCEPT ![k] = moved]
  <2>1. frames' = [below EXCEPT ![k].block = b, ![k].next = 1]
    BY DEF GoTo
  <2>2. below[k] = old
    BY <1>9
  <2>3. QED
    BY ONLY <1>9, <2>1, <2>2, there = [old EXCEPT !.block = b], moved = [there EXCEPT !.next = 1]
<1>11. QED
  BY <1>6, <1>8, <1>10, TopNests

LEMMA BranchNests ==
  ASSUME IInv, NestInv, Branch
  PROVE  NestInv'
<1>1. /\ phase = "running" /\ UNCHANGED <<phase, module, at, todo>>
      /\ Top.next > Len(BlockOf(Top))
  BY DEF Branch, AtEnd
<1>2. /\ Len(frames) \in 1..Len(frames) /\ Top = frames[Len(frames)]
      /\ Top \in FrameSet /\ ShowsRight(Top) /\ BlockOf(Top) \in Seq(Instructions(Len(module)))
  BY <1>1, TopFacts
<1>3. PICK b \in DOMAIN module[frames[Len(frames)].func].blocks : GoTo(frames, Len(frames), b)
  BY DEF Branch, Top
<1>4. frames[Len(frames)].open = <<>>
  BY <1>1, <1>2, NothingAtEnds
<1>5. QED
  BY <1>1, <1>2, <1>3, <1>4, GoToNests

\* An invoke is not logged, so that the frame with the landing pad has nothing open.
LEMMA ThrowNests ==
  ASSUME IInv, NestInv, Throw
  PROVE  NestInv'
<1>1. phase = "running" /\ UNCHANGED <<phase, module, at, todo>>
  BY DEF Throw
<1>2. PICK k \in Handlers : \E b \in DOMAIN module[frames[k].func].blocks : GoTo(frames, k, b)
  BY DEF Throw
<1>3. PICK b \in DOMAIN module[frames[k].func].blocks : GoTo(frames, k, b)
  BY <1>2
<1>4. Len(frames) \in 1..Len(frames)
  BY <1>1, TopFacts
<1>5. k \in 1..Len(frames) /\ k \in 1..Len(frames) - 1 /\ Pending(k).op = "invoke"
  BY <1>4 DEF Handlers
<1>6. /\ frames[k] \in FrameSet /\ ShowsRight(frames[k])
      /\ BlockOf(frames[k]) \in Seq(Instructions(Len(module)))
  BY <1>5, FrameFacts
<1>7. InCall(frames[k])
  BY <1>5 DEF NestInv, ShownInv
<1>8. Shown(frames[k]) = Expected(frames[k].func, frames[k].block, Pending(k))
  BY <1>6, <1>7, ShownInCall DEF Pending
<1>9. Shown(frames[k]) = <<>>
  BY <1>5, <1>8 DEF Expected, IsShown
<1>10. frames[k].open = <<>>
  BY <1>6, <1>9, NoneShown
<1>11. QED
  BY <1>1, <1>3, <1>5, <1>10, GoToNests

LEMMA ReturnFromFunctionNests ==
  ASSUME IInv, NestInv, ReturnFromFunction
  PROVE  NestInv'
<1> PICK n : n = Len(frames) - 1
  OBVIOUS
<1>1. /\ phase = "running" /\ UNCHANGED <<phase, module, at, todo>>
      /\ frames' = Front(frames)
  BY DEF ReturnFromFunction, AtEnd
<1>2. Len(frames) \in 1..Len(frames) /\ frames \in Seq(FrameSet)
  BY <1>1, TopFacts
<1>3. n \in Nat /\ n \in 0..Len(frames) /\ 1..n \subseteq 1..Len(frames) /\ 1..n-1 \subseteq 1..n
  BY ONLY <1>2, n = Len(frames) - 1
<1>4. Len(frames') = n /\ \A k \in 1..n : frames'[k] = frames[k]
  BY <1>1, <1>2, <1>3, PrefixFacts DEF Front
<1>5. ASSUME NEW k \in 1..n
      PROVE  ShowsRight(frames'[k]) /\ InCall(frames'[k])
  <2>1. ShowsRight(frames[k]) /\ InCall(frames[k])
    BY <1>3, <1>5 DEF NestInv, ShownInv
  <2>2. QED
    BY <1>4, <1>5, <2>1
<1>6. QED
  BY <1>1, <1>3, <1>4, <1>5, RunNests

LEMMA EndNests ==
  ASSUME IInv, NestInv, ReturnFromMain \/ Abort
  PROVE  NestInv'
<1>1. /\ phase = "running" /\ phase' \in {"closing", "signalled"} /\ frames' = <<>>
      /\ UNCHANGED <<module, at, todo>>
  BY DEF ReturnFromMain, Abort, AtEnd
<1>2. ShownInv'
  BY <1>1 DEF ShownInv
<1>3. QED
  BY <1>1, <1>2, OnlyShown

-----------------------------------------------------------------------------
LEMMA NextNests ==
  ASSUME IInv, NestInv, [Next]_vars
  PROVE  NestInv'
<1>1. CASE UNCHANGED vars
  <2>1. UNCHANGED <<phase, module, at, todo, frames>>
    BY <1>1 DEF vars
  <2>2. CASE phase = "librarify"
    <3>1. BlocksInv'
      BY <2>1, <2>2 DEF NestInv, BlocksInv, Distinct, Code, Funcs
    <3>2. UsesInv' /\ ShownInv'
      <4>1. frames' = <<>>
        BY <2>1, <2>2 DEF IInv, FramesInv
      <4>2. QED
        BY <2>1, <4>1 DEF NestInv, UsesInv, Place, ShownInv
    <3>3. QED
      BY <3>1, <3>2 DEF NestInv
  <2>3. CASE phase # "librarify" /\ phase # "running"
    <3>1. ShownInv'
      <4>1. frames' = <<>>
        BY <2>1, <2>3 DEF IInv, FramesInv
      <4>2. QED
        BY <4>1 DEF ShownInv
    <3>2. QED
      BY <2>1, <2>3, <3>1, OnlyShown
  <2>4. CASE phase = "running"
    <3> PICK n : n = Len(frames)
      OBVIOUS
    <3>1. n \in Nat /\ Len(frames') = n /\ frames' = frames
      BY <2>1, <2>4, TopFacts
    <3>2. /\ \A k \in 1..n : ShowsRight(frames'[k])
          /\ \A k \in 1..n-1 : InCall(frames'[k])
      BY <3>1 DEF NestInv, ShownInv
    <3>3. QED
      BY <2>1, <2>4, <3>1, <3>2, RunNests
  <2>5. QED
    BY <2>2, <2>3, <2>4
<1>2. CASE Passes
  BY <1>2, LibrarifyFunctionNests, StartLoggerNests, LoggerFunctionNests, LoggerUserNests
     DEF Passes
<1>3. CASE StartMain
  BY <1>3, StartMainNests
<1>4. CASE Run
  BY <1>4, LogEnterNests, LogLeaveNests, CallFunctionNests, BranchNests,
     ReturnFromFunctionNests, ThrowNests, EndNests DEF Run
<1>5. QED
  BY <1>1, <1>2, <1>3, <1>4 DEF Next

\* When the program runs, Logger has dealt with every use.
LEMMA NestsGive ==
  ASSUME IInv, NestInv
  PROVE  LogShowsCalls
<1> SUFFICES ASSUME phase = "running" PROVE LogShowsCalls
  BY DEF LogShowsCalls
<1>1. ASSUME NEW k \in 1..Len(frames) - 1
      PROVE  Shown(frames[k]) = ShownAs(k)
  <2>1. k \in 1..Len(frames) /\ ModuleInv
    BY <1>1, TopFacts
  <2> PICK i : i = Pending(k)
    OBVIOUS
  <2> PICK frame : frame = frames[k]
    OBVIOUS
  <2>2. /\ frame \in FrameSet /\ ShowsRight(frame)
        /\ BlockOf(frame) \in Seq(Instructions(Len(module)))
    BY <2>1, FrameFacts
  <2>3. InCall(frame)
    BY <1>1 DEF NestInv, ShownInv
  <2>4. /\ Shown(frame) = Expected(frame.func, frame.block, i)
        /\ frame.next - 1 \in 1..Len(BlockOf(frame))
    BY <2>2, <2>3, ShownInCall DEF Pending
  <2>5. IsCall(i) /\ i \in Instructions(Len(module))
    BY <2>2, <2>3, <2>4 DEF InCall, Pending
  <2>6. i.to \in 1..Len(module) /\ Len(module) \in Nat
    BY <2>1, <2>5, CallFacts, FuncsAre
  <2>7. at = Len(module) /\ todo = {}
    BY DEF NestInv, UsesInv
  <2>8. DealtWith(frame.func, frame.block, i) = UsesIn(i, i.to)
    BY <2>6, <2>7 DEF DealtWith, IsDone
  <2>9. QED
    BY <2>4, <2>8 DEF Expected, IsShown, ShownAs
<1>2. Top.next = 1 \/ AtEnd => Top.open = <<>>
  BY TopFacts, NothingAtEnds DEF AtEnd
<1>3. QED
  BY <1>1, <1>2 DEF LogShowsCalls

\* For every module and whatever it calls, throws, catches and branches to: the live names
\* on the log are those of the direct calls in progress, in their order, once for each use
\* of the called function in its call, and none for an invoke or a call by a wrapper.
THEOREM CallsShown == Spec => []LogShowsCalls
<1>1. Init => NestInv
  BY InitNests
<1>2. IInv /\ NestInv /\ [Next]_vars => NestInv'
  BY NextNests
<1>3. IInv /\ NestInv => LogShowsCalls
  BY NestsGive
<1>4. QED
  BY <1>1, <1>2, <1>3, Invariance, PTL DEF Spec

-----------------------------------------------------------------------------
(* Induction over the natural numbers, with a set for the formula. *)

LEMMA LeastNatural ==
  ASSUME NEW T, T \subseteq Nat, T # {}
  PROVE  \E x \in T : \A y \in T : x <= y
<1>1. PICK R : R = OpToRel(<, Nat)
  OBVIOUS
<1>2. \E x \in T : \A y \in T : <<y, x>> \notin R
  BY <1>1, NatLessThanWellFounded, WFMin
<1>3. \A x \in Nat, y \in Nat : y < x => <<y, x>> \in R
  BY <1>1 DEF OpToRel
<1>4. \A x \in Nat, y \in Nat : ~(y < x) => x <= y
  OBVIOUS
<1>5. PICK x \in T : \A y \in T : <<y, x>> \notin R
  BY <1>2
<1>6. ASSUME NEW y \in T PROVE x <= y
  BY <1>3, <1>4, <1>5
<1>7. QED
  BY <1>5, <1>6

LEMMA Induct ==
  ASSUME NEW S, 0 \in S, \A n \in Nat : n \in S => n + 1 \in S
  PROVE  Nat \subseteq S
<1> PICK T : T = Nat \ S
  OBVIOUS
<1>1. CASE T = {}
  BY <1>1
<1>2. CASE T # {}
  <2>1. PICK x \in T : \A y \in T : x <= y
    BY <1>2, LeastNatural
  <2>2. x \in Nat /\ x # 0 /\ x - 1 \in Nat /\ ~(x <= x - 1) /\ (x - 1) + 1 = x
    BY <2>1
  <2>3. x - 1 \in S
    BY <2>1, <2>2
  <2>4. QED
    BY <2>1, <2>2, <2>3
<1>3. QED
  BY <1>1, <1>2

LEMMA SameElements ==
  ASSUME NEW S, NEW s \in Seq(S), NEW t \in Seq(S), Len(s) = Len(t), \A i \in 1..Len(t) : s[i] = t[i]
  PROVE  s = t
OBVIOUS

-----------------------------------------------------------------------------
(* What the frames have open. *)

Opens(fs) == Len(fs) \in Nat /\ \A k \in 1..Len(fs) : fs[k].open \in Seq(EntrySet)

\* OpenOf for the first k frames.
OpenUpTo(fs) ==
  CHOOSE open : open = [k \in 0..Len(fs) |-> IF k = 0 THEN <<>> ELSE open[k - 1] \o fs[k].open]
Concatenates(open, fs, n) ==
  open[0] = <<>> /\ \A k \in 1..n : open[k] = open[k - 1] \o fs[k].open
HasConcatenation(fs, n) == \E open \in [0..n -> Seq(EntrySet)] : Concatenates(open, fs, n)

LEMMA ConcatenationsExist ==
  ASSUME NEW fs, Opens(fs)
  PROVE  HasConcatenation(fs, Len(fs))
<1> DEFINE I == {n \in Nat : n <= Len(fs) => HasConcatenation(fs, n)}
<1>1. 0 \in I
  <2>1. PICK open : open = [k \in 0..0 |-> <<>>]
    OBVIOUS
  <2>2. open \in [0..0 -> Seq(EntrySet)] /\ open[0] = <<>>
    BY <2>1
  <2>3. \A k \in 1..0 : FALSE
    OBVIOUS
  <2>4. QED
    BY <2>2, <2>3 DEF HasConcatenation, Concatenates
<1>2. ASSUME NEW n \in Nat, n \in I PROVE n + 1 \in I
  <2> SUFFICES ASSUME n + 1 <= Len(fs) PROVE HasConcatenation(fs, n + 1)
    OBVIOUS
  <2>1. n <= Len(fs) /\ n + 1 \in 1..Len(fs)
    BY DEF Opens
  <2>2. PICK open \in [0..n -> Seq(EntrySet)] : Concatenates(open, fs, n)
    BY <1>2, <2>1 DEF HasConcatenation
  <2>3. PICK e \in Seq(EntrySet) : e = fs[n + 1].open
    BY <2>1 DEF Opens
  <2>4. PICK last \in Seq(EntrySet) : last = open[n] \o e
    <3>1. PICK s \in Seq(EntrySet) : s = open[n]
      OBVIOUS
    <3>2. s \o e \in Seq(EntrySet)
      BY ConcatFacts
    <3>3. QED
      BY <3>1, <3>2
  <2>5. PICK more : more = [k \in 0..n + 1 |-> IF k = n + 1 THEN last ELSE open[k]]
    OBVIOUS
  <2>6. more \in [0..n + 1 -> Seq(EntrySet)]
    BY <2>5
  <2>7. more[n + 1] = last /\ \A k \in 0..n : more[k] = open[k]
    BY <2>5
  <2>8. ASSUME NEW k \in 1..n + 1 PROVE more[k] = more[k - 1] \o fs[k].open
    <3>1. CASE k = n + 1
      <4>1. k - 1 = n /\ n \in 0..n
        BY <3>1
      <4>2. QED
        BY <2>3, <2>4, <2>7, <3>1, <4>1
    <3>2. CASE k \in 1..n
      <4>1. k - 1 \in 0..n /\ k \in 0..n
        BY <3>2
      <4>2. open[k] = open[k - 1] \o fs[k].open
        BY <2>2, <3>2 DEF Concatenates
      <4>3. more[k] = open[k] /\ more[k - 1] = open[k - 1]
        BY ONLY <2>7, <4>1
      <4>4. QED
        BY <4>2, <4>3
    <3>3. k = n + 1 \/ k \in 1..n
      OBVIOUS
    <3>4. QED
      BY ONLY <3>1, <3>2, <3>3
  <2>9. more[0] = <<>>
    BY <2>2, <2>7 DEF Concatenates
  <2>10. QED
    BY <2>6, <2>8, <2>9 DEF HasConcatenation, Concatenates
<1> HIDE DEF I
<1>3. Nat \subseteq I
  BY <1>1, <1>2, Induct
<1>4. Len(fs) \in Nat /\ Len(fs) <= Len(fs)
  BY DEF Opens
<1>5. QED
  BY <1>3, <1>4 DEF I

LEMMA OpenUpToFacts ==
  ASSUME NEW fs, Opens(fs)
  PROVE  /\ OpenUpTo(fs) \in [0..Len(fs) -> Seq(EntrySet)]
         /\ Concatenates(OpenUpTo(fs), fs, Len(fs))
         /\ OpenOf(fs) = OpenUpTo(fs)[Len(fs)]
<1> PICK n \in Nat : n = Len(fs)
  BY DEF Opens
<1>1. PICK f \in [0..n -> Seq(EntrySet)] : Concatenates(f, fs, n)
  BY ConcatenationsExist DEF HasConcatenation
<1>2. f = [k \in 0..n |-> IF k = 0 THEN <<>> ELSE f[k - 1] \o fs[k].open]
  <2>1. \A k \in 0..n : f[k] = IF k = 0 THEN <<>> ELSE f[k - 1] \o fs[k].open
    BY <1>1 DEF Concatenates
  <2>2. QED
    BY <2>1
<1> PICK g : g = OpenUpTo(fs)
  OBVIOUS
<1>3. g = [k \in 0..n |-> IF k = 0 THEN <<>> ELSE g[k - 1] \o fs[k].open]
  BY <1>2 DEF OpenUpTo
<1>4. Concatenates(g, fs, n)
  <2>1. ASSUME NEW k \in 1..n PROVE g[k] = g[k - 1] \o fs[k].open
    <3>1. k \in 0..n /\ k # 0
      OBVIOUS
    <3>2. QED
      BY <1>3, <3>1
  <2>2. g[0] = <<>>
    BY <1>3
  <2>3. QED
    BY <2>1, <2>2 DEF Concatenates
<1>5. g \in [0..n -> Seq(EntrySet)]
  <2> DEFINE I == {k \in Nat : k <= n => g[k] \in Seq(EntrySet)}
  <2>1. 0 \in I
    <3>1. g[0] = <<>> /\ <<>> \in Seq(EntrySet)
      BY <1>4 DEF Concatenates
    <3>2. QED
      BY <3>1
  <2>2. ASSUME NEW k \in Nat, k \in I PROVE k + 1 \in I
    <3> SUFFICES ASSUME k + 1 <= n PROVE g[k + 1] \in Seq(EntrySet)
      OBVIOUS
    <3>1. k <= n /\ k + 1 \in 1..n /\ (k + 1) - 1 = k
      OBVIOUS
    <3>2. g[k + 1] = g[k] \o fs[k + 1].open
      BY <1>4, <3>1 DEF Concatenates
    <3>3. g[k] \in Seq(EntrySet) /\ fs[k + 1].open \in Seq(EntrySet)
      BY <2>2, <3>1 DEF Opens
    <3>4. QED
      BY <3>2, <3>3
  <2> HIDE DEF I
  <2>3. Nat \subseteq I
    BY <2>1, <2>2, Induct
  <2>4. \A k \in 0..n : g[k] \in Seq(EntrySet)
    BY <2>3 DEF I
  <2>5. QED
    BY <1>3, <2>4
<1>6. OpenOf(fs) = g[n]
  BY DEF OpenOf, OpenUpTo
<1>7. QED
  BY <1>4, <1>5, <1>6

\* Frames with the same open up to the n-th.
LEMMA SameOpens ==
  ASSUME NEW fs, Opens(fs), NEW gs, Opens(gs), NEW n \in 0..Len(fs), n <= Len(gs),
         \A k \in 1..n : fs[k].open = gs[k].open
  PROVE  OpenUpTo(fs)[n] = OpenUpTo(gs)[n]
<1> DEFINE I == {k \in Nat : k <= n => OpenUpTo(fs)[k] = OpenUpTo(gs)[k]}
<1>1. Len(fs) \in Nat /\ Len(gs) \in Nat /\ n \in Nat /\ n <= Len(fs)
  BY DEF Opens
<1>2. Concatenates(OpenUpTo(fs), fs, Len(fs)) /\ Concatenates(OpenUpTo(gs), gs, Len(gs))
  BY OpenUpToFacts
<1>3. 0 \in I
  BY <1>2 DEF Concatenates
<1>4. ASSUME NEW k \in Nat, k \in I PROVE k + 1 \in I
  <2> SUFFICES ASSUME k + 1 <= n PROVE OpenUpTo(fs)[k + 1] = OpenUpTo(gs)[k + 1]
    OBVIOUS
  <2>1. k + 1 \in 1..n /\ k + 1 \in 1..Len(fs) /\ k + 1 \in 1..Len(gs) /\ k <= n /\ (k + 1) - 1 = k
    BY <1>1
  <2>2. /\ OpenUpTo(fs)[k + 1] = OpenUpTo(fs)[k] \o fs[k + 1].open
        /\ OpenUpTo(gs)[k + 1] = OpenUpTo(gs)[k] \o gs[k + 1].open
    BY <1>2, <2>1 DEF Concatenates
  <2>3. OpenUpTo(fs)[k] = OpenUpTo(gs)[k]
    BY <1>4, <2>1
  <2>4. QED
    BY <2>1, <2>2, <2>3
<1> HIDE DEF I
<1>5. Nat \subseteq I
  BY <1>3, <1>4, Induct
<1>6. QED
  BY <1>1, <1>5 DEF I

\* What the first n frames have open is the beginning of what all have.
LEMMA OpenPrefix ==
  ASSUME NEW fs, Opens(fs), NEW n \in 0..Len(fs)
  PROVE  /\ Len(OpenUpTo(fs)[n]) \in 0..Len(OpenOf(fs))
         /\ OpenUpTo(fs)[n] = SubSeq(OpenOf(fs), 1, Len(OpenUpTo(fs)[n]))
<1> PICK g : g = OpenUpTo(fs)
  OBVIOUS
<1> PICK L \in Nat : L = Len(fs)
  BY DEF Opens
<1>1. g \in [0..L -> Seq(EntrySet)] /\ Concatenates(g, fs, L) /\ OpenOf(fs) = g[L]
  BY OpenUpToFacts
<1> PICK a \in Seq(EntrySet) : a = g[n]
  BY <1>1
<1> DEFINE Begins(b) == Len(a) <= Len(b) /\ a = SubSeq(b, 1, Len(a))
           I == {k \in Nat : n + k <= L => Begins(g[n + k])}
<1>2. 0 \in I
  BY <1>1
<1>3. ASSUME NEW k \in Nat, k \in I PROVE k + 1 \in I
  <2> SUFFICES ASSUME n + (k + 1) <= L PROVE Begins(g[n + (k + 1)])
    OBVIOUS
  <2>1. n + (k + 1) \in 1..L /\ n + k \in 0..L /\ (n + (k + 1)) - 1 = n + k
    OBVIOUS
  <2>2. PICK b \in Seq(EntrySet) : b = g[n + k]
    BY <1>1, <2>1
  <2>3. PICK c \in Seq(EntrySet) : c = fs[n + (k + 1)].open
    BY <2>1 DEF Opens
  <2>4. g[n + (k + 1)] = b \o c
    BY <1>1, <2>1, <2>2, <2>3 DEF Concatenates
  <2>5. Begins(b)
    BY <1>3, <2>1, <2>2
  <2>6. Begins(b \o c)
    <3>1. Len(a) <= Len(b) /\ a = SubSeq(b, 1, Len(a)) /\ Len(a) \in Nat /\ Len(b) \in Nat
      BY <2>5
    <3>2. Len(b \o c) = Len(b) + Len(c) /\ Len(c) \in Nat /\ \A j \in 1..Len(b) : (b \o c)[j] = b[j]
      OBVIOUS
    <3>3. \A j \in 1..Len(a) : (b \o c)[j] = b[j] /\ b[j] = SubSeq(b, 1, Len(a))[j]
      BY <3>1, <3>2
    <3>4. PICK d : d = SubSeq(b \o c, 1, Len(a))
      OBVIOUS
    <3>5. b \o c \in Seq(EntrySet) /\ Len(a) \in 0..Len(b \o c)
      BY <3>1, <3>2
    <3>6. d \in Seq(EntrySet) /\ Len(d) = Len(a) /\ \A j \in 1..Len(a) : d[j] = (b \o c)[j]
      BY <3>4, <3>5, PrefixFacts
    <3>7. \A j \in 1..Len(a) : d[j] = a[j]
      BY <3>1, <3>3, <3>6
    <3>8. d = a
      BY <3>6, <3>7, SameElements
    <3>9. Len(a) <= Len(b \o c)
      BY <3>5
    <3>10. QED
      BY <3>4, <3>8, <3>9
  <2>7. QED
    BY <2>4, <2>6
<1> HIDE DEF I
<1>4. Nat \subseteq I
  BY <1>2, <1>3, Induct
<1>5. L - n \in Nat /\ n + (L - n) = L
  OBVIOUS
<1>6. Begins(g[L])
  BY <1>4, <1>5 DEF I
<1>7. Len(g[L]) \in Nat /\ Len(a) \in Nat
  BY <1>1
<1>8. QED
  BY <1>1, <1>6, <1>7

\* The last frame has its part behind what the others have.
LEMMA OpenOfLast ==
  ASSUME NEW fs, Opens(fs), NEW n \in Nat, Len(fs) = n + 1
  PROVE  OpenOf(fs) = OpenUpTo(fs)[n] \o fs[n + 1].open /\ OpenUpTo(fs)[n] \in Seq(EntrySet)
<1>1. n + 1 \in 1..n + 1 /\ (n + 1) - 1 = n /\ n \in 0..n + 1
  OBVIOUS
<1>2. /\ OpenUpTo(fs) \in [0..n + 1 -> Seq(EntrySet)] /\ Concatenates(OpenUpTo(fs), fs, n + 1)
      /\ OpenOf(fs) = OpenUpTo(fs)[n + 1]
  BY OpenUpToFacts
<1>3. QED
  BY <1>1, <1>2 DEF Concatenates

\* Two stacks of frames that differ in their tops.
HaveInCommon(fs, gs, n) ==
  \E below \in Seq(EntrySet) : /\ OpenOf(fs) = below \o fs[n + 1].open
                               /\ OpenOf(gs) = below \o gs[n + 1].open

LEMMA OpenOfTops ==
  ASSUME NEW fs, Opens(fs), NEW gs, Opens(gs), NEW n \in Nat, Len(fs) = n + 1, Len(gs) = n + 1,
         \A k \in 1..n : fs[k].open = gs[k].open
  PROVE  HaveInCommon(fs, gs, n)
<1>1. n \in 0..Len(fs) /\ n <= Len(gs)
  OBVIOUS
<1>2. OpenUpTo(fs)[n] = OpenUpTo(gs)[n]
  BY <1>1, SameOpens
<1>3. OpenOf(fs) = OpenUpTo(fs)[n] \o fs[n + 1].open /\ OpenUpTo(fs)[n] \in Seq(EntrySet)
  BY OpenOfLast
<1>4. OpenOf(gs) = OpenUpTo(gs)[n] \o gs[n + 1].open
  BY OpenOfLast
<1>5. QED
  BY <1>2, <1>3, <1>4 DEF HaveInCommon

\* A new frame has nothing open.
LEMMA OpenOfMore ==
  ASSUME NEW fs, Opens(fs), NEW gs, Opens(gs), NEW n \in Nat, Len(fs) = n, Len(gs) = n + 1,
         \A k \in 1..n : fs[k].open = gs[k].open, gs[n + 1].open = <<>>
  PROVE  OpenOf(gs) = OpenOf(fs)
<1>1. n \in 0..Len(fs) /\ n <= Len(gs)
  OBVIOUS
<1>2. OpenUpTo(fs)[n] = OpenUpTo(gs)[n]
  BY <1>1, SameOpens
<1>3. OpenOf(gs) = OpenUpTo(gs)[n] \o gs[n + 1].open /\ OpenUpTo(gs)[n] \in Seq(EntrySet)
  BY OpenOfLast
<1>4. OpenOf(fs) = OpenUpTo(fs)[n]
  BY OpenUpToFacts
<1>5. \A a \in Seq(EntrySet) : a \o <<>> = a
  OBVIOUS
<1>6. QED
  BY <1>2, <1>3, <1>4, <1>5

\* Frames are taken away, or do no more than go elsewhere.
LEMMA OpenOfLess ==
  ASSUME NEW fs, Opens(fs), NEW gs, Opens(gs), NEW n \in 0..Len(fs), Len(gs) = n,
         \A k \in 1..n : fs[k].open = gs[k].open
  PROVE  /\ OpenOf(gs) \in Seq(EntrySet)
         /\ Len(OpenOf(gs)) \in 0..Len(OpenOf(fs))
         /\ OpenOf(gs) = SubSeq(OpenOf(fs), 1, Len(OpenOf(gs)))
<1>1. n <= Len(gs) /\ n \in Nat
  BY DEF Opens
<1>2. OpenUpTo(fs)[n] = OpenUpTo(gs)[n]
  BY <1>1, SameOpens
<1>3. OpenOf(gs) = OpenUpTo(gs)[n] /\ OpenUpTo(gs) \in [0..n -> Seq(EntrySet)]
  BY OpenUpToFacts
<1>4. OpenOf(gs) = OpenUpTo(fs)[n] /\ OpenOf(gs) \in Seq(EntrySet)
  BY <1>1, <1>2, <1>3
<1>5. QED
  BY <1>4, OpenPrefix

LEMMA ConcatAppend ==
  ASSUME NEW S, NEW s \in Seq(S), NEW t \in Seq(S), NEW e \in S
  PROVE  s \o Append(t, e) = Append(s \o t, e)
OBVIOUS

LEMMA ConcatAssociates ==
  ASSUME NEW S, NEW s \in Seq(S), NEW t \in Seq(S), NEW u \in Seq(S)
  PROVE  (s \o t) \o u = s \o (t \o u)
OBVIOUS

LEMMA ConcatFront ==
  ASSUME NEW S, NEW s \in Seq(S), NEW t \in Seq(S), NEW e \in S, NEW all, all = s \o Append(t, e)
  PROVE  /\ s \o t = SubSeq(all, 1, Len(all) - 1)
         /\ all[Len(all)] = e /\ Len(all) \in Nat \ {0} /\ all \in Seq(S)
OBVIOUS

LEMMA ConcatPrefix ==
  ASSUME NEW S, NEW s \in Seq(S), NEW t \in Seq(S), NEW n \in 0..Len(t)
  PROVE  /\ s \o SubSeq(t, 1, n) = SubSeq(s \o t, 1, Len(s) + n)
         /\ Len(s) + n \in Len(s)..Len(s \o t)
OBVIOUS

-----------------------------------------------------------------------------
(* The calls on the log. *)

\* The calls c have their names in s, in their order.
KeptIn(c, s) ==
  /\ Len(s) <= MaxFrames
  /\ \A i \in 1..Len(c) : c[i].slot \in i..Len(s) /\ s[c[i].slot] = c[i].func
  /\ \A i, j \in 1..Len(c) : i < j => c[i].slot < c[j].slot

LEMMA KeptByCall ==
  ASSUME NEW c \in Seq(EntrySet), NEW s \in Seq(FuncNames), KeptIn(c, s), Len(s) < MaxFrames,
         NEW f \in FuncNames, NEW e, e = [func |-> f, slot |-> Len(s) + 1]
  PROVE  KeptIn(Append(c, e), Append(s, f))
<1> PICK m \in Nat : m = Len(c)
  OBVIOUS
<1> PICK n \in Nat : n = Len(s)
  OBVIOUS
<1> PICK d : d = Append(c, e)
  OBVIOUS
<1> PICK t : t = Append(s, f)
  OBVIOUS
<1>1. e \in EntrySet /\ e.func = f /\ e.slot = n + 1
  BY DEF EntrySet
<1>2. Len(d) = m + 1 /\ d[m + 1] = e /\ \A i \in 1..m : d[i] = c[i]
  BY <1>1, AppendFacts
<1>3. Len(t) = n + 1 /\ t[n + 1] = f /\ \A i \in 1..n : t[i] = s[i]
  BY AppendFacts
<1>4. /\ n < MaxFrames /\ MaxFrames \in Nat
      /\ \A i \in 1..m : c[i].slot \in i..n /\ s[c[i].slot] = c[i].func
      /\ \A i, j \in 1..m : i < j => c[i].slot < c[j].slot
  BY BoundsAssumption DEF KeptIn
<1>5. m <= n
  <2>1. CASE m = 0
    BY <2>1
  <2>2. CASE m \in 1..m
    <3>1. c[m].slot \in m..n
      BY <1>4, <2>2
    <3>2. QED
      BY <3>1
  <2>3. QED
    BY <2>1, <2>2
<1>6. ASSUME NEW i \in 1..m + 1
      PROVE  d[i].slot \in i..n + 1 /\ t[d[i].slot] = d[i].func
  <2>1. CASE i \in 1..m
    <3>1. d[i] = c[i] /\ c[i].slot \in i..n /\ s[c[i].slot] = c[i].func
      BY <1>2, <1>4, <2>1
    <3>2. c[i].slot \in 1..n /\ c[i].slot \in i..n + 1
      BY <3>1, <2>1
    <3>3. QED
      BY <1>3, <3>1, <3>2
  <2>2. CASE i = m + 1
    <3>1. d[i] = e /\ n + 1 \in i..n + 1
      BY <1>2, <1>5, <2>2
    <3>2. QED
      BY <1>1, <1>3, <3>1
  <2>3. QED
    BY <2>1, <2>2
<1>7. ASSUME NEW i \in 1..m + 1, NEW j \in 1..m + 1, i < j
      PROVE  d[i].slot < d[j].slot
  <2>1. i \in 1..m /\ d[i] = c[i] /\ c[i].slot \in i..n
    BY <1>2, <1>4, <1>7
  <2>2. CASE j \in 1..m
    BY <1>2, <1>4, <1>7, <2>1, <2>2
  <2>3. CASE j = m + 1
    BY <1>1, <1>2, <2>1, <2>3
  <2>4. QED
    BY <2>2, <2>3
<1>8. n + 1 <= MaxFrames
  BY <1>4
<1>9. KeptIn(d, t)
  BY ONLY <1>2, <1>3, <1>6, <1>7, <1>8 DEF KeptIn
<1>10. QED
  BY <1>9

LEMMA KeptOfPrefix ==
  ASSUME NEW c \in Seq(EntrySet), NEW s, KeptIn(c, s), NEW n \in 0..Len(c)
  PROVE  KeptIn(SubSeq(c, 1, n), s)
<1>1. /\ Len(SubSeq(c, 1, n)) = n /\ \A i \in 1..n : SubSeq(c, 1, n)[i] = c[i]
      /\ 1..n \subseteq 1..Len(c)
  BY PrefixFacts
<1>2. QED
  BY <1>1 DEF KeptIn

\* A return looks for its name no further down than where it is, which is above all callers'.
LEMMA KeptByReturn ==
  ASSUME NEW c \in Seq(EntrySet), NEW s \in Seq(FuncNames), KeptIn(c, s), Len(c) # 0,
         NEW k \in 1..Len(s), \A j \in k + 1..Len(s) : s[j] > c[Len(c)].func
  PROVE  KeptIn(SubSeq(c, 1, Len(c) - 1), SubSeq(s, 1, k - 1))
<1>0. Len(c) - 1 \in Nat
  BY ONLY c \in Seq(EntrySet), Len(c) # 0
<1> PICK m \in Nat : m = Len(c) - 1
  BY <1>0
<1> PICK n \in Nat : n = Len(s)
  OBVIOUS
<1> PICK d : d = SubSeq(c, 1, m)
  OBVIOUS
<1> PICK t : t = SubSeq(s, 1, k - 1)
  OBVIOUS
<1>1. m + 1 = Len(c) /\ m + 1 \in 1..Len(c) /\ m \in 0..Len(c) /\ 1..m \subseteq 1..Len(c)
  OBVIOUS
<1>2. k \in 1..n /\ k - 1 \in 0..Len(s) /\ k - 1 <= n
  OBVIOUS
<1>3. Len(d) = m /\ \A i \in 1..m : d[i] = c[i]
  BY <1>1, PrefixFacts
<1>4. Len(t) = k - 1 /\ \A i \in 1..k - 1 : t[i] = s[i]
  BY <1>2, PrefixFacts
<1>5. /\ n <= MaxFrames /\ MaxFrames \in Nat
      /\ \A i \in 1..m + 1 : c[i].slot \in i..n /\ s[c[i].slot] = c[i].func
      /\ \A i, j \in 1..m + 1 : i < j => c[i].slot < c[j].slot
  BY <1>1, BoundsAssumption DEF KeptIn
<1>6. c[m + 1].slot <= k
  <2> PICK p : p = c[m + 1].slot
    OBVIOUS
  <2>1. p \in m + 1..n /\ s[p] = c[m + 1].func /\ p \in 1..n
    BY <1>1, <1>5
  <2>2. c[m + 1].func \in Nat
    <3>1. c[m + 1] \in EntrySet
      BY <1>1
    <3>2. QED
      BY <3>1, NamesAssumption DEF EntrySet
  <2>3. ~(s[p] > c[m + 1].func)
    BY <2>1, <2>2
  <2>4. p \notin k + 1..n
    BY <1>1, <2>3
  <2>5. QED
    BY <1>2, <2>1, <2>4
<1>7. ASSUME NEW i \in 1..m
      PROVE  d[i].slot \in i..k - 1 /\ t[d[i].slot] = d[i].func
  <2>1. i < m + 1 /\ i \in 1..m + 1 /\ m + 1 \in 1..m + 1
    OBVIOUS
  <2>2. c[i].slot < c[m + 1].slot /\ c[i].slot \in i..n /\ c[m + 1].slot \in m + 1..n
    BY <1>5, <2>1
  <2>3. c[i].slot \in i..k - 1 /\ c[i].slot \in 1..k - 1
    BY <1>2, <1>6, <2>1, <2>2
  <2>4. t[c[i].slot] = s[c[i].slot] /\ s[c[i].slot] = c[i].func
    BY <1>4, <1>5, <2>1, <2>3
  <2>5. QED
    BY <1>3, <2>3, <2>4
<1>8. ASSUME NEW i \in 1..m, NEW j \in 1..m, i < j
      PROVE  d[i].slot < d[j].slot
  <2>1. i \in 1..m + 1 /\ j \in 1..m + 1
    OBVIOUS
  <2>2. QED
    BY <1>3, <1>5, <1>8, <2>1
<1>9. k - 1 <= MaxFrames
  BY <1>2, <1>5
<1>10. KeptIn(d, t)
  BY ONLY <1>3, <1>4, <1>7, <1>8, <1>9 DEF KeptIn
<1>11. QED
  BY <1>10

\* There are no more calls than names.
LEMMA KeptFits ==
  ASSUME NEW c \in Seq(EntrySet), NEW s \in Seq(FuncNames), KeptIn(c, s)
  PROVE  Len(c) <= Len(s) /\ Len(s) <= MaxFrames
<1>1. CASE Len(c) = 0
  BY <1>1 DEF KeptIn
<1>2. CASE Len(c) \in 1..Len(c)
  <2>1. c[Len(c)].slot \in Len(c)..Len(s)
    BY <1>2 DEF KeptIn
  <2>2. QED
    BY <2>1 DEF KeptIn
<1>3. QED
  BY <1>1, <1>2

-----------------------------------------------------------------------------
(* Each step is one of CallLog, or none. *)

LogInv ==
  /\ phase \in {"librarify", "logger"} => log = <<>>
  /\ phase = "running" => KeptIn(LogCalls, log)

MainCall == [func |-> Main, slot |-> 1]

LEMMA FramesOpen ==
  ASSUME NEW fs \in Seq(FrameSet)
  PROVE  Opens(fs)
<1>1. \A k \in 1..Len(fs) : fs[k] \in FrameSet
  OBVIOUS
<1>2. \A frame \in FrameSet : frame.open \in Seq(EntrySet)
  BY DEF FrameSet, EntrySet
<1>3. Len(fs) \in Nat
  OBVIOUS
<1>4. QED
  BY <1>1, <1>2, <1>3 DEF Opens

LEMMA OpenTyped ==
  ASSUME NEW fs, Opens(fs)
  PROVE  OpenOf(fs) \in Seq(EntrySet)
<1>1. Len(fs) \in 0..Len(fs)
  BY DEF Opens
<1>2. QED
  BY <1>1, OpenUpToFacts

LEMMA RunningLog ==
  ASSUME IInv, LogInv, phase = "running"
  PROVE  /\ Opens(frames) /\ OpenOf(frames) \in Seq(EntrySet) /\ log \in Seq(FuncNames)
         /\ MainCall \in EntrySet /\ <<MainCall>> \in Seq(EntrySet) /\ Len(<<MainCall>>) = 1
         /\ LogCalls = <<MainCall>> \o OpenOf(frames) /\ LogCalls \in Seq(EntrySet)
         /\ Len(LogCalls) = 1 + Len(OpenOf(frames)) /\ Len(OpenOf(frames)) \in Nat
         /\ KeptIn(LogCalls, log)
<1>1. frames \in Seq(FrameSet) /\ log \in Seq(FuncNames)
  BY DEF IInv, FramesInv
<1>2. Opens(frames) /\ OpenOf(frames) \in Seq(EntrySet)
  BY <1>1, FramesOpen, OpenTyped
<1>3. MainCall \in EntrySet
  BY NamesAssumption DEF MainCall, EntrySet
<1>4. <<MainCall>> \in Seq(EntrySet) /\ Len(<<MainCall>>) = 1
  BY <1>3
<1>5. LogCalls = <<MainCall>> \o OpenOf(frames)
  BY DEF LogCalls, MainCall
<1>6. LogCalls \in Seq(EntrySet) /\ Len(LogCalls) = 1 + Len(OpenOf(frames))
  BY <1>2, <1>4, <1>5, ConcatFacts
<1>7. QED
  BY <1>1, <1>2, <1>3, <1>4, <1>5, <1>6 DEF LogInv

\* Where nothing is logged or returned from, CallLog does nothing.
LEMMA NothingLogged ==
  ASSUME LogInv, phase = "running", phase' = phase, log' = log, LogCalls' = LogCalls
  PROVE  LogInv' /\ UNCHANGED CallLog!vars
BY DEF LogInv, CallLog!vars

LEMMA PassesRefined ==
  ASSUME IInv, LogInv, Passes
  PROVE  LogInv' /\ UNCHANGED CallLog!vars
<1>1. /\ phase \in {"librarify", "logger"} /\ phase' \in {"librarify", "logger"}
      /\ log' = log
  BY DEF Passes, LibrarifyFunction, StartLogger, LoggerFunction, LoggerUser, running
<1>2. LogCalls = <<>> /\ LogCalls' = <<>>
  BY <1>1 DEF LogCalls
<1>3. QED
  BY <1>1, <1>2 DEF LogInv, CallLog!vars

LEMMA StartMainRefined ==
  ASSUME IInv, LogInv, StartMain
  PROVE  LogInv' /\ CallLog!StartMain
<1>1. /\ phase = "logger" /\ phase' = "running" /\ log' = <<Main>> /\ log = <<>>
  BY DEF StartMain, PassesDone, LogInv
<1>2. PICK f : frames' = <<Frame(f)>>
  BY DEF StartMain
<1> PICK fs : fs = <<Frame(f)>>
  OBVIOUS
<1>3. Opens(fs) /\ Opens(<<>>) /\ OpenOf(fs) = OpenOf(<<>>)
  <2>1. Len(fs) = 1 /\ fs[1].open = <<>> /\ Len(<<>>) = 0
    BY DEF Frame
  <2>2. Opens(fs)
    <3>1. <<>> \in Seq(EntrySet)
      OBVIOUS
    <3>2. \A k \in 1..1 : k = 1
      OBVIOUS
    <3>3. QED
      BY <2>1, <3>1, <3>2 DEF Opens
  <2>3. Opens(<<>>)
    BY <2>1 DEF Opens
  <2>4. 1 = 0 + 1 /\ 0 \in Nat /\ \A k \in 1..0 : FALSE
    OBVIOUS
  <2> PICK es : es = <<>>
    OBVIOUS
  <2>5. OpenOf(fs) = OpenOf(es)
    BY <2>1, <2>2, <2>3, <2>4, OpenOfMore
  <2>6. QED
    BY <2>2, <2>3, <2>5
<1>4. OpenOf(<<>>) = <<>>
  <2> PICK es : es = <<>>
    OBVIOUS
  <2>1. OpenOf(es) = OpenUpTo(es)[0] /\ OpenUpTo(es)[0] = <<>>
    <3>1. Len(es) = 0 /\ Opens(es)
      BY <1>3
    <3>2. QED
      BY <3>1, OpenUpToFacts DEF Concatenates
  <2>2. QED
    BY <2>1
<1>5. LogCalls = <<>> /\ LogCalls' = <<MainCall>>
  <2>1. LogCalls = <<>>
    BY <1>1 DEF LogCalls
  <2>2. OpenOf(frames') = <<>>
    BY <1>2, <1>3, <1>4
  <2>3. LogCalls' = <<MainCall>> \o <<>>
    BY <1>1, <2>2 DEF LogCalls, MainCall
  <2>4. <<MainCall>> \o <<>> = <<MainCall>>
    OBVIOUS
  <2>5. QED
    BY <2>1, <2>3, <2>4
<1>6. LogInv'
  <2>1. Len(<<MainCall>>) = 1 /\ <<MainCall>>[1] = MainCall /\ Len(<<Main>>) = 1 /\ <<Main>>[1] = Main
    OBVIOUS
  <2>2. MainCall.slot = 1 /\ MainCall.func = Main
    BY DEF MainCall
  <2>3. KeptIn(<<MainCall>>, <<Main>>)
    BY <2>1, <2>2, BoundsAssumption DEF KeptIn
  <2>4. QED
    BY <1>1, <1>5, <2>3 DEF LogInv
<1>7. CallLog!StartMain
  <2>1. Len(<<>>) = 0 /\ Append(<<>>, Main) = <<Main>> /\ Len(<<Main>>) = 1 /\ 0 < MaxFrames /\ 1 # MaxFrames + 2
    BY BoundsAssumption
  <2>2. QED
    BY <1>1, <1>5, <2>1
       DEF CallLog!StartMain, CallLog!LogFunctionParameters, CallLog!Silent, CallLog!PlusOne, MainCall
<1>8. QED
  BY <1>6, <1>7

LEMMA LogEnterRefined ==
  ASSUME IInv, NestInv, LogInv, LogEnter, IInv'
  PROVE  LogInv' /\ \E f \in FuncNames : CallLog!Call(f)
<1> PICK n : n = Len(frames)
  OBVIOUS
<1> PICK name : name = Instruction.name
  OBVIOUS
<1> PICK entry : entry = [func |-> name, slot |-> Len(log')]
  OBVIOUS
<1> PICK top : top = Top
  OBVIOUS
<1> PICK moved : moved = [top EXCEPT !.next = @ + 1, !.open = Append(@, entry)]
  OBVIOUS
<1>1. /\ phase = "running" /\ AtInstruction({"enter"}) /\ phase' = phase
      /\ log' = Append(log, name) /\ Len(log) < MaxFrames
      /\ frames' = [frames EXCEPT ![n] = moved]
  BY DEF LogEnter, AtInstruction, ReplaceTop
<1>2. top \in FrameSet /\ n \in 1..n /\ frames \in Seq(FrameSet) /\ top = frames[n]
  BY <1>1, TopFacts
<1>3. name \in FuncNames
  <2>1. Instruction \in Instructions(Len(module)) /\ Instruction.op = "enter"
    BY <1>1, InstructionTyped
  <2>2. QED
    BY <2>1 DEF Instructions
<1>4. /\ Opens(frames) /\ OpenOf(frames) \in Seq(EntrySet) /\ log \in Seq(FuncNames)
      /\ <<MainCall>> \in Seq(EntrySet)
      /\ LogCalls = <<MainCall>> \o OpenOf(frames) /\ LogCalls \in Seq(EntrySet)
      /\ KeptIn(LogCalls, log)
  BY <1>1, RunningLog
<1>5. Len(log') = Len(log) + 1 /\ Len(log) \in Nat
  BY <1>1, <1>3, <1>4, AppendFacts
<1>6. entry = [func |-> name, slot |-> Len(log) + 1] /\ entry \in EntrySet
  BY <1>3, <1>5 DEF EntrySet
<1>7. top.open \in Seq(EntrySet) /\ moved.open = Append(top.open, entry) /\ moved \in FrameSet
  <2>1. top.open \in Seq(EntrySet) /\ top.next + 1 \in Nat \ {0}
    BY <1>2 DEF FrameSet, EntrySet
  <2>2. Append(top.open, entry) \in Seq(EntrySet)
    BY <1>6, <2>1, AppendFacts
  <2>3. QED
    BY <1>2, <2>1, <2>2 DEF FrameSet, EntrySet
<1>8. OpenOf(frames') = Append(OpenOf(frames), entry)
  <2> PICK m : m = n - 1
    OBVIOUS
  <2>1. m \in Nat /\ n = m + 1 /\ m + 1 \in 1..n
    BY <1>2
  <2> PICK fs : fs = frames
    OBVIOUS
  <2> PICK gs : gs = frames'
    OBVIOUS
  <2>2. Opens(gs)
    <3>1. gs \in Seq(FrameSet)'
      BY DEF IInv, FramesInv
    <3>2. FrameSet' = FrameSet
      BY DEF LogEnter, FrameSet, Funcs
    <3>3. QED
      BY <3>1, <3>2, FramesOpen
  <2>3. Len(gs) = m + 1 /\ gs[m + 1] = moved /\ \A k \in 1..m : gs[k] = fs[k]
    <3>1. /\ Len(gs) = n /\ gs[n] = moved
          /\ \A k \in 1..n : k # n => gs[k] = fs[k]
      BY ONLY <1>1, <1>2, <1>7, fs = frames, gs = frames', n = Len(frames), ReplaceFacts
    <3>2. \A k \in 1..m : k \in 1..n /\ k # n
      BY ONLY <2>1
    <3>3. QED
      BY <2>1, <3>1, <3>2
  <2>4. Len(fs) = m + 1 /\ fs[m + 1] = top /\ Opens(fs)
    BY <1>2, <1>4, <2>1
  <2>5. HaveInCommon(fs, gs, m)
    BY <2>1, <2>2, <2>3, <2>4, OpenOfTops
  <2>6. PICK below \in Seq(EntrySet) : /\ OpenOf(fs) = below \o fs[m + 1].open
                                      /\ OpenOf(gs) = below \o gs[m + 1].open
    BY <2>5 DEF HaveInCommon
  <2>7. OpenOf(gs) = Append(OpenOf(fs), entry)
    <3> PICK open \in Seq(EntrySet) : open = top.open
      BY <1>7
    <3>1. OpenOf(fs) = below \o open /\ OpenOf(gs) = below \o Append(open, entry)
      BY <1>7, <2>3, <2>4, <2>6
    <3>2. below \o Append(open, entry) = Append(below \o open, entry)
      BY ONLY <1>6, below \in Seq(EntrySet), open \in Seq(EntrySet), ConcatAppend, SMTT(30)
    <3>3. QED
      BY <3>1, <3>2
  <2>8. QED
    BY <2>7
<1>9. LogCalls' = Append(LogCalls, entry)
  <2>1. LogCalls' = <<MainCall>> \o OpenOf(frames')
    BY <1>1 DEF LogCalls, MainCall
  <2>2. QED
    BY <1>4, <1>6, <1>8, <2>1, ConcatAppend
<1>10. LogInv'
  <2>1. KeptIn(Append(LogCalls, entry), Append(log, name))
    <3> PICK c \in Seq(EntrySet) : c = LogCalls
      BY <1>4
    <3> PICK s \in Seq(FuncNames) : s = log
      BY <1>4
    <3>1. KeptIn(c, s) /\ Len(s) < MaxFrames
      BY <1>1, <1>4
    <3>2. entry = [func |-> name, slot |-> Len(s) + 1]
      BY <1>6
    <3>3. KeptIn(Append(c, entry), Append(s, name))
      BY <1>3, <3>1, <3>2, KeptByCall
    <3>4. QED
      BY <3>3
  <2>2. KeptIn(LogCalls', log')
    BY <1>1, <1>9, <2>1
  <2>3. QED
    BY <1>1, <2>2 DEF LogInv
<1>11. CallLog!Call(name)
  <2>1. Len(LogCalls) <= Len(log) /\ Len(log) < MaxFrames /\ Len(log) + 1 # MaxFrames + 2
        /\ Len(LogCalls) < MaxFrames
    <3>1. Len(LogCalls) <= Len(log)
      BY <1>4, KeptFits
    <3>2. Len(LogCalls) \in Nat
      BY <1>4
    <3>3. QED
      BY <1>1, <1>5, <3>1, <3>2, BoundsAssumption
  <2>2. QED
    BY <1>1, <1>5, <1>6, <1>9, <2>1
       DEF CallLog!Call, CallLog!TargetRuns, CallLog!LogFunctionParameters, CallLog!Silent, CallLog!PlusOne
<1>12. QED
  BY <1>3, <1>10, <1>11

LEMMA LogLeaveRefined ==
  ASSUME IInv, NestInv, LogInv, LogLeave, IInv'
  PROVE  LogInv' /\ CallLog!Return
<1> PICK n : n = Len(frames)
  OBVIOUS
<1> PICK name : name = Instruction.name
  OBVIOUS
<1> PICK top : top = Top
  OBVIOUS
<1> PICK moved : moved = [top EXCEPT !.next = @ + 1, !.open = Front(@)]
  OBVIOUS
<1>1. /\ phase = "running" /\ AtInstruction({"leave"}) /\ phase' = phase
      /\ CallLog!LogFunctionReturn(name)
      /\ frames' = [frames EXCEPT ![n] = moved]
  BY DEF LogLeave, AtInstruction, ReplaceTop
<1>2. /\ top \in FrameSet /\ n \in 1..n /\ frames \in Seq(FrameSet) /\ top = frames[n]
      /\ ShowsRight(top)
  BY <1>1, TopFacts
<1>3. name \in FuncNames
  <2>1. Instruction \in Instructions(Len(module)) /\ Instruction.op = "leave"
    BY <1>1, InstructionTyped
  <2>2. QED
    BY <2>1 DEF Instructions
<1>4. /\ Opens(frames) /\ OpenOf(frames) \in Seq(EntrySet) /\ log \in Seq(FuncNames)
      /\ <<MainCall>> \in Seq(EntrySet) /\ Len(<<MainCall>>) = 1
      /\ LogCalls = <<MainCall>> \o OpenOf(frames) /\ LogCalls \in Seq(EntrySet)
      /\ KeptIn(LogCalls, log)
  BY <1>1, RunningLog
\* The name that is left is the one entered last.
<1>5. PICK less \in Seq(EntrySet), entry \in EntrySet :
        /\ top.open = Append(less, entry) /\ entry.func = name
        /\ moved.open = less /\ moved \in FrameSet
  <2>1. top.open \in Seq(EntrySet) /\ moved.open = Front(top.open)
    BY <1>2 DEF FrameSet, EntrySet
  <2>2. PICK s : Follows(top, s)
    BY <1>2 DEF ShowsRight
  <2>3. PICK next : next = top.next + 1
    OBVIOUS
  <2>4. /\ BlockOf(top)[top.next] = Instruction /\ BlockOf(top)[top.next].op = "leave"
        /\ top.next \in 1..Len(BlockOf(top))
    <3>1. /\ top.next <= Len(BlockOf(top)) /\ BlockOf(top)[top.next].op = "leave"
          /\ BlockOf(top)[top.next] = Instruction
      BY <1>1 DEF AtInstruction, Instruction
    <3>2. top.next \in 1..Len(BlockOf(top)) + 1 /\ Len(BlockOf(top)) \in Nat
      BY <1>1, <2>2, TopFacts DEF Follows
    <3>3. QED
      BY <3>1, <3>2
  <2>5. Shown(top) = Append(s[next], name) /\ s[next] \in Seq(FuncNames)
    <3>1. s \in Nestings(BlockOf(top)) /\ Shown(top) = s[top.next]
      BY <2>2 DEF Follows
    <3>2. s[top.next] = Append(s[next], name)
      BY <2>3, <2>4, <3>1 DEF Nestings
    <3>3. next \in 1..Len(BlockOf(top)) + 1
      <4>1. Len(BlockOf(top)) \in Nat
        BY <1>1, TopFacts
      <4>2. QED
        BY <2>3, <2>4, <4>1
    <3>4. s[next] \in Seq(FuncNames)
      BY <3>1, <3>3 DEF Nestings
    <3>5. QED
      BY <3>1, <3>2, <3>4
  <2> PICK shown : shown = Shown(top)
    OBVIOUS
  <2> PICK open \in Seq(EntrySet) : open = top.open
    BY <2>1
  <2>6. /\ Len(shown) = Len(open) /\ Len(open) \in Nat
        /\ \A i \in 1..Len(open) : shown[i] = open[i].func
    BY ShownFacts DEF Shown
  <2>7. Len(shown) \in Nat \ {0} /\ shown[Len(shown)] = name
    BY <1>3, <2>5
  <2>8. open[Len(open)].func = name /\ Len(open) # 0
    BY <2>6, <2>7
  <2>9. /\ Front(open) \in Seq(EntrySet) /\ open[Len(open)] \in EntrySet
        /\ open = Append(Front(open), open[Len(open)])
    BY <2>8 DEF Front
  <2>10. moved \in FrameSet
    <3>1. top.next + 1 \in Nat \ {0}
      BY <1>2 DEF FrameSet
    <3>2. QED
      BY <1>2, <2>1, <2>9, <3>1 DEF FrameSet, EntrySet
  <2>11. QED
    BY <2>1, <2>8, <2>9, <2>10
<1>6. OpenOf(frames) \in Seq(EntrySet) /\ \E below \in Seq(EntrySet) :
         OpenOf(frames) = below \o Append(less, entry) /\ OpenOf(frames') = below \o less
  <2> PICK m : m = n - 1
    OBVIOUS
  <2>1. m \in Nat /\ n = m + 1 /\ m + 1 \in 1..n
    BY <1>2
  <2> PICK fs : fs = frames
    OBVIOUS
  <2> PICK gs : gs = frames'
    OBVIOUS
  <2>2. Opens(gs)
    <3>1. gs \in Seq(FrameSet)'
      BY DEF IInv, FramesInv
    <3>2. FrameSet' = FrameSet
      BY DEF LogLeave, FrameSet, Funcs
    <3>3. QED
      BY <3>1, <3>2, FramesOpen
  <2>3. Len(gs) = m + 1 /\ gs[m + 1] = moved /\ \A k \in 1..m : gs[k] = fs[k]
    <3>1. /\ Len(gs) = n /\ gs[n] = moved
          /\ \A k \in 1..n : k # n => gs[k] = fs[k]
      BY ONLY <1>1, <1>2, <1>5, fs = frames, gs = frames', n = Len(frames), ReplaceFacts
    <3>2. \A k \in 1..m : k \in 1..n /\ k # n
      BY ONLY <2>1
    <3>3. QED
      BY <2>1, <3>1, <3>2
  <2>4. Len(fs) = m + 1 /\ fs[m + 1] = top /\ Opens(fs)
    BY <1>2, <1>4, <2>1
  <2>5. HaveInCommon(fs, gs, m)
    BY <2>1, <2>2, <2>3, <2>4, OpenOfTops
  <2>6. PICK below \in Seq(EntrySet) : /\ OpenOf(fs) = below \o fs[m + 1].open
                                      /\ OpenOf(gs) = below \o gs[m + 1].open
    BY <2>5 DEF HaveInCommon
  <2>7. OpenOf(fs) = below \o Append(less, entry) /\ OpenOf(gs) = below \o less
    BY <1>5, <2>3, <2>4, <2>6
  <2>8. QED
    BY <1>4, <2>7
<1>7. PICK below \in Seq(EntrySet) :
         OpenOf(frames) = below \o Append(less, entry) /\ OpenOf(frames') = below \o less
  BY <1>6
<1> PICK c : c = LogCalls
  OBVIOUS
<1>8. /\ c[Len(c)] = entry /\ Len(c) \in Nat \ {0} /\ c \in Seq(EntrySet)
      /\ LogCalls' = SubSeq(c, 1, Len(c) - 1)
  <2>1. LogCalls' = <<MainCall>> \o OpenOf(frames')
    BY <1>1 DEF LogCalls, MainCall
  <2> PICK main \in Seq(EntrySet) : main = <<MainCall>>
    BY <1>4
  <2> PICK more \in Seq(EntrySet) : more = Append(less, entry)
    BY AppendFacts
  <2> PICK before \in Seq(EntrySet) : before = main \o below
    BY ConcatFacts
  <2>2. LogCalls' = before \o less
    <3>1. (main \o below) \o less = main \o (below \o less)
      BY ONLY main \in Seq(EntrySet), below \in Seq(EntrySet), less \in Seq(EntrySet),
              ConcatAssociates, SMTT(30)
    <3>2. QED
      BY <1>7, <2>1, <3>1
  <2>3. c = before \o Append(less, entry)
    <3>1. c = main \o (below \o more)
      BY <1>4, <1>7
    <3>2. (main \o below) \o more = main \o (below \o more)
      BY ONLY main \in Seq(EntrySet), below \in Seq(EntrySet), more \in Seq(EntrySet),
              ConcatAssociates, SMTT(30)
    <3>3. QED
      BY <3>1, <3>2
  <2>4. QED
    BY <2>2, <2>3, ConcatFront
<1>9. Len(c) > 1
  <2>1. Len(c) = 1 + Len(OpenOf(frames)) /\ Len(OpenOf(frames)) \in Nat
    BY <1>1, RunningLog
  <2>2. Len(OpenOf(frames)) # 0
    BY <1>7, ConcatFront
  <2>3. QED
    BY <2>1, <2>2
<1>10. LogInv'
  <2>1. PICK k \in 1..Len(log) :
          log' = SubSeq(log, 1, k - 1) /\ \A j \in k + 1..Len(log) : log[j] > name
    BY <1>1 DEF CallLog!LogFunctionReturn, CallLog!Silent, CallLog!StopsAt, CallLog!PopTo, CallLog!Overdue
  <2>2. KeptIn(SubSeq(c, 1, Len(c) - 1), SubSeq(log, 1, k - 1))
    <3> PICK s \in Seq(FuncNames) : s = log
      BY <1>4
    <3>1. KeptIn(c, s) /\ c \in Seq(EntrySet) /\ Len(c) # 0
      BY <1>4, <1>8
    <3>2. k \in 1..Len(s) /\ \A j \in k + 1..Len(s) : s[j] > c[Len(c)].func
      BY <1>5, <1>8, <2>1
    <3>3. KeptIn(SubSeq(c, 1, Len(c) - 1), SubSeq(s, 1, k - 1))
      BY ONLY <3>1, <3>2, s \in Seq(FuncNames), KeptByReturn
    <3>4. QED
      BY <3>3
  <2>3. KeptIn(LogCalls', log')
    BY <1>8, <2>1, <2>2
  <2>4. QED
    BY <1>1, <2>3 DEF LogInv
<1>11. CallLog!Return
  <2>1. LogCalls # <<>>
    BY <1>9
  <2>2. LogCalls[Len(LogCalls)].func = name /\ LogCalls' = SubSeq(LogCalls, 1, Len(LogCalls) - 1)
        /\ Len(LogCalls) - 1 # 0
    BY <1>5, <1>8, <1>9
  <2>3. QED
    BY <1>1, <2>1, <2>2 DEF CallLog!Return, CallLog!TargetRuns, CallLog!ArmedUpTo
<1>12. QED
  BY <1>10, <1>11

\* Where frames change but for what they have open, CallLog does nothing.
LEMMA SameOpenRefined ==
  ASSUME IInv, LogInv, phase = "running", phase' = phase, log' = log, OpenOf(frames') = OpenOf(frames)
  PROVE  LogInv' /\ UNCHANGED CallLog!vars
<1>1. LogCalls' = LogCalls
  BY DEF LogCalls
<1>2. QED
  BY <1>1, NothingLogged

LEMMA CallFunctionRefined ==
  ASSUME IInv, NestInv, LogInv, CallFunction, IInv'
  PROVE  LogInv' /\ UNCHANGED CallLog!vars
<1> PICK n : n = Len(frames)
  OBVIOUS
<1> PICK top : top = Top
  OBVIOUS
<1> PICK moved : moved = [top EXCEPT !.next = @ + 1]
  OBVIOUS
<1> PICK new : new = Frame(Instruction.to)
  OBVIOUS
<1> PICK same : same = [frames EXCEPT ![n] = moved]
  OBVIOUS
<1>1. phase = "running" /\ phase' = phase /\ log' = log /\ frames' = Append([frames EXCEPT ![n].next = @ + 1], new)
  BY DEF CallFunction, AtInstruction
<1>2. top \in FrameSet /\ n \in 1..n /\ frames \in Seq(FrameSet) /\ top = frames[n]
  BY <1>1, TopFacts
<1>3. moved \in FrameSet /\ moved.open = top.open
  <2>1. top.next + 1 \in Nat \ {0}
    BY <1>2 DEF FrameSet
  <2>2. QED
    BY <1>2, <2>1 DEF FrameSet
<1>4. frames' = Append(same, new)
  BY <1>1, <1>2
<1>5. same \in Seq(FrameSet) /\ Len(same) = n /\ \A k \in 1..n : same[k].open = frames[k].open
  <2>1. /\ same \in Seq(FrameSet) /\ Len(same) = n /\ same[n] = moved
        /\ \A k \in 1..n : k # n => same[k] = frames[k]
    BY ONLY <1>2, <1>3, same = [frames EXCEPT ![n] = moved], n = Len(frames), ReplaceFacts
  <2>2. QED
    BY <1>2, <1>3, <2>1
<1>6. Opens(frames) /\ Opens(frames')
  <2>1. frames' \in Seq(FrameSet)' /\ FrameSet' = FrameSet
    BY DEF IInv, FramesInv, FrameSet, CallFunction, Funcs
  <2>2. QED
    BY <1>2, <2>1, FramesOpen
<1>7. Len(frames') = n + 1 /\ frames'[n + 1] = new /\ \A k \in 1..n : frames'[k].open = frames[k].open
  <2>1. Len(frames') = n + 1 /\ frames'[n + 1] = new /\ \A k \in 1..n : frames'[k] = same[k]
    <3>1. \A s \in Seq(FrameSet) : /\ Len(Append(s, new)) = Len(s) + 1 /\ Append(s, new)[Len(s) + 1] = new
                                  /\ \A k \in 1..Len(s) : Append(s, new)[k] = s[k]
      OBVIOUS
    <3>2. QED
      BY <1>4, <1>5, <3>1
  <2>2. QED
    BY <1>5, <2>1
<1>8. OpenOf(frames') = OpenOf(frames)
  <2> PICK fs : fs = frames
    OBVIOUS
  <2> PICK gs : gs = frames'
    OBVIOUS
  <2>1. n \in Nat /\ Len(fs) = n /\ Len(gs) = n + 1 /\ gs[n + 1].open = <<>>
    BY <1>2, <1>7 DEF Frame
  <2>2. Opens(fs) /\ Opens(gs) /\ \A k \in 1..n : fs[k].open = gs[k].open
    BY <1>6, <1>7
  <2>3. OpenOf(gs) = OpenOf(fs)
    BY <2>1, <2>2, OpenOfMore
  <2>4. QED
    BY <2>3
<1>9. QED
  BY <1>1, <1>8, SameOpenRefined

\* A frame goes on at another block, and those above it, if any, are gone.
LEMMA GoToOpens ==
  ASSUME IInv, IInv', NEW k \in 1..Len(frames), NEW b, GoTo(frames, k, b), UNCHANGED module
  PROVE  /\ OpenOf(frames') \in Seq(EntrySet)
         /\ Len(OpenOf(frames')) \in 0..Len(OpenOf(frames))
         /\ OpenOf(frames') = SubSeq(OpenOf(frames), 1, Len(OpenOf(frames')))
         /\ Len(frames') = k /\ \A j \in 1..k : frames[j].open = frames'[j].open
<1> PICK n \in Nat : n = Len(frames)
  BY DEF IInv, FramesInv
<1> PICK below : below = SubSeq(frames, 1, k)
  OBVIOUS
<1> PICK old : old = frames[k]
  OBVIOUS
<1> PICK there : there = [old EXCEPT !.block = b]
  OBVIOUS
<1> PICK moved : moved = [there EXCEPT !.next = 1]
  OBVIOUS
<1>1. frames \in Seq(FrameSet) /\ k \in 1..n /\ k \in 0..Len(frames) /\ old \in FrameSet
  BY DEF IInv, FramesInv
<1>2. below \in Seq(FrameSet) /\ Len(below) = k /\ \A j \in 1..k : below[j] = frames[j]
  BY <1>1, PrefixFacts
<1>3. frames' = [below EXCEPT ![k] = moved]
  <2>1. frames' = [below EXCEPT ![k].block = b, ![k].next = 1]
    BY DEF GoTo
  <2>2. below[k] = old
    BY <1>1, <1>2
  <2>3. QED
    BY ONLY <1>1, <1>2, <2>1, <2>2, there = [old EXCEPT !.block = b], moved = [there EXCEPT !.next = 1]
<1>4. moved.open = old.open
  BY <1>1 DEF FrameSet
<1>5. frames' \in Seq(FrameSet)
  <2>1. FrameSet' = FrameSet
    BY DEF FrameSet, Funcs
  <2>2. QED
    BY <2>1 DEF IInv, FramesInv
<1>6. DOMAIN frames' = 1..k /\ \A j \in 1..k : frames'[j].open = frames[j].open
  <2>1. DOMAIN below = 1..k
    BY <1>2
  <2>2. DOMAIN frames' = 1..k /\ \A j \in 1..k : frames'[j] = IF j = k THEN moved ELSE below[j]
    BY ONLY <1>3, <2>1
  <2>3. QED
    BY <1>2, <1>4, <2>2
<1>7. Len(frames') = k
  BY <1>1, <1>5, <1>6
<1> PICK fs : fs = frames
  OBVIOUS
<1> PICK gs : gs = frames'
  OBVIOUS
<1>8. Opens(fs) /\ Opens(gs) /\ k \in 0..Len(fs) /\ Len(gs) = k /\ \A j \in 1..k : fs[j].open = gs[j].open
  BY <1>1, <1>5, <1>6, <1>7, FramesOpen
<1>9. /\ OpenOf(gs) \in Seq(EntrySet)
      /\ Len(OpenOf(gs)) \in 0..Len(OpenOf(fs))
      /\ OpenOf(gs) = SubSeq(OpenOf(fs), 1, Len(OpenOf(gs)))
  BY <1>8, OpenOfLess
<1>10. QED
  BY <1>8, <1>9

LEMMA BranchRefined ==
  ASSUME IInv, NestInv, LogInv, Branch, IInv'
  PROVE  LogInv' /\ UNCHANGED CallLog!vars
<1> PICK n : n = Len(frames)
  OBVIOUS
<1>1. phase = "running" /\ phase' = phase /\ log' = log /\ UNCHANGED module
  BY DEF Branch, AtEnd
<1>2. n \in 1..n /\ frames \in Seq(FrameSet)
  BY <1>1, TopFacts
<1>3. PICK b : GoTo(frames, n, b)
  BY DEF Branch
<1>4. Len(frames') = n /\ \A j \in 1..n : frames[j].open = frames'[j].open
  BY <1>1, <1>2, <1>3, GoToOpens
<1>5. Opens(frames) /\ Opens(frames')
  <2>1. frames' \in Seq(FrameSet)' /\ FrameSet' = FrameSet
    BY <1>1 DEF IInv, FramesInv, FrameSet, Funcs
  <2>2. QED
    BY <1>2, <2>1, FramesOpen
<1>6. OpenOf(frames') = OpenOf(frames)
  <2> PICK fs : fs = frames
    OBVIOUS
  <2> PICK gs : gs = frames'
    OBVIOUS
  <2>1. /\ Opens(fs) /\ Opens(gs) /\ n \in 0..Len(fs) /\ n <= Len(gs) /\ Len(fs) = n /\ Len(gs) = n
        /\ \A j \in 1..n : fs[j].open = gs[j].open
    BY <1>2, <1>4, <1>5
  <2>2. OpenUpTo(fs)[n] = OpenUpTo(gs)[n]
    BY <2>1, SameOpens
  <2>3. QED
    BY <2>1, <2>2, OpenUpToFacts
<1>7. QED
  BY <1>1, <1>6, SameOpenRefined

LEMMA ReturnFromFunctionRefined ==
  ASSUME IInv, NestInv, LogInv, ReturnFromFunction, IInv'
  PROVE  LogInv' /\ UNCHANGED CallLog!vars
<1> PICK n : n = Len(frames) - 1
  OBVIOUS
<1>1. /\ phase = "running" /\ phase' = phase /\ log' = log /\ UNCHANGED module
      /\ Top.next > Len(BlockOf(Top)) /\ frames' = Front(frames)
  BY DEF ReturnFromFunction, AtEnd
<1>2. /\ Len(frames) \in 1..Len(frames) /\ frames \in Seq(FrameSet) /\ Top = frames[Len(frames)]
      /\ Top \in FrameSet /\ ShowsRight(Top) /\ BlockOf(Top) \in Seq(Instructions(Len(module)))
  BY <1>1, TopFacts
<1>3. Top.open = <<>>
  BY <1>1, <1>2, NothingAtEnds
<1>4. n \in Nat /\ n \in 0..Len(frames) /\ Len(frames) = n + 1
  BY ONLY <1>2, n = Len(frames) - 1
<1>5. frames' \in Seq(FrameSet) /\ Len(frames') = n /\ \A k \in 1..n : frames'[k] = frames[k]
  BY <1>1, <1>2, <1>4, PrefixFacts DEF Front
<1>6. OpenOf(frames') = OpenOf(frames)
  <2> PICK fs : fs = frames'
    OBVIOUS
  <2> PICK gs : gs = frames
    OBVIOUS
  <2>1. Opens(fs) /\ Opens(gs)
    BY <1>2, <1>5, FramesOpen
  <2>2. gs[n + 1].open = <<>> /\ Len(fs) = n /\ Len(gs) = n + 1 /\ \A k \in 1..n : fs[k].open = gs[k].open
    BY <1>2, <1>3, <1>4, <1>5
  <2>3. OpenOf(gs) = OpenOf(fs)
    BY <1>4, <2>1, <2>2, OpenOfMore
  <2>4. QED
    BY <2>3
<1>7. QED
  BY <1>1, <1>6, SameOpenRefined

LEMMA ThrowRefined ==
  ASSUME IInv, NestInv, LogInv, Throw, IInv'
  PROVE  LogInv' /\ ((\E depth \in 0..MaxFrames : CallLog!Unwind(depth)) \/ UNCHANGED CallLog!vars)
<1>1. phase = "running" /\ phase' = phase /\ log' = log /\ UNCHANGED module
  BY DEF Throw
<1>2. PICK k \in Handlers : \E b : GoTo(frames, k, b)
  BY DEF Throw
<1>3. k \in 1..Len(frames)
  <2>1. Len(frames) \in 1..Len(frames)
    BY <1>1, TopFacts
  <2>2. QED
    BY <1>2, <2>1 DEF Handlers
<1>4. /\ OpenOf(frames') \in Seq(EntrySet)
      /\ Len(OpenOf(frames')) \in 0..Len(OpenOf(frames))
      /\ OpenOf(frames') = SubSeq(OpenOf(frames), 1, Len(OpenOf(frames')))
  BY <1>1, <1>2, <1>3, GoToOpens
<1>5. /\ OpenOf(frames) \in Seq(EntrySet) /\ <<MainCall>> \in Seq(EntrySet) /\ Len(<<MainCall>>) = 1
      /\ LogCalls = <<MainCall>> \o OpenOf(frames) /\ LogCalls \in Seq(EntrySet) /\ log \in Seq(FuncNames)
      /\ KeptIn(LogCalls, log)
  BY <1>1, RunningLog
<1> PICK c \in Seq(EntrySet) : c = LogCalls
  BY <1>5
<1> PICK l : l = Len(OpenOf(frames'))
  OBVIOUS
<1> PICK depth : depth = 1 + l
  OBVIOUS
<1>6. LogCalls' = SubSeq(c, 1, depth) /\ depth \in 1..Len(c)
  <2>1. LogCalls' = <<MainCall>> \o OpenOf(frames')
    BY <1>1 DEF LogCalls, MainCall
  <2> PICK main \in Seq(EntrySet) : main = <<MainCall>>
    BY <1>5
  <2> PICK open \in Seq(EntrySet) : open = OpenOf(frames)
    BY <1>5
  <2>2. l \in 0..Len(open) /\ OpenOf(frames') = SubSeq(open, 1, l) /\ Len(main) = 1 /\ c = main \o open
    BY <1>4, <1>5
  <2>3. main \o SubSeq(open, 1, l) = SubSeq(c, 1, depth) /\ depth \in 1..Len(c)
    BY <2>2, ConcatPrefix
  <2>4. QED
    BY <2>1, <2>2, <2>3
<1>7. LogInv'
  <2>1. KeptIn(SubSeq(c, 1, depth), log)
    <3>1. depth \in 0..Len(c) /\ KeptIn(c, log)
      BY <1>5, <1>6
    <3>2. QED
      BY <3>1, KeptOfPrefix
  <2>2. QED
    BY <1>1, <1>6, <2>1 DEF LogInv
<1>8. Len(c) <= MaxFrames
  <2> PICK s \in Seq(FuncNames) : s = log
    BY <1>5
  <2>1. KeptIn(c, s)
    BY <1>5
  <2>2. Len(c) <= Len(s) /\ Len(s) <= MaxFrames /\ Len(s) \in Nat
    BY <2>1, KeptFits
  <2>3. Len(c) \in Nat
    OBVIOUS
  <2>4. QED
    BY <2>2, <2>3, BoundsAssumption
<1>9. CASE depth = Len(c)
  <2>1. LogCalls' = LogCalls
    BY <1>6, <1>9
  <2>2. QED
    BY <1>1, <1>7, <2>1, NothingLogged
<1>10. CASE depth < Len(c)
  <2>1. depth \in 0..MaxFrames /\ depth > 0 /\ depth < Len(LogCalls) /\ LogCalls' = SubSeq(LogCalls, 1, depth)
    BY <1>6, <1>8, <1>10, BoundsAssumption
  <2>2. CallLog!Unwind(depth)
    BY <1>1, <2>1 DEF CallLog!Unwind, CallLog!TargetRuns, CallLog!ArmedUpTo, CallLog!logVars
  <2>3. QED
    BY <1>7, <2>1, <2>2
<1>11. QED
  BY <1>6, <1>9, <1>10

LEMMA ReturnFromMainRefined ==
  ASSUME IInv, NestInv, LogInv, ReturnFromMain
  PROVE  LogInv' /\ CallLog!Return
<1>1. /\ phase = "running" /\ phase' = "closing" /\ Len(frames) = 1 /\ Top.next > Len(BlockOf(Top))
      /\ CallLog!LogFunctionReturn(Main)
  BY DEF ReturnFromMain, AtEnd
<1>2. /\ Len(frames) \in 1..Len(frames) /\ frames \in Seq(FrameSet) /\ Top = frames[Len(frames)]
      /\ Top \in FrameSet /\ ShowsRight(Top) /\ BlockOf(Top) \in Seq(Instructions(Len(module)))
  BY <1>1, TopFacts
<1>3. frames[1].open = <<>>
  BY <1>1, <1>2, NothingAtEnds
<1>4. OpenOf(frames) = <<>>
  <2>1. Opens(frames) /\ 0 \in Nat /\ Len(frames) = 0 + 1
    BY <1>1, <1>2, FramesOpen
  <2>2. OpenOf(frames) = OpenUpTo(frames)[0] \o frames[0 + 1].open
    BY <2>1, OpenOfLast
  <2>3. OpenUpTo(frames)[0] = <<>>
    BY <2>1, OpenUpToFacts DEF Concatenates
  <2>4. <<>> \o <<>> = <<>> /\ 0 + 1 = 1
    OBVIOUS
  <2>5. QED
    BY <1>3, <2>2, <2>3, <2>4
<1>5. LogCalls = <<MainCall>> /\ LogCalls' = <<>>
  <2>1. LogCalls = <<MainCall>> \o <<>>
    BY <1>1, <1>4, RunningLog
  <2>2. <<MainCall>> \o <<>> = <<MainCall>>
    OBVIOUS
  <2>3. LogCalls' = <<>>
    BY <1>1 DEF LogCalls
  <2>4. QED
    BY <2>1, <2>2, <2>3
<1>6. CallLog!Return
  <2>1. Len(<<MainCall>>) = 1 /\ <<MainCall>>[1] = MainCall /\ SubSeq(<<MainCall>>, 1, 0) = <<>>
        /\ <<MainCall>> # <<>> /\ 1 - 1 = 0
    OBVIOUS
  <2>2. LogCalls # <<>> /\ Len(LogCalls) - 1 = 0 /\ LogCalls[Len(LogCalls)].func = Main
        /\ LogCalls' = SubSeq(LogCalls, 1, 0)
    BY <1>5, <2>1 DEF MainCall
  <2>3. QED
    BY <1>1, <2>2 DEF CallLog!Return, CallLog!TargetRuns, CallLog!ArmedUpTo
<1>7. QED
  BY <1>1, <1>6 DEF LogInv

LEMMA AbortRefined ==
  ASSUME IInv, LogInv, Abort
  PROVE  LogInv' /\ (CallLog!ExceptionEscapes \/ CallLog!Signal)
<1>1. phase = "running" /\ phase' \in {"closing", "signalled"} /\ log' = log
  BY DEF Abort
<1>2. LogCalls' = <<>>
  BY <1>1 DEF LogCalls
<1>3. QED
  BY <1>1, <1>2 DEF LogInv, CallLog!ExceptionEscapes, CallLog!Signal, CallLog!logVars

LEMMA StepRefined ==
  ASSUME IInv, NestInv, LogInv, IInv', [Next]_vars
  PROVE  LogInv' /\ [CallLog!Next]_(CallLog!vars)
<1>1. CASE Passes
  BY <1>1, PassesRefined
<1>2. CASE StartMain
  BY <1>2, StartMainRefined DEF CallLog!Next, CallLog!Controller
<1>3. CASE LogEnter
  BY <1>3, LogEnterRefined DEF CallLog!Next
<1>4. CASE LogLeave
  BY <1>4, LogLeaveRefined DEF CallLog!Next
<1>5. CASE CallFunction
  BY <1>5, CallFunctionRefined
<1>6. CASE Branch
  BY <1>6, BranchRefined
<1>7. CASE ReturnFromFunction
  BY <1>7, ReturnFromFunctionRefined
<1>8. CASE ReturnFromMain
  BY <1>8, ReturnFromMainRefined DEF CallLog!Next
<1>9. CASE Throw
  BY <1>9, ThrowRefined DEF CallLog!Next
<1>10. CASE Abort
  BY <1>10, AbortRefined DEF CallLog!Next
<1>11. CASE UNCHANGED vars
  <2>1. phase' = phase /\ log' = log /\ LogCalls' = LogCalls
    BY <1>11 DEF vars, LogCalls
  <2>2. QED
    BY <2>1 DEF LogInv, CallLog!vars
<1>12. QED
  BY <1>1, <1>2, <1>3, <1>4, <1>5, <1>6, <1>7, <1>8, <1>9, <1>10, <1>11 DEF Next, Run

\* For every target and whatever it calls, throws and catches: the debugged program calls the
\* log functions as CallLog takes a target to do.  Each logFunctionReturn is that of the
\* innermost call that is logged and not abandoned.
THEOREM TargetOfLog == Spec => ImplementsCallLog
<1>1. Init => LogInv
  BY DEF Init, LogInv
<1>2. Init => CallLog!Init
  BY DEF Init, CallLog!Init, LogCalls
<1>3. IInv /\ NestInv /\ LogInv /\ IInv' /\ [Next]_vars => LogInv' /\ [CallLog!Next]_(CallLog!vars)
  BY StepRefined
<1>4. Init => NestInv
  BY InitNests
<1>5. IInv /\ NestInv /\ [Next]_vars => NestInv'
  BY NextNests
<1>6. QED
  BY <1>1, <1>2, <1>3, <1>4, <1>5, Invariance, PTL DEF Spec, ImplementsCallLog, CallLog!Spec
=============================================================================
