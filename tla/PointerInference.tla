-------------------------- MODULE PointerInference --------------------------
(***************************************************************************)
(* What a pointer points to, guessed from its uses: LLVM's pointers have   *)
(* no type, so getTypeAsString and attemptFindPointerType (llvmHelpers.cpp)*)
(* look at the users of a value, and where a user only leads to another    *)
(* value, at the users of that one.  Stores lead both ways, and so most    *)
(* searches run in circles: a parameter is stored in its alloca, whose     *)
(* users include that store.  Three things end them: the memory            *)
(* determinedTypes, the list visitedFunctions, and a limit on the depth.   *)
(*                                                                         *)
(* The passes ask for one value at a time, the parameters of functions     *)
(* without a row and the arguments of variadic calls; the memory is kept   *)
(* from one question to the next, and from one pass to the next.           *)
(***************************************************************************)
EXTENDS Integers, Sequences, SequencesExt

CONSTANTS
  Values,      \* the pointers of the module
  Functions,   \* its functions that have a body
  Scalars,     \* types that are no pointers: integers, structs, ...
  Programs,    \* the modules: the uses of each value, in the order of users()
  MaxDepth,    \* the depth at which the search gives up, 1000 in the code
  MaxLevel     \* bound: most indirections of a leveling

VARIABLES
  users,         \* the module at hand
  stack,         \* attemptFindPointerType's calls of itself, outermost first
  visited,       \* visitedFunctions
  determined,    \* determinedTypes
  given,         \* the answers the passes were given
  cut            \* the values at which the search gave up

vars == <<users, stack, visited, determined, given, cut>>

-----------------------------------------------------------------------------
(* Types: what the string says, as a name and the number of stars behind.  *)

Type(base, stars) == [base |-> base, stars |-> stars]
VoidPtr == Type("void", 1)
FPtr    == Type("f_ptr", 0)

\* starts_with("void*")
IsVoid(T) == T.base = "void" /\ T.stars >= 1

Types == [base : Scalars \cup {"void", "f_ptr"}, stars : Nat]

(* Uses: what an instruction tells of its operand.                          *)

\* A load or store of a scalar, a getelementptr into a struct.
Typed(S)  == [op |-> "typed", type |-> Type(S, 1)]
\* A load of the pointer w, and the store of w into this value.
Load(w)   == [op |-> "ask", of |-> w, shift |-> 1]
Stored(w) == [op |-> "ask", of |-> w, shift |-> 1]
\* The store of this value into w.
Store(w)  == [op |-> "ask", of |-> w, shift |-> -1]
\* A phi, a getelementptr to a char or out of bounds.
Same(w)   == [op |-> "ask", of |-> w, shift |-> 0]
\* A call in f that passes this value as the parameter p of g.
Call(f, g, p) == [op |-> "call", of |-> p, shift |-> 0, caller |-> f, callee |-> g]
\* A call of this value.
Called    == [op |-> "called"]

Uses ==
       [op : {"typed"}, type : [base : Scalars, stars : {1}]]
  \cup [op : {"ask"}, of : Values, shift : {-1, 0, 1}]
  \cup [op : {"call"}, of : Values, shift : {0}, caller : Functions, callee : Functions]
  \cup [op : {"called"}]

ASSUME ScalarsAssumption == Scalars \cap {"void", "f_ptr"} = {}
ASSUME ProgramsAssumption == Programs \subseteq [Values -> Seq(Uses)]
ASSUME BoundsAssumption == MaxDepth \in Nat /\ MaxLevel \in Nat

-----------------------------------------------------------------------------
(* The search. *)

\* f with the value y at x.
With(f, x, y) == [z \in DOMAIN f \cup {x} |-> IF z = x THEN y ELSE f[z]]

\* A call of attemptFindPointerType: the value, the user it is at, and the first
\* entry of possible that is not void*, if there is one yet.
Frame(v) == [val |-> v, next |-> 1, best |-> VoidPtr]

\* Mutant: a call of attemptFindPointerType goes on with its caller's list.
NewFrame_SharesList(v) == [Frame(v) EXCEPT !.best = stack[Len(stack)].best]
NewFrame(v) == Frame(v)

Top == stack[Len(stack)]
Use == users[Top.val][Top.next]
AtUser(op) == stack # <<>> /\ Top.next <= Len(users[Top.val]) /\ Use.op = op

\* Mutant: the store of a pointer tells the type of the location itself.
Shifted_LocationItself(T, shift) == IF shift = -1 THEN {T} ELSE {Type(T.base, T.stars + shift)}
\* What an answer for the value a user leads to says of this one, if anything.
Shifted(T, shift) ==
  IF shift # -1       THEN {Type(T.base, T.stars + shift)}
  ELSE IF T.stars = 0 THEN {}
  ELSE IF T = VoidPtr THEN {VoidPtr}
  ELSE {Type(T.base, T.stars - 1)}

\* Mutant: the last entry counts.
Better_Last(best, possible) == IF possible = {} THEN best ELSE CHOOSE T \in possible : TRUE
\* The loop over possible, entry by entry.
Better(best, possible) ==
  IF IsVoid(best) /\ \E T \in possible : ~IsVoid(T)
    THEN CHOOSE T \in possible : ~IsVoid(T)
    ELSE best

\* The frame with this evidence, at the next user.
Noted(frame, possible) ==
  [val |-> frame.val, next |-> frame.next + 1, best |-> Better(frame.best, possible)]
\* The frame that waited for the type of the value its user leads to.
Told(frame, T) == Noted(frame, Shifted(T, users[frame.val][frame.next].shift))

ReplaceTop(frame) == stack' = [stack EXCEPT ![Len(stack)] = frame]

\* A user that shows the type itself.
ReadType ==
  /\ AtUser("typed")
  /\ ReplaceTop(Noted(Top, {Use.type}))
  /\ UNCHANGED <<users, visited, determined, given, cut>>

\* A call of a function that is among those already searched.
SkipCall ==
  /\ AtUser("call")
  /\ Use.callee \in visited
  /\ ReplaceTop(Noted(Top, {}))
  /\ UNCHANGED <<users, visited, determined, given, cut>>

\* The user leads to another value.  For a call, the caller is noted as visited.
Asks ==
  \/ AtUser("ask") /\ UNCHANGED visited
  \/ /\ AtUser("call")
     /\ Use.callee \notin visited
     /\ visited' = visited \cup {Use.caller}

Remembered(w) == w \in DOMAIN determined

AskRemembered ==
  /\ Asks
  /\ Remembered(Use.of)
  /\ ReplaceTop(Told(Top, determined[Use.of]))
  /\ UNCHANGED <<users, determined, given, cut>>

AskDeeper ==
  /\ Asks
  /\ ~Remembered(Use.of)
  /\ Len(stack) <= MaxDepth
  /\ stack' = Append(stack, NewFrame(Use.of))
  /\ UNCHANGED <<users, determined, given, cut>>

\* Mutant: the search waits for an answer that does not come.
GiveUp_Waits == Asks /\ ~Remembered(Use.of) /\ Len(stack) > MaxDepth
                  /\ UNCHANGED <<users, stack, determined, given, cut>>
\* Too deep: void*, and this is remembered like any other answer.
GiveUp ==
  /\ Asks
  /\ ~Remembered(Use.of)
  /\ Len(stack) > MaxDepth
  /\ determined' = With(determined, Use.of, VoidPtr)
  /\ cut' = cut \cup {Use.of}
  /\ ReplaceTop(Told(Top, VoidPtr))
  /\ UNCHANGED <<users, given>>

\* The innermost call returns T, which getTypeAsString remembers.
Return(T) ==
  /\ determined' = With(determined, Top.val, T)
  /\ LET outer == Front(stack)
     IN  IF outer = <<>>
           THEN stack' = <<>> /\ given' = With(given, Top.val, T)
           ELSE /\ stack' = [outer EXCEPT ![Len(outer)] = Told(@, T)]
                /\ UNCHANGED given
  /\ UNCHANGED <<users, cut>>

\* The value is called: a return in the middle of the loop.
FoundFunction ==
  /\ AtUser("called")
  /\ Return(FPtr)
  /\ UNCHANGED visited

\* All users were seen.
Finish ==
  /\ stack # <<>>
  /\ Top.next > Len(users[Top.val])
  /\ Return(Top.best)
  /\ visited' = IF Len(stack) = 1 THEN {} ELSE visited

\* One of the passes asks for the type of a value.
Ask(v) ==
  /\ stack = <<>>
  /\ IF Remembered(v)
       THEN given' = With(given, v, determined[v]) /\ UNCHANGED stack
       ELSE stack' = <<Frame(v)>> /\ UNCHANGED given
  /\ UNCHANGED <<users, visited, determined, cut>>

Init ==
  /\ users \in Programs
  /\ stack = <<>> /\ visited = {} /\ cut = {}
  /\ determined = <<>> /\ given = <<>>

Search == ReadType \/ SkipCall \/ AskRemembered \/ AskDeeper \/ GiveUp
            \/ FoundFunction \/ Finish

Next == (\E v \in Values : Ask(v)) \/ Search

\* The passes wait for the answer; nothing makes them ask.
Spec == Init /\ [][Next]_vars /\ WF_vars(Search)

-----------------------------------------------------------------------------
(* Properties. *)

TypeOK ==
  /\ users \in Programs
  /\ \A n \in DOMAIN stack : /\ stack[n].val \in Values
                             /\ stack[n].next \in 1..Len(users[stack[n].val]) + 1
                             /\ stack[n].best \in Types
  /\ Len(stack) <= MaxDepth + 1
  /\ visited \subseteq Functions
  /\ DOMAIN determined \subseteq Values /\ \A v \in DOMAIN determined : determined[v] \in Types
  /\ DOMAIN given \subseteq Values /\ \A v \in DOMAIN given : given[v] \in Types
  /\ cut \subseteq Values

\* An answer stands: though a value on a circle is searched several times within one
\* search, and remembered each time, what a pass was told of a value stays what the memory
\* says of it, through all later questions.
AnswersStand ==
  \A v \in DOMAIN given : v \in DOMAIN determined /\ determined[v] = given[v]

\* The depth of indirection is right: if there is a way to give every value one, such that
\* all uses agree, then each type found has as many stars as that, through circles, answers
\* that came too early and searches that were given up.  In particular, no pointer is
\* taken for a scalar.
Agrees(lev, v, u) ==
  CASE u.op = "typed"          -> lev[v] = 1
    [] u.op \in {"ask", "call"} -> lev[v] = lev[u.of] + u.shift
    [] u.op = "called"         -> lev[v] = 0
IsLeveling(lev) == \A v \in Values : \A k \in DOMAIN users[v] : Agrees(lev, v, users[v][k])

LevelsFound ==
  \A lev \in [Values -> 0..MaxLevel] :
    IsLeveling(lev) => \A v \in DOMAIN determined :
                         IsVoid(determined[v]) \/ determined[v].stars = lev[v]

\* Nothing is made up: the type found for a value is shown by an instruction that the
\* value's uses lead to, and never one the memory was given for an unrelated value.
LeadsOutOf(S) == \E v \in S : \E k \in DOMAIN users[v] :
                   users[v][k].op \in {"ask", "call"} /\ users[v][k].of \notin S
Shown(v) == {users[v][k].type.base : k \in {n \in DOMAIN users[v] : users[v][n].op = "typed"}}
              \cup {"f_ptr" : k \in {n \in DOMAIN users[v] : users[v][n].op = "called"}}

EvidenceIsReached ==
  \A S \in SUBSET Values :
    LeadsOutOf(S) \/ \A v \in S \cap DOMAIN determined :
                       \/ IsVoid(determined[v])
                       \/ \E w \in S : determined[v].base \in Shown(w)

Dereferenced(v) == \E k \in DOMAIN users[v] : users[v][k].op = "typed"

\* A pointer that is dereferenced as a scalar or struct has a type, unless the search for
\* some other value was given up at it.
LostOnlyByDepth ==
  \A v \in DOMAIN determined : Dereferenced(v) /\ IsVoid(determined[v]) => v \in cut

\* Every question is answered, whatever circles the uses go in.
SearchEnds == stack # <<>> ~> stack = <<>>

\* log.md, 26 April: "This is done by searching in the uses of the pointer for things like
\* dereferencing the pointer, or storing a value in it, and then determining the type based
\* on that": a dereferenced pointer that was asked for has a type.
DereferencedIsTyped ==
  \A v \in DOMAIN given : Dereferenced(v) => ~IsVoid(given[v])
=============================================================================
