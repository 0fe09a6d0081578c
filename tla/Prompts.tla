------------------------------ MODULE Prompts -------------------------------
(***************************************************************************)
(* The controller of librarify mode: the main of librarifyController.cpp,  *)
(* which offers the functions of the target, asks for the parameters of    *)
(* the chosen one and calls it, and inputType of controllerLib.cpp, which  *)
(* asks for one value after the other along a parameter's type.            *)
(*                                                                         *)
(* Every value goes to a bufferWriter, whose block is allocated anew with  *)
(* each push.  What a pointer points to is entered into a buffer of its    *)
(* own, in storage, and the address of that buffer's block is pushed.  As  *)
(* the block is another one after each push, an address is the number of   *)
(* the buffer and of the values that were in it.  Alignment only moves     *)
(* values within a block, which is TypeLayout's matter.                    *)
(*                                                                         *)
(* std::cin fails for good with the first thing that is not a number where *)
(* one is read, and with the end of the input.                             *)
(***************************************************************************)
EXTENDS Integers, Sequences, SequencesExt

CONSTANTS
  Types,          \* the types of the programs
  Programs,       \* the targets: their structs, unions and functions
  EnumNumValues,  \* for each enum, how many values it has
  MaxInput,       \* bound: most values entered for a pointer, and one less with
                  \* each pointer that was followed to get there
  IntMax          \* 2^31 - 1: the largest int

VARIABLES
  program,          \* the target
  isFunctionValid,  \* which functions are offered
  phase,            \* where main is
  i,                \* the number of the function that was chosen, 0 at first
  todo,             \* what inputType still has to do, the next thing first
  option,           \* the option chosen for an enum or a union, counted from 0
  buffers,          \* the contents of the buffers: parameters, then storage
  heap,             \* the blocks that are allocated
  cin               \* "good" or "failed"

vars == <<program, isFunctionValid, phase, i, todo, option, buffers, heap, cin>>

Phases == {"choose", "enter", "called", "another", "ended", "undefined"}

-----------------------------------------------------------------------------
(* Types, and which can be entered. *)

Scalar       == [kind |-> "scalar"]
Bool         == [kind |-> "bool"]
String       == [kind |-> "string"]
Unknown      == [kind |-> "unknown"]
Enum(k)      == [kind |-> "enum", index |-> k]
Struct(k)    == [kind |-> "struct", index |-> k]
Union(k)     == [kind |-> "union", index |-> k]
Pointer(T)   == [kind |-> "pointer", of |-> T]
Array(T, n)  == [kind |-> "array", of |-> T, count |-> n]
IsPointerToArray(T) == T.kind = "pointer" /\ T.of.kind = "array"

FieldsOf(p, T) == IF T.kind = "struct" THEN p.structs[T.index] ELSE p.unions[T.index]

ASSUME TypesAssumption ==
  \A T \in Types : /\ T.kind \in {"pointer", "array"} => T.of \in Types
                   /\ T.kind = "array" => T.count \in Nat
ASSUME ProgramsAssumption ==
  \A p \in Programs :
    /\ p.functions \in Seq([params : Seq(Types), isVariadic : BOOLEAN])
    /\ \A T \in Types : T.kind \in {"struct", "union"} => FieldsOf(p, T) \in Seq(Types)
ASSUME BoundsAssumption == MaxInput \in Nat /\ IntMax \in Nat

\* A type that is being visited counts as one that can be entered.
isInputableType(p, type) ==
  LET inputable[x \in Types \X SUBSET Types] ==
        LET T == x[1]
            visitedTypes == x[2]
        IN  \/ T \in visitedTypes
            \/ T.kind \in {"scalar", "bool", "string", "enum"}
            \/ /\ T.kind \in {"pointer", "array"}
               /\ inputable[<<T.of, visitedTypes \cup {T}>>]
            \/ /\ T.kind \in {"struct", "union"}
               /\ \A F \in Range(FieldsOf(p, T)) : inputable[<<F, visitedTypes \cup {T}>>]
  IN  inputable[<<type, {}>>]

\* Mutant: the loop over the parameters leaves out the last one.
IsValid_OffByOne(p, f) ==
  \A k \in 1..Len(p.functions[f].params)-1 : isInputableType(p, p.functions[f].params[k])
IsValid(p, f) ==
  \A T \in Range(p.functions[f].params) : isInputableType(p, T)

-----------------------------------------------------------------------------
(* std::cin. *)

\* A number is read into a variable: what is no number makes it 0, the end of the
\* input and an earlier failure leave it as it was.
ReadNumber(old, new) ==
  \/ cin = "good" /\ new \in -IntMax-1..IntMax /\ cin' = "good"
  \/ cin = "good" /\ new \in {0, old} /\ cin' = "failed"
  \/ cin = "failed" /\ new = old /\ UNCHANGED cin

\* Anything may be read, or nothing.
ReadAny == cin' \in {cin, "failed"}

-----------------------------------------------------------------------------
(* bufferWriter. *)

Value          == [kind |-> "value"]
Null           == [kind |-> "null"]
Block(bufs, b) == [buffer |-> b, size |-> Len(bufs[b])]

\* What the pointer of buffer b points to: nothing, before the first push.
Address(bufs, b) ==
  IF bufs[b] = <<>> THEN Null ELSE [kind |-> "address", block |-> Block(bufs, b)]

Blocks(bufs, bs) == {Block(bufs, b) : b \in {c \in bs : bufs[c] # <<>>}}

\* The contents of buffers b become bufs[b]: their blocks are allocated anew.
Push(bs, bufs) ==
  /\ buffers' = bufs
  /\ heap' = (heap \ Blocks(buffers, bs \cap DOMAIN buffers)) \cup Blocks(bufs, bs)

-----------------------------------------------------------------------------
(* inputType: one step for each thing it asks for. *)

Enter(T, b, depth) == [do |-> "enter", type |-> T, into |-> b, depth |-> depth]
Publish(b, into)   == [do |-> "publish", from |-> b, into |-> into]
Fill(b)            == [do |-> "fill", into |-> b]

Current == Head(todo)
Turn(do) == phase = "enter" /\ todo # <<>> /\ Current.do = do
Entering(kind) == Turn("enter") /\ Current.type.kind = kind

EnterAll(types, b, depth) == [k \in DOMAIN types |-> Enter(types[k], b, depth)]
Copies(n, T, b, depth) == [k \in 1..n |-> Enter(T, b, depth)]

\* What is next gives way to these.
Replaced(items) == todo' = items \o Tail(todo)

Pushed(cells) ==
  Push({Current.into}, [buffers EXCEPT ![Current.into] = @ \o cells])

inputScalar ==
  /\ Entering("scalar")
  /\ ReadAny
  /\ Pushed(<<Value>>)
  /\ Replaced(<<>>)
  /\ UNCHANGED option

\* The word must be "true" or "false".
inputBool ==
  /\ Entering("bool")
  /\ cin = "good"
  /\ UNCHANGED <<cin, option>>
  /\ Pushed(<<Value>>)
  /\ Replaced(<<>>)

BoolRefused ==
  /\ Entering("bool")
  /\ ReadAny
  /\ UNCHANGED <<todo, option, buffers, heap>>

\* The characters and the NUL behind them are pushed to a buffer of their own.
inputString ==
  /\ Entering("string")
  /\ ReadAny
  /\ \E size \in IF cin' = "good" THEN {2} ELSE {1} :
       LET b == Len(buffers) + 1
           filled == Append(buffers, [k \in 1..size |-> Value])
       IN  Push({b, Current.into},
                [filled EXCEPT ![Current.into] = Append(@, Address(filled, b))])
  /\ Replaced(<<>>)
  /\ UNCHANGED option

\* Mutant: the pointer is pushed before the values behind it are entered.
Behind_PublishedFirst(n, T) ==
  LET b == Len(buffers) + 1
  IN  /\ buffers' = Append(buffers, <<>>)
      /\ UNCHANGED heap
      /\ Replaced((IF n = 0 THEN <<>> ELSE Copies(1, T, b, Current.depth + 1))
                    \o <<Publish(b, Current.into)>>
                    \o (IF n = 0 THEN <<>> ELSE Copies(n - 1, T, b, Current.depth + 1)))

\* A new buffer for the n values behind a pointer, and the pointer to it.
Behind(n, T) ==
  LET b == Len(buffers) + 1
  IN  /\ buffers' = Append(buffers, <<>>)
      /\ UNCHANGED heap
      /\ Replaced(Append(Copies(n, T, b, Current.depth + 1), Publish(b, Current.into)))

inputPointerToArray ==
  /\ Entering("pointer")
  /\ IsPointerToArray(Current.type)
  /\ Behind(Current.type.of.count, Current.type.of.of)
  /\ UNCHANGED <<cin, option>>

\* The number of values is asked for; none makes a null pointer.
inputPointer ==
  /\ Entering("pointer")
  /\ ~IsPointerToArray(Current.type)
  /\ \E count \in 0..MaxInput :
       /\ count > 0 => count + Current.depth <= MaxInput
       /\ ReadNumber(0, count)
       /\ Behind(count, Current.type.of)
  /\ UNCHANGED option

inputArray ==
  /\ Entering("array")
  /\ Replaced(Copies(Current.type.count, Current.type.of, Current.into, Current.depth))
  /\ UNCHANGED <<option, buffers, heap, cin>>

inputStruct ==
  /\ Entering("struct")
  /\ Replaced(EnterAll(FieldsOf(program, Current.type), Current.into, Current.depth))
  /\ UNCHANGED <<option, buffers, heap, cin>>

\* The unsigned enumNumValues bounds the options of unions, too: union k is given
\* as many options as enum k has values.  Behind the end of enumNumValues there
\* may be any number.
Options(T) == IF T.index \in DOMAIN EnumNumValues THEN {EnumNumValues[T.index]}
              ELSE 0..IntMax

\* option-- of an int, which wraps around in a build without optimisation.
Less(x) == IF x = -IntMax - 1 THEN IntMax ELSE x - 1

\* Mutant: the option is forgotten before it is asked for again.
ReadOption_Forgets(x) ==
  \E read \in -IntMax-1..IntMax : ReadNumber(-1, read) /\ x = Less(read)
\* An option is read; it is one of the n, or it is asked for again.
ReadOption(x) == \E read \in -IntMax-1..IntMax : ReadNumber(option, read) /\ x = Less(read)
IsOption(x, n) == x >= 0 /\ x < n

OptionRefused ==
  /\ Entering("enum") \/ Entering("union")
  /\ \E x \in -IntMax-1..IntMax, n \in Options(Current.type) :
       ReadOption(x) /\ ~IsOption(x, n) /\ option' = x
  /\ UNCHANGED <<todo, buffers, heap>>

inputEnum ==
  /\ Entering("enum")
  /\ \E x \in 0..IntMax, n \in Options(Current.type) : ReadOption(x) /\ IsOption(x, n)
  /\ Pushed(<<Value>>)
  /\ Replaced(<<>>)
  /\ option' = -1

inputUnion ==
  /\ Entering("union")
  /\ \E x \in 0..IntMax, n \in Options(Current.type) :
       /\ ReadOption(x) /\ IsOption(x, n)
       /\ x < Len(FieldsOf(program, Current.type))
       /\ LET field == FieldsOf(program, Current.type)[x + 1]
          IN  Replaced(<<Enter(field, Current.into, Current.depth), Fill(Current.into)>>)
  /\ option' = -1
  /\ UNCHANGED <<buffers, heap>>

\* Zero bytes fill up the union, none or some.
pushZeroBytes ==
  /\ Turn("fill")
  /\ UNCHANGED <<buffers, heap>> \/ Pushed(<<Value>>)
  /\ Replaced(<<>>)
  /\ UNCHANGED <<option, cin>>

\* All values behind a pointer are there: the address of their block is pushed.
pushPointer ==
  /\ Turn("publish")
  /\ Pushed(<<Address(buffers, Current.from)>>)
  /\ Replaced(<<>>)
  /\ UNCHANGED <<option, cin>>

\* No branch of inputType is for this type: nothing is asked for.
inputNothing ==
  /\ Entering("unknown")
  /\ Replaced(<<>>)
  /\ UNCHANGED <<option, buffers, heap, cin>>

Enters ==
  /\ \/ inputScalar \/ inputBool \/ inputString \/ inputPointerToArray \/ inputPointer
     \/ inputArray \/ inputStruct \/ inputEnum \/ inputUnion \/ pushZeroBytes
     \/ pushPointer \/ inputNothing
  /\ UNCHANGED <<program, isFunctionValid, phase, i>>

AsksAgain ==
  /\ BoolRefused \/ OptionRefused
  /\ UNCHANGED <<program, isFunctionValid, phase, i>>

-----------------------------------------------------------------------------
(* main. *)

IsChoice(f) == f \in DOMAIN isFunctionValid /\ isFunctionValid[f]

ChoiceRefused ==
  /\ phase = "choose"
  /\ \E f \in 0..IntMax : ReadNumber(i, f) /\ ~IsChoice(f) /\ i' = f
  /\ UNCHANGED <<program, isFunctionValid, phase, todo, option, buffers, heap>>

Choose ==
  /\ phase = "choose"
  /\ \E f \in 0..IntMax : ReadNumber(i, f) /\ IsChoice(f) /\ i' = f
  /\ todo' = EnterAll(program.functions[i'].params, 1, 0)
  /\ buffers' = << <<>> >>
  /\ phase' = "enter"
  /\ UNCHANGED <<program, isFunctionValid, option, heap>>

\* All parameters are there.  Variadic functions have a null pointer for a wrapper.
Call ==
  /\ phase = "enter" /\ todo = <<>>
  /\ phase' = IF program.functions[i].isVariadic THEN "undefined" ELSE "called"
  /\ UNCHANGED <<program, isFunctionValid, i, todo, option, buffers, heap, cin>>

\* An option for a union that has no such field: what lies behind its fields is
\* taken for the name of a type.
NoSuchField ==
  /\ Entering("union")
  /\ \E x \in 0..IntMax, n \in Options(Current.type) :
       ReadOption(x) /\ IsOption(x, n) /\ x >= Len(FieldsOf(program, Current.type))
  /\ phase' = "undefined"
  /\ UNCHANGED <<program, isFunctionValid, i, todo, option, buffers, heap>>

\* The length of the union is taken from the wrong tables and may be less than that
\* of its field: pushZeroBytes of a negative number copies more than it allocates.
NegativeFill ==
  /\ Turn("fill")
  /\ phase' = "undefined"
  /\ UNCHANGED <<program, isFunctionValid, i, todo, option, buffers, heap, cin>>

\* Mutant: the first buffer of storage is left out.
DeleteStorage_OffByOne ==
  /\ phase = "called"
  /\ heap' = heap \ Blocks(buffers, 3..Len(buffers))
  /\ phase' = "another"
  /\ UNCHANGED <<program, isFunctionValid, i, todo, option, buffers, cin>>
DeleteStorage ==
  /\ phase = "called"
  /\ heap' = heap \ Blocks(buffers, 2..Len(buffers))
  /\ phase' = "another"
  /\ UNCHANGED <<program, isFunctionValid, i, todo, option, buffers, cin>>

\* Mutant: the choice is declared outside of the loop.
Another_KeepsChoice ==
  /\ phase = "another"
  /\ ReadAny
  /\ \/ cin' = "good" /\ phase' = "ended"
     \/ phase' = "choose"
  /\ heap' = heap \ Blocks(buffers, {1})
  /\ buffers' = <<>>
  /\ UNCHANGED <<program, isFunctionValid, i, todo, option>>
\* "would you like to run another function?"  Without an answer it is still Y.
\* The block of parameters is freed, and the next round begins with no choice.
Another ==
  /\ phase = "another"
  /\ ReadAny
  /\ \/ cin' = "good" /\ phase' = "ended"
     \/ phase' = "choose"
  /\ heap' = heap \ Blocks(buffers, {1})
  /\ buffers' = <<>>
  /\ i' = 0
  /\ UNCHANGED <<program, isFunctionValid, todo, option>>

Stopped == phase \in {"ended", "undefined"} /\ UNCHANGED vars

-----------------------------------------------------------------------------
Init ==
  /\ program \in Programs
  /\ isFunctionValid = [f \in DOMAIN program.functions |-> IsValid(program, f)]
  /\ phase = "choose"
  /\ i = 0
  /\ todo = <<>>
  /\ option = -1
  /\ buffers = <<>>
  /\ heap = {}
  /\ cin = "good"

Next == \/ Enters \/ AsksAgain
        \/ ChoiceRefused \/ Choose \/ Call \/ NoSuchField \/ NegativeFill
        \/ DeleteStorage \/ Another \/ Stopped

Spec == Init /\ [][Next]_vars

\* The controller goes on, through prompts that fail as well, and the user gives,
\* in the end, an answer that is accepted.
FairSpec == /\ Spec
            /\ WF_vars(Enters \/ Call \/ NoSuchField \/ DeleteStorage)
            /\ WF_vars(AsksAgain /\ cin = "failed")

-----------------------------------------------------------------------------
(* Properties. *)

TypeOK ==
  /\ program \in Programs
  /\ isFunctionValid \in [DOMAIN program.functions -> BOOLEAN]
  /\ phase \in Phases
  /\ i \in 0..IntMax
  /\ phase \in {"enter", "called"} => IsChoice(i)
  /\ \A k \in DOMAIN todo :
       /\ todo[k].do = "enter" => todo[k].type \in Types /\ todo[k].depth \in Nat
       /\ todo[k].do = "publish" => todo[k].from \in DOMAIN buffers \ {1}
       /\ todo[k].into \in DOMAIN buffers
  /\ option \in -IntMax-1..IntMax
  /\ cin \in {"good", "failed"}

\* Every pointer that was entered points to the block its values are in now, until
\* the function has returned: no block that was pushed as an address is allocated
\* anew by values that come later, nor freed before the call.
PublishedIsLive ==
  phase \in {"enter", "called"} =>
    \A b \in DOMAIN buffers : \A k \in DOMAIN buffers[b] :
      buffers[b][k].kind = "address" => buffers[b][k].block \in heap

\* Between two calls nothing is left allocated, whatever was entered.
NothingLeaks == phase = "choose" => heap = {}

\* inputType never comes to a type it has no branch for, which would leave a hole
\* among the parameters: isInputableType has looked at everything the user can be
\* led to, although it takes a type that is being visited for one that can be
\* entered.
SkipsNothing == ~Entering("unknown")

\* Once std::cin has failed no function is called again: what main goes on to use is
\* never an earlier choice.
ChosenByUser ==
  [][phase = "choose" /\ phase' = "enter" => cin = "good" /\ cin' = "good"]_vars

\* The prompts for a function come to an end, along cyclic types as well, if the
\* user gives valid answers, and even when std::cin fails, except at a bool, which
\* is asked for for ever.
EntryEnds == phase = "enter" ~> (phase # "enter" \/ (cin = "failed" /\ Entering("bool")))

\* log.md, 20 August: "added support for inputting unions": of a union the user can
\* choose each of the fields that are offered.
UnionFieldsOffered ==
  Entering("union") =>
    \A n \in Options(Current.type) : n = Len(FieldsOf(program, Current.type))
=============================================================================
