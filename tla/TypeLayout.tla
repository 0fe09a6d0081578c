----------------------------- MODULE TypeLayout -----------------------------
(***************************************************************************)
(* Where a value lies in memory, according to the parts of the debugger    *)
(* that each work it out for themselves:                                   *)
(*   - printType walks a value that the compiled target has laid out       *)
(*     (controllerLib.cpp; the target's own layout is Stored below),       *)
(*   - inputType lays out a value that the target will read,               *)
(*   - the Logger pass writes the parameters of a call to a buffer that    *)
(*     logFunctionParameters reads,                                        *)
(*   - a wrapper of the Librarify pass reads the buffer inputType wrote.   *)
(*                                                                         *)
(* They share no code but the tables of type definitions.  The tables grow *)
(* by one definition at a time, as typedefs.csv does, so that every        *)
(* reachable state is a program's set of types.                            *)
(***************************************************************************)
EXTENDS Integers, Sequences, SequencesExt, FiniteSetsExt

CONSTANTS
  BaseTypes,    \* the field types that need no definition of their own
  MaxTypes,     \* bound: most definitions
  MaxFields,    \* bound: most fields of a definition
  MaxNesting,   \* bound: how deep a type is nested, pointers not counted
  MaxCount      \* bound: most values entered for a pointer

VARIABLES
  structs,   \* structFieldTypes: the field types of each struct
  unions     \* unionFieldTypes: the field types of each union

tables == <<structs, unions>>

-----------------------------------------------------------------------------
(* Types.  Their names are strings in the code; here a type is what its     *)
(* name says.                                                               *)

typeByteLengths == [bool |-> 1, char |-> 1, short |-> 2, int |-> 4, long |-> 8,
                    float |-> 4, double |-> 8]
PtrLength == 8

Scalar(name)    == [kind |-> "scalar", name |-> name]
Ptr             == [kind |-> "ptr"]
Array(T, count) == [kind |-> "array", of |-> T, count |-> count]
Enum(name)      == [kind |-> "enum", name |-> name]  \* with the name of its integer type
Struct(k)       == [kind |-> "struct", index |-> k]
Union(k)        == [kind |-> "union", index |-> k]

ASSUME BaseTypesAssumption ==
  \A T \in BaseTypes :
    \/ T = Ptr
    \/ \E name \in DOMAIN typeByteLengths : T \in {Scalar(name), Enum(name)}
    \/ T.kind = "array" /\ T = Array(T.of, T.count) /\ T.of \in BaseTypes /\ T.count \in Nat
ASSUME BoundsAssumption == MaxNesting \in Nat /\ MaxNesting > 2 /\ MaxCount \in Nat

Elements ==
  BaseTypes \cup {Struct(k) : k \in DOMAIN structs} \cup {Union(k) : k \in DOMAIN unions}
Types == Elements \cup [kind : {"array"}, of : Elements, count : Nat]

\* What is found out of a type by looking at the types within it in the same way:
\* Step is told what was found out of those.  Below MaxNesting, as in a union that is
\* taken for a struct it is in, there is nothing; the code would not return.
Found(Step(_, _), nothing, type) ==
  LET found[depth \in 0..MaxNesting] ==
        IF depth = 0 THEN [T \in Types |-> nothing]
        ELSE [T \in Types |-> Step(found[depth - 1], T)]
  IN  found[MaxNesting][type]

ForEach(f, types) == [k \in DOMAIN types |-> f[types[k]]]

\* The amount added to n to make it a multiple of a, as it is written
\* everywhere in controllerLib.cpp.
Padding(n, a) == (a - (n % a)) % a
RoundUp(n, a) == n + Padding(n, a)

MaxOrZero(S) == Max(S \cup {0})

\* Fields of these lengths, each of them aligned: where the first n of them end, and where
\* one begins.
EndOf(lengths, aligns, n) ==
  LET end[k \in 0..Len(lengths)] ==
        IF k = 0 THEN 0 ELSE RoundUp(end[k - 1], aligns[k]) + lengths[k]
  IN  end[n]
OffsetOf(lengths, aligns, k) == RoundUp(EndOf(lengths, aligns, k - 1), aligns[k])

\* getTypeByteLength and getLargestTypeSizeContained look a union's fields up
\* in the tables of the structs.  Past the end of those there is no telling;
\* here, nothing.
FieldsTakenForUnion(k) == IF k \in DOMAIN structs THEN structs[k] ELSE <<>>

ByteLength(length, T) ==
  CASE T.kind = "ptr"    -> PtrLength
    [] T.kind = "array"  -> length[T.of] * T.count
    [] T.kind = "scalar" -> typeByteLengths[T.name]
    [] T.kind = "enum"   -> typeByteLengths[T.name]
    [] T.kind = "struct" -> LET lengths == ForEach(length, structs[T.index])
                            IN  EndOf(lengths, lengths, Len(lengths))
    [] T.kind = "union"  -> MaxOrZero(Range(ForEach(length, FieldsTakenForUnion(T.index))))
getTypeByteLength(T) == Found(ByteLength, 0, T)

\* Mutant: the alignment of an array is its length.
LargestContained_WholeArray(largest, T) ==
  IF T.kind = "struct" THEN MaxOrZero(Range(ForEach(largest, structs[T.index])))
                       ELSE getTypeByteLength(T)
LargestContained(largest, T) ==
  CASE T.kind = "ptr"    -> PtrLength
    [] T.kind = "array"  -> getTypeByteLength(T.of)
    [] T.kind = "scalar" -> typeByteLengths[T.name]
    [] T.kind = "enum"   -> typeByteLengths[T.name]
    [] T.kind = "struct" -> MaxOrZero(Range(ForEach(largest, structs[T.index])))
    [] T.kind = "union"  -> MaxOrZero(Range(ForEach(largest, FieldsTakenForUnion(T.index))))
getLargestTypeSizeContained(T) == Found(LargestContained, 0, T)

-----------------------------------------------------------------------------
(* A value, seen as its leaves: <<offset, length>> of every scalar and      *)
(* pointer in it, in the order of the fields.                               *)

Moved(leaves, by) == [k \in DOMAIN leaves |-> <<leaves[k][1] + by, leaves[k][2]>>]

\* Those of an array and of a struct, from those of an element and of the fields.
OfArray(leaves, length, count) ==
  FlattenSeq([n \in 1..count |-> Moved(leaves, (n - 1) * length)])
OfStruct(leaves, lengths, aligns) ==
  FlattenSeq([k \in DOMAIN leaves |-> Moved(leaves[k], OffsetOf(lengths, aligns, k))])

\* The leaves printType reads.
Prints(printed, T) ==
  CASE T.kind = "scalar" -> << <<0, typeByteLengths[T.name]>> >>
    [] T.kind = "ptr"    -> << <<0, PtrLength>> >>
    [] T.kind = "enum"   -> << <<0, typeByteLengths.int>> >>
    [] T.kind = "array"  -> OfArray(printed[T.of], getTypeByteLength(T.of), T.count)
    [] T.kind = "struct" ->
         LET fields == structs[T.index]
         IN  OfStruct(ForEach(printed, fields),
                      [k \in DOMAIN fields |-> getTypeByteLength(fields[k])],
                      [k \in DOMAIN fields |-> getLargestTypeSizeContained(fields[k])])
    [] T.kind = "union"  -> FlattenSeq(ForEach(printed, unions[T.index]))
Printed(T) == Found(Prints, <<>>, T)

\* What a bufferWriter is given: so many bytes, behind its end as it is or rounded up first.
Push(length, doRound, isLeaf) ==
  [length |-> length, round |-> IF doRound THEN length ELSE 1, isLeaf |-> isLeaf]
RoundTo(amount) == [length |-> 0, round |-> amount, isLeaf |-> FALSE]

\* What inputType pushes for a type, the option taken in every union being the given one.
\* What a pointer points to goes to a buffer of its own.
Inputs(pushed, T, doRound, option) ==
  CASE T.kind = "scalar" -> <<Push(typeByteLengths[T.name], doRound, TRUE)>>
    [] T.kind = "ptr"    -> <<Push(PtrLength, FALSE, TRUE)>>
    [] T.kind = "enum"   -> <<Push(typeByteLengths.int, doRound, TRUE)>>
    [] T.kind = "array"  -> FlattenSeq([n \in 1..T.count |-> pushed[T.of][FALSE]])
    [] T.kind = "struct" -> FlattenSeq([k \in DOMAIN structs[T.index] |->
                                          pushed[structs[T.index][k]][TRUE]])
    [] T.kind = "union"  ->
         LET field == unions[T.index][option]
             zeros == MaxOrZero({getTypeByteLength(T) - getTypeByteLength(field)})
         IN  <<RoundTo(IF doRound THEN getLargestTypeSizeContained(T) ELSE 1)>>
               \o pushed[field][FALSE] \o <<Push(zeros, FALSE, FALSE)>>
Pushed(T, option) ==
  LET InputsEachWay(pushed, U) == [doRound \in BOOLEAN |-> Inputs(pushed, U, doRound, option)]
  IN  Found(InputsEachWay, [doRound \in BOOLEAN |-> <<>>], T)[FALSE]

\* Mutant: the padding is not taken modulo the amount.
roundToMultipleOf_PadsAlways(offset, amount) ==
  IF amount \in {0, 1} THEN offset ELSE offset + amount - (offset % amount)
\* bufferWriter
roundToMultipleOf(offset, amount) ==
  IF amount \in {0, 1} THEN offset ELSE RoundUp(offset, amount)

\* Where the writer is after n of these pushes, and where the leaves are then.
Written(pushes, n) ==
  LET at[k \in 0..Len(pushes)] ==
        IF k = 0 THEN 0 ELSE roundToMultipleOf(at[k - 1], pushes[k].round) + pushes[k].length
  IN  at[n]
Entered(pushes) ==
  FlattenSeq([k \in DOMAIN pushes |->
    IF pushes[k].isLeaf
      THEN << <<roundToMultipleOf(Written(pushes, k - 1), pushes[k].round), pushes[k].length>> >>
      ELSE <<>>])

\* Several values entered for one pointer parameter, one after the other.
EnteredArray(T, count) == Entered(FlattenSeq([n \in 1..count |-> Pushed(T, 1)]))

-----------------------------------------------------------------------------
(* The layout of the compiled target: the System V ABI of x86-64.           *)

Aligns(align, T) ==
  CASE T.kind = "ptr"    -> PtrLength
    [] T.kind = "array"  -> align[T.of]
    [] T.kind = "scalar" -> typeByteLengths[T.name]
    [] T.kind = "enum"   -> typeByteLengths[T.name]
    [] T.kind = "struct" -> MaxOrZero(Range(ForEach(align, structs[T.index])))
    [] T.kind = "union"  -> MaxOrZero(Range(ForEach(align, unions[T.index])))
AbiAlign(T) == Found(Aligns, 0, T)

AbiEnd(sizes, fields) ==
  EndOf(sizes, [k \in DOMAIN fields |-> AbiAlign(fields[k])], Len(fields))
Sizes(size, T) ==
  CASE T.kind = "ptr"    -> PtrLength
    [] T.kind = "array"  -> size[T.of] * T.count
    [] T.kind = "scalar" -> typeByteLengths[T.name]
    [] T.kind = "enum"   -> typeByteLengths[T.name]
    [] T.kind = "struct" ->
         LET fields == structs[T.index]
         IN  RoundUp(AbiEnd(ForEach(size, fields), fields), AbiAlign(T))
    [] T.kind = "union"  ->
         RoundUp(MaxOrZero(Range(ForEach(size, unions[T.index]))), AbiAlign(T))
AbiSize(T) == Found(Sizes, 0, T)

Stores(stored, T) ==
  CASE T.kind = "array"  -> OfArray(stored[T.of], AbiSize(T.of), T.count)
    [] T.kind = "struct" ->
         LET fields == structs[T.index]
         IN  OfStruct(ForEach(stored, fields),
                      [k \in DOMAIN fields |-> AbiSize(fields[k])],
                      [k \in DOMAIN fields |-> AbiAlign(fields[k])])
    [] T.kind = "union"  -> FlattenSeq(ForEach(stored, unions[T.index]))
    [] OTHER             -> << <<0, AbiSize(T)>> >>
Stored(T) == Found(Stores, <<>>, T)

-----------------------------------------------------------------------------
(* Parameter lists.  The parameters of a call are packed: no part rounds.   *)

\* The LLVM type of a scalar: bool is i1, and a pointer a pointer.  Other types have no
\* width.
getTypeBitWidth(T) ==
  CASE T = Scalar("bool")                      -> 1
    [] T.kind \in {"struct", "union", "array"} -> -1
    [] OTHER                                   -> 8 * AbiSize(T)

\* Mutant: no minimum of one byte.
BytesOf_NoMinimum(T) == getTypeBitWidth(T) \div 8
\* max(8, getTypeBitWidth) >> 3, in the Logger pass and in the wrappers
BytesOf(T) == Max({8, getTypeBitWidth(T)}) \div 8

\* The offsets of members that are this long.
Packed(lengths) ==
  LET at[k \in 0..Len(lengths)] == IF k = 0 THEN 0 ELSE at[k - 1] + lengths[k]
  IN  [k \in DOMAIN lengths |-> at[k - 1]]

LoggedAt(types)      == Packed([k \in DOMAIN types |-> BytesOf(types[k])])
WrapperReads(types)  == Packed([k \in DOMAIN types |-> BytesOf(types[k])])
PrintedParams(types) == Packed([k \in DOMAIN types |-> getTypeByteLength(types[k])])
EnteredParams(types) ==
  LET leaves == Entered(FlattenSeq([k \in DOMAIN types |-> Pushed(types[k], 1)]))
  IN  [k \in DOMAIN leaves |-> leaves[k][1]]

-----------------------------------------------------------------------------
(* The tables. *)

KnownTypes == Elements \cup {Array(T, 2) : T \in Elements \ BaseTypes}

\* The fields a definition may have: in C a type is complete before it is a
\* field, and definitions without fields are not recorded.
FieldLists == UNION {[1..n -> KnownTypes] : n \in 1..MaxFields}

DefineStruct ==
  /\ Len(structs) + Len(unions) < MaxTypes
  /\ \E fields \in FieldLists : structs' = Append(structs, fields)
  /\ UNCHANGED unions

DefineUnion ==
  /\ Len(structs) + Len(unions) < MaxTypes
  /\ \E fields \in FieldLists : unions' = Append(unions, fields)
  /\ UNCHANGED structs

NoTypes == structs = <<>> /\ unions = <<>>

\* The last definition has been read.
AllDefined == Len(structs) + Len(unions) = MaxTypes /\ UNCHANGED tables

ReadTypes == DefineStruct \/ DefineUnion \/ AllDefined

LayoutSpec == NoTypes /\ [][ReadTypes]_tables

-----------------------------------------------------------------------------
(* Properties. *)

IsScalar(T) == T.kind = "scalar"
IsLeaf(T)   == T.kind \in {"scalar", "ptr"} \/ T = Enum("int")
IsFlat(T)   == IsLeaf(T) \/ (T.kind = "array" /\ IsLeaf(T.of))

\* A struct with such fields only.
IsStructOf(IsField(_), T) ==
  T.kind = "struct" /\ \A f \in Range(structs[T.index]) : IsField(f)

\* Nothing to fill up at the end of the struct.
NoTail(T) ==
  LET fields == structs[T.index]
  IN  AbiEnd([k \in DOMAIN fields |-> AbiSize(fields[k])], fields) = AbiSize(T)

\* No field is aligned more strictly than the first.
LargestFirst(T) ==
  \A f \in Range(structs[T.index]) : AbiAlign(f) <= AbiAlign(structs[T.index][1])

IsStructOfScalars(T) == IsStructOf(IsScalar, T)

\* Fields printType and inputType are meant to cope with.
IsPrintable(f)        == IsFlat(f) \/ (IsStructOf(IsLeaf, f) /\ NoTail(f))
IsNestedOnce(f)       == IsScalar(f) \/ IsStructOfScalars(f)
IsUnionOfFlat(f)      == f.kind = "union" /\ \A g \in Range(unions[f.index]) : IsFlat(g)

Structs == {Struct(k) : k \in DOMAIN structs}

\* printType reads every field where the compiled target has stored it, in
\* structs of scalars, pointers, enums, arrays of them, and structs of scalars
\* without padding at their end.
PrintedWhereStored ==
  \A T \in Structs : IsStructOf(IsPrintable, T) => Printed(T) = Stored(T)

\* The values entered for a pointer to a struct lie where the elements of the
\* target's array lie, although inputType puts no padding between them, if the
\* struct has scalars only and starts with the one that is aligned most.
ElementsEnteredWhereStored ==
  \A T \in Structs : IsStructOfScalars(T) /\ LargestFirst(T)
                       => \A n \in 0..MaxCount : EnteredArray(T, n) = Stored(Array(T, n))

\* Parameters that are scalars, pointers or int enums are at the same offsets
\* for the call that logs them and the log that prints them, and for the prompt
\* that enters them and the wrapper that passes them on.
ParametersAgree ==
  \A types \in Range(structs) :
    (\A T \in Range(types) : IsLeaf(T)) =>
      /\ PrintedParams(types) = LoggedAt(types)
      /\ EnteredParams(types) = WrapperReads(types)

\* testOne.cpp: "testing correct struct field offsets", for a struct of scalars
\* and of structs of scalars that printType prints.
NestedPrintedWhereStored ==
  \A T \in Structs : IsStructOf(IsNestedOnce, T) => Printed(T) = Stored(T)

\* log.md: "added actual support for unions within the code and printing of them
\* in debug mode": a union within a struct is printed from where it is stored (by a
\* recursion that ends).
UnionPrintedWhereStored ==
  \A k \in DOMAIN structs :
    (\A f \in Range(structs[k]) : IsScalar(f) \/ (IsUnionOfFlat(f) /\ f.index < k))
      => Printed(Struct(k)) = Stored(Struct(k))
=============================================================================
