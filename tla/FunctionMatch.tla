--------------------------- MODULE FunctionMatch ---------------------------
(***************************************************************************)
(* How a function of the compiled target gets back the signature it had in *)
(* the source.  The plugin save-func-parms writes a row per declaration to *)
(* functionParams.csv (saveFuncParms.cpp); the Librarify pass knows a      *)
(* function's demangled name and its LLVM types, in which pointers are all *)
(* alike and enums are integers, and takes the first row of that name that *)
(* fits (Librarify.cpp).  The controllers print and ask for parameters by  *)
(* what it takes.                                                          *)
(*                                                                         *)
(* Rows of different names never meet, so that the module is about the     *)
(* overloads of one name: free functions, or the methods of a class.       *)
(***************************************************************************)
EXTENDS Integers, Sequences, FiniteSets

CONSTANTS
  Scalars,     \* types that have one name in C++ and in LLVM
  Enums,       \* the enums of typedefs.csv, ...
  EnumTypes,   \* ... their integer types, in Scalars, ...
  Spoils,      \* ... and <<d, e>>: d comes before e in enumTypesMap, and its name
               \* is part of the name of e
  Pointees,    \* what pointers may point to
  Arrays,      \* arrays that parameters are declared as
  MaxParams,        \* bound: most parameters of an overload
  MaxDeclarations   \* bound: how often a function is declared

ASSUME EnumsAssumption == /\ EnumTypes \in [Enums -> Scalars]
                          /\ Spoils \subseteq Enums \X Enums
ASSUME BoundsAssumption == MaxParams \in Nat /\ MaxDeclarations \in Nat \ {0}

VARIABLES
  overloads,    \* the functions of that name
  isMethod,     \* they are methods of a class
  functionData, \* the rows of the csv file with that name
  documented    \* which row the pass took for each function it has seen, 0: none

matchVars == <<overloads, isMethod, functionData, documented>>

\* Types of C++, as far as they matter here.  An array is a parameter declared as
\* "int a[3]", which is a pointer in LLVM and keeps its declared type in the file.
\* Other is a type that fixTypeName cannot name, as "char *[]"; This points to the
\* class of a method.  Classes by value, which have a name only once a method of
\* theirs was handled, are left out.
Scalar(name)  == [kind |-> "scalar", name |-> name]
Enum(name)    == [kind |-> "enum", name |-> name]
Ptr(pointee)  == [kind |-> "ptr", name |-> pointee]
Array(name)   == [kind |-> "array", name |-> name]
Other         == [kind |-> "other", name |-> "other"]
This          == Ptr("class")

KnownTypes == {Scalar(s) : s \in Scalars} \cup {Enum(e) : e \in Enums}
                \cup {Ptr(p) : p \in Pointees}
ReturnTypes == KnownTypes \cup {Other}
ParamTypes  == ReturnTypes \cup {Array(a) : a \in Arrays}

Signatures == [returnType : ReturnTypes,
               params : UNION {[1..n -> ParamTypes] : n \in 0..MaxParams}]

-----------------------------------------------------------------------------
(* The plugin. *)

\* Functions with any type called unknown are discarded.
IsKnown(f) == f.returnType # Other /\ \A k \in DOMAIN f.params : f.params[k] # Other

\* Methods get two rows, without and with "this".
RowsFor(f) ==
  LET Row(paramTypes) == [of |-> f, paramTypes |-> paramTypes]
  IN  IF isMethod THEN <<Row(f.params), Row(<<This>> \o f.params)>>
                  ELSE <<Row(f.params)>>

\* A declaration is handled: free functions in the order of the file, then all
\* functions again as they lie in a set of pointers, which is any order.
RecordFunction(f) ==
  /\ documented = <<>>
  /\ IsKnown(f)
  /\ Cardinality({k \in DOMAIN functionData : functionData[k] = RowsFor(f)[1]}) < MaxDeclarations
  /\ functionData' = functionData \o RowsFor(f)
  /\ UNCHANGED <<overloads, isMethod, documented>>

-----------------------------------------------------------------------------
(* The pass. *)

\* What basicGetTypeAsString says of the LLVM type.
LlvmType(T) == CASE T.kind = "scalar" -> T.name
                 [] T.kind = "enum"   -> EnumTypes[T.name]
                 [] OTHER             -> "void*"

\* The LLVM function has "this" among its parameters.
LlvmParams(f) ==
  LET params == IF isMethod THEN <<This>> \o f.params ELSE f.params
  IN  [k \in DOMAIN params |-> LlvmType(params[k])]

\* The LLVM type has the name of the row's type, or both are pointers.
Same(llvm, T) == \/ T.kind = "scalar" /\ llvm = T.name
                 \/ T.kind = "ptr" /\ llvm = "void*"

\* The row's type becomes the LLVM type when enum names in it are replaced by
\* their integer types, in the order of enumTypesMap.
SameReplaced(llvm, T) ==
  /\ T.kind = "enum"
  /\ llvm = EnumTypes[T.name]
  /\ \A d \in Enums : <<d, T.name>> \notin Spoils

\* Mutant: the loop over the arguments ends with the first one that fits.
ArgsFit_FirstOnly(llvm, types) ==
  \A k \in DOMAIN types :
    k = 1 => Same(llvm[k], types[k]) \/ SameReplaced(llvm[k], types[k])
\* The loop over the arguments ends with the first one that does not fit as it is.
\* If it fits with its enum replaced, so does the row.
ArgsFit(llvm, types) ==
  \/ \A k \in DOMAIN types : Same(llvm[k], types[k])
  \/ \E k \in DOMAIN types :
       /\ SameReplaced(llvm[k], types[k])
       /\ \A j \in 1..k-1 : Same(llvm[j], types[j])

\* Mutant: a row may have fewer parameters than the function.
CountFits_OrFewer(llvm, types) == Len(types) <= Len(llvm)
CountFits(llvm, types) == Len(llvm) = Len(types)

Fits(f, row) ==
  /\ CountFits(LlvmParams(f), row.paramTypes)
  /\ \/ Same(LlvmType(f.returnType), row.of.returnType)
     \/ SameReplaced(LlvmType(f.returnType), row.of.returnType)
  /\ ArgsFit(LlvmParams(f), row.paramTypes)

\* run(F): the first row that fits, if there is one.
Librarify(f) ==
  /\ f \notin DOMAIN documented
  /\ \A g \in overloads : IsKnown(g) => \E k \in DOMAIN functionData : functionData[k].of = g
  /\ \E found \in 0..Len(functionData) :
       /\ found > 0 => Fits(f, functionData[found])
       /\ \A k \in DOMAIN functionData : (k < found \/ found = 0) => ~Fits(f, functionData[k])
       /\ documented' = [g \in DOMAIN documented \cup {f} |->
                           IF g = f THEN found ELSE documented[g]]
  /\ UNCHANGED <<overloads, isMethod, functionData>>

Documented == DOMAIN documented = overloads /\ UNCHANGED matchVars

-----------------------------------------------------------------------------
\* Two overloads differ in their parameters.
MatchInit ==
  /\ \E f, g \in Signatures : (f = g \/ f.params # g.params) /\ overloads = {f, g}
  /\ isMethod \in BOOLEAN
  /\ functionData = <<>>
  /\ documented = <<>>

MatchNext == \/ \E f \in overloads : RecordFunction(f) \/ Librarify(f)
             \/ Documented

MatchSpec == MatchInit /\ [][MatchNext]_matchVars

-----------------------------------------------------------------------------
(* Properties. *)

TypeOK ==
  /\ overloads \subseteq Signatures
  /\ isMethod \in BOOLEAN
  /\ \A k \in DOMAIN functionData :
       /\ functionData[k].of \in overloads
       /\ \A j \in DOMAIN functionData[k].paramTypes :
            functionData[k].paramTypes[j] \in (ParamTypes \cup {This}) \ {Other}
  /\ DOMAIN documented \subseteq overloads
  /\ \A f \in DOMAIN documented : documented[f] \in 0..Len(functionData)

\* The types the controllers take the parameters of f for.
TypesTaken(f) == functionData[documented[f]].paramTypes

HasRow(f) == f \in DOMAIN documented /\ documented[f] # 0

\* The parameters that no enum comes before.
UpToEnum(types) == {k \in DOMAIN types : \A j \in 1..k-1 : types[j].kind # "enum"}

\* A row's types are as many as the LLVM types, and the same up to and with the
\* first enum.
AgreeToEnum(llvm, types) ==
  /\ Len(types) = Len(llvm)
  /\ \A k \in UpToEnum(types) : LlvmType(types[k]) = llvm[k]

\* Each parameter that no enum comes before is printed as something that is as long
\* as what the Logger pass put into the buffer, so that all of them are found at
\* their offsets: the row that was taken, its own or another overload's, is one of
\* the same LLVM types that far.
ParametersFound ==
  \A f \in DOMAIN documented : HasRow(f) => AgreeToEnum(LlvmParams(f), TypesTaken(f))

\* No row written for another overload could be taken for f by its LLVM types.
TakenForNoOther(f) ==
  \A k \in DOMAIN functionData : functionData[k].of # f =>
    LlvmParams(f) #
      [j \in DOMAIN functionData[k].paramTypes |-> LlvmType(functionData[k].paramTypes[j])]

\* The pass found f to be itself, "this" included.
IsFound(f) ==
  HasRow(f) /\ functionData[documented[f]].of = f /\ Len(TypesTaken(f)) = Len(LlvmParams(f))

\* A type whose row never fits: an enum whose name the replacement of enum names
\* spoils, and an array.
Missed(T) == \/ T.kind = "enum" /\ \E d \in Enums : <<d, T.name>> \in Spoils
             \/ T.kind = "array"
NoneMissed(f) == ~Missed(f.returnType) /\ \A k \in DOMAIN f.params : ~Missed(f.params[k])

\* A function that was recorded is found, in whatever order the declarations were
\* handled and however often, unless another overload has a row of the same LLVM
\* types up to the row's first enum.
OverloadsFound ==
  \A f \in DOMAIN documented :
    /\ IsKnown(f) /\ NoneMissed(f)
    /\ \A k \in DOMAIN functionData : functionData[k].of # f =>
         ~AgreeToEnum(LlvmParams(f), functionData[k].paramTypes)
    => IsFound(f)

\* log.md, 12 August: "finally supports overloaded functions": what stands after an
\* enum tells overloads apart, too.
AllOverloadsFound ==
  \A f \in DOMAIN documented :
    IsKnown(f) /\ NoneMissed(f) /\ TakenForNoOther(f) => IsFound(f)
=============================================================================
