----------------------------- MODULE TypeTables -----------------------------
(***************************************************************************)
(* The table of structs that the passes put into the target, and the names *)
(* they refer to it by.  The Librarify pass takes the structs of           *)
(* typedefs.csv first, then the identified struct types of the module that *)
(* are not among them, and writes a row for each (Librarify.cpp).  Where a *)
(* type without a name yet turns up, as a field, a parameter or what a     *)
(* pointer points to, basicGetTypeAsString makes one up on the spot        *)
(* (llvmHelpers.cpp), and its row follows when all functions have been     *)
(* seen.  The controllers look a name up in the rows, of which there are   *)
(* numStructs.                                                             *)
(*                                                                         *)
(* The Logger pass runs in the same process, after the tables were         *)
(* published, and takes names from the same function for the arguments of  *)
(* variadic calls.                                                         *)
(***************************************************************************)
EXTENDS Integers, Sequences

CONSTANTS
  LlvmStructs,   \* the struct types of the module
  StructNames,   \* names of structs in the source
  NameOf,        \* the name of each identified "struct." type, NoName for others:
                 \* classes, unions and literal types
  NoName,
  Fields,        \* the structs among the fields of each
  MaxCsvRows     \* bound: rows of structs in typedefs.csv

ASSUME NamesAssumption ==
  /\ NoName \notin StructNames
  /\ NameOf \in [LlvmStructs -> StructNames \cup {NoName}]
  /\ \A S, T \in LlvmStructs : NameOf[S] = NameOf[T] /\ NameOf[S] # NoName => S = T
ASSUME FieldsAssumption == Fields \in [LlvmStructs -> Seq(LlvmStructs)]
ASSUME BoundsAssumption == MaxCsvRows \in Nat

VARIABLES
  phase,              \* what the passes are doing
  unread,             \* the identified struct types still to be read
  todo,               \* the fields of the row being written that wait for a name
  i,                  \* the loop over unnamedStructTypes
  structCount,
  structNames,
  structTypeToIndex,
  structNameToIndex,
  unnamedStructTypes,
  rows,               \* structNamesValues and its companions
  numStructs,         \* the global of that name, once it is published
  given,              \* the names that rows and signatures refer to, and what for
  logged              \* the names that buffers of variadic calls refer to

names == <<structCount, structNames, structTypeToIndex, structNameToIndex,
           unnamedStructTypes>>
vars  == <<phase, unread, todo, i, names, rows, numStructs, given, logged>>

Known(name) == [kind |-> "known", id |-> name]
Unknown(n)  == [kind |-> "unknown", id |-> n]

\* A row: its name and the LLVM type it describes, or the source's definition.
Source        == [kind |-> "source"]
Llvm(T)       == [kind |-> "llvm", type |-> T]
Row(name, of) == [name |-> name, of |-> of]

Published == phase \in {"logger", "done"}

\* f with the value y at x.
With(f, x, y) == [z \in DOMAIN f \cup {x} |-> IF z = x THEN y ELSE f[z]]

-----------------------------------------------------------------------------
(* Names. *)

NextIndex == structCount

Counted == structCount + 1

\* A name gets the next index; it is the name of the types in Ts.
Enter(name, Ts) ==
  /\ structTypeToIndex' = [T \in DOMAIN structTypeToIndex \cup Ts |->
                             IF T \in Ts THEN NextIndex ELSE structTypeToIndex[T]]
  /\ structNameToIndex' = With(structNameToIndex, name, NextIndex)
  /\ structCount' = Counted
  /\ structNames' = Append(structNames, name)

\* The name basicGetTypeAsString returns, made up for a type without one, ...
TypeName(T) == IF T \in DOMAIN structTypeToIndex
                 THEN structNames[structTypeToIndex[T] + 1]
                 ELSE Unknown(Len(unnamedStructTypes))

\* ... and what it remembers.
TakeName(T) ==
  \/ T \in DOMAIN structTypeToIndex /\ UNCHANGED names
  \/ /\ T \notin DOMAIN structTypeToIndex
     /\ Enter(TypeName(T), {T})
     /\ unnamedStructTypes' = Append(unnamedStructTypes, T)

\* A use of the name of T, to be looked up in the rows.
Use(T) == [name |-> TypeName(T), of |-> T]

-----------------------------------------------------------------------------
(* The Librarify pass. *)

\* A row of typedefs.csv, which may have a name twice.
ReadTypeDefsCsv(name) ==
  /\ phase = "csv"
  /\ Len(rows) < MaxCsvRows
  /\ Enter(Known(name), {})
  /\ rows' = Append(rows, Row(Known(name), Source))
  /\ UNCHANGED <<phase, unread, todo, i, unnamedStructTypes, numStructs, given, logged>>

\* The struct types of the module come in any order.
ReadIdentified(T) ==
  /\ phase = "identified"
  /\ todo = <<>>
  /\ T \in unread
  /\ unread' = unread \ {T}
  /\ \/ /\ NameOf[T] = NoName
        /\ UNCHANGED <<todo, names, rows>>
     \/ /\ NameOf[T] # NoName
        /\ Known(NameOf[T]) \in DOMAIN structNameToIndex
        /\ structTypeToIndex' =
             With(structTypeToIndex, T, structNameToIndex[Known(NameOf[T])])
        /\ UNCHANGED <<todo, structCount, structNames, structNameToIndex,
                       unnamedStructTypes, rows>>
     \/ /\ NameOf[T] # NoName
        /\ Known(NameOf[T]) \notin DOMAIN structNameToIndex
        /\ Enter(Known(NameOf[T]), {T})
        /\ rows' = Append(rows, Row(Known(NameOf[T]), Llvm(T)))
        /\ todo' = Fields[T]
        /\ UNCHANGED unnamedStructTypes
  /\ UNCHANGED <<phase, i, numStructs, given, logged>>

\* The next field of the row.
NameField ==
  /\ todo # <<>>
  /\ TakeName(Head(todo))
  /\ given' = given \cup {Use(Head(todo))}
  /\ todo' = Tail(todo)
  /\ UNCHANGED <<phase, unread, i, rows, numStructs, logged>>

\* A function has T in its signature, or behind one of its pointers.
RunFunction(T) ==
  /\ phase = "functions"
  /\ TakeName(T)
  /\ given' = given \cup {Use(T)}
  /\ UNCHANGED <<phase, unread, todo, i, rows, numStructs, logged>>

\* Mutant: the loop ends one type early.
UnnamedLeft_OffByOne == i + 1 < Len(unnamedStructTypes)
\* Fields named in the loop make it longer.
UnnamedLeft == i < Len(unnamedStructTypes)

WriteUnnamed ==
  /\ phase = "unnamed"
  /\ todo = <<>>
  /\ UnnamedLeft
  /\ rows' = Append(rows, Row(Unknown(i), Llvm(unnamedStructTypes[i + 1])))
  /\ todo' = Fields[unnamedStructTypes[i + 1]]
  /\ i' = i + 1
  /\ UNCHANGED <<phase, unread, names, numStructs, given, logged>>

\* Mutant: the pass clears its list of unnamed types when it is done with it.
Publish_Clears ==
  /\ phase = "unnamed"
  /\ todo = <<>>
  /\ ~UnnamedLeft
  /\ numStructs' = structCount
  /\ phase' = "logger"
  /\ unnamedStructTypes' = <<>>
  /\ i' = 0
  /\ UNCHANGED <<unread, todo, structCount, structNames, structTypeToIndex,
                 structNameToIndex, rows, given, logged>>

Publish ==
  /\ phase = "unnamed"
  /\ todo = <<>>
  /\ ~UnnamedLeft
  /\ numStructs' = structCount
  /\ phase' = "logger"
  /\ UNCHANGED <<unread, todo, i, names, rows, given, logged>>

\* From one loop of run to the next.
Proceed ==
  /\ \/ phase = "csv" /\ phase' = "identified"
     \/ phase = "identified" /\ todo = <<>> /\ unread = {} /\ phase' = "functions"
     \/ phase = "functions" /\ phase' = "unnamed"
  /\ UNCHANGED <<unread, todo, i, names, rows, numStructs, given, logged>>

-----------------------------------------------------------------------------
(* The Logger pass, of the debugger only. *)

\* A variadic call is given a T, or a pointer to one.
LogVariadic(T) ==
  /\ phase = "logger"
  /\ TakeName(T)
  /\ logged' = logged \cup {Use(T)}
  /\ UNCHANGED <<phase, unread, todo, i, rows, numStructs, given>>

Finish == phase = "logger" /\ phase' = "done"
            /\ UNCHANGED <<unread, todo, i, names, rows, numStructs, given, logged>>
Done   == phase = "done" /\ UNCHANGED vars

-----------------------------------------------------------------------------
Init ==
  /\ phase = "csv"
  /\ unread = LlvmStructs
  /\ todo = <<>> /\ i = 0
  /\ structCount = 0 /\ structNames = <<>>
  /\ structTypeToIndex = <<>> /\ structNameToIndex = <<>>
  /\ unnamedStructTypes = <<>>
  /\ rows = <<>> /\ numStructs = 0
  /\ given = {} /\ logged = {}

Next ==
  \/ \E name \in StructNames : ReadTypeDefsCsv(name)
  \/ \E T \in LlvmStructs : ReadIdentified(T) \/ RunFunction(T) \/ LogVariadic(T)
  \/ NameField \/ WriteUnnamed \/ Publish \/ Proceed \/ Finish \/ Done

Spec == Init /\ [][Next]_vars

-----------------------------------------------------------------------------
(* Properties. *)

Names == [kind : {"known"}, id : StructNames] \cup [kind : {"unknown"}, id : Nat]
Uses  == [name : Names, of : LlvmStructs]

\* structNames, structCount and the two maps into them go together.
TypeOK ==
  /\ phase \in {"csv", "identified", "functions", "unnamed", "logger", "done"}
  /\ unread \subseteq LlvmStructs
  /\ todo \in Seq(LlvmStructs)
  /\ structNames \in Seq(Names) /\ structCount = Len(structNames)
  /\ DOMAIN structTypeToIndex \subseteq LlvmStructs
  /\ \A T \in DOMAIN structTypeToIndex : structTypeToIndex[T] \in 0..structCount - 1
  /\ DOMAIN structNameToIndex \subseteq Names
  /\ \A name \in DOMAIN structNameToIndex : structNameToIndex[name] \in 0..structCount - 1
  /\ unnamedStructTypes \in Seq(LlvmStructs)
  /\ i \in 0..Len(unnamedStructTypes)
  /\ rows \in Seq([name : Names, of : {Source} \cup [kind : {"llvm"}, type : LlvmStructs]])
  /\ numStructs \in Nat
  /\ given \subseteq Uses /\ logged \subseteq Uses

\* The controllers' loops to numStructs see all rows and nothing behind them: names,
\* which are counted when they are made up, and rows, which some of them get later,
\* are as many when the tables are published.
CountIsRows == Published => numStructs = Len(rows)

Describes(row, T) == \/ row.of = Llvm(T)
                     \/ row.of = Source /\ row.name = Known(NameOf[T])

\* Every name the tables and signatures refer to has a row, though most were given
\* before their row was written, and whichever row of that name the controllers find
\* describes the type the name was given for.
GivenHaveRows ==
  Published => \A use \in given :
    /\ \E k \in DOMAIN rows : rows[k].name = use.name
    /\ \A k \in DOMAIN rows : rows[k].name = use.name => Describes(rows[k], use.of)

\* A name made up too late for a row is at least nobody else's: what the debugger finds
\* under the name of a variadic argument, if anything, describes its type.
LoggedNotMisled ==
  \A use \in logged : \A k \in DOMAIN rows :
    rows[k].name = use.name => Describes(rows[k], use.of)

\* log.md, 16 July: "created struct definition data into output code", so that what the
\* debugger is told of a variadic argument can be printed.
LoggedHaveRows ==
  Published => \A use \in logged : \E k \in DOMAIN rows : rows[k].name = use.name
=============================================================================
