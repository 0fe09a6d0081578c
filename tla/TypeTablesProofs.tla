-------------------------- MODULE TypeTablesProofs --------------------------
(***************************************************************************)
(* The properties of TypeTables, for every module of the target, with any  *)
(* struct types however nested, and any csv file.                          *)
(***************************************************************************)
EXTENDS TypeTables, TLAPS

-----------------------------------------------------------------------------
(* The inductive invariant. *)

HasRow(name) == \E k \in DOMAIN rows : rows[k].name = name

\* A name that may stand for T: its own, which has a row, or one made up for it,
\* which has one now or will get one.
NameFits(T, name) ==
  \/ NameOf[T] # NoName /\ name = Known(NameOf[T]) /\ HasRow(name)
  \/ \E n \in 1..Len(unnamedStructTypes) :
       name = Unknown(n - 1) /\ unnamedStructTypes[n] = T

TypesNamed ==
  \A T \in DOMAIN structTypeToIndex : NameFits(T, structNames[structTypeToIndex[T] + 1])

NamesIndexed ==
  \A name \in DOMAIN structNameToIndex :
    /\ structNames[structNameToIndex[name] + 1] = name
    /\ name.kind = "known" => HasRow(name)

GivenFit == \A use \in given \cup logged : NameFits(use.of, use.name)

RowsRight ==
  \A k \in DOMAIN rows :
    \/ /\ rows[k].name \in [kind : {"known"}, id : StructNames]
       /\ \/ rows[k].of = Source
          \/ \E T \in LlvmStructs : NameOf[T] = rows[k].name.id /\ rows[k].of = Llvm(T)
    \/ \E n \in 1..i : rows[k] = Row(Unknown(n - 1), Llvm(unnamedStructTypes[n]))

UnnamedWritten ==
  \A n \in 1..i : \E k \in DOMAIN rows :
    rows[k] = Row(Unknown(n - 1), Llvm(unnamedStructTypes[n]))

\* Names without a row are those of the types the last loop has not come to.
NamesCounted ==
  ~Published => Len(rows) + Len(unnamedStructTypes) = structCount + i

NothingLeft == Published => todo = <<>>

IInv == /\ TypeOK /\ TypesNamed /\ NamesIndexed /\ GivenFit /\ RowsRight
        /\ UnnamedWritten /\ NamesCounted /\ NothingLeft
        /\ CountIsRows /\ GivenHaveRows

-----------------------------------------------------------------------------
(* Names. *)

LEMMA NameKinds ==
  /\ \A n \in Nat : Unknown(n) \in Names /\ Unknown(n).kind = "unknown"
  /\ \A m, n \in Nat : Unknown(m) = Unknown(n) => m = n
  /\ \A name \in StructNames : /\ Known(name) \in Names /\ Known(name).kind = "known"
                              /\ Known(name).id = name
                              /\ Known(name) \in [kind : {"known"}, id : StructNames]
  /\ \A name, n : Known(name) # Unknown(n)
BY DEF Names, Known, Unknown

\* The tables of names as they are typed.
NamesOK ==
  /\ structNames \in Seq(Names) /\ structCount = Len(structNames)
  /\ DOMAIN structTypeToIndex \subseteq LlvmStructs
  /\ \A T \in DOMAIN structTypeToIndex : structTypeToIndex[T] \in 0..structCount - 1
  /\ DOMAIN structNameToIndex \subseteq Names
  /\ \A name \in DOMAIN structNameToIndex : structNameToIndex[name] \in 0..structCount - 1
  /\ unnamedStructTypes \in Seq(LlvmStructs)

LEMMA NamesOKIsPart == TypeOK => NamesOK
BY DEF TypeOK, NamesOK

\* What Enter does to the tables of names.
LEMMA EnterFacts ==
  ASSUME NamesOK, NEW name \in Names, NEW Ts \in SUBSET LlvmStructs, Enter(name, Ts)
  PROVE  /\ structNames' \in Seq(Names) /\ structCount' = Len(structNames')
         /\ structCount \in Nat /\ structCount' = structCount + 1
         /\ \A n \in 0..structCount - 1 : structNames'[n + 1] = structNames[n + 1]
         /\ structNames'[structCount + 1] = name
         /\ DOMAIN structTypeToIndex' = DOMAIN structTypeToIndex \cup Ts
         /\ DOMAIN structNameToIndex' = DOMAIN structNameToIndex \cup {name}
         /\ \A T \in DOMAIN structTypeToIndex' :
              structTypeToIndex'[T] = IF T \in Ts THEN structCount ELSE structTypeToIndex[T]
         /\ \A n \in DOMAIN structNameToIndex' :
              structNameToIndex'[n] = IF n = name THEN structCount ELSE structNameToIndex[n]
         /\ \A T \in DOMAIN structTypeToIndex' : structTypeToIndex'[T] \in 0..structCount' - 1
         /\ \A n \in DOMAIN structNameToIndex' : structNameToIndex'[n] \in 0..structCount' - 1
<1>1. structNames \in Seq(Names) /\ structCount = Len(structNames) /\ structCount \in Nat
  BY DEF NamesOK
<1>2. structNames' = Append(structNames, name) /\ structCount' = structCount + 1
  BY DEF Enter, Counted
<1>3. /\ structNames' \in Seq(Names) /\ Len(structNames') = Len(structNames) + 1
      /\ \A n \in 1..Len(structNames) : structNames'[n] = structNames[n]
      /\ structNames'[Len(structNames) + 1] = name
  BY <1>1, <1>2
<1>4. \A n \in 0..structCount - 1 : n + 1 \in 1..Len(structNames)
  BY <1>1
<1>5. /\ DOMAIN structTypeToIndex' = DOMAIN structTypeToIndex \cup Ts
      /\ \A T \in DOMAIN structTypeToIndex' :
           structTypeToIndex'[T] = IF T \in Ts THEN structCount ELSE structTypeToIndex[T]
  BY DEF Enter, NextIndex
<1>6. /\ DOMAIN structNameToIndex' = DOMAIN structNameToIndex \cup {name}
      /\ \A n \in DOMAIN structNameToIndex' :
           structNameToIndex'[n] = IF n = name THEN structCount ELSE structNameToIndex[n]
  BY DEF Enter, NextIndex, With
<1>7. \A T \in DOMAIN structTypeToIndex' : structTypeToIndex'[T] \in 0..structCount' - 1
  BY <1>1, <1>2, <1>5 DEF NamesOK
<1>8. \A n \in DOMAIN structNameToIndex' : structNameToIndex'[n] \in 0..structCount' - 1
  BY <1>1, <1>2, <1>6 DEF NamesOK
<1>9. QED
  BY <1>1, <1>2, <1>3, <1>4, <1>5, <1>6, <1>7, <1>8

\* The name of a type, whether it has one or gets one.
LEMMA TypeNameFacts ==
  ASSUME NamesOK, NEW T \in LlvmStructs
  PROVE  TypeName(T) \in Names
<1>1. CASE T \in DOMAIN structTypeToIndex
  <2>1. structTypeToIndex[T] + 1 \in 1..Len(structNames)
    BY <1>1 DEF NamesOK
  <2>2. QED
    BY <1>1, <2>1 DEF TypeName, NamesOK
<1>2. CASE T \notin DOMAIN structTypeToIndex
  BY <1>2, NameKinds DEF TypeName, NamesOK
<1>3. QED
  BY <1>1, <1>2

-----------------------------------------------------------------------------
(* Tables only grow. *)

\* rows and unnamedStructTypes keep what they have.
Grow ==
  /\ \A k \in DOMAIN rows : k \in DOMAIN rows' /\ rows'[k] = rows[k]
  /\ \A n \in 1..Len(unnamedStructTypes) :
       n \in 1..Len(unnamedStructTypes') /\ unnamedStructTypes'[n] = unnamedStructTypes[n]

LEMMA FitsStay ==
  ASSUME Grow
  PROVE  /\ \A name : HasRow(name) => HasRow(name)'
         /\ \A T, name : NameFits(T, name) => NameFits(T, name)'
<1>1. ASSUME NEW name, HasRow(name) PROVE HasRow(name)'
  BY <1>1 DEF Grow, HasRow
<1>2. ASSUME NEW T, NEW name, NameFits(T, name) PROVE NameFits(T, name)'
  BY <1>1, <1>2 DEF Grow, NameFits
<1>3. QED
  BY <1>1, <1>2

\* Taking a name keeps the tables as they should be, and the name fits.
LEMMA TakeNameFacts ==
  ASSUME TypeOK, TypesNamed, NamesIndexed, NEW T \in LlvmStructs, TakeName(T), rows' = rows,
         NEW name, name = TypeName(T)
  PROVE  /\ NamesOK' /\ TypesNamed' /\ NamesIndexed' /\ NameFits(T, name)' /\ Grow
         /\ structCount' - Len(unnamedStructTypes') = structCount - Len(unnamedStructTypes)
<1>1. NamesOK /\ name \in Names
  BY NamesOKIsPart, TypeNameFacts
<1>2. CASE T \in DOMAIN structTypeToIndex /\ UNCHANGED names
  <2>1. /\ structCount' = structCount /\ structNames' = structNames
        /\ structTypeToIndex' = structTypeToIndex /\ structNameToIndex' = structNameToIndex
        /\ unnamedStructTypes' = unnamedStructTypes
    BY <1>2 DEF names
  <2>2. NamesOK' /\ TypesNamed' /\ NamesIndexed'
    BY <1>1, <2>1 DEF NamesOK, TypesNamed, NamesIndexed, NameFits, HasRow
  <2>3. NameFits(T, name)
    BY <1>2 DEF TypeName, TypesNamed
  <2>4. NameFits(T, name)' /\ Grow
    BY <2>1, <2>3 DEF NameFits, HasRow, Grow
  <2>5. QED
    BY <2>1, <2>2, <2>4
<1>3. CASE /\ T \notin DOMAIN structTypeToIndex
           /\ Enter(TypeName(T), {T})
           /\ unnamedStructTypes' = Append(unnamedStructTypes, T)
  <2> DEFINE m == Len(unnamedStructTypes)
  <2>1. Enter(name, {T}) /\ {T} \in SUBSET LlvmStructs
    BY <1>3
  <2>2. /\ structNames' \in Seq(Names) /\ structCount' = Len(structNames')
        /\ structCount \in Nat /\ structCount' = structCount + 1
        /\ \A n \in 0..structCount - 1 : structNames'[n + 1] = structNames[n + 1]
        /\ structNames'[structCount + 1] = name
        /\ DOMAIN structTypeToIndex' = DOMAIN structTypeToIndex \cup {T}
        /\ DOMAIN structNameToIndex' = DOMAIN structNameToIndex \cup {name}
        /\ \A S \in DOMAIN structTypeToIndex' :
             structTypeToIndex'[S] = IF S \in {T} THEN structCount ELSE structTypeToIndex[S]
        /\ \A n \in DOMAIN structNameToIndex' :
             structNameToIndex'[n] = IF n = name THEN structCount ELSE structNameToIndex[n]
        /\ \A S \in DOMAIN structTypeToIndex' : structTypeToIndex'[S] \in 0..structCount' - 1
        /\ \A n \in DOMAIN structNameToIndex' : structNameToIndex'[n] \in 0..structCount' - 1
    BY <1>1, <2>1, EnterFacts
  <2>3. /\ m \in Nat /\ unnamedStructTypes' \in Seq(LlvmStructs)
        /\ Len(unnamedStructTypes') = m + 1 /\ unnamedStructTypes'[m + 1] = T
        /\ \A n \in 1..m : unnamedStructTypes'[n] = unnamedStructTypes[n]
    BY <1>1, <1>3 DEF NamesOK
  <2>4. name = Unknown(m) /\ name.kind = "unknown"
    BY <1>3, <2>3, NameKinds DEF TypeName
  <2>5. Grow
    BY <2>3 DEF Grow
  <2>6. NamesOK'
    BY <1>1, <2>2, <2>3 DEF NamesOK
  <2>7. NameFits(T, name)'
    BY <2>3, <2>4 DEF NameFits
  <2>8. ASSUME NEW S \in DOMAIN structTypeToIndex'
        PROVE  NameFits(S, structNames[structTypeToIndex[S] + 1])'
    <3>1. CASE S = T
      <4>1. structNames'[structTypeToIndex'[S] + 1] = name
        BY <2>2, <3>1
      <4>2. QED
        BY <2>7, <3>1, <4>1
    <3>2. CASE S # T
      <4>1. S \in DOMAIN structTypeToIndex /\ structTypeToIndex'[S] = structTypeToIndex[S]
        BY <2>2, <3>2
      <4>2. structTypeToIndex[S] \in 0..structCount - 1
        BY <1>1, <4>1 DEF NamesOK
      <4>3. structNames'[structTypeToIndex'[S] + 1] = structNames[structTypeToIndex[S] + 1]
        BY <2>2, <4>1, <4>2
      <4>4. NameFits(S, structNames[structTypeToIndex[S] + 1])
        BY <4>1 DEF TypesNamed
      <4>5. QED
        BY <2>5, <4>3, <4>4, FitsStay
    <3>3. QED
      BY <3>1, <3>2
  <2>9. TypesNamed'
    BY <2>8 DEF TypesNamed
  <2>10. ASSUME NEW n \in DOMAIN structNameToIndex'
        PROVE  /\ structNames'[structNameToIndex'[n] + 1] = n
               /\ n.kind = "known" => HasRow(n)'
    <3>1. CASE n = name
      <4>1. structNames'[structNameToIndex'[n] + 1] = name
        BY <2>2, <3>1
      <4>2. QED
        BY <2>4, <3>1, <4>1
    <3>2. CASE n # name
      <4>1. n \in DOMAIN structNameToIndex /\ structNameToIndex'[n] = structNameToIndex[n]
        BY <2>2, <3>2
      <4>2. structNameToIndex[n] \in 0..structCount - 1
        BY <1>1, <4>1 DEF NamesOK
      <4>3. structNames'[structNameToIndex'[n] + 1] = structNames[structNameToIndex[n] + 1]
        BY <2>2, <4>1, <4>2
      <4>4. structNames[structNameToIndex[n] + 1] = n /\ (n.kind = "known" => HasRow(n))
        BY <4>1 DEF NamesIndexed
      <4>5. QED
        BY <2>5, <4>3, <4>4, FitsStay
    <3>3. QED
      BY <3>1, <3>2
  <2>11. NamesIndexed'
    BY <2>10 DEF NamesIndexed
  <2>12. structCount' = structCount + 1 /\ structCount \in Nat
    BY <2>2
  <2>13. QED
    BY <2>3, <2>5, <2>6, <2>7, <2>9, <2>11, <2>12
<1>4. QED
  BY <1>2, <1>3 DEF TakeName

-----------------------------------------------------------------------------
(* The invariant is inductive. *)

LEMMA InitIInv == Init => IInv
<1> SUFFICES ASSUME Init PROVE IInv
  OBVIOUS
<1>1. /\ DOMAIN rows = {} /\ DOMAIN structTypeToIndex = {} /\ DOMAIN structNameToIndex = {}
      /\ Len(rows) = 0 /\ Len(unnamedStructTypes) = 0 /\ ~Published
  BY DEF Init, Published
<1>2. TypeOK
  BY <1>1 DEF Init, TypeOK
<1>3. TypesNamed /\ NamesIndexed /\ GivenFit /\ RowsRight /\ UnnamedWritten
  BY <1>1 DEF Init, TypesNamed, NamesIndexed, GivenFit, RowsRight, UnnamedWritten
<1>4. NamesCounted /\ NothingLeft /\ CountIsRows /\ GivenHaveRows
  BY <1>1 DEF Init, NamesCounted, NothingLeft, CountIsRows, GivenHaveRows
<1>5. QED
  BY <1>2, <1>3, <1>4 DEF IInv

\* Rows stay right when the tables of types grow.
LEMMA RowsStay ==
  ASSUME TypeOK, RowsRight, UnnamedWritten, Grow, rows' = rows, i' = i
  PROVE  RowsRight' /\ UnnamedWritten'
<1>1. \A n \in 1..i : unnamedStructTypes'[n] = unnamedStructTypes[n]
  <2>1. \A n \in 1..i : n \in 1..Len(unnamedStructTypes)
    BY DEF TypeOK
  <2>2. QED
    BY <2>1 DEF Grow
<1>2. QED
  BY <1>1 DEF RowsRight, UnnamedWritten

\* A step that takes a name for a field or a function, and notes its use.
LEMMA UseIInv ==
  ASSUME IInv, ~Published, NEW T \in LlvmStructs, TakeName(T),
         given' = given \cup {Use(T)}, todo' \in Seq(LlvmStructs),
         UNCHANGED <<phase, unread, i, rows, numStructs, logged>>
  PROVE  IInv'
<1>1. PICK name : name = TypeName(T)
  OBVIOUS
<1>2. /\ TypeOK /\ TypesNamed /\ NamesIndexed /\ rows' = rows /\ i' = i /\ phase' = phase
      /\ unread' = unread /\ numStructs' = numStructs /\ logged' = logged /\ ~Published'
  BY DEF IInv, Published
<1>3. /\ NamesOK' /\ TypesNamed' /\ NamesIndexed' /\ NameFits(T, name)' /\ Grow
      /\ structCount' - Len(unnamedStructTypes') = structCount - Len(unnamedStructTypes)
  BY <1>1, <1>2, TakeNameFacts
<1>4. Use(T) = [name |-> name, of |-> T] /\ Use(T) \in Uses
  BY <1>1, <1>2, NamesOKIsPart, TypeNameFacts DEF Use, Uses
<1>5. i' \in 0..Len(unnamedStructTypes')
  <2>1. /\ i \in 0..Len(unnamedStructTypes) /\ Len(unnamedStructTypes) \in Nat
        /\ Len(unnamedStructTypes') \in Nat
    BY <1>2, <1>3 DEF TypeOK, NamesOK
  <2>2. Len(unnamedStructTypes) > 0 => Len(unnamedStructTypes) \in 1..Len(unnamedStructTypes')
    BY <1>3, <2>1 DEF Grow
  <2>3. QED
    BY <1>2, <2>1, <2>2
<1>6. TypeOK'
  BY <1>2, <1>3, <1>4, <1>5 DEF TypeOK, NamesOK
<1>7. RowsRight' /\ UnnamedWritten'
  BY <1>2, <1>3, RowsStay DEF IInv
<1>8. GivenFit'
  BY <1>2, <1>3, <1>4, FitsStay DEF IInv, GivenFit
<1>9. NamesCounted'
  <2>1. /\ Len(rows) \in Nat /\ Len(unnamedStructTypes) \in Nat /\ structCount \in Nat
        /\ i \in Nat /\ Len(unnamedStructTypes') \in Nat /\ structCount' \in Nat
    BY <1>2, <1>6 DEF TypeOK
  <2>2. Len(rows) + Len(unnamedStructTypes) = structCount + i
    BY DEF IInv, NamesCounted
  <2>3. Len(rows) + Len(unnamedStructTypes') = structCount' + i
    BY <1>3, <2>1, <2>2
  <2>4. QED
    BY <1>2, <2>3 DEF NamesCounted
<1>10. NothingLeft' /\ CountIsRows' /\ GivenHaveRows'
  BY <1>2 DEF NothingLeft, CountIsRows, GivenHaveRows
<1>11. QED
  BY <1>3, <1>6, <1>7, <1>8, <1>9, <1>10 DEF IInv

LEMMA NameFieldIInv == ASSUME IInv, NameField PROVE IInv'
<1>1. Head(todo) \in LlvmStructs /\ Tail(todo) \in Seq(LlvmStructs) /\ ~Published
  BY DEF IInv, TypeOK, NothingLeft, NameField
<1>2. QED
  BY <1>1, UseIInv DEF NameField

LEMMA RunFunctionIInv ==
  ASSUME IInv, NEW T \in LlvmStructs, RunFunction(T) PROVE IInv'
<1>1. todo' \in Seq(LlvmStructs) /\ ~Published
  BY DEF IInv, TypeOK, RunFunction, Published
<1>2. QED
  BY <1>1, UseIInv DEF RunFunction

LEMMA LogVariadicIInv ==
  ASSUME IInv, NEW T \in LlvmStructs, LogVariadic(T) PROVE IInv'
<1>1. PICK name : name = TypeName(T)
  OBVIOUS
<1>2. /\ TypeOK /\ TypesNamed /\ NamesIndexed /\ rows' = rows /\ i' = i /\ phase' = phase
      /\ unread' = unread /\ numStructs' = numStructs /\ given' = given /\ todo' = todo
      /\ Published /\ Published' /\ TakeName(T)
  BY DEF IInv, Published, LogVariadic
<1>3. /\ NamesOK' /\ TypesNamed' /\ NamesIndexed' /\ NameFits(T, name)' /\ Grow
  BY <1>1, <1>2, TakeNameFacts
<1>4. /\ logged' = logged \cup {Use(T)} /\ logged' \subseteq Uses
      /\ Use(T) = [name |-> name, of |-> T]
  <2>1. Use(T) \in Uses
    BY <1>2, NamesOKIsPart, TypeNameFacts DEF Use, Uses
  <2>2. QED
    BY <1>1, <1>2, <2>1 DEF TypeOK, LogVariadic, Use
<1>5. i' \in 0..Len(unnamedStructTypes')
  <2>1. /\ i \in 0..Len(unnamedStructTypes) /\ Len(unnamedStructTypes) \in Nat
        /\ Len(unnamedStructTypes') \in Nat
    BY <1>2, <1>3 DEF TypeOK, NamesOK
  <2>2. Len(unnamedStructTypes) > 0 => Len(unnamedStructTypes) \in 1..Len(unnamedStructTypes')
    BY <1>3, <2>1 DEF Grow
  <2>3. QED
    BY <1>2, <2>1, <2>2
<1>6. TypeOK'
  BY <1>2, <1>3, <1>4, <1>5 DEF TypeOK, NamesOK
<1>7. RowsRight' /\ UnnamedWritten'
  BY <1>2, <1>3, RowsStay DEF IInv
<1>8. GivenFit'
  BY <1>2, <1>3, <1>4, FitsStay DEF IInv, GivenFit
<1>9. NamesCounted' /\ NothingLeft' /\ CountIsRows' /\ GivenHaveRows'
  BY <1>2 DEF IInv, NamesCounted, NothingLeft, CountIsRows, GivenHaveRows, Describes
<1>10. QED
  BY <1>3, <1>6, <1>7, <1>8, <1>9 DEF IInv

\* A step that enters a name of the source and writes its row at once.
LEMMA KnownIInv ==
  ASSUME IInv, ~Published, NEW id \in StructNames, NEW Ts \in SUBSET LlvmStructs,
         Enter(Known(id), Ts), \A T \in Ts : NameOf[T] = id,
         NEW of \in {Source} \cup [kind : {"llvm"}, type : LlvmStructs],
         of = Source \/ \E T \in LlvmStructs : NameOf[T] = id /\ of = Llvm(T),
         rows' = Append(rows, Row(Known(id), of)),
         todo' \in Seq(LlvmStructs), unread' \subseteq LlvmStructs,
         UNCHANGED <<phase, i, unnamedStructTypes, numStructs, given, logged>>
  PROVE  IInv'
<1> DEFINE name == Known(id)
           RowSet == [name : Names, of : {Source} \cup [kind : {"llvm"}, type : LlvmStructs]]
<1>1. /\ TypeOK /\ NamesOK /\ i' = i /\ phase' = phase /\ ~Published'
      /\ unnamedStructTypes' = unnamedStructTypes /\ numStructs' = numStructs
      /\ given' = given /\ logged' = logged
  BY NamesOKIsPart DEF IInv, Published
<1>2. /\ name \in Names /\ name.kind = "known" /\ name.id = id
      /\ name \in [kind : {"known"}, id : StructNames] /\ id # NoName
  BY NameKinds, NamesAssumption
<1>3. /\ structNames' \in Seq(Names) /\ structCount' = Len(structNames')
      /\ structCount \in Nat /\ structCount' = structCount + 1
      /\ \A n \in 0..structCount - 1 : structNames'[n + 1] = structNames[n + 1]
      /\ structNames'[structCount + 1] = name
      /\ DOMAIN structTypeToIndex' = DOMAIN structTypeToIndex \cup Ts
      /\ DOMAIN structNameToIndex' = DOMAIN structNameToIndex \cup {name}
      /\ \A S \in DOMAIN structTypeToIndex' :
           structTypeToIndex'[S] = IF S \in Ts THEN structCount ELSE structTypeToIndex[S]
      /\ \A n \in DOMAIN structNameToIndex' :
           structNameToIndex'[n] = IF n = name THEN structCount ELSE structNameToIndex[n]
      /\ \A S \in DOMAIN structTypeToIndex' : structTypeToIndex'[S] \in 0..structCount' - 1
      /\ \A n \in DOMAIN structNameToIndex' : structNameToIndex'[n] \in 0..structCount' - 1
  BY <1>1, <1>2, EnterFacts
<1>4. /\ rows \in Seq(RowSet) /\ Row(name, of) \in RowSet /\ Len(rows) \in Nat
      /\ Row(name, of).name = name /\ Row(name, of).of = of
  BY <1>1, <1>2 DEF TypeOK, Row
<1>5. /\ rows' \in Seq(RowSet) /\ Len(rows') = Len(rows) + 1
      /\ DOMAIN rows = 1..Len(rows) /\ DOMAIN rows' = 1..Len(rows) + 1
      /\ \A k \in 1..Len(rows) : rows'[k] = rows[k]
      /\ rows'[Len(rows) + 1] = Row(name, of)
  BY <1>4
<1> HIDE DEF name, RowSet
<1>6. Grow
  BY <1>1, <1>5 DEF Grow
<1>7. HasRow(name)'
  BY <1>4, <1>5 DEF HasRow
<1>8. TypeOK'
  <2>1. NamesOK'
    BY <1>1, <1>2, <1>3 DEF NamesOK
  <2>2. rows' \in Seq([name : Names, of : {Source} \cup [kind : {"llvm"}, type : LlvmStructs]])
    BY <1>5 DEF RowSet
  <2>3. QED
    BY <1>1, <2>1, <2>2 DEF TypeOK, NamesOK
<1>9. TypesNamed'
  <2>1. SUFFICES ASSUME NEW S \in DOMAIN structTypeToIndex'
                 PROVE  NameFits(S, structNames[structTypeToIndex[S] + 1])'
    BY DEF TypesNamed
  <2>2. CASE S \in Ts
    <3>1. structNames'[structTypeToIndex'[S] + 1] = name
      BY <1>3, <2>1, <2>2
    <3>2. NameOf[S] # NoName /\ name = Known(NameOf[S])
      BY <1>2, <2>2 DEF name
    <3>3. QED
      BY <1>7, <3>1, <3>2 DEF NameFits
  <2>3. CASE S \notin Ts
    <3>1. S \in DOMAIN structTypeToIndex /\ structTypeToIndex'[S] = structTypeToIndex[S]
      BY <1>3, <2>1, <2>3
    <3>2. structTypeToIndex[S] \in 0..structCount - 1
      BY <1>1, <3>1 DEF NamesOK
    <3>3. structNames'[structTypeToIndex'[S] + 1] = structNames[structTypeToIndex[S] + 1]
      BY <1>3, <3>1, <3>2
    <3>4. NameFits(S, structNames[structTypeToIndex[S] + 1])
      BY <3>1 DEF IInv, TypesNamed
    <3>5. QED
      BY <1>6, <3>3, <3>4, FitsStay
  <2>4. QED
    BY <2>2, <2>3
<1>10. NamesIndexed'
  <2>1. SUFFICES ASSUME NEW n \in DOMAIN structNameToIndex'
                 PROVE  /\ structNames'[structNameToIndex'[n] + 1] = n
                        /\ n.kind = "known" => HasRow(n)'
    BY DEF NamesIndexed
  <2>2. CASE n = name
    BY <1>3, <1>7, <2>1, <2>2
  <2>3. CASE n # name
    <3>1. n \in DOMAIN structNameToIndex /\ structNameToIndex'[n] = structNameToIndex[n]
      BY <1>3, <2>1, <2>3
    <3>2. structNameToIndex[n] \in 0..structCount - 1
      BY <1>1, <3>1 DEF NamesOK
    <3>3. structNames'[structNameToIndex'[n] + 1] = structNames[structNameToIndex[n] + 1]
      BY <1>3, <3>1, <3>2
    <3>4. structNames[structNameToIndex[n] + 1] = n /\ (n.kind = "known" => HasRow(n))
      BY <3>1 DEF IInv, NamesIndexed
    <3>5. QED
      BY <1>6, <3>3, <3>4, FitsStay
  <2>4. QED
    BY <2>2, <2>3
<1>11. GivenFit'
  BY <1>1, <1>6, FitsStay DEF IInv, GivenFit
<1>12. RowsRight'
  <2>1. SUFFICES ASSUME NEW k \in DOMAIN rows'
        PROVE \/ /\ rows'[k].name \in [kind : {"known"}, id : StructNames]
                 /\ \/ rows'[k].of = Source
                    \/ \E T \in LlvmStructs : NameOf[T] = rows'[k].name.id /\ rows'[k].of = Llvm(T)
              \/ \E n \in 1..i : rows'[k] = Row(Unknown(n - 1), Llvm(unnamedStructTypes[n]))
    BY <1>1 DEF RowsRight
  <2>2. CASE k \in 1..Len(rows)
    BY <1>5, <2>2 DEF IInv, RowsRight
  <2>3. CASE k = Len(rows) + 1
    BY <1>2, <1>4, <1>5, <2>3
  <2>4. QED
    BY <1>4, <1>5, <2>1, <2>2, <2>3
<1>13. UnnamedWritten'
  BY <1>1, <1>5 DEF IInv, UnnamedWritten
<1>14. NamesCounted'
  <2>1. Len(rows) + Len(unnamedStructTypes) = structCount + i
    BY DEF IInv, NamesCounted
  <2>2. i \in Nat /\ Len(unnamedStructTypes) \in Nat
    BY <1>1 DEF TypeOK
  <2>3. Len(rows') + Len(unnamedStructTypes) = structCount' + i
    BY <1>3, <1>4, <1>5, <2>1, <2>2
  <2>4. QED
    BY <1>1, <2>3 DEF NamesCounted
<1>15. NothingLeft' /\ CountIsRows' /\ GivenHaveRows'
  BY <1>1 DEF NothingLeft, CountIsRows, GivenHaveRows
<1>16. QED
  BY <1>8, <1>9, <1>10, <1>11, <1>12, <1>13, <1>14, <1>15 DEF IInv

LEMMA ReadTypeDefsCsvIInv ==
  ASSUME IInv, NEW id \in StructNames, ReadTypeDefsCsv(id) PROVE IInv'
<1>1. ~Published /\ todo' \in Seq(LlvmStructs) /\ unread' \subseteq LlvmStructs
  BY DEF IInv, TypeOK, Published, ReadTypeDefsCsv
<1>2. /\ Enter(Known(id), {}) /\ rows' = Append(rows, Row(Known(id), Source))
      /\ UNCHANGED <<phase, i, unnamedStructTypes, numStructs, given, logged>>
  BY DEF ReadTypeDefsCsv
<1>3. Source \in {Source} \cup [kind : {"llvm"}, type : LlvmStructs] /\ {} \in SUBSET LlvmStructs
  OBVIOUS
<1>4. QED
  BY <1>1, <1>2, <1>3, KnownIInv

\* A row under a name that fits a type describes it.
LEMMA RowsDescribe ==
  ASSUME TypeOK, RowsRight, NEW T \in LlvmStructs, NEW name, NameFits(T, name),
         NEW k \in DOMAIN rows, rows[k].name = name
  PROVE  Describes(rows[k], T)
<1>1. CASE NameOf[T] # NoName /\ name = Known(NameOf[T])
  <2>1. CASE rows[k].of = Source
    BY <1>1, <2>1 DEF Describes
  <2>2. CASE \E S \in LlvmStructs : NameOf[S] = rows[k].name.id /\ rows[k].of = Llvm(S)
    <3>1. PICK S \in LlvmStructs : NameOf[S] = rows[k].name.id /\ rows[k].of = Llvm(S)
      BY <2>2
    <3>2. NameOf[S] = NameOf[T]
      BY <1>1, <3>1 DEF Known
    <3>3. S = T
      BY <1>1, <3>2, NamesAssumption
    <3>4. QED
      BY <3>1, <3>3 DEF Describes
  <2>3. ASSUME NEW n \in 1..i, rows[k] = Row(Unknown(n - 1), Llvm(unnamedStructTypes[n]))
        PROVE  FALSE
    <3>1. rows[k].name = Unknown(n - 1)
      BY <2>3 DEF Row
    <3>2. QED
      BY <1>1, <3>1 DEF Known, Unknown
  <2>4. QED
    BY <2>1, <2>2, <2>3 DEF RowsRight
<1>2. ASSUME NEW n \in 1..Len(unnamedStructTypes),
             name = Unknown(n - 1), unnamedStructTypes[n] = T
      PROVE  Describes(rows[k], T)
  <2>1. Len(unnamedStructTypes) \in Nat /\ i \in Nat /\ n - 1 \in Nat
    BY DEF TypeOK
  <2>2. rows[k].name.kind = "unknown"
    BY <1>2, <2>1, NameKinds
  <2>3. PICK m \in 1..i : rows[k] = Row(Unknown(m - 1), Llvm(unnamedStructTypes[m]))
    BY <2>2 DEF RowsRight
  <2>4. Unknown(m - 1) = Unknown(n - 1) /\ rows[k].of = Llvm(unnamedStructTypes[m])
    BY <1>2, <2>3 DEF Row
  <2>5. m = n
    <3>1. m - 1 \in Nat
      BY <2>1
    <3>2. m - 1 = n - 1
      BY <2>1, <2>4, <3>1, NameKinds
    <3>3. QED
      BY <2>1, <3>2
  <2>6. QED
    BY <1>2, <2>4, <2>5 DEF Describes
<1>3. QED
  BY <1>1, <1>2 DEF NameFits

\* A step that leaves the tables alone.
LEMMA SameTables ==
  ASSUME IInv, UNCHANGED <<i, names, rows, given, logged>>,
         todo' = todo, unread' \subseteq LlvmStructs,
         phase' \in {"csv", "identified", "functions", "unnamed", "logger", "done"},
         numStructs' \in Nat, NothingLeft', CountIsRows',
         Published' /\ ~Published => i = Len(unnamedStructTypes),
         Published => Published'
  PROVE  IInv'
<1>1. /\ i' = i /\ rows' = rows /\ given' = given /\ logged' = logged /\ todo' = todo
      /\ structCount' = structCount /\ structNames' = structNames
      /\ structTypeToIndex' = structTypeToIndex /\ structNameToIndex' = structNameToIndex
      /\ unnamedStructTypes' = unnamedStructTypes
  BY DEF names
<1>2. TypeOK'
  BY <1>1 DEF IInv, TypeOK
<1>3. TypesNamed' /\ NamesIndexed' /\ GivenFit' /\ RowsRight' /\ UnnamedWritten'
  BY <1>1 DEF IInv, TypesNamed, NamesIndexed, GivenFit, RowsRight, UnnamedWritten, NameFits,
              HasRow
<1>4. NamesCounted'
  BY <1>1 DEF IInv, NamesCounted
<1>5. CASE Published
  <2>1. GivenHaveRows'
    BY <1>1, <1>5 DEF IInv, GivenHaveRows, Describes
  <2>2. QED
    BY <1>2, <1>3, <1>4, <2>1 DEF IInv
<1>6. CASE ~Published'
  BY <1>2, <1>3, <1>4, <1>6 DEF IInv, GivenHaveRows
<1>7. CASE Published' /\ ~Published
  <2>1. SUFFICES ASSUME NEW use \in given
                 PROVE  /\ \E k \in DOMAIN rows : rows[k].name = use.name
                        /\ \A k \in DOMAIN rows : rows[k].name = use.name => Describes(rows[k], use.of)
    BY <1>1, <1>2, <1>3, <1>4 DEF IInv, GivenHaveRows, Describes
  <2>2. use.of \in LlvmStructs /\ NameFits(use.of, use.name)
    BY <2>1 DEF IInv, TypeOK, Uses, GivenFit
  <2>3. TypeOK /\ RowsRight
    BY DEF IInv
  <2>4. \A k \in DOMAIN rows : rows[k].name = use.name => Describes(rows[k], use.of)
    BY <2>2, <2>3, RowsDescribe
  <2>5. ASSUME NEW n \in 1..Len(unnamedStructTypes),
               use.name = Unknown(n - 1), unnamedStructTypes[n] = use.of
        PROVE  HasRow(use.name)
    <3>1. i = Len(unnamedStructTypes) /\ i \in Nat
      BY <1>7 DEF IInv, TypeOK
    <3>2. PICK k \in DOMAIN rows : rows[k] = Row(Unknown(n - 1), Llvm(unnamedStructTypes[n]))
      BY <2>5, <3>1 DEF IInv, UnnamedWritten
    <3>3. QED
      BY <2>5, <3>2 DEF Row, HasRow
  <2>6. HasRow(use.name)
    BY <2>2, <2>5 DEF NameFits
  <2>7. QED
    BY <2>4, <2>6 DEF HasRow
<1>8. QED
  BY <1>5, <1>6, <1>7

LEMMA ProceedIInv == ASSUME IInv, Proceed PROVE IInv'
<1>1. /\ UNCHANGED <<i, names, rows, given, logged>> /\ todo' = todo /\ numStructs' = numStructs
      /\ unread' = unread /\ ~Published /\ ~Published'
      /\ phase' \in {"csv", "identified", "functions", "unnamed", "logger", "done"}
  BY DEF Proceed, Published
<1>2. NothingLeft' /\ CountIsRows'
  BY <1>1 DEF NothingLeft, CountIsRows
<1>3. unread' \subseteq LlvmStructs /\ numStructs' \in Nat
  BY <1>1 DEF IInv, TypeOK
<1>4. QED
  BY <1>1, <1>2, <1>3, SameTables

LEMMA PublishIInv == ASSUME IInv, Publish PROVE IInv'
<1>1. /\ UNCHANGED <<i, names, rows, given, logged>> /\ todo' = todo /\ unread' = unread
      /\ numStructs' = structCount /\ todo = <<>> /\ rows' = rows
      /\ ~Published /\ Published' /\ phase' = "logger" /\ ~UnnamedLeft
  BY DEF Publish, Published
<1>2. /\ structCount \in Nat /\ i \in Nat /\ Len(unnamedStructTypes) \in Nat
      /\ i <= Len(unnamedStructTypes) /\ Len(rows) \in Nat /\ unread' \subseteq LlvmStructs
  BY <1>1 DEF IInv, TypeOK
<1>3. i = Len(unnamedStructTypes)
  BY <1>1, <1>2 DEF UnnamedLeft
<1>4. structCount = Len(rows)
  BY <1>1, <1>2, <1>3 DEF IInv, NamesCounted
<1>5. NothingLeft' /\ CountIsRows'
  BY <1>1, <1>4 DEF NothingLeft, CountIsRows
<1>6. QED
  BY <1>1, <1>2, <1>3, <1>5, SameTables

LEMMA FinishIInv == ASSUME IInv, Finish PROVE IInv'
<1>1. /\ UNCHANGED <<i, names, rows, given, logged>> /\ todo' = todo /\ numStructs' = numStructs
      /\ unread' = unread /\ rows' = rows /\ Published /\ Published' /\ phase' = "done"
  BY DEF Finish, Published
<1>2. NothingLeft' /\ CountIsRows'
  BY <1>1 DEF IInv, NothingLeft, CountIsRows
<1>3. unread' \subseteq LlvmStructs /\ numStructs' \in Nat
  BY <1>1 DEF IInv, TypeOK
<1>4. QED
  BY <1>1, <1>2, <1>3, SameTables

LEMMA StutterIInv == ASSUME IInv, UNCHANGED vars PROVE IInv'
<1>1. /\ UNCHANGED <<i, names, rows, given, logged>> /\ todo' = todo /\ numStructs' = numStructs
      /\ unread' = unread /\ rows' = rows /\ phase' = phase
  BY DEF vars
<1>2. Published' = Published
  BY <1>1 DEF Published
<1>3. NothingLeft' /\ CountIsRows'
  BY <1>1, <1>2 DEF IInv, NothingLeft, CountIsRows
<1>4. /\ unread' \subseteq LlvmStructs /\ numStructs' \in Nat
      /\ phase' \in {"csv", "identified", "functions", "unnamed", "logger", "done"}
  BY <1>1 DEF IInv, TypeOK
<1>5. QED
  BY <1>1, <1>2, <1>3, <1>4, SameTables

LEMMA ReadIdentifiedIInv ==
  ASSUME IInv, NEW T \in LlvmStructs, ReadIdentified(T) PROVE IInv'
<1> DEFINE name == Known(NameOf[T])
<1>1. /\ ~Published /\ ~Published' /\ phase' = phase /\ i' = i /\ numStructs' = numStructs
      /\ given' = given /\ logged' = logged /\ unread' \subseteq LlvmStructs
  BY DEF IInv, TypeOK, Published, ReadIdentified
<1>2. NothingLeft' /\ CountIsRows'
  BY <1>1 DEF NothingLeft, CountIsRows
<1>3. CASE NameOf[T] = NoName
  <2>1. UNCHANGED <<todo, names, rows>>
    BY <1>3 DEF ReadIdentified
  <2>2. numStructs' \in Nat
        /\ phase' \in {"csv", "identified", "functions", "unnamed", "logger", "done"}
    BY <1>1 DEF IInv, TypeOK
  <2>3. QED
    BY <1>1, <1>2, <2>1, <2>2, SameTables
<1>4. CASE NameOf[T] # NoName /\ name \in DOMAIN structNameToIndex
  <2>1. /\ structTypeToIndex' = With(structTypeToIndex, T, structNameToIndex[name])
        /\ todo' = todo /\ structCount' = structCount /\ structNames' = structNames
        /\ structNameToIndex' = structNameToIndex /\ rows' = rows
        /\ unnamedStructTypes' = unnamedStructTypes
    BY <1>4 DEF ReadIdentified
  <2>2. /\ DOMAIN structTypeToIndex' = DOMAIN structTypeToIndex \cup {T}
        /\ structTypeToIndex'[T] = structNameToIndex[name]
        /\ \A S \in DOMAIN structTypeToIndex : S # T => structTypeToIndex'[S] = structTypeToIndex[S]
    BY <2>1 DEF With
  <2>3. structNames[structNameToIndex[name] + 1] = name /\ HasRow(name)
    <3>1. NameOf[T] \in StructNames
      BY <1>4, NamesAssumption
    <3>2. name.kind = "known"
      BY <3>1, NameKinds
    <3>3. QED
      BY <1>4, <3>2 DEF IInv, NamesIndexed
  <2>4. TypeOK'
    <3>1. structNameToIndex[name] \in 0..structCount - 1
      BY <1>4 DEF IInv, TypeOK
    <3>2. \A S \in DOMAIN structTypeToIndex' : structTypeToIndex'[S] \in 0..structCount' - 1
      BY <2>1, <2>2, <3>1 DEF IInv, TypeOK
    <3>3. DOMAIN structTypeToIndex' \subseteq LlvmStructs
      BY <2>2 DEF IInv, TypeOK
    <3>4. QED
      BY <1>1, <2>1, <3>2, <3>3 DEF IInv, TypeOK
  <2>5. TypesNamed'
    <3>1. NameFits(T, name)
      BY <1>4, <2>3 DEF NameFits
    <3>2. \A S, n : NameFits(S, n)' = NameFits(S, n)
      BY <2>1 DEF NameFits, HasRow
    <3>3. QED
      BY <2>1, <2>2, <2>3, <3>1, <3>2 DEF IInv, TypesNamed
  <2>6. NamesIndexed' /\ GivenFit' /\ RowsRight' /\ UnnamedWritten' /\ NamesCounted'
    BY <1>1, <2>1 DEF IInv, NamesIndexed, GivenFit, RowsRight, UnnamedWritten, NamesCounted,
                      NameFits, HasRow
  <2>7. QED
    BY <1>1, <1>2, <2>4, <2>5, <2>6 DEF IInv, GivenHaveRows
<1>5. CASE NameOf[T] # NoName /\ name \notin DOMAIN structNameToIndex
  <2>1. /\ Enter(Known(NameOf[T]), {T}) /\ todo' = Fields[T]
        /\ rows' = Append(rows, Row(Known(NameOf[T]), Llvm(T)))
        /\ unnamedStructTypes' = unnamedStructTypes
    BY <1>5 DEF ReadIdentified
  <2>2. NameOf[T] \in StructNames /\ todo' \in Seq(LlvmStructs)
    BY <1>5, <2>1, NamesAssumption, FieldsAssumption
  <2>3. Llvm(T) \in {Source} \cup [kind : {"llvm"}, type : LlvmStructs]
    BY DEF Llvm
  <2>4. /\ {T} \in SUBSET LlvmStructs /\ \A S \in {T} : NameOf[S] = NameOf[T]
        /\ \E S \in LlvmStructs : NameOf[S] = NameOf[T] /\ Llvm(T) = Llvm(S)
    OBVIOUS
  <2>5. UNCHANGED <<phase, i, unnamedStructTypes, numStructs, given, logged>>
    BY <1>1, <2>1
  <2>6. QED
    BY <1>1, <2>1, <2>2, <2>3, <2>4, <2>5, KnownIInv
<1>6. QED
  BY <1>3, <1>4, <1>5

LEMMA WriteUnnamedIInv == ASSUME IInv, WriteUnnamed PROVE IInv'
<1> DEFINE T == unnamedStructTypes[i + 1]
           new == Row(Unknown(i), Llvm(T))
           RowSet == [name : Names, of : {Source} \cup [kind : {"llvm"}, type : LlvmStructs]]
<1>1. /\ rows' = Append(rows, new) /\ todo' = Fields[T] /\ i' = i + 1 /\ UnnamedLeft
      /\ phase' = phase /\ unread' = unread /\ numStructs' = numStructs /\ given' = given
      /\ logged' = logged /\ ~Published /\ ~Published'
      /\ structCount' = structCount /\ structNames' = structNames
      /\ structTypeToIndex' = structTypeToIndex /\ structNameToIndex' = structNameToIndex
      /\ unnamedStructTypes' = unnamedStructTypes
  BY DEF WriteUnnamed, Published, names
<1>2. /\ i \in Nat /\ i + 1 \in 1..Len(unnamedStructTypes) /\ T \in LlvmStructs
      /\ Len(unnamedStructTypes) \in Nat
  BY <1>1 DEF IInv, TypeOK, UnnamedLeft
<1>3. rows \in Seq(RowSet) /\ new \in RowSet /\ Len(rows) \in Nat
  <2>1. Unknown(i) \in Names /\ Llvm(T) \in [kind : {"llvm"}, type : LlvmStructs]
    BY <1>2, NameKinds DEF Llvm
  <2>2. QED
    BY <2>1 DEF IInv, TypeOK, Row
<1>4. todo' \in Seq(LlvmStructs)
  BY <1>1, <1>2, FieldsAssumption
<1> HIDE DEF new, RowSet, T
<1>5. /\ rows' \in Seq(RowSet) /\ Len(rows') = Len(rows) + 1
      /\ DOMAIN rows = 1..Len(rows) /\ DOMAIN rows' = 1..Len(rows) + 1
      /\ \A k \in 1..Len(rows) : rows'[k] = rows[k]
      /\ rows'[Len(rows) + 1] = new
  BY <1>1, <1>3
<1>6. Grow
  BY <1>1, <1>5 DEF Grow
<1>7. TypeOK'
  <2>1. i' \in 0..Len(unnamedStructTypes') /\ rows' \in Seq(RowSet)
    BY <1>1, <1>2, <1>5
  <2>2. QED
    BY <1>1, <1>4, <2>1 DEF IInv, TypeOK, RowSet
<1>8. TypesNamed' /\ NamesIndexed' /\ GivenFit'
  BY <1>1, <1>6, FitsStay DEF IInv, TypesNamed, NamesIndexed, GivenFit
<1>9. new = Row(Unknown((i + 1) - 1), Llvm(unnamedStructTypes[i + 1]))
  <2>1. (i + 1) - 1 = i
    BY <1>2
  <2>2. QED
    BY <2>1 DEF new, T
<1>10. \A n \in 1..i + 1 : n \in 1..i \/ n = i + 1
  BY <1>2
<1>11. RowsRight'
  <2>1. SUFFICES ASSUME NEW k \in DOMAIN rows'
        PROVE \/ /\ rows'[k].name \in [kind : {"known"}, id : StructNames]
                 /\ \/ rows'[k].of = Source
                    \/ \E S \in LlvmStructs : NameOf[S] = rows'[k].name.id /\ rows'[k].of = Llvm(S)
              \/ \E n \in 1..i + 1 : rows'[k] = Row(Unknown(n - 1), Llvm(unnamedStructTypes[n]))
    BY <1>1 DEF RowsRight
  <2>2. CASE k \in 1..Len(rows)
    <3>1. \A n \in 1..i : n \in 1..i + 1
      BY <1>2
    <3>2. QED
      BY <1>5, <2>2, <3>1 DEF IInv, RowsRight
  <2>3. CASE k = Len(rows) + 1
    <3>1. i + 1 \in 1..i + 1 /\ rows'[k] = new
      BY <1>2, <1>5, <2>3
    <3>2. QED
      BY <1>9, <3>1
  <2>4. QED
    BY <1>3, <1>5, <2>1, <2>2, <2>3
<1>12. UnnamedWritten'
  <2>1. ASSUME NEW n \in 1..i + 1
        PROVE  \E k \in DOMAIN rows' : rows'[k] = Row(Unknown(n - 1), Llvm(unnamedStructTypes[n]))
    <3>1. CASE n \in 1..i
      BY <1>6, <3>1 DEF IInv, UnnamedWritten, Grow
    <3>2. CASE n = i + 1
      <4>1. Len(rows) + 1 \in DOMAIN rows'
        BY <1>3, <1>5
      <4>2. QED
        BY <1>5, <1>9, <3>2, <4>1
    <3>3. QED
      BY <1>10, <3>1, <3>2
  <2>2. QED
    BY <1>1, <2>1 DEF UnnamedWritten
<1>13. NamesCounted'
  <2>1. Len(rows) + Len(unnamedStructTypes) = structCount + i /\ structCount \in Nat
    BY <1>1 DEF IInv, NamesCounted, TypeOK
  <2>2. Len(rows') + Len(unnamedStructTypes) = structCount + (i + 1)
    BY <1>2, <1>3, <1>5, <2>1
  <2>3. QED
    BY <1>1, <2>2 DEF NamesCounted
<1>14. NothingLeft' /\ CountIsRows' /\ GivenHaveRows'
  BY <1>1 DEF NothingLeft, CountIsRows, GivenHaveRows
<1>15. QED
  BY <1>7, <1>8, <1>11, <1>12, <1>13, <1>14 DEF IInv

LEMMA NextIInv == IInv /\ [Next]_vars => IInv'
<1> SUFFICES ASSUME IInv, [Next]_vars PROVE IInv'
  OBVIOUS
<1>1. ASSUME NEW id \in StructNames, ReadTypeDefsCsv(id) PROVE IInv'
  BY <1>1, ReadTypeDefsCsvIInv
<1>2. ASSUME NEW T \in LlvmStructs, ReadIdentified(T) PROVE IInv'
  BY <1>2, ReadIdentifiedIInv
<1>3. ASSUME NEW T \in LlvmStructs, RunFunction(T) PROVE IInv'
  BY <1>3, RunFunctionIInv
<1>4. ASSUME NEW T \in LlvmStructs, LogVariadic(T) PROVE IInv'
  BY <1>4, LogVariadicIInv
<1>5. CASE NameField
  BY <1>5, NameFieldIInv
<1>6. CASE WriteUnnamed
  BY <1>6, WriteUnnamedIInv
<1>7. CASE Publish
  BY <1>7, PublishIInv
<1>8. CASE Proceed
  BY <1>8, ProceedIInv
<1>9. CASE Finish
  BY <1>9, FinishIInv
<1>10. CASE UNCHANGED vars
  BY <1>10, StutterIInv
<1>11. QED
  BY <1>1, <1>2, <1>3, <1>4, <1>5, <1>6, <1>7, <1>8, <1>9, <1>10 DEF Next, Done

LEMMA Invariance == Spec => []IInv
BY InitIInv, NextIInv, PTL DEF Spec

-----------------------------------------------------------------------------
(* The theorems. *)

\* The maps of basicGetTypeAsString lead to names that exist.
THEOREM TypeCorrect == Spec => []TypeOK
<1>1. IInv => TypeOK
  BY DEF IInv
<1>2. QED
  BY <1>1, Invariance, PTL

\* numStructs is the number of rows, whatever the file, the types and their order.
THEOREM RowsCounted == Spec => []CountIsRows
<1>1. IInv => CountIsRows
  BY DEF IInv
<1>2. QED
  BY <1>1, Invariance, PTL

\* Every name given before the tables were published leads to rows of the type it was
\* given for, and to at least one.
THEOREM NamesLead == Spec => []GivenHaveRows
<1>1. IInv => GivenHaveRows
  BY DEF IInv
<1>2. QED
  BY <1>1, Invariance, PTL

\* What a variadic call is given a name for is never described by another type's row
\* (LoggedNotMisled): the list of unnamed types that numbers the names goes on growing.
THEOREM LateNamesHonest == Spec => []LoggedNotMisled
<1>1. ASSUME IInv, NEW use \in logged, NEW k \in DOMAIN rows, rows[k].name = use.name
      PROVE  Describes(rows[k], use.of)
  <2>1. use.of \in LlvmStructs /\ NameFits(use.of, use.name) /\ TypeOK /\ RowsRight
    BY <1>1 DEF IInv, TypeOK, Uses, GivenFit
  <2>2. QED
    BY <1>1, <2>1, RowsDescribe
<1>2. IInv => LoggedNotMisled
  BY <1>1 DEF LoggedNotMisled
<1>3. QED
  BY <1>2, Invariance, PTL
=============================================================================
