----------------------------- MODULE TypeNames -----------------------------
(***************************************************************************)
(* The clang plugins: how a type of the source gets the name that the csv  *)
(* files, the passes and the controllers know it by (clangHelpers.cpp),    *)
(* which definitions save-typedefs records as rows of typedefs.csv         *)
(* (saveTypedefs.cpp), and which functions save-func-parms records with    *)
(* the names it then knows (saveFuncParms.cpp).                            *)
(*                                                                         *)
(* For each source file the Makefile runs the one plugin and then the      *)
(* other, each as a process of its own; both append to their file.  What a *)
(* name stands for is found out much later, by the first row that has it.  *)
(***************************************************************************)
EXTENDS Integers, Sequences, SequencesExt

CONSTANTS
  Names,          \* names of structs, classes, unions and enums, namespaces included
  Declarations,   \* the definitions source files may have
  Functions,      \* the functions they may have: the types of what they return and take
  SourceTypes,    \* types
  MaxFiles,       \* bound: source files
  MaxPerFile      \* bound: definitions of a file

VARIABLES
  file,        \* how many files there were, with the one at hand
  plugin,      \* the plugin that runs
  declared,    \* the definitions of this file so far, in their order
  known,       \* knownEnums, knownStructs, knownUnions and knownClasses
  rows,        \* typedefs.csv
  handled,     \* the functions handled in this process
  signatures   \* functionParams.csv, from this file: functions and the names of their types

vars == <<file, plugin, declared, known, rows, handled, signatures>>

-----------------------------------------------------------------------------
(* Types and their names. *)

\* A type of the source, as clang spells it: a leaf and what is written behind it.
\* The leaf is a scalar, void, one of Names, or something with brackets or commas in it.
\* Behind it stand pointers and references, the const of a pointer, and arrays.
Source(leaf, suffixes) == [leaf |-> leaf, suffixes |-> suffixes]
Behind == {"*", "&&", "const", "const *", "[n]", "[]"}
Bracketed == "f(...)"

IsSource(T) ==
  /\ T.suffixes \in Seq(Behind)
  /\ T.leaf \notin {"unknown", "unknown.", "unknown[]"}
  /\ \A k \in DOMAIN T.suffixes :
       T.suffixes[k] \in {"const", "const *"} => k > 1 /\ T.suffixes[k - 1] \in {"*", "const *"}

\* No name is a keyword, and none begins with unknown.
ASSUME NamesAssumption ==
  Names \cap {"void", "unknown", "unknown.", "unknown[]", Bracketed} = {}
ASSUME SourcesAssumption ==
  /\ \A T \in SourceTypes : IsSource(T)
  /\ \A d \in Declarations : /\ d.name \in Names
                             /\ \A k \in DOMAIN d.fields : IsSource(d.fields[k])
  /\ \A f \in Functions : \A k \in DOMAIN f.types : IsSource(f.types[k])

\* A name in a csv file.
Named(leaf, suffixes) == [leaf |-> leaf, suffixes |-> suffixes]
Refused == Named("unknown", <<>>)      \* spelled with brackets or commas
Unknown == Named("unknown.", <<>>)     \* followed by the spelling
Unsized == Named("unknown[]", <<>>)
VoidPtr == Named("void", <<"*">>)

\* starts_with("unknown")
IsUnknown(N) == N \in {Refused, Unknown, Unsized}

With(N, suffix) == Named(N.leaf, Append(N.suffixes, suffix))

\* Mutant: a && is taken off and nothing put in its place.
Suffixed_DropsRef(N, suffix) ==
  CASE suffix = "const" -> Unknown
    [] suffix = "[]"    -> Unsized
    [] suffix = "*"     -> IF IsUnknown(N) THEN VoidPtr ELSE With(N, "*")
    [] suffix = "&&"    -> N
    [] OTHER            -> IF IsUnknown(N) THEN N ELSE With(N, IF suffix = "[n]" THEN "[n]" ELSE "*")
\* What the name of a type becomes with something behind it.
Suffixed(N, suffix) ==
  CASE suffix = "const" -> Unknown
    [] suffix = "[]"    -> Unsized
    [] suffix = "*"     -> IF IsUnknown(N) THEN VoidPtr ELSE With(N, "*")
    [] OTHER            -> IF IsUnknown(N) THEN N ELSE With(N, IF suffix = "[n]" THEN "[n]" ELSE "*")

\* Of the keywords before a name, union is not taken off.
IsNamedUnion(name) == \E k \in DOMAIN declared : declared[k].name = name /\ declared[k].form = "union"

KnownIn(names, name) ==
  /\ name \in names.enums \cup names.structs \cup names.unions \cup names.classes
  /\ ~IsNamedUnion(name)

NamedLeaf(names, leaf) ==
  IF leaf \in Names /\ ~KnownIn(names, leaf) THEN Unknown ELSE Named(leaf, <<>>)

\* fixTypeName with these names known: the suffixes are taken off from behind.
FixTypeName(names, T) ==
  LET named[k \in 0..Len(T.suffixes)] ==   \* with k suffixes
        IF k = 0 THEN NamedLeaf(names, T.leaf) ELSE Suffixed(named[k - 1], T.suffixes[k])
  IN  IF T.leaf = Bracketed THEN Refused ELSE named[Len(T.suffixes)]

\* The type contains a value of its leaf.
ByValue(T) == \A k \in DOMAIN T.suffixes : T.suffixes[k] \in {"[n]", "[]"}

-----------------------------------------------------------------------------
(* save-typedefs. *)

NoNames == [enums |-> {}, structs |-> {}, unions |-> {}, classes |-> {}]
Row(kind, d, names) ==
  [kind |-> kind, name |-> d.name, fields |-> [k \in DOMAIN d.fields |-> FixTypeName(names, d.fields[k])]]

\* The source is C or C++: no name is defined twice in a file, and what a field contains
\* is defined before.
Compiles(d) ==
  /\ \A k \in DOMAIN declared : declared[k].name # d.name
  /\ \A k \in DOMAIN d.fields :
       d.fields[k].leaf \in Names /\ ByValue(d.fields[k])
         => \E j \in DOMAIN declared : declared[j].name = d.fields[k].leaf

\* A definition of the file, whatever the plugin makes of it.
Read(d) ==
  /\ plugin = "save-typedefs"
  /\ Len(declared) < MaxPerFile
  /\ Compiles(d)
  /\ declared' = Append(declared, d)
  /\ UNCHANGED <<file, plugin, handled, signatures>>

\* What is not at the top level of the file, or has no fields.
Ignored(d) ==
  /\ ~d.top \/ d.fields = <<>>
  /\ UNCHANGED <<known, rows>>

\* No row for structs with types that cannot be spelled.
Recordable(d) == \A k \in DOMAIN d.fields : FixTypeName(known, d.fields[k]) # Refused

HandleEnumDecl(d) ==
  /\ d.top /\ d.fields # <<>> /\ d.form = "enum"
  /\ known' = [known EXCEPT !.enums = @ \cup {d.name}]
  /\ rows' = Append(rows, Row("enum", d, known'))

\* Mutant: a struct is known before its fields were looked at.
HandleStructDecl_KnownFirst(d) ==
  /\ d.top /\ d.fields # <<>> /\ d.form \in {"struct", "class", "union"}
  /\ known' = [known EXCEPT !.structs = @ \cup {d.name}]
  /\ rows' = IF Recordable(d) THEN Append(rows, Row("struct", d, known')) ELSE rows
\* Structs, classes and, being records as well, unions that have a name.
HandleStructDecl(d) ==
  /\ d.top /\ d.fields # <<>> /\ d.form \in {"struct", "class", "union"}
  /\ IF Recordable(d)
       THEN /\ known' = [known EXCEPT !.structs = @ \cup {d.name}]
            /\ rows' = Append(rows, Row("struct", d, known'))
       ELSE UNCHANGED <<known, rows>>

\* Mutant: the union does not become known.
HandleUnionDecl_NotKnown(d) ==
  /\ d.top /\ d.fields # <<>> /\ d.form = "typedef union"
  /\ rows' = Append(rows, Row("union", d, known))
  /\ UNCHANGED known
\* Unions without a name, in a typedef.
HandleUnionDecl(d) ==
  /\ d.top /\ d.fields # <<>> /\ d.form = "typedef union"
  /\ known' = [known EXCEPT !.unions = @ \cup {d.name}]
  /\ rows' = Append(rows, Row("union", d, known'))

HandleDecl(d) ==
  Read(d) /\ (Ignored(d) \/ HandleEnumDecl(d) \/ HandleStructDecl(d) \/ HandleUnionDecl(d))

-----------------------------------------------------------------------------
(* save-func-parms. *)

NamesOf(kind) == {rows[k].name : k \in {j \in DOMAIN rows : rows[j].kind = kind}}

\* The table a controller finds a name in: the enums first, then structs and unions, and
\* there the first row.
Lookup(name) ==
  LET of(kind) == {k \in DOMAIN rows : rows[k].name = name /\ rows[k].kind = kind}
      found == IF of("enum") # {} THEN of("enum") ELSE IF of("struct") # {} THEN of("struct")
               ELSE of("union")
  IN  {k \in found : \A j \in found : k <= j}

\* Mutant: the rows are not read.
TypeDefs_NotRead == NoNames
\* The names of all rows, also of those from other files.
TypeDefs == [enums |-> NamesOf("enum"), structs |-> NamesOf("struct"),
             unions |-> NamesOf("union"), classes |-> {}]

ReadTypeDefs ==
  /\ plugin = "save-typedefs"
  /\ plugin' = "save-func-parms"
  /\ known' = TypeDefs
  /\ handled' = {}
  /\ UNCHANGED <<file, declared, rows, signatures>>

IsRecorded(f) == \A k \in DOMAIN f.types : ~IsUnknown(FixTypeName(known, f.types[k]))

\* The class of a method that is not const, in f.this, unless it is a struct.
ClassesOf(f) ==
  {name \in f.this : \E k \in DOMAIN declared : declared[k].name = name /\ declared[k].form = "class"}

\* The functions are handled in the destructor, those at the top level in their order and
\* then all of them as they lie in a set of pointers.  A method makes its class known,
\* but the type it returns has its name by then.
HandleFunctionDecl(f) ==
  /\ plugin = "save-func-parms"
  /\ \A name \in Names \cap (f.this \cup {f.types[k].leaf : k \in DOMAIN f.types}) :
       \E j \in DOMAIN declared : declared[j].name = name
  /\ handled' = handled \cup {f}
  /\ IF IsRecorded(f)
       THEN /\ known' = [known EXCEPT !.classes = @ \cup ClassesOf(f)]
            /\ LET names(k) == IF k = 1 THEN known ELSE known'
               IN  signatures' = signatures \cup
                     {[of |-> f, types |-> [k \in DOMAIN f.types |-> FixTypeName(names(k), f.types[k])]]}
       ELSE UNCHANGED <<known, signatures>>
  /\ UNCHANGED <<file, plugin, declared, rows>>

NextFile ==
  /\ plugin = "save-func-parms"
  /\ file < MaxFiles
  /\ file' = file + 1
  /\ plugin' = "save-typedefs"
  /\ declared' = <<>> /\ known' = NoNames /\ handled' = {} /\ signatures' = {}
  /\ UNCHANGED rows

Init ==
  /\ file = 1 /\ plugin = "save-typedefs"
  /\ declared = <<>> /\ known = NoNames /\ rows = <<>>
  /\ handled = {} /\ signatures = {}

Next ==
  \/ \E d \in Declarations : HandleDecl(d)
  \/ \E f \in Functions : HandleFunctionDecl(f)
  \/ ReadTypeDefs
  \/ NextFile

Spec == Init /\ [][Next]_vars

-----------------------------------------------------------------------------
(* Properties. *)

\* Each name that is written down can be looked up: a field's from the row on that names
\* it, and that of a function's parameter unless it is a class known from its methods alone.
NamesHaveRows ==
  /\ \A k \in DOMAIN rows : \A j \in DOMAIN rows[k].fields :
       rows[k].fields[j].leaf \in Names => \E i \in 1..k : rows[i].name = rows[k].fields[j].leaf
  /\ \A s \in signatures : \A k \in DOMAIN s.types :
       s.types[k].leaf \in Names => \/ \E i \in DOMAIN rows : rows[i].name = s.types[k].leaf
                                    \/ \E t \in signatures : s.types[k].leaf \in t.of.this

\* The length of a type can be worked out: though the rows come from files that may define
\* a name differently, or not record it, a name does not contain itself by way of the rows
\* the controllers look up, if it has the same kind in all of them.
OneKind == \A j, k \in DOMAIN rows : rows[j].name = rows[k].name => rows[j].kind = rows[k].kind
NestingEnds ==
  OneKind => \A S \in (SUBSET Names) \ {{}} : \E name \in S :
               \A k \in Lookup(name) : \A j \in DOMAIN rows[k].fields :
                 ByValue(rows[k].fields[j]) => rows[k].fields[j].leaf \notin S

\* A name says what the type is, or nothing: it has the leaf, pointers and dimensions of the
\* source, where a part that is only pointed to may have become void.
WithPlain(suffixes, x) ==
  CASE x = "const"         -> suffixes
    [] x \in {"[n]", "[]"} -> Append(suffixes, x)
    [] OTHER               -> Append(suffixes, "*")
Plain(suffixes) ==
  LET plain[k \in 0..Len(suffixes)] ==
        IF k = 0 THEN <<>> ELSE WithPlain(plain[k - 1], suffixes[k])
  IN  plain[Len(suffixes)]
Denotes(N, T) ==
  \/ N.leaf = T.leaf /\ N.suffixes = Plain(T.suffixes)
  \/ /\ N.leaf = "void" /\ N.suffixes # <<>> /\ N.suffixes[1] = "*"
     /\ IsSuffix(N.suffixes, Plain(T.suffixes))
HonestNames ==
  \A T \in SourceTypes : LET N == FixTypeName(known, T) IN IsUnknown(N) \/ Denotes(N, T)

\* What can be named is named: a value of a type that the file defines at its top level, with
\* nothing in it that cannot be spelled, is called by its name in both files from then on,
\* unless the type is a union that was defined by a name.
Spellable(d) ==
  /\ d.top /\ d.fields # <<>> /\ d.form # "union"
  /\ d.form \in {"struct", "class"} => \A k \in DOMAIN d.fields : d.fields[k].leaf # Bracketed
DefinedAreNamed ==
  \A k \in DOMAIN declared : \A T \in SourceTypes :
    /\ Spellable(declared[k])
    /\ T.leaf = declared[k].name /\ ByValue(T) /\ ~Contains(T.suffixes, "[]")
    => FixTypeName(known, T) = Named(T.leaf, T.suffixes)

\* The order in which the functions are handled, which is that of addresses, decides only on
\* functions that take a class by value or by && which has no row: a function that was handled
\* and has no row takes such a class, or has a type that would not be known in any order.
IsPointer(T) == \E k \in DOMAIN T.suffixes : T.suffixes[k] \notin {"[n]", "[]", "&&"}
OrderMattersForClassesOnly ==
  \A f \in handled :
    \/ \E s \in signatures : s.of = f
    \/ \E k \in DOMAIN f.types :
         LET names == [NoNames EXCEPT !.structs = {rows[j].name : j \in DOMAIN rows},
                                      !.classes = UNION {ClassesOf(g) : g \in Functions}]
         IN  \/ IsUnknown(FixTypeName(names, f.types[k]))
             \/ f.types[k].leaf \in names.classes /\ ~IsPointer(f.types[k])

\* log.md, Aug 15th: "added actual support for unions within the code and printing of them in
\* debug mode": what a row of the file at hand says of a union is that it is one.
UnionsAreUnions ==
  \A k \in DOMAIN declared :
    declared[k].form = "union" => \A j \in DOMAIN rows :
      rows[j].name = declared[k].name => rows[j].kind # "struct"
=============================================================================
