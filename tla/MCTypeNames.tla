---------------------------- MODULE MCTypeNames ----------------------------
(***************************************************************************)
(* Instances of TypeNames: two names, the types that are spelled with up   *)
(* to three suffixes in C and C++, and definitions of every form.          *)
(***************************************************************************)
EXTENDS TypeNames

T(leaf, suffixes) == Source(leaf, suffixes)

MCNames == {"A", "B"}

\* The const of a pointer stands behind a pointer, and behind an array only arrays.
Spelled(suffixes) ==
  \A k \in DOMAIN suffixes :
    /\ suffixes[k] \in {"const", "const *"} => k > 1 /\ suffixes[k - 1] \in {"*", "const *"}
    /\ k > 1 /\ suffixes[k - 1] \in {"const", "[n]", "[]"} => suffixes[k] \in {"[n]"}
    /\ suffixes[k] = "[]" => k = 1 \/ suffixes[k - 1] \notin {"[n]", "[]"}
    /\ k > 1 => suffixes[k - 1] # "&&"
MCSourceTypes ==
  {T(leaf, suffixes) : leaf \in {"A", "int", Bracketed},
                       suffixes \in {s \in UNION {[1..n -> Behind] : n \in 0..2} : Spelled(s)}}
    \cup {T("A", <<"*", "const", "[n]">>), T("A", <<"*", "*", "const *">>), T("A", <<"[n]", "[n]", "[n]">>),
          T("void", <<"*">>), T("void", <<"*", "const *">>), T("B", <<>>), T("B", <<"*">>)}

FieldTypes(other) ==
  {T("int", <<"*", "const">>), T("int", <<"[]">>), T(Bracketed, <<>>), T(other, <<"*">>), T(other, <<"[n]">>)}
Definition(name, form, fields) == [name |-> name, form |-> form, top |-> TRUE, fields |-> fields]
DefinitionsOf(name, other) ==
  {Definition(name, "struct", <<t>>) : t \in FieldTypes(other)}
  \cup {Definition(name, "struct", <<T(name, <<"*">>), T(other, <<>>)>>)}
  \cup {Definition(name, form, <<T(other, <<>>), T("int", <<>>)>>) : form \in {"union", "typedef union"}}
  \cup {Definition(name, "enum", <<T("int", <<>>)>>), Definition(name, "class", <<>>)}
MCDeclarations == DefinitionsOf("A", "B") \cup DefinitionsOf("B", "A")
  \cup {[Definition("A", "class", <<T("int", <<>>)>>) EXCEPT !.top = FALSE]}

MCFunctions ==
  {[types |-> <<T("A", <<>>)>>, this |-> {}],
   [types |-> <<T("A", <<"*">>), T("A", <<"*">>)>>, this |-> {"A"}],
   [types |-> <<T("A", <<>>)>>, this |-> {"B"}],
   [types |-> <<T("B", <<"&&">>)>>, this |-> {}]}
=============================================================================
