----------------------------- MODULE MCPrompts ------------------------------
(***************************************************************************)
(* Instances of Prompts: all programs with two structs that may contain or *)
(* point to each other and to themselves, and one program with the other   *)
(* kinds of types.                                                         *)
(***************************************************************************)
EXTENDS Prompts

MCTypes == {Scalar, Bool, String, Unknown, Enum(1), Struct(1), Struct(2), Union(1),
            Pointer(Struct(1)), Pointer(Struct(2)), Array(Scalar, 2),
            Pointer(Array(Scalar, 2)), Pointer(Union(1))}

Function(params)   == [params |-> params, isVariadic |-> FALSE]
Variadic(params)   == [params |-> params, isVariadic |-> TRUE]

\* Struct 1 has one field or two, struct 2 has or points to a struct 1.
Cyclic ==
  LET fields == {Scalar, Unknown, Pointer(Struct(1)), Pointer(Struct(2))}
  IN  {[structs   |-> <<fields1, fields2>>,
        unions    |-> << <<Scalar>> >>,
        functions |-> <<Function(<<Struct(2)>>)>>] :
         fields1 \in [1..1 -> fields] \cup [1..2 -> fields],
         fields2 \in [1..1 -> {Struct(1), Pointer(Struct(1))}]}

\* One function with every other kind of type, and one that cannot be called.
OtherKinds ==
  [structs   |-> << <<Scalar>>, <<Scalar>> >>,
   unions    |-> << <<Scalar, String>> >>,
   functions |-> <<Function(<<Pointer(Union(1)), Enum(1), Pointer(Array(Scalar, 2))>>),
                   Function(<<Array(Scalar, 2), Bool, String>>),
                   Variadic(<<String>>)>>]

\* One enum, with more values than the union has fields.
MCEnumNumValues == <<3>>

MCPrograms == Cyclic \cup {OtherKinds}
=============================================================================
