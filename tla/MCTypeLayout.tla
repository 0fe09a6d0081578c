---------------------------- MODULE MCTypeLayout ----------------------------
(***************************************************************************)
(* Types for model checking: one scalar of each size that matters to       *)
(* alignment, bool because LLVM gives it one bit.                          *)
(***************************************************************************)
EXTENDS TypeLayout

Scalars == {Scalar("bool"), Scalar("int"), Scalar("double")}

MCBaseTypes == Scalars \cup {Ptr, Enum("int"), Array(Scalar("int"), 3)}

\* Three definitions, of which one may be a union.
MCUnionTypes == {Scalar("int"), Scalar("double")}
=============================================================================
