---------------------------- MODULE MCTypeTables ----------------------------
(***************************************************************************)
(* An instance of TypeTables: struct.Outer has a struct.Inner and a class, *)
(* which has a literal struct, as has Inner.  Outer and Inner may each be  *)
(* in typedefs.csv or not, once or twice, and be read before or after the  *)
(* other.                                                                  *)
(***************************************************************************)
EXTENDS TypeTables

MCLlvmStructs == {"struct.Outer", "struct.Inner", "class.C", "literal"}

MCNameOf == [T \in MCLlvmStructs |->
  CASE T = "struct.Outer" -> "Outer"
    [] T = "struct.Inner" -> "Inner"
    [] OTHER              -> "none"]

MCFields == [T \in MCLlvmStructs |->
  CASE T = "struct.Outer" -> <<"struct.Inner", "class.C">>
    [] T = "struct.Inner" -> <<"literal">>
    [] T = "class.C"      -> <<"literal">>
    [] OTHER              -> <<>>]
=============================================================================
