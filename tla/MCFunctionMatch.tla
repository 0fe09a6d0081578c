-------------------------- MODULE MCFunctionMatch ---------------------------
(***************************************************************************)
(* An instance of FunctionMatch: two enums of the integer's type, of which *)
(* the name of one is part of the name of the other.                       *)
(***************************************************************************)
EXTENDS FunctionMatch

MCEnums     == {"Mode", "ModeFlags"}
MCEnumTypes == [e \in MCEnums |-> "int"]
MCSpoils    == {<<"Mode", "ModeFlags">>}
=============================================================================
