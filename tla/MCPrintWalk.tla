---------------------------- MODULE MCPrintWalk -----------------------------
(***************************************************************************)
(* Two objects that may point to each other, to themselves or to nothing:  *)
(* a list node whose string comes first, and a tree node whose string lies *)
(* between its pointers.                                                   *)
(***************************************************************************)
EXTENDS PrintWalk

CONSTANTS list, tree

MCObjects == {list, tree}
MCFields == [x \in MCObjects |-> IF x = list THEN <<"str", "ptr", "ptr">>
                                             ELSE <<"ptr", "str", "ptr">>]
=============================================================================
