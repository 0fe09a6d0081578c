------------------------- MODULE MCPointerInference -------------------------
(***************************************************************************)
(* Modules for PointerInference.  Function f has a parameter p, its alloca *)
(* a, and the pointer l that is loaded from a, or is a phi or element of   *)
(* one of the others; function g has a parameter q.  A module is a list of *)
(* instructions, and a value's users are those that have it as an operand, *)
(* in the order of the list.                                               *)
(***************************************************************************)
EXTENDS PointerInference

MCValues == {"p", "a", "l", "q"}

\* An instruction: what it is to each of its operands.
I(operands) == operands

Instructions ==
     {I([v \in {w} |-> Typed("int")]) : w \in MCValues}
  \cup {I([v \in {w} |-> Called]) : w \in {"l", "q"}}
  \cup {I([v \in {"a"} |-> Load("l")]), I([v \in {"p"} |-> Same("l")])}
  \cup {I([v \in {x, y} |-> IF v = x THEN Store(y) ELSE Stored(x)]) :
          x \in {"p", "l"}, y \in {"a"}}
  \cup {I([v \in {x, "p"} |-> IF v = x THEN Store("p") ELSE Stored(x)]) : x \in {"a", "l"}}
  \cup {I([v \in {x} |-> Call("f", "g", "q")]) : x \in {"p", "l"}}
  \cup {I([v \in {"p"} |-> Call("f", "f", "p")]), I([v \in {"q"} |-> Call("g", "f", "p")])}

UsersOf(list) ==
  [v \in MCValues |->
     LET uses == SelectSeq(list, LAMBDA i : v \in DOMAIN i)
     IN  [k \in DOMAIN uses |-> uses[k][v]]]

\* Every list of three different instructions.
Short == {UsersOf(list) : list \in {s \in [1..3 -> Instructions] : IsInjective(s)}}

\* A parameter in its alloca, as it is compiled without optimisation, in every order
\* of the users; l is also passed on, and stored again.
Unoptimised ==
  {UsersOf(list) :
     list \in SetToSeqs({I([v \in {"p", "a"} |-> IF v = "p" THEN Store("a") ELSE Stored("p")]),
                         I([v \in {"a"} |-> Load("l")]),
                         I([v \in {"l"} |-> Typed("int")]),
                         I([v \in {"l"} |-> Call("f", "g", "q")]),
                         I([v \in {"l", "a"} |-> IF v = "l" THEN Store("a") ELSE Stored("l")])})}

MCPrograms == Short \cup Unoptimised
=============================================================================
