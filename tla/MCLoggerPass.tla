---------------------------- MODULE MCLoggerPass ----------------------------
(***************************************************************************)
(* Targets for LoggerPass: a function f, main, the variadic declaration x, *)
(* and a function w whose own name ends with "_wrapper".  f and main call  *)
(* each other, themselves and the others in every way: by name, through a  *)
(* pointer, with a landing pad, and with f among the arguments.            *)
(***************************************************************************)
EXTENDS LoggerPass

MCFuncNames == 1..5
MCMain == 2
MCOldMain == 3

x == 1
f == 2
main == 3
w == 4

\* What one block of f or main does.
OneCall ==
       {Call("call", 1, to, TRUE, <<>>) : to \in {f, main, x, w}}
  \cup {Call("invoke", 1, to, TRUE, <<>>) : to \in {f, x}}
  \cup {Call("call", 1, f, FALSE, <<>>),
        Call("call", 1, x, TRUE, <<f>>), Call("call", 1, f, TRUE, <<f>>)}
Blocks == {<<c>> : c \in OneCall}
            \cup {<<Call("call", 1, f, TRUE, <<>>), Call("call", 2, to, TRUE, <<>>)>> : to \in {f, x}}

\* f begins with a block that calls nothing, so that it may return without a call.
Program(ofMain, ofF, ofW) ==
  <<Func(4, FALSE, TRUE, <<>>), Func(1, FALSE, FALSE, <<<<>>, ofF>>),
    Func(MCMain, FALSE, FALSE, ofMain), Func(5, TRUE, FALSE, <<ofW>>)>>

MCTargets ==
       {Program(<<b>>, c, <<Call("call", 1, f, TRUE, <<>>)>>) : b \in Blocks, c \in Blocks}
  \cup {Program(<<<<Call("invoke", 1, f, TRUE, <<>>)>>, b>>, c, <<>>) : b \in Blocks, c \in Blocks}
=============================================================================
