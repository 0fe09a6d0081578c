---------------------------- MODULE CallBrackets ----------------------------
(***************************************************************************)
(* What the call log promises, whatever the target does with exceptions,   *)
(* longjmp and signals: the lines "was called" and "returned" / "should    *)
(* have returned" nest like brackets, and no closing line ever closes a    *)
(* call that is still in progress, except the one that returns.  Which of  *)
(* the dead brackets a return closes is left open: the log decides that by *)
(* comparing names, and may leave some for later.                          *)
(*                                                                         *)
(* A second return of a call (setjmp) takes all this back for the calls    *)
(* then in progress, but not for those made later.                         *)
(***************************************************************************)
EXTENDS Integers

VARIABLES
  depth,    \* the number of open brackets
  live,     \* those of them, from 1 up, whose calls are in progress and have
            \* seen no second return
  unpaired  \* some call has returned a second time

vars == <<depth, live, unpaired>>

Init == depth = 0 /\ live = {} /\ unpaired = FALSE

\* A call is logged.
Open == depth' = depth + 1 /\ live' = live \cup {depth + 1}

\* Calls are abandoned without a word to the log.
Abandon == depth' = depth /\ live' \subseteq live

\* The innermost call in progress, the m-th bracket, returns: at least one
\* bracket is closed, from the top, none of them that of a caller.
Close ==
  \E m \in live :
    /\ \A j \in live : j <= m
    /\ depth' \in m-1..depth-1
    /\ live' = live \ {m}

\* The final report closes whatever is left, nothing of it in progress.
CloseAll == live = {} /\ depth' = 0 /\ live' = {}

Nested == unpaired' = unpaired /\ (Open \/ Abandon \/ Close \/ CloseAll)

\* A second return, or later the return of a call that was in progress then: any
\* brackets may be closed, and none that is left is known to be in progress.
ReturnAgain == unpaired' = TRUE /\ live' = {} /\ depth' \in 0..depth

Next == Nested \/ ReturnAgain

Spec == Init /\ [][Next]_vars
=============================================================================
