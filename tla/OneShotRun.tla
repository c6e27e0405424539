----------------------------- MODULE OneShotRun -----------------------------
(***************************************************************************)
(* What a concurrent computation promises that says it returns what a      *)
(* sequential one would: it returns once, and what it returns is a         *)
(* function of its input.                                                  *)
(***************************************************************************)
CONSTANTS
    Inputs,        \* what it may be called with
    Reference(_),  \* what it has to return for each input
    Nothing        \* the result before it returns

VARIABLES input, done, result

vars == <<input, done, result>>

Init ==
    /\ input \in Inputs
    /\ done = FALSE
    /\ result = Nothing

Return ==
    /\ done = FALSE
    /\ done' = TRUE
    /\ result' = Reference(input)
    /\ UNCHANGED input

Spec == Init /\ [][Return]_vars
=============================================================================
