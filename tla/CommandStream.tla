--------------------------- MODULE CommandStream ---------------------------
(***************************************************************************)
(* What an emitter promises to the threads that use it (emittable.h):      *)
(* commands handed to it, by any thread and at any time, are executed one  *)
(* at a time, each exactly once, in the order in which add_command linked  *)
(* them, and none is forgotten.  An emitter disappears only when there is  *)
(* nothing left to execute.                                                *)
(***************************************************************************)
EXTENDS Naturals

VARIABLES
  submitted,   \* commands accepted so far; command number n is the n-th one
  executed,    \* commands executed so far
  gone         \* the emitter was given back to its pool

vars == <<submitted, executed, gone>>

Init ==
  /\ submitted = 0
  /\ executed = 0
  /\ gone = FALSE

Submit ==
  /\ ~gone
  /\ submitted' = submitted + 1
  /\ UNCHANGED <<executed, gone>>

Execute ==
  /\ ~gone
  /\ executed < submitted
  /\ executed' = executed + 1
  /\ UNCHANGED <<submitted, gone>>

Vanish ==
  /\ ~gone
  /\ executed = submitted
  /\ gone' = TRUE
  /\ UNCHANGED <<submitted, executed>>

Next == Submit \/ Execute \/ Vanish

SafeSpec == Init /\ [][Next]_vars

Spec == SafeSpec /\ WF_vars(Execute)
============================================================================
