------------------------------- MODULE Fifo -------------------------------
(***************************************************************************)
(* What the task queue of a server promises: every item pushed is popped   *)
(* once, in the order in which the pushes took effect, and an item that is *)
(* in the queue is popped some day.                                        *)
(***************************************************************************)
EXTENDS Naturals, Sequences

CONSTANT Item

VARIABLES
  pushed,  \* the items pushed so far, in order
  popped   \* the items popped so far, in order

vars == <<pushed, popped>>

Init == pushed = <<>> /\ popped = <<>>

Push(i) ==
  /\ pushed' = Append(pushed, i)
  /\ UNCHANGED popped

Pop ==
  /\ Len(popped) < Len(pushed)
  /\ popped' = Append(popped, pushed[Len(popped) + 1])
  /\ UNCHANGED pushed

Next == Pop \/ \E i \in Item : Push(i)

SafeSpec == Init /\ [][Next]_vars
Spec == SafeSpec /\ WF_vars(Pop)
============================================================================
