------------------------------- MODULE Future ------------------------------
(***************************************************************************)
(* A future of yue.lua: the result of a function that runs in a fiber of   *)
(* its own, and those who want to know it (ll/lua/yue.lua, fiber, future)  *)
(*                                                                         *)
(* A receiver is a function given to "on", or a fiber that suspends itself *)
(* with "sync".  The fiber of the function calls them, one after the       *)
(* other; each may yield before it returns, and other fibers, or a         *)
(* receiver itself, come with new ones meanwhile.                          *)
(***************************************************************************)
EXTENDS Naturals, Sequences

CONSTANTS
  Waiters,      \* fibers that may sync
  MaxReceivers  \* bound on the receivers of the future

VARIABLES
  stage,     \* "running", "telling", "done"; "lost": the function failed
  receiver,  \* __receiver: 0 for a function, or the fiber that syncs
  called,    \* called[i]: how often receiver i was called
  place,     \* how many receivers the loop has taken
  result,    \* __result is there
  st         \* st[f]: "ready", "asleep", "resumed"; "hung": never resumed

vars == <<stage, receiver, called, place, result, st>>

Init ==
  /\ stage = "running"
  /\ receiver = <<>> /\ called = <<>> /\ place = 0
  /\ result = FALSE
  /\ st = [f \in Waiters |-> "ready"]

\* The receiver is put behind the others, and called at once if the result is
\* there.
Add(x) ==
  /\ Len(receiver) < MaxReceivers
  /\ receiver' = Append(receiver, x)
  /\ called' = Append(called, IF result THEN 1 ELSE 0)

On ==
  /\ Add(0)
  /\ UNCHANGED <<stage, place, result, st>>

\* sync: when the receiver is called at once it resumes a coroutine that runs,
\* which fails, and the fiber suspends itself with nobody left to resume it.
Sync(f) ==
  /\ st[f] = "ready"
  /\ Add(f)
  /\ st' = [st EXCEPT ![f] = IF result THEN "hung" ELSE "asleep"]
  /\ UNCHANGED <<stage, place, result>>

\* Slip: the result is there before the receivers are called.
ReturnResult ==
  /\ stage = "running" /\ stage' = "telling"
  /\ result' = TRUE
  /\ UNCHANGED <<receiver, called, place, st>>

\* The function returned or, protected, failed: the future is called.
Return ==
  /\ stage = "running" /\ stage' = "telling"
  /\ UNCHANGED <<receiver, called, place, result, st>>

\* The function failed in run_unprotect: nobody is told.
Lose ==
  /\ stage = "running" /\ stage' = "lost"
  /\ UNCHANGED <<receiver, called, place, result, st>>

\* The next receiver, which may have come during the loop.
Tell ==
  /\ stage = "telling" /\ place < Len(receiver)
  /\ place' = place + 1
  /\ called' = [called EXCEPT ![place + 1] = @ + 1]
  /\ st' = [f \in Waiters |->
              IF f = receiver[place + 1] /\ st[f] = "asleep" THEN "resumed" ELSE st[f]]
  /\ UNCHANGED <<stage, receiver, result>>

Done ==
  /\ stage = "telling" /\ place = Len(receiver)
  /\ stage' = "done" /\ result' = TRUE
  /\ UNCHANGED <<receiver, called, place, st>>

Next == On \/ (\E f \in Waiters : Sync(f)) \/ Return \/ Lose \/ Tell \/ Done

Spec == Init /\ [][Next]_vars

----------------------------------------------------------------------------

\* Every receiver is called once: by the loop when it came before the result
\* was noted, by "on" otherwise; and no fiber that suspended itself before is
\* left asleep (yue.lua:1065-1087, on, sync, __call).
ToldOnce ==
  /\ \A i \in 1 .. Len(receiver) : called[i] <= 1
  /\ stage = "done" =>
       /\ \A i \in 1 .. Len(receiver) : called[i] = 1
       /\ \A f \in Waiters : st[f] # "asleep"

=============================================================================
