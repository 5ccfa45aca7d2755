----------------------------- MODULE Coroutine -----------------------------
(***************************************************************************)
(* The Lua coroutines of fibers (ll/lua: lua.h, lua.hpp, lua.cpp,          *)
(* emitter/fiber.hpp, misc.h; yue.lua, fiber).                             *)
(*                                                                         *)
(* A fiber comes from a pool, and the storage of a fiber that has ended    *)
(* keeps its Lua thread, m_exec, for the next one.  C passes values to a   *)
(* thread and takes them from it by their positions on its stack: the      *)
(* function and its arguments, what a call that yields gets for an answer, *)
(* and the results, which a response has from the third position on.  The  *)
(* registry of the VM finds the coroutine of a thread, and keeps the       *)
(* thread from the collector.                                              *)
(*                                                                         *)
(* One VM.  Fibers run on top of each other: one that runs may run or      *)
(* resume another.  That an answer comes to the fiber that waits for it is *)
(* for modules Fiber and Yielded; here each value says what it is of.  A   *)
(* fiber that sleeps (util.suspend) is not deleted: its timer would resume *)
(* what follows it in the storage.  FLAG_EXIT is never set.                *)
(*                                                                         *)
(* Definitions marked "Slip" are wrong variants of the definition that     *)
(* follows them; the properties are required to notice each of them.       *)
(***************************************************************************)
EXTENDS Naturals, Sequences, FiniteSets, SequencesExt

CONSTANTS
  Storage,     \* the pool of fibers
  MaxBegun,    \* bound on the fibers made, which are numbered
  Arity,       \* how many arguments a call has, and results
  MaxYields    \* bound on the times all the fibers yield

VARIABLES
  fiber,     \* fiber[f]: state, number and kind of the fiber in f
  m_exec,    \* m_exec[f]: its Lua thread, or 0
  thread,    \* the Lua threads made so far, see NewThread
  registry,  \* pairs <<thread, storage>>: LUA_REGISTRYINDEX[m_exec] = this
  kept,      \* and <<storage, thread>>: LUA_REGISTRYINDEX[this] = m_exec
  running,   \* the fibers that run, each on top of the one before it
  begun,     \* the fibers made
  yields,    \* the times that fibers have yielded
  due,       \* history: due[f], the values that the code of f is to find
  replies    \* history: the answers sent, and what they should have been

vars == <<fiber, m_exec, thread, registry, kept, running, begun, yields, due, replies>>

\* kind: "request" of a remote call, "event" for a bound function, "own" of a program
Blank == [state |-> "free", id |-> 0, kind |-> "own"]

\* status: lua_status; stack: as C sees it; below: what is under the function
\* that runs; seen: the values that its code found last
NewThread == [status |-> "ok", stack |-> <<>>, below |-> <<>>, seen |-> <<>>]

Env == <<"env", 0, 0>>
Message(id) == <<"message", id, 0>>
True == <<"true", 0, 0>>
False == <<"false", 0, 0>>
Function(id) == <<"fn", id, 0>>
Several(kind, id, n) == [k \in 1 .. n |-> <<kind, id, k>>]

Init ==
  /\ fiber = [f \in Storage |-> Blank]
  /\ m_exec = [f \in Storage |-> 0]
  /\ thread = <<>>
  /\ registry = {} /\ kept = {}
  /\ running = <<>>
  /\ begun = 0 /\ yields = 0
  /\ due = [f \in Storage |-> <<>>]
  /\ replies = {}

\* A fiber made for a request or an event starts before anything else runs.
Starting == {f \in Storage : fiber[f].state = "made" /\ fiber[f].kind # "own"}

Top == Last(running)
Runs == running # <<>> /\ fiber[Top].state = "run"
Exec(f) == thread[m_exec[f]]

----------------------------------------------------------------------------
(* The stack *)

\* Slip: the answers' first value, whether the call succeeded, is not counted.
CountAnswer(vals) == Len(vals) - 1

\* What unpack_response_to_stack says it pushed, and the events of resume.
Count(vals) == Len(vals)

\* lua_resume with the n values on top of stack s: they are for the function
\* under them in a new thread, and for the call that yielded otherwise.
Resumed(t, s, n) ==
  LET arg == SubSeq(s, Len(s) - n + 1, Len(s))
      rest == SubSeq(s, 1, Len(s) - n)
  IN IF t.status = "yield" THEN [t EXCEPT !.status = "ok", !.stack = <<>>, !.seen = arg]
     ELSE [t EXCEPT !.stack = <<>>, !.below = Front(rest), !.seen = <<Last(rest)>> \o arg]

\* pack_response: the values from the third on.
Response(s) == SubSeq(s, 3, Len(s))

\* Slip: the stack is not emptied.
InitAsIs(t) == t

\* coroutine::init, the end of it: lua_settop(m_exec, 0).
Emptied(t) == [t EXCEPT !.stack = <<>>]

\* coroutine::init: a thread is made, known and kept the first time, and the
\* one that is there is used again.
Exists(f) ==
  IF m_exec[f] # 0
    THEN /\ thread' = [thread EXCEPT ![m_exec[f]] = Emptied(@)]
         /\ UNCHANGED <<m_exec, registry, kept>>
    ELSE /\ thread' = Append(thread, NewThread)
         /\ m_exec' = [m_exec EXCEPT ![f] = Len(thread) + 1]
         /\ registry' = registry \union {<<Len(thread) + 1, f>>}
         /\ kept' = kept \union {<<f, Len(thread) + 1>>}

\* Slip: the thread is forgotten and stays known.
ForgetHalf(f) ==
  /\ kept' = {p \in kept : p[1] # f}
  /\ m_exec' = [m_exec EXCEPT ![f] = 0]
  /\ UNCHANGED registry

\* coroutine::fin: both entries of the registry are removed.
Forget(f) ==
  /\ registry' = {p \in registry : p[1] # m_exec[f]}
  /\ kept' = {p \in kept : p[1] # f}
  /\ m_exec' = [m_exec EXCEPT ![f] = 0]

\* Slip: whatever became of the thread, it is kept for the next fiber.
DestroyNone(f, status) == UNCHANGED <<m_exec, registry, kept>>

\* lua::destroy: a thread that has not ended well is given up.
Destroy(f, status) ==
  IF status = "ok" THEN UNCHANGED <<m_exec, registry, kept>> ELSE Forget(f)

\* fiber::respond: the result goes out, to a request, and the fiber is gone.
Respond(f, answer, should) ==
  /\ replies' = replies \union
       IF fiber[f].kind = "request" THEN {<<fiber[f].id, answer, should>>} ELSE {}
  /\ fiber' = [fiber EXCEPT ![f] = Blank]
  /\ due' = [due EXCEPT ![f] = <<>>]

----------------------------------------------------------------------------
(* Fibers are made and run *)

\* fabric::create, from the main loop or by code that runs (yue_fiber_new,
\* yue_newfiber).
Create(f, kind) ==
  /\ fiber[f].state = "free" /\ begun < MaxBegun
  /\ Exists(f)
  /\ begun' = begun + 1
  /\ fiber' = [fiber EXCEPT ![f] = [state |-> "made", id |-> begun + 1, kind |-> kind]]
  /\ UNCHANGED <<running, yields, due, replies>>

\* The thread of f goes on with what was pushed; the last n values are for it.
Go(f, pushed, n) ==
  /\ thread' = [thread EXCEPT ![m_exec[f]] = Resumed(@, @.stack \o pushed, n)]
  /\ fiber' = [fiber EXCEPT ![f].state = "run"]
  /\ running' = Append(running, f)

\* start of an event or of a remote call: load_proc leaves its tables under
\* the function, three for an event and two for a call.
Start(f, n) ==
  LET id == fiber[f].id
      args == Several("arg", id, n)
  IN /\ f \in Starting
     /\ Go(f, (IF fiber[f].kind = "event" THEN <<Env, Env, Env>> ELSE <<Env, Env>>)
                \o <<Function(id)>> \o args, n)
     /\ due' = [due EXCEPT ![f] = <<Function(id)>> \o args]
     /\ UNCHANGED <<m_exec, registry, kept, begun, yields, replies>>

\* The endpoint is not authorized, there is no such function, or one of the
\* arguments cannot be unpacked: only the message of ERROR is packed, and the
\* thread has not run.
StartFails(f) ==
  /\ f \in Starting
  /\ thread' = [thread EXCEPT ![m_exec[f]].stack = <<Env, Message(fiber[f].id)>>]
  /\ Respond(f, <<Message(fiber[f].id)>>, <<Message(fiber[f].id)>>)
  /\ Destroy(f, "ok")
  /\ UNCHANGED <<running, begun, yields>>

\* yue_fiber_run: a function and its arguments move from the stack of the
\* program to that of the fiber, which runs at once.
Run(f, n) ==
  LET values == <<Function(fiber[f].id)>> \o Several("arg", fiber[f].id, n)
  IN /\ fiber[f].state = "made" /\ fiber[f].kind = "own"
     /\ Go(f, values, Len(values) - 1)
     /\ due' = [due EXCEPT ![f] = values]
     /\ UNCHANGED <<m_exec, registry, kept, begun, yields, replies>>

\* yue_deletefiber of a fiber that was not run, or that waits in a call.
Delete(f) ==
  /\ fiber[f].kind = "own" /\ fiber[f].state \in {"made", "wait"}
  /\ Respond(f, <<>>, <<>>)
  /\ Destroy(f, Exec(f).status)
  /\ UNCHANGED <<thread, running, begun, yields>>

----------------------------------------------------------------------------
(* The code of a fiber *)

\* coroutine::yield in a call, or in util.suspend: what called lua_resume goes on.
Yield(state) ==
  /\ Runs /\ yields < MaxYields
  /\ yields' = yields + 1
  /\ thread' = [thread EXCEPT ![m_exec[Top]].status = "yield",
                              ![m_exec[Top]].stack = <<<<"self", 0, 0>>>>]
  /\ fiber' = [fiber EXCEPT ![Top].state = state]
  /\ running' = Front(running)
  /\ UNCHANGED <<m_exec, registry, kept, begun, due, replies>>

\* The function returns n values: they are where the function was.
Return(n) ==
  LET results == Several("ret", fiber[Top].id, n)
      left == Exec(Top).below \o results
  IN /\ Runs
     /\ thread' = [thread EXCEPT ![m_exec[Top]] = [NewThread EXCEPT !.stack = left]]
     /\ Respond(Top, Response(left), results)
     /\ Destroy(Top, "ok")
     /\ running' = Front(running)
     /\ UNCHANGED <<begun, yields>>

\* The function fails: the message is on top, and pack_error sends it.
Fail ==
  LET left == Exec(Top).below \o <<Message(fiber[Top].id)>>
  IN /\ Runs
     /\ thread' = [thread EXCEPT ![m_exec[Top]] = [NewThread EXCEPT !.status = "error", !.stack = left]]
     /\ Respond(Top, <<Last(left)>>, <<Message(fiber[Top].id)>>)
     /\ Destroy(Top, "error")
     /\ running' = Front(running)
     /\ UNCHANGED <<begun, yields>>

----------------------------------------------------------------------------
(* A fiber that waits goes on *)

\* What resume pushes: the outcome of a remote call, true and its results or
\* false and an error; of an event true, or its values.
Outcomes(f) ==
  LET ans(n) == Several("ans", fiber[f].id, n)
  IN {<<True>> \o ans(n) : n \in Arity} \union {<<False>> \o ans(1)} \union {ans(1)}

Resume(f, values) ==
  /\ fiber[f].state = "wait"
  /\ Go(f, values, Count(values))
  /\ due' = [due EXCEPT ![f] = values]
  /\ UNCHANGED <<m_exec, registry, kept, begun, yields, replies>>

\* The answer cannot be unpacked: the stack is as it was, what is on top of it
\* is no error that could be packed, and nothing is sent.
ResumeFails(f) ==
  /\ fiber[f].state = "wait"
  /\ fiber' = [fiber EXCEPT ![f] = Blank]
  /\ due' = [due EXCEPT ![f] = <<>>]
  /\ Destroy(f, Exec(f).status)
  /\ UNCHANGED <<thread, running, begun, yields, replies>>

\* The timer of util.suspend: the coroutine goes on without a value.
Wake(f) ==
  /\ fiber[f].state = "sleep"
  /\ Go(f, <<>>, 0)
  /\ due' = [due EXCEPT ![f] = <<>>]
  /\ UNCHANGED <<m_exec, registry, kept, begun, yields, replies>>

Begin ==
  \E f \in Starting : StartFails(f) \/ \E n \in Arity : Start(f, n)

Program ==
  /\ Starting = {}
  /\ \/ Fail
     \/ \E state \in {"wait", "sleep"} : Yield(state)
     \/ \E n \in Arity : Return(n)
     \/ \E f \in Storage :
          \/ Delete(f) \/ ResumeFails(f) \/ Wake(f)
          \/ \E kind \in {"request", "event", "own"} : Create(f, kind)
          \/ \E n \in Arity : Run(f, n)
          \/ \E values \in Outcomes(f) : Resume(f, values)

Next == Begin \/ Program

Spec == Init /\ [][Next]_vars

----------------------------------------------------------------------------
(* Properties *)

\* The code of a fiber runs its own function, with all its arguments, and a
\* call that it waits in gets all the values of its own outcome, whoever used
\* the thread before: lua.hpp, start and resume, and lua.h, destroy.
FindsItsOwn ==
  \A f \in Storage : fiber[f].state = "run" => Exec(f).seen = due[f]

\* An answer to a request is what the function of that request returned, all
\* of it and nothing else, or its error: lua.h, pack_response and pack_error.
AnswersItsOwn == \A r \in replies : r[2] = r[3]

\* A fiber has a thread, no two have the same, and the thread is found in the
\* registry until it is given up, and not after: lua.cpp, init and fin.
ThreadsKnown ==
  /\ \A f \in Storage : fiber[f].state # "free" => m_exec[f] # 0
  /\ registry = {p \in (DOMAIN thread) \X Storage : m_exec[p[2]] = p[1]}
  /\ kept = {p \in Storage \X (DOMAIN thread) : m_exec[p[1]] = p[2]}
=============================================================================
