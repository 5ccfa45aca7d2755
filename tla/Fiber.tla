------------------------------- MODULE Fiber -------------------------------
(***************************************************************************)
(* Fibers, the watchers they wait with, and the ways in which they run     *)
(* again (src/fiber: fiber.h, fiber.hpp, fabric.h; ll/lua/emitter/base.hpp) *)
(*                                                                         *)
(* A fiber belongs to one worker and runs only there.  It waits for an     *)
(* event of an emitter (a watcher that names the fiber), binds a function  *)
(* to an event (a watcher that names none), emits and waits until the      *)
(* watchers were called, or calls a function on a worker.  Each time it    *)
(* enters the table of yielded fibers under a new id.  Whoever takes it    *)
(* out again resumes it: directly, in the middle of what it is doing, when *)
(* it is the worker the fiber belongs to, and with a task in the queue of  *)
(* that worker otherwise.                                                  *)
(*                                                                         *)
(* The emitter is there with what modules Emittable and WatchList show of  *)
(* it: commands are executed one at a time in the order of their           *)
(* submission, and an emit calls every watcher of the list once.  The      *)
(* queue of a worker is first in, first out (module TaskQueue); the table  *)
(* gives each id to one taker (module Yielded).                            *)
(*                                                                         *)
(* Two modes.  "solo": one worker; a fiber may be deleted while it waits.  *)
(* "multi": all workers, and a further thread, the checker, that times     *)
(* fibers out.  Not both: a deleted fiber stays in the table.              *)
(*                                                                         *)
(* Definitions marked "Slip" are wrong variants of the definition that     *)
(* follows them; the properties are required to notice each of them.       *)
(***************************************************************************)
EXTENDS Naturals, Sequences, FiniteSets, SequencesExt

CONSTANTS
  Workers,     \* servers, each with a thread of its own
  SoloFibers, MultiFibers,  \* how many fibers fit a worker in either mode
  Watchers,    \* the pool fiber::m_watcher_pool
  Entry,       \* the pool emittable::m_wl
  NIL,         \* none of them
  SoloIds, MultiIds,        \* bound on the message ids given out in either mode
  MaxCmds,     \* bound on the commands an emitter has in its list
  MaxTasks     \* no event is emitted while a worker has as many tasks

ASSUME WorkerAssumption ==
  /\ NIL \notin Workers \union Watchers \union Entry
  /\ NIL \notin Workers \X Nat /\ NIL \notin Nat \X (Workers \X Nat)
  /\ NIL \notin Watchers \X Entry
  /\ IsFiniteSet(Workers)
ASSUME FiberBounds == {SoloFibers, MultiFibers, SoloIds, MultiIds, MaxCmds, MaxTasks} \subseteq Nat \ {0}

VARIABLES
  acting,  \* the workers that run: one in mode "solo", all in mode "multi"
  st,      \* st[f]: "free" storage, "run"ning, or "wait"ing coroutine
  m_w,     \* m_w[f]: the watcher the fiber waits with
  m_endp,  \* m_endp[f]: whom the result goes to, <<worker, id>> or NIL
  watch,   \* the watchers: used, stopped, m_fb, m_owner, m_msgid, m_watcher
  ent,     \* ent[e]: the watcher of a watch entry, NIL: free
  cmds,    \* m_head .. m_tail: commands not executed
  list,    \* m_top .. : the entries in the list of the emitter
  proc,    \* process_commands: by whom, and how far it is
  table,   \* m_yielded_fibers: pairs <<id, fiber>>
  seed,    \* the last id given out
  cur,     \* cur[t]: the fiber whose code runs on worker t
  add,     \* add[t]: the watcher and entry of an add_watcher about to return
  fque,    \* fque[t]: the tasks of worker t
  late,    \* the entry the checker took out of the table, or NIL
  waits,   \* history: waits[f], the id of the call fiber f is in, 0: none
  heard    \* history: the bound watchers whose bind returned

pvars == <<watch, ent, list>>
vars == <<acting, st, m_w, m_endp, watch, ent, cmds, list, proc, table, seed,
          cur, add, fque, late, waits, heard>>

Solo == Cardinality(acting) = 1
Slot == 1 .. (IF Solo THEN SoloFibers ELSE MultiFibers)
MaxIds == IF Solo THEN SoloIds ELSE MultiIds
Fibers == Workers \X (1 .. IF SoloFibers > MultiFibers THEN SoloFibers ELSE MultiFibers)
Owner(f) == f[1]

\* fabric::task and emittable::command
Task(type, f, i) == [type |-> type, f |-> f, id |-> i]
Command(type, e, respond, hear) == [type |-> type, e |-> e, respond |-> respond, hear |-> hear]

NoWatcher == [used |-> FALSE, stopped |-> FALSE, fb |-> NIL, owner |-> NIL,
              msgid |-> 0, entry |-> NIL]
Idle == [by |-> NIL, at |-> "next", rest |-> {}, called |-> NIL, respond |-> 0, hear |-> {}]

Init ==
  /\ acting = Workers \/ \E t \in Workers : acting = {t}
  /\ st = [f \in Fibers |-> "free"]
  /\ m_w = [f \in Fibers |-> NIL]
  /\ m_endp = [f \in Fibers |-> NIL]
  /\ watch = [w \in Watchers |-> NoWatcher]
  /\ ent = [e \in Entry |-> NIL]
  /\ cmds = <<>> /\ list = {} /\ proc = Idle
  /\ table = {} /\ seed = 0
  /\ cur = [t \in Workers |-> NIL]
  /\ add = [t \in Workers |-> NIL]
  /\ fque = [t \in Workers |-> <<>>]
  /\ late = NIL
  /\ waits = [f \in Fibers |-> 0]
  /\ heard = {}

\* The worker executes the code of a fiber and is between two calls of it.
InBody(t) == t \in acting /\ cur[t] # NIL /\ add[t] = NIL

\* The worker is in its main loop.
InLoop(t) == t \in acting /\ cur[t] = NIL /\ proc.by # t

\* The worker is in process_commands, and no fiber runs on top of it.
InEmitter(t) == t \in acting /\ cur[t] = NIL /\ proc.by = t

FreeSlots(t) == {f \in {t} \X Slot : st[f] = "free"}
FreeWatchers == {w \in Watchers : ~watch[w].used}
FreeEntries == {e \in Entry : ent[e] = NIL}
InTable(i) == {p \in table : p[1] = i}

----------------------------------------------------------------------------
(* What the handlers below share *)

\* server::fque().mpush
Push(t, task) == fque' = [fque EXCEPT ![t] = Append(@, task)]

\* fabric::create and fiber::start on worker t; without storage the event is
\* dropped.
Begin(t, endp) ==
  IF FreeSlots(t) = {} THEN UNCHANGED <<st, cur, m_endp, m_w, waits>>
  ELSE LET f == CHOOSE x \in FreeSlots(t) : \A y \in FreeSlots(t) : x[2] <= y[2]
       IN /\ st' = [st EXCEPT ![f] = "run"]
          /\ cur' = [cur EXCEPT ![t] = f]
          /\ m_endp' = [m_endp EXCEPT ![f] = endp]
          /\ m_w' = [m_w EXCEPT ![f] = NIL]
          /\ waits' = [waits EXCEPT ![f] = 0]

\* fabric::start_fiber by thread t for a worker u.
StartFiber(t, u) ==
  IF u = t THEN Begin(t, NIL) /\ UNCHANGED fque
  ELSE Push(u, Task("start", NIL, 0)) /\ UNCHANGED <<st, cur, m_w, m_endp, waits>>

\* endpoint::send of a result.  The callers on this side of a connection are
\* workers, and to them it is a message; all other endpoints are outside.
Send(endp) ==
  IF endp = NIL THEN UNCHANGED fque
  ELSE Push(endp[1], Task("response", NIL, endp[2]))

\* The coroutine of f goes on, on the worker it belongs to.
Continue(f) ==
  /\ st' = [st EXCEPT ![f] = "run"]
  /\ cur' = [cur EXCEPT ![Owner(f)] = f]
  /\ waits' = [waits EXCEPT ![f] = 0]

\* fiber::resume by thread t: the fiber runs, or a task for its owner.
Resume(t, i, f) ==
  IF Owner(f) = t
    THEN Continue(f) /\ UNCHANGED fque
    ELSE /\ Push(Owner(f), Task("resume", f, i))
         /\ UNCHANGED <<st, cur, waits>>

\* fabric::resume_fiber by thread t, when a command asked for it.
ResumeFiber(t, i) ==
  IF InTable(i) = {} THEN UNCHANGED <<st, cur, waits, fque, table, heard>>
  ELSE \E p \in InTable(i) :
         /\ table' = table \ {p}
         /\ heard' = heard \union {w \in Watchers :
                        watch[w].used /\ watch[w].fb = NIL /\ watch[w].msgid = i}
         /\ Resume(t, i, p[2])

\* Slip: whatever watcher the fiber waits with is forgotten.
FinishWaitAny(f, w) ==
  m_w' = IF f # NIL THEN [m_w EXCEPT ![f] = NIL] ELSE m_w

\* fiber::finish_wait
FinishWait(f, w) ==
  m_w' = IF f # NIL /\ m_w[f] = w THEN [m_w EXCEPT ![f] = NIL] ELSE m_w

\* m_wl.free(e): the entry unrefs its watcher, which gives itself back.
FreeEntry(e) ==
  /\ FinishWait(watch[ent[e]].fb, ent[e])
  /\ watch' = [watch EXCEPT ![ent[e]] = NoWatcher]
  /\ ent' = [ent EXCEPT ![e] = NIL]

\* Slip: unwatch leaves it to the command to stop the watcher.
UnwatchOnly(f) ==
  /\ cmds' = IF m_w[f] # NIL /\ watch[m_w[f]].entry # NIL
               THEN Append(cmds, Command("remove", watch[m_w[f]].entry, 0, {}))
               ELSE cmds
  /\ UNCHANGED watch

\* watcher::unwatch, when the fiber has a watcher.
Unwatch(f) ==
  /\ cmds' = IF m_w[f] # NIL /\ watch[m_w[f]].entry # NIL
               THEN Append(cmds, Command("remove", watch[m_w[f]].entry, 0, {}))
               ELSE cmds
  /\ watch' = IF m_w[f] # NIL THEN [watch EXCEPT ![m_w[f]].stopped = TRUE] ELSE watch

\* fiber::fin on the worker of the fiber.
Fin(f) ==
  /\ Unwatch(f)
  /\ m_w' = [m_w EXCEPT ![f] = NIL]
  /\ st' = [st EXCEPT ![f] = "free"]
  /\ waits' = [waits EXCEPT ![f] = 0]

----------------------------------------------------------------------------
(* What the code of a fiber does *)

\* fiber::wait: a watcher and an id of its own, the table, and a command with
\* a new watch entry.  The command is visible before add_watcher returns.
Wait(t) ==
  /\ InBody(t) /\ seed < MaxIds /\ Len(cmds) < MaxCmds
  /\ m_w[cur[t]] = NIL
  /\ \E w \in FreeWatchers, e \in FreeEntries :
       /\ watch' = [watch EXCEPT ![w] = [NoWatcher EXCEPT !.used = TRUE,
                      !.fb = cur[t], !.msgid = seed + 1]]
       /\ ent' = [ent EXCEPT ![e] = w]
       /\ m_w' = [m_w EXCEPT ![cur[t]] = w]
       /\ cmds' = Append(cmds, Command("add", e, 0, {}))
       /\ add' = [add EXCEPT ![t] = <<w, e>>]
  /\ seed' = seed + 1
  /\ table' = table \union {<<seed + 1, cur[t]>>}
  /\ waits' = [waits EXCEPT ![cur[t]] = seed + 1]
  /\ UNCHANGED <<acting, st, m_endp, list, proc, cur, fque, late, heard>>

\* fiber::bind: the watcher has no fiber; the command answers to the fiber
\* that calls bind.
Bind(t) ==
  /\ InBody(t) /\ seed < MaxIds /\ Len(cmds) < MaxCmds
  /\ \E w \in FreeWatchers, e \in FreeEntries :
       /\ watch' = [watch EXCEPT ![w] = [NoWatcher EXCEPT !.used = TRUE,
                      !.owner = t, !.msgid = seed + 1]]
       /\ ent' = [ent EXCEPT ![e] = w]
       /\ cmds' = Append(cmds, Command("add", e, seed + 1, {}))
       /\ add' = [add EXCEPT ![t] = <<w, e>>]
  /\ seed' = seed + 1
  /\ table' = table \union {<<seed + 1, cur[t]>>}
  /\ waits' = [waits EXCEPT ![cur[t]] = seed + 1]
  /\ UNCHANGED <<acting, st, m_w, m_endp, list, proc, cur, fque, late, heard>>

\* watch: m_watcher gets the result of add_watcher, whatever became of the
\* watcher meanwhile, and the coroutine yields.
Added(t) ==
  /\ add[t] # NIL
  /\ watch' = [watch EXCEPT ![add[t][1]].entry = add[t][2]]
  /\ add' = [add EXCEPT ![t] = NIL]
  /\ st' = [st EXCEPT ![cur[t]] = "wait"]
  /\ cur' = [cur EXCEPT ![t] = NIL]
  /\ UNCHANGED <<acting, m_w, m_endp, ent, cmds, list, proc, table, seed, fque, late, waits, heard>>

\* An event: emitted by the code of a fiber or by a handler in the main loop.
Emit(t) ==
  /\ InBody(t) \/ InLoop(t)
  /\ Len(cmds) < MaxCmds /\ \A u \in Workers : Len(fque[u]) < MaxTasks
  /\ cmds' = Append(cmds, Command("emit", NIL, 0, heard))
  /\ UNCHANGED <<acting, st, m_w, m_endp, pvars, proc, table, seed, cur, add, fque, late, waits, heard>>

\* fiber::emit: the fiber yields until the watchers were called.
SyncEmit(t) ==
  /\ InBody(t) /\ seed < MaxIds /\ Len(cmds) < MaxCmds
  /\ seed' = seed + 1
  /\ table' = table \union {<<seed + 1, cur[t]>>}
  /\ waits' = [waits EXCEPT ![cur[t]] = seed + 1]
  /\ cmds' = Append(cmds, Command("emit", NIL, seed + 1, heard))
  /\ st' = [st EXCEPT ![cur[t]] = "wait"]
  /\ cur' = [cur EXCEPT ![t] = NIL]
  /\ UNCHANGED <<acting, m_w, m_endp, pvars, proc, add, fque, late, heard>>

\* rpc::call to a worker: a message in its queue.
Call(t, u) ==
  /\ InBody(t) /\ u \in acting /\ seed < MaxIds
  /\ seed' = seed + 1
  /\ table' = table \union {<<seed + 1, cur[t]>>}
  /\ waits' = [waits EXCEPT ![cur[t]] = seed + 1]
  /\ Push(u, Task("request", t, seed + 1))
  /\ st' = [st EXCEPT ![cur[t]] = "wait"]
  /\ cur' = [cur EXCEPT ![t] = NIL]
  /\ UNCHANGED <<acting, m_w, m_endp, pvars, cmds, proc, add, late, heard>>

\* fiber::respond with exec_finish or exec_error: the result goes to the
\* endpoint and the fiber is gone.
Finish(t) ==
  /\ InBody(t)
  /\ Fin(cur[t])
  /\ Send(m_endp[cur[t]])
  /\ cur' = [cur EXCEPT ![t] = NIL]
  /\ UNCHANGED <<acting, m_endp, ent, list, proc, table, seed, add, late, heard>>

\* yue_deletefiber of a fiber that waits with a watcher.
Delete(t, f) ==
  /\ Solo
  /\ InBody(t) \/ InLoop(t)
  /\ st[f] = "wait" /\ m_w[f] # NIL /\ Len(cmds) < MaxCmds
  /\ Fin(f)
  /\ UNCHANGED <<acting, m_endp, ent, list, proc, table, seed, cur, add, fque, late, heard>>

----------------------------------------------------------------------------
(* The main loop: a new fiber for something from outside, and the tasks *)

Create(t) ==
  /\ InLoop(t) /\ FreeSlots(t) # {}
  /\ Begin(t, NIL)
  /\ UNCHANGED <<acting, pvars, cmds, proc, table, seed, add, fque, late, heard>>

\* The next task is for a fiber: an event, a TimeoutError or a plain resume.
TaskResume(t) ==
  /\ InLoop(t) /\ fque[t] # <<>>
  /\ Head(fque[t]).type = "resume"
  /\ Continue(Head(fque[t]).f)
  /\ fque' = [fque EXCEPT ![t] = Tail(@)]
  /\ UNCHANGED <<acting, m_w, m_endp, pvars, cmds, proc, table, seed, add, late, heard>>

\* It is an event for a bound function, or a call from a worker.
TaskStart(t) ==
  /\ InLoop(t) /\ fque[t] # <<>>
  /\ LET k == Head(fque[t])
     IN \/ k.type = "start" /\ Begin(t, NIL)
        \/ k.type = "request" /\ Begin(t, <<k.f, k.id>>)
  /\ fque' = [fque EXCEPT ![t] = Tail(@)]
  /\ UNCHANGED <<acting, pvars, cmds, proc, table, seed, add, late, heard>>

\* It is the answer to a call: fabric::recv.
TaskResponse(t) ==
  /\ InLoop(t) /\ fque[t] # <<>>
  /\ Head(fque[t]).type = "response"
  /\ IF InTable(Head(fque[t]).id) = {}
       THEN /\ fque' = [fque EXCEPT ![t] = Tail(@)]
            /\ UNCHANGED <<st, cur, waits, table>>
       ELSE \E p \in InTable(Head(fque[t]).id) :
              /\ table' = table \ {p}
              /\ Continue(p[2])
              /\ fque' = [fque EXCEPT ![t] = Tail(@)]
  /\ UNCHANGED <<acting, m_w, m_endp, pvars, cmds, proc, seed, add, late, heard>>

----------------------------------------------------------------------------
(* process_commands *)

\* Worker t gets to execute the commands of the emitter.
StartProcess(t) ==
  /\ InLoop(t) /\ proc.by = NIL /\ cmds # <<>>
  /\ proc' = [proc EXCEPT !.by = t]
  /\ UNCHANGED <<acting, st, m_w, m_endp, pvars, cmds, table, seed, cur, add, fque, late, waits, heard>>

EndProcess(t) ==
  /\ InEmitter(t) /\ proc.at = "next"
  /\ proc' = Idle
  /\ UNCHANGED <<acting, st, m_w, m_endp, pvars, cmds, table, seed, cur, add, fque, late, waits, heard>>

AddWatcher(t) ==
  /\ InEmitter(t) /\ proc.at = "next" /\ cmds # <<>> /\ Head(cmds).type = "add"
  /\ list' = list \union {Head(cmds).e}
  /\ ResumeFiber(t, Head(cmds).respond)
  /\ cmds' = Tail(cmds)
  /\ UNCHANGED <<acting, m_w, m_endp, watch, ent, proc, seed, add, late>>

\* The entry may be gone: then there is nothing to remove.
RemoveWatcher(t) ==
  /\ InEmitter(t) /\ proc.at = "next" /\ cmds # <<>> /\ Head(cmds).type = "remove"
  /\ list' = list \ {Head(cmds).e}
  /\ IF Head(cmds).e \in list THEN FreeEntry(Head(cmds).e) ELSE UNCHANGED <<watch, ent, m_w>>
  /\ cmds' = Tail(cmds)
  /\ UNCHANGED <<acting, st, m_endp, proc, table, seed, cur, add, fque, late, waits, heard>>

StartEmit(t) ==
  /\ InEmitter(t) /\ proc.at = "next" /\ cmds # <<>> /\ Head(cmds).type = "emit"
  /\ proc' = [proc EXCEPT !.at = "emit", !.rest = list,
                !.respond = Head(cmds).respond, !.hear = Head(cmds).hear]
  /\ list' = {}
  /\ cmds' = Tail(cmds)
  /\ UNCHANGED <<acting, st, m_w, m_endp, watch, ent, table, seed, cur, add, fque, late, waits, heard>>

\* The next entry to be called.
Calling(t, e) ==
  /\ InEmitter(t) /\ proc.at = "emit" /\ e \in proc.rest

\* watcher::operator (): the fiber has given it up.
CallStopped(t, e) ==
  /\ Calling(t, e)
  /\ watch[ent[e]].stopped
  /\ FreeEntry(e)
  /\ proc' = [proc EXCEPT !.rest = @ \ {e}]
  /\ UNCHANGED <<acting, st, m_endp, cmds, list, table, seed, cur, add, fque, late, waits, heard>>

\* Slip: a bound function is called once.
CallKeptOnce(t, e) ==
  /\ Calling(t, e)
  /\ ~watch[ent[e]].stopped
  /\ proc' = [proc EXCEPT !.rest = @ \ {e}, !.hear = @ \ {ent[e]}]
  /\ \/ list' = list \union {e} /\ UNCHANGED <<st, cur, m_w, m_endp, waits, fque, watch, ent>>
     \/ /\ watch[ent[e]].fb = NIL
        /\ list' = list
        /\ FreeEntry(e)
        /\ Push(watch[ent[e]].owner, Task("start", NIL, 0))
        /\ UNCHANGED <<st, cur, m_endp, waits>>
  /\ UNCHANGED <<acting, cmds, table, seed, add, late, heard>>

\* The event passes the filter of a watcher that is bound, or does not pass.
\* Either way the entry stays.
CallKept(t, e) ==
  /\ Calling(t, e)
  /\ ~watch[ent[e]].stopped
  /\ proc' = [proc EXCEPT !.rest = @ \ {e}, !.hear = @ \ {ent[e]}]
  /\ list' = list \union {e}
  /\ \/ UNCHANGED <<st, cur, m_w, m_endp, waits, fque>>
     \/ watch[ent[e]].fb = NIL /\ StartFiber(t, watch[ent[e]].owner)
  /\ UNCHANGED <<acting, watch, ent, cmds, table, seed, add, late, heard>>

\* The event is for a fiber that waits, or waited until somebody else took it
\* out of the table: the wait is over.
CallWaiting(t, e) ==
  /\ Calling(t, e)
  /\ ~watch[ent[e]].stopped /\ watch[ent[e]].fb # NIL
  /\ FinishWait(watch[ent[e]].fb, ent[e])
  /\ proc' = [proc EXCEPT !.at = "called", !.rest = @ \ {e}, !.called = e]
  /\ ResumeFiber(t, watch[ent[e]].msgid)
  /\ UNCHANGED <<acting, m_endp, watch, ent, cmds, list, seed, add, late>>

\* What the watcher called returns STOP: m_wl.free.
Return(t) ==
  /\ InEmitter(t) /\ proc.at = "called"
  /\ FreeEntry(proc.called)
  /\ proc' = [proc EXCEPT !.at = "emit", !.called = NIL]
  /\ UNCHANGED <<acting, st, m_endp, cmds, list, table, seed, cur, add, fque, late, waits, heard>>

\* All were called: the command answers, if it was asked to.
EndEmit(t) ==
  /\ InEmitter(t) /\ proc.at = "emit" /\ proc.rest = {}
  /\ ResumeFiber(t, proc.respond)
  /\ proc' = [Idle EXCEPT !.by = t]
  /\ UNCHANGED <<acting, m_w, m_endp, pvars, cmds, seed, add, late>>

----------------------------------------------------------------------------
(* check_timeout, on a thread that no fiber belongs to *)

\* The time limit of an entry passed: find_and_erase.  A call of wait is over
\* before its own time limit.
Expire ==
  /\ ~Solo /\ late = NIL
  /\ \E p \in table :
       /\ \A t \in Workers : add[t] # NIL => cur[t] # p[2]
       /\ table' = table \ {p}
       /\ late' = p
  /\ UNCHANGED <<acting, st, m_w, m_endp, pvars, cmds, proc, seed, cur, add, fque, waits, heard>>

\* Slip: the watcher stays with the fiber.
RaiseKeep ==
  /\ late # NIL
  /\ Push(Owner(late[2]), Task("resume", late[2], late[1]))
  /\ late' = NIL
  /\ UNCHANGED <<acting, st, m_w, m_endp, pvars, cmds, proc, table, seed, cur, add, waits, heard>>

\* fiber::raise: the watcher is given up, and a TimeoutError is sent.
Raise ==
  /\ late # NIL
  /\ FinishWait(late[2], m_w[late[2]])
  /\ Push(Owner(late[2]), Task("resume", late[2], late[1]))
  /\ late' = NIL
  /\ UNCHANGED <<acting, st, m_endp, pvars, cmds, proc, table, seed, cur, add, waits, heard>>

----------------------------------------------------------------------------

Body(t) ==
  Wait(t) \/ Bind(t) \/ Added(t) \/ Emit(t) \/ SyncEmit(t) \/ Finish(t)
Loop(t) == Create(t) \/ TaskResume(t) \/ TaskStart(t) \/ TaskResponse(t)
Process(t) ==
  \/ StartProcess(t) \/ EndProcess(t)
  \/ AddWatcher(t) \/ RemoveWatcher(t) \/ StartEmit(t)
  \/ \E e \in Entry : CallStopped(t, e) \/ CallKept(t, e) \/ CallWaiting(t, e)
  \/ Return(t) \/ EndEmit(t)

Next ==
  \/ \E t \in Workers : Body(t) \/ Loop(t) \/ Process(t)
  \/ \E t, u \in Workers : Call(t, u)
  \/ \E t \in Workers, f \in Fibers : Delete(t, f)
  \/ Expire \/ Raise

Spec == Init /\ [][Next]_vars

----------------------------------------------------------------------------

\* Where the entries are: named by an add command that was not executed, in
\* the list, in what is left of the list while an emit runs, or being called.
InCommand == {c.e : c \in {x \in ToSet(cmds) : x.type = "add"}}
InFlight == InCommand \union list \union proc.rest \union ({proc.called} \ {NIL})

\* Somebody will still take the entry of id i out of the table: a watcher that
\* was not stopped, a command that answers, a call under way.
Answerable(i) ==
  \/ \E e \in InFlight : /\ ent[e] # NIL /\ watch[ent[e]].fb # NIL
                         /\ watch[ent[e]].msgid = i /\ ~watch[ent[e]].stopped
  \/ \E c \in ToSet(cmds) : c.respond = i
  \/ proc.respond = i
  \/ \E t \in Workers : \E k \in ToSet(fque[t]) : k.type \in {"request", "response"} /\ k.id = i
  \/ \E f \in Fibers : st[f] # "free" /\ m_endp[f] # NIL /\ m_endp[f][2] = i

\* What is on its way to resume fiber f: a task, the checker.
Wakes(f) ==
  {<<"task", k.id>> : k \in {x \in ToSet(fque[Owner(f)]) : x.type = "resume" /\ x.f = f}}
    \union (IF late # NIL /\ late[2] = f THEN {<<"late", late[1]>>} ELSE {})

TypeOK ==
  /\ st \in [Fibers -> {"free", "run", "wait"}]
  /\ m_w \in [Fibers -> Watchers \union {NIL}]
  /\ ent \in [Entry -> Watchers \union {NIL}]
  /\ list \subseteq Entry
  /\ table \subseteq (1 .. seed) \X Fibers
  /\ \A t \in Workers : cur[t] # NIL => Owner(cur[t]) = t /\ st[cur[t]] = "run"

\* A fiber in a call is in the table, or was taken out of it by somebody who
\* is about to resume it.  If it waits for an event there is also somebody left
\* to do so, a watcher that was neither stopped nor freed.
NotForgotten ==
  \A f \in Fibers : st[f] = "wait" =>
    \/ Wakes(f) # {}
    \/ /\ <<waits[f], f>> \in table
       /\ m_w[f] # NIL => Answerable(waits[f])

\* fiber.h, fabric.h: a fiber is resumed for the call it is in, and once.
\* Whoever could still find an id in the table finds the fiber that waits for
\* this id; once it is out of the table there is one task, or the checker, for
\* it; storage that was freed and used again for another fiber is not mistaken
\* for the old one; and no fiber is left without somebody to resume it.
WakesItsWait ==
  /\ \A p \in table : Answerable(p[1]) => waits[p[2]] = p[1]
  /\ \A f \in Fibers :
       /\ Cardinality(Wakes(f)) <= 1
       /\ \A k \in Wakes(f) : waits[f] = k[2] /\ InTable(k[2]) = {}
  /\ NotForgotten

\* fiber.hpp: m_w names the watcher of the call the fiber is in and is NULL
\* otherwise; every watcher in use has one entry, and every entry in use is in
\* one place; what m_watcher says of it is right where remove_watcher uses it.
HoldsItsWatcher ==
  /\ TypeOK
  /\ \A f \in Fibers : m_w[f] # NIL =>
       /\ watch[m_w[f]].used /\ watch[m_w[f]].fb = f
       /\ watch[m_w[f]].msgid = waits[f]
       /\ Solo /\ st[f] = "wait" => ent[watch[m_w[f]].entry] = m_w[f]
  /\ \A w \in Watchers : watch[w].used =>
       /\ Cardinality({e \in Entry : ent[e] = w}) = 1
       /\ <<watch[w].msgid, watch[w].fb>> \in table /\ ~watch[w].stopped =>
            m_w[watch[w].fb] = w
  /\ {e \in Entry : ent[e] # NIL} = InFlight

\* emittable.h:395: a remove_watcher names an entry that may be gone, and may
\* have been handed out again: it never takes a watcher off whose fiber waits.
RemovesOwn ==
  [][\A e \in Entry : (cmds # <<>> /\ Head(cmds) = Command("remove", e, 0, {})
                        /\ cmds' = Tail(cmds) /\ e \in list)
        => watch[ent[e]].stopped /\ \A f \in Fibers : m_w[f] # ent[e]]_vars

\* ll/lua/emitter/base.hpp: bind returns when its watcher is in the list, and
\* an event emitted from then on, by anybody, is offered to the bound function.
BoundHears ==
  proc.at = "emit" /\ proc.rest = {} => proc.hear = {}

----------------------------------------------------------------------------
(* For TLC: the elements of the two pools are alike, and so are the workers. *)

Alike == Permutations(Workers) \union Permutations(Watchers) \union Permutations(Entry)
============================================================================
