------------------------------- MODULE Server -------------------------------
(***************************************************************************)
(* The worker threads of the process: launch, start, run and end           *)
(* (src/server.h, server.cpp, loop.cpp, util/app.h, util/thread.h), and    *)
(* the pollers and resources that workers of one poller group share        *)
(* through util/shalloc.h.                                                 *)
(*                                                                         *)
(* launch enters a name into the thread table, starts a thread and waits   *)
(* until the new worker has published its server.  The worker first takes  *)
(* its poller and its resource: the first of a group creates and opens     *)
(* them.  The others find the entry and look whether it is open: a         *)
(* resource keeps them waiting, a poller does not, whatever the comment at *)
(* rpoller::check says, and the worker that found it too early erases it   *)
(* and goes on without one.  An entry is counted only after the lock of    *)
(* the map is given back.  Who gives back the last reference closes the    *)
(* entry and erases its name, in two steps, and nothing keeps others from  *)
(* finding it in between.  The main poller exists before any worker, held  *)
(* by m_mainp until the first worker of its group takes it over.           *)
(*                                                                         *)
(* The process joins the workers that bootstrap launched, cancels those    *)
(* that were launched by workers later, and then frees what they shared.   *)
(*                                                                         *)
(* raced is a history, in no guard: the entries that somebody found too    *)
(* early or too late.  What is promised of entries is promised of the      *)
(* others.  What the rest comes to is in SharedLives and PollerFound, two  *)
(* claims of the source that fail here, as does AllExecuted.               *)
(*                                                                         *)
(* Bounds: every name is launched for at most one thread, names are        *)
(* numbered in the order of their launches, all but the first name share   *)
(* one group, and the first is in it or has no poller.  A pool hands out   *)
(* what was freed last (array.h:278, 319), so that an entry made again     *)
(* lies where the last one of its name lay: a name has one place.  Opening *)
(* succeeds.  A worker that polls without a poller ends the process        *)
(* (PollerFound says when); so does a call to a thread that has not yet    *)
(* set its server.                                                         *)
(***************************************************************************)
EXTENDS Integers, FiniteSets

CONSTANTS
  N,         \* the number of names of workers
  Callees,   \* bound: the workers that others call
  MaxTasks   \* bound on the tasks in a queue

ASSUME BoundAssumption == N \in Nat /\ MaxTasks \in Nat

Workers == 1..N
App == 0                        \* the thread that started the process
Groups == {"none", "main", "own"}
Keys == {"p", "r"} \X Groups    \* pollers and resources, by the name of the group
MainKey == <<"p", "main">>

VARIABLES
  group,     \* m_pgname of every worker
  tab,       \* the names in m_thread_pool
  pc, of,    \* where a worker is, and with which kind of entry
  waits,     \* waits[a]: the worker whose start a waits for, or App
  server,    \* whether m_server was set
  alive,     \* m_alive of the thread
  que,       \* m_fque: "none", "open", "closed"
  tasks,     \* the number of tasks in m_fque
  tardy,     \* history: those that came after fin had emptied it
  named,     \* the entries their map finds by name
  st,        \* the place of an entry: "raw", "open", "closed" (or never used)
  refc,      \* m_refc, unsigned: what is below zero stands for 2^32 more
  hold,      \* m_p and m_resource of a worker, where they are set
  raced,     \* history: the entries found while they were made or torn down
  mainp,     \* m_mainp is set
  rp,        \* what a worker read from m_mainp
  appAlive,  \* app::m_alive
  phase,     \* the process: "boot", "join", "stop", "static", "end"
  tojoin     \* the threads join goes through

evars == <<named, st, refc, hold, raced, mainp, rp>>
wvars == <<tab, waits, server, alive>>
qvars == <<que, tasks, tardy>>
avars == <<appAlive, phase, tojoin>>
vars == <<group, pc, of, evars, wvars, qvars, avars>>

\* What static_init leaves: the main poller is open and m_mainp refers to it.
InitShared ==
  /\ named = {MainKey}
  /\ st = [k \in Keys |-> IF k = MainKey THEN "open" ELSE "closed"]
  /\ refc = [k \in Keys |-> IF k = MainKey THEN 1 ELSE 0]
  /\ mainp = TRUE

Init ==
  /\ InitShared
  /\ \E g \in Groups : \E first \in {g, "none"} : group = [w \in Workers |-> IF w = 1 THEN first ELSE g]
  /\ tab = {}
  /\ pc = [w \in Workers |-> "off"]
  /\ of = [w \in Workers |-> "p"]
  /\ waits = [a \in Workers \union {App} |-> App]
  /\ server = [w \in Workers |-> FALSE]
  /\ alive = [w \in Workers |-> TRUE]
  /\ que = [w \in Workers |-> "none"]
  /\ tasks = [w \in Workers |-> 0]
  /\ tardy = [w \in Workers |-> 0]
  /\ hold = [w \in Workers |-> {}]
  /\ raced = {}
  /\ rp = [w \in Workers |-> FALSE]
  /\ appAlive = TRUE
  /\ phase = "boot"
  /\ tojoin = {}

Goto(w, l) == pc' = [pc EXCEPT ![w] = l]
At(w, l) == pc[w] = l /\ waits[w] = App
Ended(w) == pc[w] \in {"off", "done", "failed", "cancelled"}

\* The entry a worker opens or gives back; "m" is the reference of m_mainp.
Key(w) == IF of[w] = "m" THEN MainKey ELSE <<of[w], group[w]>>
\* The workers at some place of alloc or free with the entry k.
Busy(k, at) == {w \in Workers : pc[w] \in at /\ Key(w) = k}

----------------------------------------------------------------------------
(* launch *)

\* The actors that may run a script: bootstrap, a worker that executes its
\* code, a fiber of a running worker.
Scripts == {a \in Workers : pc[a] \in {"exec", "run"} /\ waits[a] = App}
           \union (IF phase = "boot" /\ waits[App] = App THEN {App} ELSE {})

\* The name is new: the entry is made and the thread is created.  A script
\* that starts does not launch one that may be waiting for it.
Launch(a, w) ==
  /\ a \in Scripts /\ pc[w] = "off"
  /\ \A v \in 1..(w - 1) : pc[v] # "off"
  /\ (a # App /\ pc[a] = "exec") => w > a
  /\ tab' = tab \union {w}
  /\ Goto(w, "start")
  /\ waits' = [waits EXCEPT ![a] = w]
  /\ UNCHANGED <<group, of, server, alive, evars, qvars, avars>>

\* The name exists: only the wait, if its server is not set.
LaunchAgain(a, w) ==
  /\ a \in Scripts /\ w \in tab /\ w # a /\ ~server[w]
  /\ (a # App /\ pc[a] = "exec") => w > a
  /\ waits' = [waits EXCEPT ![a] = w]
  /\ UNCHANGED <<group, pc, of, tab, server, alive, evars, qvars, avars>>

\* thread::wait sees the server.
Launched(a) ==
  /\ waits[a] # App /\ server[waits[a]]
  /\ waits' = [waits EXCEPT ![a] = App]
  /\ UNCHANGED <<group, pc, of, tab, server, alive, evars, qvars, avars>>

\* The thread ended without a server: after the timeout it is killed, in case
\* it still runs, and its name is given up.
LaunchTimeout(a) ==
  /\ waits[a] # App /\ ~server[waits[a]] /\ pc[waits[a]] = "failed"
  /\ alive' = [alive EXCEPT ![waits[a]] = FALSE]
  /\ tab' = tab \ {waits[a]}
  /\ waits' = [waits EXCEPT ![a] = App]
  /\ UNCHANGED <<group, pc, of, server, evars, qvars, avars>>

----------------------------------------------------------------------------
(* shared_allocator::alloc *)

\* The map returns the entry of the group or makes a new one.
Insert(w) ==
  /\ pc[w] = "insert"
  /\ LET k == Key(w)
     IN  \/ /\ k \notin named
           /\ named' = named \union {k}
           /\ st' = [st EXCEPT ![k] = "raw"]
           /\ refc' = [refc EXCEPT ![k] = 0]
           /\ Goto(w, "init")
           /\ UNCHANGED raced
        \/ /\ k \in named
           /\ raced' = IF Busy(k, {"close", "erase"}) = {} THEN raced ELSE raced \union {k}
           /\ Goto(w, "check")
           /\ UNCHANGED <<named, st, refc>>
  /\ UNCHANGED <<group, of, hold, mainp, rp, wvars, qvars, avars>>

\* The initializer of who made it opens it.
Open(w) ==
  /\ pc[w] = "init"
  /\ st' = [st EXCEPT ![Key(w)] = "open"]
  /\ Goto(w, "refer")
  /\ UNCHANGED <<group, of, named, refc, hold, raced, mainp, rp, wvars, qvars, avars>>

\* The checker of the others: a resource has its result while it is open; a
\* poller has a descriptor, though it may be closed.
Check(w) ==
  /\ pc[w] = "check"
  /\ IF of[w] = "r" THEN st[Key(w)] = "open" ELSE st[Key(w)] # "raw"
  /\ Goto(w, "refer")
  /\ UNCHANGED <<group, of, evars, wvars, qvars, avars>>

Opened(w) == IF of[w] = "r" THEN "exec" ELSE IF group[w] = "main" THEN "mread" ELSE "fabric"

\* A poller that is not open yet has the descriptor -1, an error: the name is
\* erased, and the worker has no poller.
CheckFails(w) ==
  /\ pc[w] = "check" /\ of[w] = "p" /\ st[Key(w)] = "raw"
  /\ named' = named \ {Key(w)}
  /\ raced' = raced \union {Key(w)}
  /\ Goto(w, Opened(w))
  /\ UNCHANGED <<group, of, st, refc, hold, mainp, rp, wvars, qvars, avars>>

Refer(w) ==
  /\ pc[w] = "refer"
  /\ refc' = [refc EXCEPT ![Key(w)] = @ + 1]
  /\ hold' = [hold EXCEPT ![w] = @ \union {Key(w)}]
  /\ Goto(w, Opened(w))
  /\ UNCHANGED <<group, of, named, st, raced, mainp, rp, wvars, qvars, avars>>

(* shared_allocator::free *)

Freed(w) == CASE of[w] = "m" -> "fabric" [] of[w] = "p" -> "qfin" [] OTHER -> "done"

\* element::unref, and what follows when others still refer.
Unref(w) ==
  /\ pc[w] = "unref"
  /\ LET k == Key(w)
     IN  /\ refc' = [refc EXCEPT ![k] = @ - 1]
         /\ raced' = IF refc[k] = 1 /\ Busy(k, {"init", "check", "refer"}) # {}
                     THEN raced \union {k} ELSE raced
         /\ hold' = [hold EXCEPT ![w] = IF of[w] = "m" THEN @ ELSE @ \ {k}]
         /\ Goto(w, IF refc[k] = 1 THEN "close" ELSE Freed(w))
  /\ UNCHANGED <<group, of, named, st, mainp, rp, wvars, qvars, avars>>

\* The last one closes the entry ...
CloseEntry(w) ==
  /\ pc[w] = "close"
  /\ st' = [st EXCEPT ![Key(w)] = "closed"]
  /\ Goto(w, "erase")
  /\ UNCHANGED <<group, of, named, refc, hold, raced, mainp, rp, wvars, qvars, avars>>

\* ... and erases its name, whoever made the entry that has it now.
Erase(w) ==
  /\ pc[w] = "erase"
  /\ named' = named \ {Key(w)}
  /\ Goto(w, Freed(w))
  /\ UNCHANGED <<group, of, st, refc, hold, raced, mainp, rp, wvars, qvars, avars>>

----------------------------------------------------------------------------
(* The start of a worker *)

\* thread::operator() and loop::init: a worker of no group has no poller.
Start(w) ==
  /\ pc[w] = "start"
  /\ of' = [of EXCEPT ![w] = "p"]
  /\ Goto(w, IF group[w] = "none" THEN "fabric" ELSE "insert")
  /\ UNCHANGED <<group, evars, wvars, qvars, avars>>

\* The hand-over of the main poller: m_mainp is read ...
ReadMain(w) ==
  /\ pc[w] = "mread"
  /\ rp' = [rp EXCEPT ![w] = mainp]
  /\ Goto(w, "mcas")
  /\ UNCHANGED <<group, of, named, st, refc, hold, raced, mainp, wvars, qvars, avars>>

\* Slip: the pointer is cleared without a comparison.
TakeMainAnyway(w) ==
  /\ pc[w] = "mcas"
  /\ mainp' = FALSE
  /\ of' = [of EXCEPT ![w] = "m"]
  /\ Goto(w, IF rp[w] THEN "unref" ELSE "fabric")
  /\ rp' = [rp EXCEPT ![w] = FALSE]
  /\ UNCHANGED <<group, named, st, refc, hold, raced, wvars, qvars, avars>>

\* ... and whoever exchanges what it read for NULL gives the reference back.
TakeMain(w) ==
  /\ pc[w] = "mcas"
  /\ mainp' = IF rp[w] = mainp THEN FALSE ELSE mainp
  /\ of' = [of EXCEPT ![w] = "m"]
  /\ Goto(w, IF rp[w] /\ mainp THEN "unref" ELSE "fabric")
  /\ rp' = [rp EXCEPT ![w] = FALSE]
  /\ UNCHANGED <<group, named, st, refc, hold, raced, wvars, qvars, avars>>

\* m_fque and m_fabric are initialized, then the resource is taken.
InitFabric(w) ==
  /\ pc[w] = "fabric"
  /\ que' = [que EXCEPT ![w] = "open"]
  /\ of' = [of EXCEPT ![w] = "r"]
  /\ Goto(w, "insert")
  /\ UNCHANGED <<group, evars, wvars, tasks, tardy, avars>>

\* The code of the worker runs to its end, or fails: then start returns at
\* once, without fin, and the thread ends.
Execute(w) ==
  /\ At(w, "exec")
  /\ \/ Goto(w, "ready") /\ UNCHANGED tab
     \/ Goto(w, "failed") /\ tab' = tab \ {w}
  /\ UNCHANGED <<group, of, waits, server, alive, evars, qvars, avars>>

----------------------------------------------------------------------------
(* server::run and server::fin *)

SetServer(w) ==
  /\ pc[w] = "ready"
  /\ server' = [server EXCEPT ![w] = TRUE]
  /\ Goto(w, "run")
  /\ UNCHANGED <<group, of, tab, waits, alive, evars, qvars, avars>>

RunTask(w) ==
  /\ At(w, "run") /\ tasks[w] > 0
  /\ tasks' = [tasks EXCEPT ![w] = @ - 1]
  /\ UNCHANGED <<group, pc, of, evars, wvars, que, tardy, avars>>

\* Slip: a thread without an event loop does not ask the application.
LeaveThread(w) ==
  /\ At(w, "run")
  /\ ~alive[w] \/ (~appAlive /\ group[w] # "none")
  /\ Goto(w, "drain")
  /\ UNCHANGED <<group, of, evars, wvars, qvars, avars>>

\* The loop ends when the application or the thread is told to.
Leave(w) ==
  /\ At(w, "run")
  /\ ~alive[w] \/ ~appAlive
  /\ Goto(w, "drain")
  /\ UNCHANGED <<group, of, evars, wvars, qvars, avars>>

\* Slip: what came since the last turn of the loop is forgotten.
DrainNot(w) ==
  /\ pc[w] = "drain"
  /\ of' = [of EXCEPT ![w] = "p"]
  /\ Goto(w, IF <<"p", group[w]>> \in hold[w] THEN "unref" ELSE "qfin")
  /\ UNCHANGED <<group, evars, wvars, qvars, avars>>

\* fin: the end of the thread is emitted and all tasks are executed, the Lua
\* VM is closed; then the poller is given back.
Drain(w) ==
  /\ pc[w] = "drain"
  /\ tasks' = [tasks EXCEPT ![w] = 0]
  /\ of' = [of EXCEPT ![w] = "p"]
  /\ Goto(w, IF <<"p", group[w]>> \in hold[w] THEN "unref" ELSE "qfin")
  /\ UNCHANGED <<group, evars, wvars, que, tardy, avars>>

\* m_fque.fin; then the resource is given back.
CloseQueue(w) ==
  /\ pc[w] = "qfin"
  /\ que' = [que EXCEPT ![w] = "closed"]
  /\ of' = [of EXCEPT ![w] = "r"]
  /\ Goto(w, "unref")
  /\ UNCHANGED <<group, evars, wvars, tasks, tardy, avars>>

----------------------------------------------------------------------------
(* What scripts and signals do *)

\* server::close of a thread.  (The emitter of a thread that has ended stays as
\* long as anyone refers to it, and killing it has no effect.)
Kill(a, w) ==
  /\ a \in Scripts \ {App} /\ w \in tab /\ alive[w] /\ ~Ended(w)
  /\ alive' = [alive EXCEPT ![w] = FALSE]
  /\ UNCHANGED <<group, pc, of, tab, waits, server, evars, qvars, avars>>

\* fin has emptied the queue of w.
Emptied(w) == pc[w] \in {"qfin", "done"} \/ (pc[w] \in {"unref", "close", "erase"} /\ of[w] # "m")

\* A call of a thread goes into the queue of its server, which thread.find and
\* the caller's variables know also when it is ending.  (What is pushed after
\* m_fque.fin goes nowhere.)
Call(a, w) ==
  /\ a \in Scripts \ {App}
  /\ w \in Callees \intersect tab /\ server[w] /\ que[w] = "open" /\ tasks[w] < MaxTasks
  /\ tasks' = [tasks EXCEPT ![w] = @ + 1]
  /\ tardy' = [tardy EXCEPT ![w] = IF Emptied(w) THEN @ + 1 ELSE @]
  /\ UNCHANGED <<group, pc, of, evars, wvars, que, avars>>

\* SIGINT, read by a worker that polls the main poller.
Die ==
  /\ appAlive
  /\ \E w \in Workers : At(w, "run") /\ MainKey \in hold[w]
  /\ appAlive' = FALSE
  /\ UNCHANGED <<group, pc, of, evars, wvars, qvars, phase, tojoin>>

----------------------------------------------------------------------------
(* app::run *)

\* bootstrap ends; join takes the list of threads as it is.
Booted ==
  /\ phase = "boot" /\ waits[App] = App
  /\ phase' = "join"
  /\ tojoin' = {w \in Workers : pc[w] # "off"}
  /\ UNCHANGED <<group, pc, of, evars, wvars, qvars, appAlive>>

Join(w) ==
  /\ phase = "join" /\ w \in tojoin /\ Ended(w)
  /\ tojoin' = tojoin \ {w}
  /\ UNCHANGED <<group, pc, of, evars, wvars, qvars, appAlive, phase>>

JoinEnd ==
  /\ phase = "join" /\ tojoin = {}
  /\ phase' = "stop"
  /\ UNCHANGED <<group, pc, of, evars, wvars, qvars, appAlive, tojoin>>

\* thread_pool::fin cancels a thread that was launched since: where it sleeps
\* or waits for events.
Cancel(w) ==
  /\ phase = "stop"
  /\ pc[w] = "run" \/ waits[w] # App
  /\ Goto(w, "cancelled")
  /\ waits' = [waits EXCEPT ![w] = App]
  /\ UNCHANGED <<group, of, tab, server, alive, evars, qvars, avars>>

\* Slip: the threads are cancelled and not waited for.
StopNow ==
  /\ phase = "stop"
  /\ phase' = "static"
  /\ UNCHANGED <<group, pc, of, evars, wvars, qvars, appAlive, tojoin>>

\* It waits for each.
Stop ==
  /\ phase = "stop" /\ \A w \in Workers : Ended(w)
  /\ phase' = "static"
  /\ UNCHANGED <<group, pc, of, evars, wvars, qvars, appAlive, tojoin>>

\* static_fin: the main poller is given back if nobody took it over, and what
\* the pools still hold is freed with them.
StaticFin ==
  /\ phase = "static"
  /\ phase' = "end"
  /\ appAlive' = FALSE
  /\ named' = {}
  /\ st' = [k \in Keys |-> "closed"]
  /\ refc' = [k \in Keys |-> 0]
  /\ hold' = [w \in Workers |-> {}]
  /\ mainp' = FALSE
  /\ tab' = {}
  /\ UNCHANGED <<group, pc, of, waits, server, alive, qvars, raced, rp, tojoin>>

----------------------------------------------------------------------------

Script(a) == \E w \in Workers : Launch(a, w) \/ LaunchAgain(a, w) \/ Kill(a, w) \/ Call(a, w)
Wait(a) == Launched(a) \/ LaunchTimeout(a)
Share(w) ==
  \/ Insert(w) \/ Open(w) \/ Check(w) \/ CheckFails(w) \/ Refer(w)
  \/ Unref(w) \/ CloseEntry(w) \/ Erase(w)
Work(w) ==
  \/ Start(w) \/ ReadMain(w) \/ TakeMain(w) \/ InitFabric(w) \/ Execute(w) \/ SetServer(w)
  \/ Leave(w) \/ Drain(w) \/ CloseQueue(w)
Process == Booted \/ (\E w \in Workers : Join(w) \/ Cancel(w)) \/ JoinEnd \/ Stop \/ StaticFin

Advance == (\E w \in Workers : Share(w) \/ Work(w)) \/ (\E a \in Workers \union {App} : Wait(a)) \/ Process

Next ==
  \/ \E a \in Workers \union {App} : Script(a)
  \/ \E w \in Workers : RunTask(w)
  \/ Die \/ Advance

\* The threads that can go on do so; scripts and tasks may do without end what
\* does not keep a thread in one place.
Fairness == WF_vars(Advance)

SafeSpec == Init /\ [][Next]_vars
Spec == SafeSpec /\ Fairness

----------------------------------------------------------------------------
(* Properties *)

TypeOK ==
  /\ tab \subseteq Workers /\ tojoin \subseteq Workers
  /\ pc \in [Workers -> {"off", "start", "insert", "init", "check", "refer", "unref", "close", "erase",
                         "mread", "mcas", "fabric", "exec", "ready", "run", "drain", "qfin",
                         "done", "failed", "cancelled"}]
  /\ of \in [Workers -> {"p", "r", "m"}]
  /\ waits \in [Workers \union {App} -> Workers \union {App}]
  /\ tasks \in [Workers -> 0..MaxTasks]
  /\ refc \in [Keys -> Int]
  /\ named \subseteq Keys /\ raced \subseteq Keys
  /\ st \in [Keys -> {"raw", "open", "closed"}]

\* The references to an entry.
Refs(k) ==
  Cardinality({w \in Workers : k \in hold[w]})
  + (IF k = MainKey /\ mainp THEN 1 ELSE 0)
  + Cardinality({w \in Workers : k = MainKey /\ pc[w] = "unref" /\ of[w] = "m"})

Lives(k) == st[k] = "open" /\ k \in named

\* A poller or a resource is counted once for every worker that uses it and
\* once for m_mainp, and is open and in its map as long as anyone uses it
\* (shalloc.h:24-31, loop.cpp:156-164): unless some worker found it while
\* another was making it or had given back the last reference.
HeldLives ==
  /\ TypeOK
  /\ \A k \in Keys \ raced : refc[k] = Refs(k) /\ (Refs(k) > 0 => Lives(k))

\* The claim of shalloc.h:3, "named memory which safely allocates from
\* multi-thread": a resource that somebody uses is open.  It fails: alloc
\* counts the reference after the map has found the entry (shalloc.h:40-41),
\* and whoever gives back the last one meanwhile tears it down (25-30, 59).
SharedLives == \A g \in Groups : Refs(<<"r", g>>) > 0 => Lives(<<"r", g>>)

\* The claim of loop.h:49, "5sec initialization timeout": who finds a poller
\* that is being opened waits for it, and a worker with an event loop has its
\* poller when it runs.  It fails: after a millisecond the descriptor -1 is
\* taken for an error (loop.h:51, map.h:746-747).
PollerFound == \A w \in Workers : pc[w] = "run" /\ group[w] # "none" => <<"p", group[w]>> \in hold[w]

\* What was sent to a worker before fin emptied its queue is executed, and
\* what is left when the queue is torn down came later (server.h:380-391).
Drained == \A w \in Workers : que[w] = "closed" => tasks[w] = tardy[w]

\* The claim of server.h:381, "process all thread message".  It fails: a call
\* that comes while the poller is given back stays in the queue.
AllExecuted == \A w \in Workers : que[w] = "closed" => tasks[w] = 0

\* The pools are freed only when no worker runs any more, also none that
\* was launched after bootstrap and is not joined (app.h:80-86).
PoolsOutlive == phase \in {"static", "end"} => \A w \in Workers : Ended(w)

\* Once the application is told to die, its workers and launches end, and it
\* ends (server.cpp:44-59, app.h:44-51): unless a worker found a resource that
\* was being torn down and waits for its result for ever.
Stops == (~appAlive) ~> (phase = "end" \/ \E g \in Groups : <<"r", g>> \in raced)
=============================================================================
