------------------------------ MODULE Binding ------------------------------
(***************************************************************************)
(* The objects of one Lua VM for a cached socket: how fibers of the VM     *)
(* come to share one, the callbacks bound to its events, and its end       *)
(* (ll/lua/yue.lua; ll/lua/emitter/base.hpp, socket.hpp; ll/lua/lua.hpp)   *)
(*                                                                         *)
(* The fibers of a VM run on one thread and each runs until it yields.  A  *)
(* bind yields, also the one inside the constructor of a socket: while it  *)
(* waits, another fiber may ask for the same address and gets the same     *)
(* pointer.  The tables that say that an event is bound or an object being *)
(* made are written before the yield.                                      *)
(*                                                                         *)
(* Of the emitter there is what modules Emittable, WatchList and Fiber     *)
(* show: its commands are executed in their order, a bound event starts a  *)
(* fiber for each emit, and a fiber that waits is resumed by the first.    *)
(* What a fiber does when a command resumes it is part of the execution of *)
(* the command.  Between two calls it may yield for other reasons, and so  *)
(* may a callback.  Fibers of other workers, other events of the session,  *)
(* timeouts and the remote calls of an object are left out; two watchers   *)
(* of one event, which an old and a new object of one entry may have, are  *)
(* one.                                                                    *)
(*                                                                         *)
(* Definitions marked "Slip" are wrong variants of the definition that     *)
(* follows them; the properties are required to notice each of them.       *)
(***************************************************************************)
EXTENDS Naturals, Sequences, FiniteSets, SequencesExt

CONSTANTS
  Fibers,     \* fibers of the application
  Events,     \* names of events the application emits
  Together,   \* the sets of events that a bind is for
  Callbacks,  \* functions that are bound to events
  MaxObjects, \* bound on the objects made for the address
  MaxCalls,   \* bound on the calls a fiber of the application makes
  MaxWalks    \* bound on the fibers that run callbacks at a time

VARIABLES
  pc,           \* pc[f]: what fiber f waits for, or "ready"
  mine,         \* mine[f]: the object the fiber was given, 0: none
  rest,         \* rest[f]: events a bind of the fiber has yet to ask for
  left,         \* left[f]: calls the fiber may still make
  entry,        \* there is a socket for the address
  made,         \* objects made so far; object n is the n-th of them
  objects,      \* objects__ and namespaces__ of the pointer, 0: nil
  initializing, \* __initializing of the pointer, 0: nil
  bounds,       \* bounds[n]: __bounds, the events marked as bound
  list,         \* list[n][e]: the callback list of an event
  refs,         \* references of objects__ to the socket
  socket,       \* the connection: "new", "open", "closing" or "down"
  finalized,    \* F_FINALIZED: the application closed it
  watchers,     \* <<event, fiber that waits or 0>>
  cmds,         \* commands of the emitter
  walk          \* walk[r]: a run of the callbacks of an event

vars == <<pc, mine, rest, left, entry, made, objects, initializing, bounds, list,
          refs, socket, finalized, watchers, cmds, walk>>

Object == 1 .. MaxObjects
Walks == 1 .. MaxWalks
Close == "close"
Bindable == Events \union {Close}

\* A run of callbacks: those begun so far, and whether the part of the list
\* they were taken from changed meanwhile.
NoWalk == [obj |-> 0, e |-> Close, begun |-> <<>>, astray |-> FALSE]

Command(type, e, f) == [type |-> type, e |-> e, f |-> f]

Init ==
  /\ pc = [f \in Fibers |-> "ready"]
  /\ mine = [f \in Fibers |-> 0]
  /\ rest = [f \in Fibers |-> {}]
  /\ left = [f \in Fibers |-> MaxCalls]
  /\ entry = FALSE
  /\ made = 0 /\ objects = 0 /\ initializing = 0
  /\ bounds = [n \in Object |-> {Close}]
  /\ list = [n \in Object |-> [e \in Bindable |-> <<>>]]
  /\ refs = 0 /\ socket = "new" /\ finalized = FALSE
  /\ watchers = {} /\ cmds = <<>>
  /\ walk = [r \in Walks |-> NoWalk]

fibers == <<pc, mine, rest>>
tables == <<objects, initializing, refs>>
callbacks == <<bounds, list>>
link == <<socket, finalized>>

At(f, p) == pc' = [pc EXCEPT ![f] = p]
Given(f, n) == mine' = [mine EXCEPT ![f] = n]
Submit(type, e, f) == cmds' = Append(cmds, Command(type, e, f))

\* Fiber f of the application makes a call.
Calls(f) ==
  /\ pc[f] = "ready" /\ left[f] > 0
  /\ left' = [left EXCEPT ![f] = @ - 1]

\* The object of the fiber is closed: __ptr is nil.
Gone(f) == mine[f] # objects

----------------------------------------------------------------------------
(* yue.socket(address) *)

\* lib.yue_socket_new: the entry of the address, made when there is none.
NewSocket(f) == Calls(f) /\ entry' = TRUE

\* __call: the pointer has an object.
Get(f) ==
  /\ NewSocket(f) /\ objects # 0
  /\ Given(f, objects)
  /\ UNCHANGED <<pc, rest, made, tables, callbacks, link, watchers, cmds, walk>>

\* Slip: a fiber that comes while the object is being made makes another.
ConstructAnyway(f) ==
  /\ NewSocket(f) /\ objects = 0
  /\ made < MaxObjects
  /\ made' = made + 1
  /\ initializing' = made + 1
  /\ Given(f, made + 1)
  /\ Submit("bind", Close, f) /\ At(f, "constructing")
  /\ UNCHANGED <<rest, objects, refs, callbacks, link, watchers, walk>>

\* __ctor: the new object is there for others to find, and its bind yields.
Construct(f) ==
  /\ NewSocket(f) /\ objects = 0 /\ initializing = 0
  /\ made < MaxObjects
  /\ made' = made + 1
  /\ initializing' = made + 1
  /\ Given(f, made + 1)
  /\ Submit("bind", Close, f) /\ At(f, "constructing")
  /\ UNCHANGED <<rest, objects, refs, callbacks, link, watchers, walk>>

\* __ctor: another fiber makes the object; this one waits for its event.  It
\* fails when the object is only marked as being made and was closed since.
Await(f) ==
  /\ NewSocket(f) /\ objects = 0 /\ initializing # 0
  /\ Given(f, 0)
  /\ IF \E g \in Fibers : pc[g] = "constructing"
     THEN Submit("wait", "initialized", f) /\ At(f, "awaiting")
     ELSE At(f, "failed") /\ UNCHANGED cmds
  /\ UNCHANGED <<rest, made, tables, callbacks, link, watchers, walk>>

----------------------------------------------------------------------------
(* Callbacks *)

Has(l, cb) == \E i \in 1 .. Len(l) : l[i] = cb

\* Slip: a callback that is there is put there once more.
PutAgain(l, cb, method) == IF method = "push" THEN Append(l, cb) ELSE <<cb>> \o l

\* push and append of a callback list: behind the others or in front of them
Put(l, cb, method) ==
  IF Has(l, cb) THEN l ELSE IF method = "push" THEN Append(l, cb) ELSE <<cb>> \o l

\* pop of a callback list
Pop(l, cb) == SelectSeq(l, LAMBDA x : x # cb)

\* The lists change.  exec counts places: a run whose callbacks so far do not
\* stand at the first places any more has gone astray.
Change(new) ==
  /\ list' = new
  /\ walk' = [r \in Walks |-> [walk[r] EXCEPT !.astray =
       @ \/ (walk[r].obj # 0 /\ ~IsPrefix(walk[r].begun, new[walk[r].obj][walk[r].e]))]]

\* yue_emitter_bind for one of the events, which yields.
Ask(f, evs) ==
  \E e \in evs : /\ Submit("bind", e, f) /\ At(f, "binding")
                 /\ rest' = [rest EXCEPT ![f] = evs \ {e}]

\* Slip: of several events only one is asked for.
BindFirst(f, evs, cb, method) ==
  /\ Calls(f) /\ mine[f] # 0
  /\ bounds' = [bounds EXCEPT ![mine[f]] = @ \union evs]
  /\ Change([list EXCEPT ![mine[f]] =
       [e \in Bindable |-> IF e \in evs THEN Put(@[e], cb, method) ELSE @[e]]])
  /\ IF evs \subseteq bounds[mine[f]] THEN UNCHANGED <<pc, rest, cmds>>
     ELSE IF Gone(f) THEN At(f, "failed") /\ UNCHANGED <<rest, cmds>>
     ELSE \E e \in evs \ bounds[mine[f]] : Ask(f, {e})
  /\ UNCHANGED <<mine, entry, made, tables, link, watchers>>

\* bind of a callback to some events: all get it into their lists and are
\* marked; then the emitter is asked for those that were not marked before,
\* one after the other.  Without its pointer that is an error.
Bind(f, evs, cb, method) ==
  /\ Calls(f) /\ mine[f] # 0
  /\ bounds' = [bounds EXCEPT ![mine[f]] = @ \union evs]
  /\ Change([list EXCEPT ![mine[f]] =
       [e \in Bindable |-> IF e \in evs THEN Put(@[e], cb, method) ELSE @[e]]])
  /\ IF evs \subseteq bounds[mine[f]] THEN UNCHANGED <<pc, rest, cmds>>
     ELSE IF Gone(f) THEN At(f, "failed") /\ UNCHANGED <<rest, cmds>>
     ELSE Ask(f, evs \ bounds[mine[f]])
  /\ UNCHANGED <<mine, entry, made, tables, link, watchers>>

Unbind(f, e, cb) ==
  /\ Calls(f) /\ mine[f] # 0
  /\ Has(list[mine[f]][e], cb)
  /\ Change([list EXCEPT ![mine[f]][e] = Pop(@, cb)])
  /\ UNCHANGED <<fibers, entry, made, tables, bounds, link, watchers, cmds>>

\* Fibers there is no room for: bound on the events under way.
Room == Cardinality({r \in Walks : walk[r].obj # 0})
          + Len(SelectSeq(cmds, LAMBDA c : c.type = "emit" /\ c.e \in Bindable)) < MaxWalks

Emit(f, e) ==
  /\ Calls(f) /\ mine[f] # 0 /\ Room
  /\ IF Gone(f) THEN At(f, "failed") /\ UNCHANGED cmds
     ELSE Submit("emit", e, 0) /\ UNCHANGED pc
  /\ UNCHANGED <<mine, rest, entry, made, tables, callbacks, link, watchers, walk>>

\* The callback returns and the next place of the list has another.
Step(r) ==
  LET w == walk[r]
      l == list[w.obj][w.e]
  IN /\ w.obj # 0 /\ Len(w.begun) < Len(l)
     /\ walk' = [walk EXCEPT ![r].begun = Append(@, l[Len(@) + 1])]
     /\ UNCHANGED <<fibers, left, entry, made, tables, callbacks, link, watchers, cmds>>

\* A callback removes one from the list that is run.
UnbindInside(r, cb) ==
  LET w == walk[r]
  IN /\ w.obj # 0 /\ Has(list[w.obj][w.e], cb)
     /\ Change([list EXCEPT ![w.obj][w.e] = Pop(@, cb)])
     /\ UNCHANGED <<fibers, left, entry, made, tables, bounds, link, watchers, cmds>>

----------------------------------------------------------------------------
(* The end of the connection *)

\* close by the application.  A connection that is down has no event to give.
CloseSocket(f) ==
  /\ Calls(f) /\ mine[f] # 0 /\ ~Gone(f)
  /\ finalized' = TRUE
  /\ socket' = IF socket = "open" THEN "closing" ELSE socket
  /\ UNCHANGED <<fibers, entry, made, tables, callbacks, watchers, cmds, walk>>

\* A call of a procedure of the object connects it again.
Connect(f) ==
  /\ Calls(f) /\ mine[f] # 0 /\ ~Gone(f)
  /\ socket = "down" /\ socket' = "open"
  /\ UNCHANGED <<fibers, entry, made, tables, callbacks, finalized, watchers, cmds, walk>>

\* on_close, by the application or the peer: the event, and for good with all
\* watchers removed behind it.
OnClose ==
  /\ socket \in {"open", "closing"} /\ Room
  /\ socket' = "down"
  /\ cmds' = cmds \o <<Command("emit", Close, 0)>>
              \o IF finalized THEN <<Command("clear", Close, 0)>> ELSE <<>>
  /\ UNCHANGED <<fibers, left, entry, made, tables, callbacks, finalized, watchers, walk>>

\* The socket has n references of tables, the given watchers, each with one,
\* one of the task that will execute the commands, and one of the handler table
\* while it is open.  Without any it is finalized and its entry erased; the
\* next one takes its place.
Refer(n, ws, others, so) ==
  /\ refs' = n /\ watchers' = ws /\ cmds' = others
  /\ IF n = 0 /\ ws = {} /\ others = <<>> /\ so \notin {"open", "closing"}
     THEN entry' = FALSE /\ socket' = "new" /\ finalized' = FALSE
     ELSE socket' = so /\ UNCHANGED <<entry, finalized>>

\* Slip: the object keeps its place in the tables.
UnrefPointer(others) == Refer(refs - 1, watchers, others, socket) /\ UNCHANGED objects

\* __unref: the tables forget the object.
Unref(others) == Refer(refs - 1, watchers, others, socket) /\ objects' = 0

\* __post_close, after the callbacks of object n: the end of the object, or a
\* new connection when the last callback returned something.
Post(n, e, reconnects, others) ==
  IF e = Close /\ n = objects /\ finalized THEN Unref(others)
  ELSE /\ \/ Refer(refs, watchers, others, socket)
          \/ /\ e = Close /\ n = objects /\ reconnects /\ socket = "down"
             /\ Refer(refs, watchers, others, "open")
       /\ UNCHANGED objects

\* The callback is the last one, or fails and ends the run.
End(r) ==
  /\ walk[r].obj # 0
  /\ walk' = [walk EXCEPT ![r] = NoWalk]
  /\ \/ /\ Len(walk[r].begun) >= Len(list[walk[r].obj][walk[r].e])
        /\ Post(walk[r].obj, walk[r].e, TRUE, cmds)
     \/ Post(walk[r].obj, walk[r].e, FALSE, cmds)
  /\ UNCHANGED <<fibers, left, made, initializing, callbacks>>

----------------------------------------------------------------------------
(* The emitter executes its next command *)

Execute(type) ==
  /\ cmds # <<>> /\ Head(cmds).type = type
  /\ UNCHANGED left

\* The constructor goes on: activate.  The object gets into the tables, the
\* connection is opened, and those who wait are told.
Activate ==
  LET f == Head(cmds).f
  IN /\ Execute("bind") /\ pc[f] = "constructing"
     /\ watchers' = watchers \union {<<Close, 0>>}
     /\ objects' = mine[f] /\ refs' = refs + 1
     /\ socket' = IF socket = "closing" THEN socket ELSE "open"
     /\ initializing' = 0
     /\ cmds' = Append(Tail(cmds), Command("emit", "initialized", 0))
     /\ At(f, "ready")
     /\ UNCHANGED <<mine, rest, entry, made, callbacks, finalized, walk>>

\* The connection cannot be opened: an error, with the object in the tables
\* and still marked as being made.  Those who wait for it wait on.
ActivateFails ==
  LET f == Head(cmds).f
  IN /\ Execute("bind") /\ pc[f] = "constructing" /\ socket \in {"new", "down"}
     /\ watchers' = watchers \union {<<Close, 0>>}
     /\ objects' = mine[f] /\ refs' = refs + 1
     /\ cmds' = Tail(cmds)
     /\ socket' = "down"
     /\ At(f, "failed")
     /\ UNCHANGED <<mine, rest, entry, made, initializing, callbacks, finalized, walk>>

\* bind goes on with the next event, or returns.
Bound ==
  LET f == Head(cmds).f
      Others == Tail(cmds)
  IN /\ Execute("bind") /\ pc[f] = "binding"
     /\ watchers' = watchers \union {<<Head(cmds).e, 0>>}
     /\ IF rest[f] = {} THEN cmds' = Others /\ At(f, "ready") /\ UNCHANGED rest
        ELSE \E e \in rest[f] : /\ cmds' = Append(Others, Command("bind", e, f))
                                /\ rest' = [rest EXCEPT ![f] = @ \ {e}]
                                /\ UNCHANGED pc
     /\ UNCHANGED <<mine, entry, made, tables, callbacks, link, walk>>

Waits ==
  /\ Execute("wait")
  /\ watchers' = watchers \union {<<"initialized", Head(cmds).f>>}
  /\ cmds' = Tail(cmds)
  /\ UNCHANGED <<fibers, entry, made, tables, callbacks, link, walk>>

\* Those who wait get the object of the tables.
Initialized ==
  LET told == {f \in Fibers : <<"initialized", f>> \in watchers}
  IN /\ Execute("emit") /\ Head(cmds).e = "initialized"
     /\ Refer(refs, watchers \ ({"initialized"} \X told), Tail(cmds), socket)
     /\ mine' = [f \in Fibers |-> IF f \in told THEN objects ELSE mine[f]]
     /\ pc' = [f \in Fibers |-> IF f \in told THEN "ready" ELSE pc[f]]
     /\ UNCHANGED <<rest, made, objects, initializing, callbacks, walk>>

\* Nobody is called: the event has no watcher, the tables have forgotten the
\* object (the fiber started for it fails), or the list is empty.
Unheard ==
  LET e == Head(cmds).e
  IN /\ Execute("emit") /\ e \in Bindable
     /\ \/ /\ <<e, 0>> \notin watchers \/ objects = 0
           /\ Refer(refs, watchers, Tail(cmds), socket) /\ UNCHANGED objects
        \/ /\ <<e, 0>> \in watchers /\ objects # 0 /\ list[objects][e] = <<>>
           /\ Post(objects, e, FALSE, Tail(cmds))
     /\ UNCHANGED <<fibers, made, initializing, callbacks, walk>>

\* A fiber is started and calls the first callback.
Heard ==
  LET e == Head(cmds).e
      r == CHOOSE x \in Walks : walk[x].obj = 0
  IN /\ Execute("emit") /\ e \in Bindable
     /\ <<e, 0>> \in watchers /\ objects # 0 /\ list[objects][e] # <<>>
     /\ walk' = [walk EXCEPT ![r] = [NoWalk EXCEPT !.obj = objects, !.e = e,
                                       !.begun = <<list[objects][e][1]>>]]
     /\ Refer(refs, watchers, Tail(cmds), socket)
     /\ UNCHANGED <<fibers, made, objects, initializing, callbacks>>

\* All watchers are removed.  A fiber that waits for an object that is made of
\* a socket another one closed for good is forgotten.
Clear ==
  /\ Execute("clear")
  /\ pc' = [f \in Fibers |-> IF <<"initialized", f>> \in watchers THEN "forgotten" ELSE pc[f]]
  /\ Refer(refs, {}, Tail(cmds), socket)
  /\ UNCHANGED <<mine, rest, made, objects, initializing, callbacks, walk>>

----------------------------------------------------------------------------

Next ==
  \/ \E f \in Fibers :
       \/ Get(f) \/ Construct(f) \/ Await(f) \/ CloseSocket(f) \/ Connect(f)
       \/ \E cb \in Callbacks, evs \in Together :
            \E method \in {"push", "append"} : Bind(f, evs, cb, method)
       \/ \E cb \in Callbacks, e \in Bindable : Unbind(f, e, cb)
       \/ \E e \in Events : Emit(f, e)
  \/ \E r \in Walks : Step(r) \/ End(r) \/ \E cb \in Callbacks : UnbindInside(r, cb)
  \/ OnClose
  \/ Activate \/ ActivateFails \/ Bound \/ Waits \/ Initialized
  \/ Unheard \/ Heard \/ Clear

Spec == Init /\ [][Next]_vars

----------------------------------------------------------------------------

\* All fibers that were given an object that is not closed have the same one,
\* the one the tables hold or that is being made, and the tables hold one
\* reference for it (yue.lua:698-733, __ctor, activate; 447-455, __unref).
OneObject ==
  /\ refs = (IF objects = 0 THEN 0 ELSE 1)
  /\ \A f \in Fibers : pc[f] = "constructing" => mine[f] = initializing /\ objects = 0
  /\ objects # 0 => objects = made /\ initializing \in {0, objects}

\* A fiber that waits for an object waits for one that is being made, or the
\* event that it is made is behind it (yue.lua:700-703, __ctor; 724-733, activate).
WillBeTold ==
  \A f \in Fibers : pc[f] = "awaiting" =>
    \/ initializing # 0
    \/ \E i \in 1 .. Len(cmds) :
         /\ cmds[i].type = "emit" /\ cmds[i].e = "initialized"
         /\ \/ <<"initialized", f>> \in watchers
            \/ \E j \in 1 .. i - 1 : cmds[j].type = "wait" /\ cmds[j].f = f

\* An event marked as bound has its watcher, or will have it before an event
\* that is emitted now comes to it, unless the fiber that marked it still
\* waits for the watcher of an event of the same call (yue.lua:506-552, bind).
MarkedIsBound ==
  objects # 0 /\ ~finalized =>
    \A e \in bounds[objects] :
      \/ <<e, 0>> \in watchers
      \/ \E i \in 1 .. Len(cmds) : cmds[i].type = "bind" /\ cmds[i].e = e
      \/ \E f \in Fibers : pc[f] = "binding" /\ e \in rest[f]

\* A run calls every callback of the part of the list it has behind it, each
\* once, unless that part changed meanwhile (yue.lua:184-207, exec, pop).
CalledOnce ==
  \A r \in Walks : walk[r].obj # 0 /\ ~walk[r].astray =>
    /\ IsInjective(walk[r].begun)
    /\ IsPrefix(walk[r].begun, list[walk[r].obj][walk[r].e])

=============================================================================
