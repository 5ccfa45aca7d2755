------------------------------- MODULE Timers -------------------------------
(***************************************************************************)
(* A timer that has a name and is shared by the workers of a group         *)
(* (server.h, create_timer; shalloc.h; handler/timerfd.h), as the VMs make *)
(* it, open it, close it and end (yue.lua, activate and close).            *)
(*                                                                         *)
(* The timer has two counts: m_refc of the allocator, one for each         *)
(* creation, and m_refc of the emittable, one for each VM, for the poller  *)
(* and for the task that closes it.  Only when the second is down to none, *)
(* finalize takes one from the first.                                      *)
(*                                                                         *)
(* An entry is found and counted in one step, and initialized before those *)
(* who wait for it give up.  find_timer, which counts nothing, is left     *)
(* out.                                                                    *)
(*                                                                         *)
(* Definitions marked "Slip" are wrong variants of the definition that     *)
(* follows them; the properties are required to notice each of them.       *)
(***************************************************************************)
EXTENDS Integers

CONSTANTS
  VMs,         \* one for each worker
  MaxEntries,  \* bound on the entries, which are numbered
  MaxCount     \* bound on the creations of one entry

VARIABLES
  entry,   \* entry[e]: see Blank
  named,   \* the entry the pool has under the name, or 0
  vm,      \* vm[v]: what the VM does, with which entry
  task,    \* task[v]: the entry the worker is going to close, or 0
  shared,  \* history: entries that two had at a time, or one more than once
  broken   \* history: entries that were erased while somebody had them

vars == <<entry, named, vm, task, shared, broken>>

Entries == 1 .. MaxEntries
Second == 3  \* ticks of the clock in a second

\* refc: of the allocator; emittable: m_refc; attached: in the handler table;
\* early: by how much it expires before the time it was asked to
Blank == [refc |-> 0, emittable |-> 0, fd |-> "none", closed |-> FALSE,
          attached |-> FALSE, freed |-> FALSE, early |-> 0]

Init ==
  /\ entry = [e \in Entries |-> Blank]
  /\ named = 0
  /\ vm = [v \in VMs |-> [pc |-> "idle", of |-> 0]]
  /\ task = [v \in VMs |-> 0]
  /\ shared = {} /\ broken = {}

At(v, pc) == vm[v].pc = pc
Becomes(v, pc) == vm' = [vm EXCEPT ![v].pc = pc]
Others(v, e) == {w \in VMs \ {v} : vm[w].of = e}
Used(e) == e = named \/ entry[e] # Blank

----------------------------------------------------------------------------
(* alloc_and_init *)

\* There is no entry of that name, or there is.
Alloc(v) ==
  /\ At(v, "idle")
  /\ IF named = 0
     THEN \E e \in Entries :
            /\ ~Used(e) /\ \A d \in 1 .. e - 1 : Used(d)
            /\ named' = e
            /\ vm' = [vm EXCEPT ![v] = [pc |-> "initializing", of |-> e]]
            /\ UNCHANGED shared
     ELSE /\ vm' = [vm EXCEPT ![v] = [pc |-> "waiting", of |-> named]]
          /\ shared' = shared \union {named}
          /\ UNCHANGED named
  /\ UNCHANGED <<entry, task, broken>>

\* Slip: the second that is full is not counted.
EarlyLost(now, start) ==
  LET ns == (now % Second) + (start % Second)
      nsec == IF ns >= Second THEN ns % Second ELSE now % Second
  IN (now % Second) + (start % Second) - nsec

\* init sets the time of the first event from a clock and the time to wait; the
\* parts of a second are only set if together they fill one.
Early(now, start) ==
  LET ns == (now % Second) + (start % Second)
      sec == (start \div Second) + (IF ns >= Second THEN 1 ELSE 0)
      nsec == IF ns >= Second THEN ns % Second ELSE now % Second
  IN (now + start) - (((now \div Second) + sec) * Second + nsec)

Created(e) == [entry[e] EXCEPT !.refc = @ + 1]

Initialize(v) ==
  /\ At(v, "initializing")
  /\ \E now \in 0 .. Second - 1, start \in 0 .. 2 * Second :
       entry' = [entry EXCEPT ![vm[v].of] =
                   [Created(vm[v].of) EXCEPT !.fd = "open", !.early = Early(now, start)]]
  /\ Becomes(v, "created")
  /\ UNCHANGED <<named, task, shared, broken>>

\* No descriptor: the entry is erased, whoever waits for it.
InitializeFails(v) ==
  LET e == vm[v].of IN
  /\ At(v, "initializing")
  /\ entry' = [entry EXCEPT ![e].freed = TRUE]
  /\ named' = 0
  /\ broken' = IF Others(v, e) # {} THEN broken \union {e} ELSE broken
  /\ vm' = [vm EXCEPT ![v] = [pc |-> "idle", of |-> 0]]
  /\ UNCHANGED <<task, shared>>

Checked(v) ==
  LET e == vm[v].of IN
  /\ At(v, "waiting") /\ entry[e].fd = "open"
  /\ entry[e].refc < MaxCount /\ e \notin broken
  /\ entry' = [entry EXCEPT ![e] = Created(e)]
  /\ Becomes(v, "created")
  /\ UNCHANGED <<named, task, shared, broken>>

\* The timer was closed, but its entry is still there.  After five seconds it
\* is erased.
GiveUp(v) ==
  LET e == vm[v].of IN
  /\ At(v, "waiting") /\ entry[e].fd = "closed" /\ e \notin broken
  /\ entry' = [entry EXCEPT ![e].freed = TRUE]
  /\ named' = IF named = e THEN 0 ELSE named
  /\ broken' = broken \union {e}
  /\ vm' = [vm EXCEPT ![v] = [pc |-> "idle", of |-> 0]]
  /\ UNCHANGED <<task, shared>>

----------------------------------------------------------------------------
(* The emittable *)

\* Slip: finalize erases the entry, whatever its count is.
DropAll(e, n) ==
  IF e.emittable > n THEN [e EXCEPT !.emittable = @ - n]
  ELSE [e EXCEPT !.emittable = 0, !.refc = @ - 1, !.freed = TRUE]

\* Entry e without n of its references; with the last one it is finalized.
Drop(e, n) ==
  IF e.emittable > n THEN [e EXCEPT !.emittable = @ - n]
  ELSE [e EXCEPT !.emittable = 0, !.refc = @ - 1, !.freed = e.refc = 1]

Becoming(e, r) ==
  /\ entry' = [entry EXCEPT ![e] = r]
  /\ named' = IF r.freed /\ named = e THEN 0 ELSE named

\* activate: the VM refers to the timer and opens it.  The poller takes it, if
\* it has a descriptor.  If the poller has it already, the error takes it out of
\* the table.
Activate(v) ==
  LET e == vm[v].of IN
  /\ At(v, "created") /\ e \notin broken
  /\ entry' = [entry EXCEPT ![e] =
       IF @.fd # "open" THEN [@ EXCEPT !.emittable = @ + 1]
       ELSE IF @.attached THEN [@ EXCEPT !.emittable = @ + 1, !.attached = FALSE]
       ELSE [@ EXCEPT !.emittable = @ + 2, !.attached = TRUE]]
  /\ Becomes(v, "holding")
  /\ UNCHANGED <<named, task, shared, broken>>

\* The VM asks for the name again: the entry is counted, and the object is the
\* one it has.
Again(v) ==
  LET e == vm[v].of IN
  /\ At(v, "holding") /\ named = e /\ entry[e].fd = "open" /\ e \notin broken
  /\ entry[e].refc < MaxCount
  /\ entry' = [entry EXCEPT ![e] = Created(e)]
  /\ shared' = shared \union {e}
  /\ UNCHANGED <<named, vm, task, broken>>

\* close: the first one makes a task, which refers to the timer.
Close(v) ==
  LET e == vm[v].of
      first == ~entry[e].closed
  IN
  /\ At(v, "holding") /\ e \notin broken
  /\ first => task[v] = 0
  /\ Becoming(e, IF first THEN [entry[e] EXCEPT !.closed = TRUE] ELSE Drop(entry[e], 1))
  /\ task' = IF first THEN [task EXCEPT ![v] = e] ELSE task
  /\ vm' = [vm EXCEPT ![v] = [pc |-> "idle", of |-> 0]]
  /\ UNCHANGED <<shared, broken>>

\* The VM ends: its finalizer gives the references back.  The timer goes on, as
\* the poller has it.
End(v) ==
  LET e == vm[v].of IN
  /\ At(v, "holding") /\ task[v] = 0 /\ e \notin broken
  /\ Becoming(e, Drop(entry[e], 1))
  /\ vm' = [vm EXCEPT ![v] = [pc |-> "ended", of |-> 0]]
  /\ shared' = shared \union {e}
  /\ UNCHANGED <<task, broken>>

\* Slip: the poller keeps its reference.
CloseTaskKeep(v) ==
  LET e == task[v]
      attached == entry[e].fd = "open" /\ entry[e].attached
  IN
  /\ e # 0 /\ e \notin broken
  /\ Becoming(e, IF attached
                 THEN [Drop(entry[e], 1) EXCEPT !.fd = "closed", !.attached = FALSE]
                 ELSE Drop(entry[e], 1))
  /\ task' = [task EXCEPT ![v] = 0]
  /\ UNCHANGED <<vm, shared, broken>>

\* The task: loop::close takes the timer out of the table and closes its
\* descriptor, if it is in the table.
CloseTask(v) ==
  LET e == task[v]
      attached == entry[e].fd = "open" /\ entry[e].attached
  IN
  /\ e # 0 /\ e \notin broken
  /\ Becoming(e, IF attached
                 THEN [Drop(entry[e], 2) EXCEPT !.fd = "closed", !.attached = FALSE]
                 ELSE Drop(entry[e], 1))
  /\ task' = [task EXCEPT ![v] = 0]
  /\ UNCHANGED <<vm, shared, broken>>

Next ==
  \E v \in VMs :
    \/ Alloc(v) \/ Initialize(v) \/ InitializeFails(v) \/ Checked(v) \/ GiveUp(v)
    \/ Activate(v) \/ Again(v) \/ Close(v) \/ End(v) \/ CloseTask(v)

Spec == Init /\ [][Next]_vars

----------------------------------------------------------------------------

\* A VM that made a timer has it: its entry is there until the VM has given it
\* up, unless somebody who waited for it in vain erased it; and it expires
\* less than a second before its time, never later: server.h, finalize, and
\* timerfd.h, init.
HeldIsThere ==
  /\ \A v \in VMs : vm[v].of # 0 /\ ~At(v, "waiting") /\ vm[v].of \notin broken =>
       ~entry[vm[v].of].freed
  /\ \A v \in VMs : task[v] # 0 /\ task[v] \notin broken => ~entry[task[v]].freed
  /\ \A e \in Entries : entry[e].early \in 0 .. Second - 1

\* A timer of one VM is gone when it has been closed: its descriptor, its place
\* in the table and its entry: timerfd.h, on_close, and loop.hpp, close.
ClosedIsGone ==
  \A e \in Entries \ (shared \union broken) :
    entry[e].closed /\ (\A v \in VMs : vm[v].of # e /\ task[v] # e) =>
      entry[e].freed /\ entry[e].fd = "closed" /\ ~entry[e].attached /\ named # e
=============================================================================
