------------------------------ MODULE Signals ------------------------------
(***************************************************************************)
(* Signals of the system (handler/signalfd.h, server.h, class sig): the    *)
(* handler writes the number of the signal to a pipe, a worker reads it    *)
(* and calls what the table of handlers has for it, and an emitter passes  *)
(* it on to the VMs that have bound a callback.                            *)
(*                                                                         *)
(* The handler waits while the pipe is full.  The commands of an emitter   *)
(* are executed in their order (module Emittable).  A signal that is not   *)
(* hooked is lost, or ends the program.                                    *)
(*                                                                         *)
(* Definitions marked "Slip" are wrong variants of the definition that     *)
(* follows them; the property is required to notice each of them.          *)
(***************************************************************************)
EXTENDS Naturals, Sequences, FiniteSets

CONSTANTS
  VMs,        \* one for each worker
  Signos,     \* the signals that VMs ask for
  PipeSize,   \* what the pipe takes
  MaxRaised,  \* bound on the signals the system raises
  MaxHooks    \* bound on the times a VM asks for a signal

VARIABLES
  m_signo,  \* the emitters that have their signal set
  action,   \* the signals for which the system calls the handler
  m_hmap,   \* the signals that the table has the emitter for
  vm,       \* vm[t]: pc and the signal it asked for
  cmds,     \* the commands of each emitter
  watched,  \* the VMs that watch each emitter
  pipe,     \* numbers that were written and not read
  reader,   \* "poll", "process" or "retach"; "null" if it called a null function
  raised,   \* how often each signal was raised
  asked,    \* how often a VM asked for a signal
  owed,     \* history: how often each signal was raised while each VM watched it
  heard,    \* history: how often the VM was told of it since it watched
  told,     \* history: events that each emitter passed on
  broken    \* history: emitters that were closed while two VMs had them

vars == <<m_signo, action, m_hmap, vm, cmds, watched, pipe, reader, raised, asked,
          owed, heard, told, broken>>

Init ==
  /\ m_signo = {} /\ action = {} /\ m_hmap = {}
  /\ vm = [t \in VMs |-> [pc |-> "idle", sig |-> 0]]
  /\ cmds = [s \in Signos |-> <<>>] /\ watched = [s \in Signos |-> {}]
  /\ pipe = <<>> /\ reader = "poll"
  /\ raised = [s \in Signos |-> 0] /\ asked = 0
  /\ owed = [s \in Signos |-> [t \in VMs |-> 0]] /\ heard = owed
  /\ told = [s \in Signos |-> 0]
  /\ broken = {}

system == <<m_signo, action, m_hmap>>
history == <<raised, asked, owed, heard, told>>

At(t, pc) == vm[t].pc = pc
Becomes(t, pc) == vm' = [vm EXCEPT ![t].pc = pc]
Add(s, c) == cmds' = [cmds EXCEPT ![s] = Append(@, c)]
Holders(s) == {t \in VMs : vm[t].sig = s}

----------------------------------------------------------------------------
(* The VMs *)

\* set_signo: only the first one hooks the signal, the others go on at once.
Create(t, s) ==
  /\ At(t, "idle") /\ asked < MaxHooks
  /\ asked' = asked + 1
  /\ m_signo' = m_signo \union {s}
  /\ vm' = [vm EXCEPT ![t] = [pc |-> IF s \in m_signo THEN "created" ELSE "hook", sig |-> s]]
  /\ UNCHANGED <<action, m_hmap, cmds, watched, pipe, reader, raised, owed, heard, told, broken>>

\* hook: the system is asked first, then the table is filled.
HookAction(t) ==
  /\ At(t, "hook")
  /\ action' = action \union {vm[t].sig}
  /\ Becomes(t, "table")
  /\ UNCHANGED <<m_signo, m_hmap, cmds, watched, pipe, reader, history, broken>>

HookTable(t) ==
  /\ At(t, "table")
  /\ m_hmap' = m_hmap \union {vm[t].sig}
  /\ Becomes(t, "created")
  /\ UNCHANGED <<m_signo, action, cmds, watched, pipe, reader, history, broken>>

Bind(t) ==
  /\ At(t, "created")
  /\ Add(vm[t].sig, [type |-> "add", vm |-> t])
  /\ Becomes(t, "bound")
  /\ UNCHANGED <<system, watched, pipe, reader, history, broken>>

\* Slip: the watchers stay.
CloseQuietly(t) ==
  LET s == vm[t].sig IN
  /\ At(t, "created") \/ At(t, "bound")
  /\ m_signo' = m_signo \ {s}
  /\ broken' = IF Cardinality(Holders(s)) > 1 THEN broken \union {s} ELSE broken
  /\ vm' = [vm EXCEPT ![t] = [pc |-> "idle", sig |-> 0]]
  /\ UNCHANGED <<action, m_hmap, cmds, watched, pipe, reader, history>>

\* The emitter's number is cleared before it is used to take the hook back, so
\* that this fails; the watchers, of all VMs, are removed.  If another one has
\* closed the emitter nothing happens.
Close(t) ==
  LET s == vm[t].sig IN
  /\ At(t, "created") \/ At(t, "bound")
  /\ m_signo' = m_signo \ {s}
  /\ IF s \in m_signo THEN Add(s, [type |-> "removeall", vm |-> t]) ELSE UNCHANGED cmds
  /\ broken' = IF Cardinality(Holders(s)) > 1 THEN broken \union {s} ELSE broken
  /\ vm' = [vm EXCEPT ![t] = [pc |-> "idle", sig |-> 0]]
  /\ UNCHANGED <<action, m_hmap, watched, pipe, reader, history>>

----------------------------------------------------------------------------
(* The system and the worker that has the pipe *)

\* The system calls signal_handler, in any thread.
Raise(s) ==
  /\ s \in action /\ Len(pipe) < PipeSize
  /\ raised[s] < MaxRaised
  /\ raised' = [raised EXCEPT ![s] = @ + 1]
  /\ pipe' = Append(pipe, s)
  /\ owed' = [owed EXCEPT ![s] = [t \in VMs |-> IF t \in watched[s] THEN @[t] + 1 ELSE @[t]]]
  /\ UNCHANGED <<system, vm, cmds, watched, reader, asked, heard, told, broken>>

\* The poller tells that there is something, once.
Poll ==
  /\ reader = "poll" /\ pipe # <<>>
  /\ reader' = "process"
  /\ UNCHANGED <<system, vm, cmds, watched, pipe, history, broken>>

\* The entry of the table is called.  It is a null function while the first one
\* is in hook.
Take ==
  LET s == Head(pipe) IN
  /\ reader = "process" /\ pipe # <<>>
  /\ pipe' = Tail(pipe)
  /\ IF s \in m_hmap
     THEN Add(s, [type |-> "emit", vm |-> 0])
     ELSE UNCHANGED cmds
  /\ reader' = IF s \in m_hmap THEN "process" ELSE "null"
  /\ UNCHANGED <<system, vm, watched, history, broken>>

\* The pipe is empty.
Empty ==
  /\ reader = "process" /\ pipe = <<>>
  /\ reader' = "retach"
  /\ UNCHANGED <<system, vm, cmds, watched, pipe, history, broken>>

Retach ==
  /\ reader = "retach"
  /\ reader' = "poll"
  /\ UNCHANGED <<system, vm, cmds, watched, pipe, history, broken>>

Execute(s) ==
  LET c == Head(cmds[s]) IN
  /\ cmds[s] # <<>>
  /\ cmds' = [cmds EXCEPT ![s] = Tail(@)]
  /\ watched' = [watched EXCEPT ![s] =
       CASE c.type = "add" -> @ \union {c.vm} [] c.type = "removeall" -> {} [] OTHER -> @]
  /\ told' = [told EXCEPT ![s] = IF c.type = "emit" THEN @ + 1 ELSE @]
  /\ heard' = [heard EXCEPT ![s] = [t \in VMs |->
       CASE c.type = "emit" /\ t \in watched[s] -> @[t] + 1 [] c.type = "removeall" -> 0 [] OTHER -> @[t]]]
  /\ owed' = IF c.type = "removeall" THEN [owed EXCEPT ![s] = [t \in VMs |-> 0]] ELSE owed
  /\ UNCHANGED <<system, vm, pipe, reader, raised, asked, broken>>

Next ==
  /\ reader # "null"
  /\ \/ \E t \in VMs : \/ \E s \in Signos : Create(t, s)
                       \/ HookAction(t) \/ HookTable(t) \/ Bind(t) \/ Close(t)
     \/ \E s \in Signos : Raise(s) \/ Execute(s)
     \/ Poll \/ Take \/ Empty \/ Retach

Spec == Init /\ [][Next]_vars

----------------------------------------------------------------------------

\* When everything is read and executed, each signal the system raised was passed
\* on once, a VM has heard of all that were raised while it watched, and one that
\* gave the signal up watches it no longer, unless it shared it with another VM
\* while one of them gave it up: signalfd.h, process, and server.h, sig.
SignalsTold ==
  reader = "poll" /\ pipe = <<>> =>
    \A s \in Signos : cmds[s] = <<>> =>
      /\ told[s] = raised[s]
      /\ \A t \in watched[s] : owed[s][t] <= heard[s][t]
      /\ s \notin broken => watched[s] \subseteq Holders(s)
=============================================================================
