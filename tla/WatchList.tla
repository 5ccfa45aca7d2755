----------------------------- MODULE WatchList -----------------------------
(***************************************************************************)
(* The list of watchers of one emitter (src/emittable.h: emit, emit_one,   *)
(* add_watch_entry, remove_watch_entry).                                   *)
(*                                                                         *)
(* The list is only touched by process_commands, one command at a time, on *)
(* the thread that owns the emitter (module Emittable), so the commands    *)
(* arrive in any order but never overlap.  Entries come from a pool: a     *)
(* freed entry keeps the link it had and is handed out again, and a        *)
(* remove_watcher may name an entry that is gone.                          *)
(*                                                                         *)
(* Calling a watcher is a step of its own; what it returns is a choice:    *)
(* STOP (it is done and is freed), KEEP, or IGNORE (the event is not the   *)
(* one it waits for).                                                      *)
(*                                                                         *)
(* Definitions marked "Slip" are wrong variants of the definition that     *)
(* follows them; the properties are required to notice each of them.       *)
(***************************************************************************)
EXTENDS FiniteSets

CONSTANTS
  Entry,      \* the entries of the pool m_wl
  NIL,        \* no entry
  OneResult   \* what the watchers called by emit_one may return

VARIABLES
  top, last,  \* m_top, m_last
  next,       \* m_next of every entry of the pool
  live,       \* the entries allocated and not freed
  pc,         \* the command being executed
  cur,        \* w: the watcher to call next
  remain,     \* emit: the watchers to keep, linked in reverse order
  tail,       \* emit: the first of them, which becomes m_last
  due,        \* history: watchers of this emit that were not called yet
  owed        \* history: owed[e], watchers to be called before e has its next turn

vars == <<top, last, next, live, pc, cur, remain, tail, due, owed>>

Init ==
  /\ top = NIL /\ last = NIL
  /\ next = [e \in Entry |-> NIL]
  /\ live = {}
  /\ pc = "idle"
  /\ cur = NIL /\ remain = NIL /\ tail = NIL
  /\ due = {}
  /\ owed = [e \in Entry |-> {}]

\* The entries a walk along link meets from x on, x included.
Chain(link, x) ==
  {n \in Entry :
     \A S \in SUBSET Entry :
       /\ x \in Entry => x \in S
       /\ \A m \in S : link[m] \in Entry => link[m] \in S
       => n \in S}

\* Entries whose storage went back to the pool owe and are owed nothing.
Forget(S) == [e \in Entry |-> IF e \in S THEN {} ELSE owed[e] \ S]

----------------------------------------------------------------------------
(* add_watch_entry, remove_watch_entry *)

Add(e) ==
  /\ pc = "idle" /\ e \notin live
  /\ next' = [next EXCEPT ![e] = top]
  /\ top' = e
  /\ last' = IF last = NIL THEN e ELSE last
  /\ live' = live \union {e}
  /\ UNCHANGED <<pc, cur, remain, tail, due, owed>>

RemoveAll ==
  /\ pc = "idle"
  /\ live' = live \ Chain(next, top)
  /\ top' = NIL /\ last' = NIL
  /\ owed' = Forget(Chain(next, top))
  /\ UNCHANGED <<next, pc, cur, remain, tail, due>>

RemoveFirst(e) ==
  /\ top = e
  /\ top' = next[e]
  /\ last' = IF top = last THEN next[e] ELSE last
  /\ UNCHANGED next

RemoveLater(e) ==
  \E prev \in Chain(next, top) :
    /\ top # e /\ next[prev] = e
    /\ next' = [next EXCEPT ![prev] = next[e]]
    /\ last' = IF e = last THEN prev ELSE last
    /\ UNCHANGED top

Remove(e) ==
  /\ pc = "idle"
  /\ RemoveFirst(e) \/ RemoveLater(e)
  /\ live' = live \ {e}
  /\ owed' = Forget({e})
  /\ UNCHANGED <<pc, cur, remain, tail, due>>

----------------------------------------------------------------------------
(* emit: every watcher is called; those that stay are linked again. *)

StartEmit ==
  /\ pc = "idle"
  /\ pc' = "emit"
  /\ cur' = top
  /\ top' = NIL
  /\ remain' = NIL /\ tail' = NIL
  /\ due' = live
  /\ owed' = [e \in Entry |-> {}]
  /\ UNCHANGED <<last, next, live>>

\* Slip: the link of a kept watcher is rewritten before it is followed.
CallRelinkFirst(r) ==
  /\ pc = "emit" /\ cur # NIL
  /\ due' = due \ {cur}
  /\ IF r = "STOP"
       THEN live' = live \ {cur} /\ cur' = next[cur] /\ UNCHANGED <<next, remain, tail>>
       ELSE /\ next' = [next EXCEPT ![cur] = remain]
            /\ cur' = remain
            /\ tail' = IF remain = NIL THEN cur ELSE tail
            /\ remain' = cur
            /\ UNCHANGED live
  /\ UNCHANGED <<top, last, pc, owed>>

Call(r) ==
  /\ pc = "emit" /\ cur # NIL
  /\ cur' = next[cur]
  /\ due' = due \ {cur}
  /\ IF r = "STOP"
       THEN live' = live \ {cur} /\ UNCHANGED <<next, remain, tail>>
       ELSE /\ next' = [next EXCEPT ![cur] = remain]
            /\ tail' = IF remain = NIL THEN cur ELSE tail
            /\ remain' = cur
            /\ UNCHANGED live
  /\ UNCHANGED <<top, last, pc, owed>>

EndEmit ==
  /\ pc = "emit" /\ cur = NIL
  /\ top' = remain
  /\ last' = tail
  /\ pc' = "idle" /\ remain' = NIL /\ tail' = NIL
  /\ UNCHANGED <<next, live, cur, due, owed>>

----------------------------------------------------------------------------
(* emit_one: the first watcher is unlinked and called; one that stays goes  *)
(* to the end, one that ignores the event lets the next one be tried.      *)

StartOne ==
  /\ pc = "idle" /\ top # NIL
  /\ pc' = "one"
  /\ cur' = top
  /\ top' = next[top]
  /\ last' = IF top = last THEN next[top] ELSE last
  /\ UNCHANGED <<next, live, remain, tail, due, owed>>

Requeue(w) ==
  /\ next' = IF last = NIL THEN [next EXCEPT ![w] = NIL]
             ELSE [next EXCEPT ![w] = NIL, ![last] = w]
  /\ top' = IF last = NIL /\ top = NIL THEN w ELSE top
  /\ last' = w

CallOne(r) ==
  /\ pc = "one"
  /\ IF r = "KEEP" THEN Requeue(cur) ELSE UNCHANGED <<top, last, next>>
  /\ live' = IF r = "STOP" THEN live \ {cur} ELSE live
  /\ owed' = IF r = "STOP" THEN Forget({cur})
             ELSE [e \in Entry |-> IF e = cur THEN live \ {cur} ELSE owed[e] \ {cur}]
  /\ cur' = IF r = "IGNORE" THEN next[cur] ELSE NIL
  /\ pc' = IF cur' = NIL THEN "idle" ELSE "one"
  /\ UNCHANGED <<remain, tail, due>>

----------------------------------------------------------------------------

Next ==
  \/ \E e \in Entry : Add(e) \/ Remove(e)
  \/ RemoveAll
  \/ StartEmit \/ EndEmit
  \/ \E r \in {"STOP", "KEEP", "IGNORE"} : Call(r)
  \/ StartOne
  \/ \E r \in OneResult : CallOne(r)

Spec == Init /\ [][Next]_vars

----------------------------------------------------------------------------

\* The pointers of every phase: emit_one always has a watcher to call, and
\* nothing is in hand between two commands.
TypeOK ==
  /\ {top, last, cur, remain, tail} \subseteq Entry \union {NIL}
  /\ next \in [Entry -> Entry \union {NIL}]
  /\ live \subseteq Entry
  /\ pc \in {"idle", "emit", "one"}
  /\ due \subseteq Entry
  /\ owed \in [Entry -> SUBSET Entry]
  /\ pc = "one" => cur # NIL
  /\ pc = "idle" => {cur, remain, tail} = {NIL}

\* ASSERT(!(m_last->m_next)) of add_watch_entry and ASSERT(!m_last) of
\* emit_one: between two commands m_last is where the list ends.
LastEndsList ==
  pc = "idle" =>
    /\ last # NIL => next[last] = NIL
    /\ top = NIL => last = NIL

\* emit calls every watcher of the list once: the one it is about to call was
\* not called before, and when it is through nobody was left out.
EachCalledOnce ==
  pc = "emit" => IF cur = NIL THEN due = {} ELSE cur \in due

\* emit_one takes the watchers in turn: one is called again only after every
\* other watcher that was there at its last turn and still is.
TakesTurns ==
  pc = "one" => owed[cur] = {}

\* add_watch_entry, remove_watch_entry, emit and emit_one lose no watcher and
\* keep none that was freed.  Between two commands the list m_top .. m_last
\* holds exactly the entries that were added and neither removed nor stopped.
\* While emit runs, each of them is in one of the two lists it works on, the
\* one still to call or the one to keep, and each is called once.  The watcher
\* being called is live and its turn has come.
HoldsTheLive ==
  /\ TypeOK /\ EachCalledOnce /\ TakesTurns
  /\ pc = "idle" => Chain(next, top) = live /\ (last = NIL \/ last \in live)
  /\ pc = "emit" =>
       /\ Chain(next, cur) \intersect Chain(next, remain) = {}
       /\ Chain(next, cur) \union Chain(next, remain) = live
  /\ cur # NIL => cur \in live
============================================================================
