------------------------------ MODULE Yielded ------------------------------
(***************************************************************************)
(* The table of yielded fibers (src/fiber/fabric.h) and the wake-up of a   *)
(* fiber by whoever answers it or by the timeout checker.                  *)
(*                                                                         *)
(* A fiber that makes a call, waits for an event or emits and waits takes  *)
(* a message id, enters itself in the table under that id and only then    *)
(* lets the others know the id.  Any thread may take the entry out:        *)
(* find_and_erase finds it by id and erases it under the lock of the map,  *)
(* unlocks, copies the erased entry and resumes the fiber it names.  The   *)
(* checker walks over the storage of the table without any lock.           *)
(*                                                                         *)
(* Nothing protects what is done to an entry without the lock.  The map    *)
(* hands an entry out with its fields cleared, so that its time limit has  *)
(* passed until yielded::set has written it.  The storage of an erased     *)
(* entry goes to the head of the free list and is what the next yield      *)
(* gets, or goes back to the heap, while a thread may still be about to    *)
(* copy it or to look at it.  Any thread may be delayed anywhere here, and *)
(* the history variable torn names the fibers to whose entry this happens: *)
(* what the module promises of a fiber it promises as long as none of its  *)
(* entries was handed out, given back or found by the checker in the       *)
(* middle of another thread's work on it.  That an id is taken out of the  *)
(* table once, by one thread, needs no such condition.                     *)
(*                                                                         *)
(* Bound: MaxIds.  Assumptions: ids do not come round (module MsgId);      *)
(* memory given back to the heap is not taken for the id of a call; a      *)
(* resume through a bad pointer, which ends the process, only gets lost.   *)
(*                                                                         *)
(* Definitions marked "Slip" are wrong variants of the definition that     *)
(* follows them; the properties are required to notice each of them.       *)
(***************************************************************************)
EXTENDS Naturals, Sequences, FiniteSets

CONSTANTS
  Fibers,      \* fibers
  Answerers,   \* threads that receive answers or run watchers
  Slots,       \* storage of the table
  NIL,         \* no fiber, no slot
  MaxIds       \* bound on the message ids given out

ASSUME NilAssumption == NIL \notin Fibers /\ NIL \notin Slots
ASSUME BoundAssumption == MaxIds \in Nat
ASSUME ActorAssumption ==
  Fibers \intersect Answerers = {} /\ "checker" \notin Fibers \union Answerers

VARIABLES
  entries,  \* the slots that are in the table
  key,      \* the key of every slot, 0 at first
  m_f, m_msgid, m_limit,  \* the fields of yielded; m_limit "past" or "later"
  seed,     \* the last message id given out
  pc,       \* pc[f]: where fiber f is
  id,       \* id[f]: the id f waits for
  slot,     \* slot[f]: the entry f is filling in, or what an answerer copies from
  asked,    \* the ids others know: any number of answers may come for each
  inbox,    \* inbox[f]: the resumes of f that were not executed yet
  late,     \* history: ids whose time limit passed
  torn      \* history: fibers with an entry that was disturbed

tvars == <<entries, key, m_f, m_msgid, m_limit>>
vars == <<tvars, seed, pc, id, slot, asked, inbox, late, torn>>

Checker == "checker"      \* the thread that runs check_timeout
Actors == Fibers \union Answerers \union {Checker}

Init ==
  /\ entries = {}
  /\ key = [s \in Slots |-> 0]
  /\ m_f = [s \in Slots |-> NIL]
  /\ m_msgid = [s \in Slots |-> 0]
  /\ m_limit = [s \in Slots |-> "past"]
  /\ seed = 0
  /\ pc = [a \in Actors |-> IF a \in Fibers THEN "run" ELSE "idle"]
  /\ id = [a \in Actors |-> 0]
  /\ slot = [a \in Actors |-> NIL]
  /\ asked = {}
  /\ inbox = [f \in Fibers |-> <<>>]
  /\ late = {}
  /\ torn = {}

Goto(a, l) == pc' = [pc EXCEPT ![a] = l]

\* Slots some thread reads or writes although it holds no lock.
InHand == {slot[a] : a \in Actors} \ {NIL}

\* The fibers whose call needs the contents of slot s, which is not in the
\* table or not complete: they fill it in, or the thread that ends their call
\* is about to copy it.
Waiters(i) == {f \in Fibers : pc[f] # "run" /\ id[f] = i}
Filler(s) == {f \in Fibers : slot[f] = s}
Users(s) ==
  Filler(s) \union UNION {Waiters(id[a]) : a \in {b \in Actors \ Fibers : pc[b] = "copy" /\ slot[b] = s}}

\* The entry under id i, if there is one.
Found(i) == {s \in entries : key[s] = i}

----------------------------------------------------------------------------
(* fabric::yield, called by a fiber *)

\* The map allocates an entry under the new id and clears it.
Alloc(f) ==
  /\ pc[f] = "run"
  /\ seed < MaxIds
  /\ seed' = seed + 1
  /\ \E s \in Slots \ entries :
       /\ entries' = entries \union {s}
       /\ key' = [key EXCEPT ![s] = seed + 1]
       /\ m_f' = [m_f EXCEPT ![s] = NIL]
       /\ m_msgid' = [m_msgid EXCEPT ![s] = 0]
       /\ m_limit' = [m_limit EXCEPT ![s] = "past"]
       /\ slot' = [slot EXCEPT ![f] = s]
       /\ torn' = IF s \in InHand THEN torn \union Users(s) \union {f} ELSE torn
  /\ id' = [id EXCEPT ![f] = seed + 1]
  /\ Goto(f, "set")
  /\ UNCHANGED <<asked, inbox, late>>

\* The storage of an erased entry is given back to the heap, and whoever gets
\* it there writes to it.
Scribble(s) ==
  /\ s \notin entries
  /\ m_f' = [m_f EXCEPT ![s] = NIL]
  /\ m_msgid' = [m_msgid EXCEPT ![s] = 0]
  /\ torn' = torn \union Users(s)
  /\ m_limit' = [m_limit EXCEPT ![s] = "past"]
  /\ UNCHANGED <<entries, key, seed, pc, id, slot, asked, inbox, late>>

\* yielded::set: the fiber and the key are written first ...
SetFiber(f) ==
  /\ pc[f] = "set"
  /\ m_f' = [m_f EXCEPT ![slot[f]] = f]
  /\ m_msgid' = [m_msgid EXCEPT ![slot[f]] = id[f]]
  /\ Goto(f, "limit")
  /\ UNCHANGED <<entries, key, m_limit, seed, id, slot, asked, inbox, late, torn>>

\* ... and then the limit.
SetLimit(f) ==
  /\ pc[f] = "limit"
  /\ m_limit' = [m_limit EXCEPT ![slot[f]] = "later"]
  /\ slot' = [slot EXCEPT ![f] = NIL]
  /\ Goto(f, "wait")
  /\ UNCHANGED <<entries, key, m_f, m_msgid, seed, id, asked, inbox, late, torn>>

\* The request is sent, the watcher or the command is handed to the emitter.
Ask(f) ==
  /\ pc[f] = "wait" /\ id[f] \notin asked
  /\ asked' = asked \union {id[f]}
  /\ UNCHANGED <<tvars, seed, pc, id, slot, inbox, late, torn>>

\* The owner of the fiber executes the resume, and the fiber runs on.
Wake(f) ==
  /\ pc[f] = "wait" /\ inbox[f] # <<>>
  /\ inbox' = [inbox EXCEPT ![f] = Tail(@)]
  /\ Goto(f, "run")
  /\ UNCHANGED <<tvars, seed, id, slot, asked, late, torn>>

----------------------------------------------------------------------------
(* fabric::recv and fabric::resume_fiber on an answerer *)

\* An answer comes: find_and_erase_if takes the entry out of the table.  An
\* id that has no entry any more is dropped.
Erase(a) ==
  /\ pc[a] = "idle"
  /\ \E i \in asked : \E s \in Found(i) :
       /\ entries' = entries \ {s}
       /\ slot' = [slot EXCEPT ![a] = s]
       /\ id' = [id EXCEPT ![a] = i]
  /\ Goto(a, "copy")
  /\ UNCHANGED <<key, m_f, m_msgid, m_limit, seed, asked, inbox, late, torn>>

\* The erased entry is copied and the fiber it names now is resumed.
Deliver(a, by) ==
  LET f == m_f[slot[a]]
  IN inbox' = IF f = NIL THEN inbox ELSE [inbox EXCEPT ![f] = Append(@, [id |-> id[a], by |-> by])]

Resume(a) ==
  /\ pc[a] = "copy"
  /\ Deliver(a, "answer")
  /\ slot' = [slot EXCEPT ![a] = NIL]
  /\ Goto(a, "idle")
  /\ UNCHANGED <<tvars, seed, id, asked, late, torn>>

----------------------------------------------------------------------------
(* fabric::check_timeout *)

\* Time passes.
Expire(s) ==
  /\ m_limit[s] = "later"
  /\ m_limit' = [m_limit EXCEPT ![s] = "past"]
  /\ late' = late \union {key[x] : x \in entries \intersect {s}}
  /\ UNCHANGED <<entries, key, m_f, m_msgid, seed, pc, id, slot, asked, inbox, torn>>

\* The walk comes to slot s, which may be out of the table, and finds its limit
\* passed.
Look(s) ==
  /\ pc[Checker] = "idle"
  /\ m_limit[s] = "past"
  /\ slot' = [slot EXCEPT ![Checker] = s]
  /\ Goto(Checker, "erase")
  /\ torn' = torn \union Filler(s)
  /\ UNCHANGED <<tvars, seed, id, asked, inbox, late>>

\* Slip: the entry that was looked at is taken without asking the table.
EraseLooked ==
  /\ pc[Checker] = "erase"
  /\ entries' = entries \ {slot[Checker]}
  /\ id' = [id EXCEPT ![Checker] = m_msgid[slot[Checker]]]
  /\ Goto(Checker, "copy")
  /\ UNCHANGED <<key, m_f, m_msgid, m_limit, seed, slot, asked, inbox, late, torn>>

\* find_and_erase with the id it reads from that slot; somebody else may have
\* been faster.
EraseLate ==
  /\ pc[Checker] = "erase"
  /\ \/ \E s \in Found(m_msgid[slot[Checker]]) :
          /\ entries' = entries \ {s}
          /\ slot' = [slot EXCEPT ![Checker] = s]
          /\ id' = [id EXCEPT ![Checker] = m_msgid[slot[Checker]]]
          /\ Goto(Checker, "copy")
     \/ /\ Found(m_msgid[slot[Checker]]) = {}
        /\ slot' = [slot EXCEPT ![Checker] = NIL]
        /\ Goto(Checker, "idle")
        /\ UNCHANGED <<entries, id>>
  /\ UNCHANGED <<key, m_f, m_msgid, m_limit, seed, asked, inbox, late, torn>>

\* Slip: the entry is erased and nobody is told.
RaiseNever ==
  /\ pc[Checker] = "copy"
  /\ slot' = [slot EXCEPT ![Checker] = NIL]
  /\ Goto(Checker, "idle")
  /\ UNCHANGED <<tvars, seed, id, asked, inbox, late, torn>>

Raise ==
  /\ pc[Checker] = "copy"
  /\ Deliver(Checker, "timeout")
  /\ slot' = [slot EXCEPT ![Checker] = NIL]
  /\ Goto(Checker, "idle")
  /\ UNCHANGED <<tvars, seed, id, asked, late, torn>>

----------------------------------------------------------------------------

Check == EraseLate \/ Raise

Next ==
  \/ \E f \in Fibers : Alloc(f) \/ SetFiber(f) \/ SetLimit(f) \/ Ask(f) \/ Wake(f)
  \/ \E a \in Answerers : Erase(a) \/ Resume(a)
  \/ \E s \in Slots : Expire(s) \/ Look(s) \/ Scribble(s)
  \/ Check

SafeSpec == Init /\ [][Next]_vars

\* Threads keep running, time passes, and the walk of the checker, started
\* again every few seconds, comes to every slot that stays in the table.
Spec ==
  /\ SafeSpec
  /\ \A f \in Fibers : WF_vars(SetFiber(f) \/ SetLimit(f) \/ Wake(f))
  /\ \A a \in Answerers : WF_vars(Resume(a))
  /\ \A s \in Slots : WF_vars(Expire(s)) /\ SF_vars(Look(s))
  /\ WF_vars(Check)

----------------------------------------------------------------------------

TypeOK ==
  /\ entries \subseteq Slots
  /\ key \in [Slots -> 0 .. MaxIds] /\ m_msgid \in [Slots -> 0 .. MaxIds]
  /\ m_f \in [Slots -> Fibers \union {NIL}]
  /\ m_limit \in [Slots -> {"past", "later"}]
  /\ asked \subseteq 1 .. seed /\ torn \subseteq Fibers

\* Where the right to end the call with id i is: in the table, with a thread
\* that took it out, in a resume under way.
Ends(i) ==
  {<<"table", s>> : s \in Found(i)}
  \union {<<"taker", a>> : a \in {b \in Actors \ Fibers : pc[b] = "copy" /\ id[b] = i}}
  \union UNION {{<<"inbox", f, n>> : n \in {m \in DOMAIN inbox[f] : inbox[f][m].id = i}} : f \in Fibers}

\* However the threads are delayed, an id is in one place only: of an answer and
\* the timeout, find_and_erase lets one through, and what it took does not come
\* back under the same id (map.h:384-420, fabric.h:45).
OneTaker ==
  \A i \in 1 .. seed : \A x, y \in Ends(i) : x = y

\* A fiber whose entries nobody disturbed is resumed only while it waits, once
\* for each yield, by an answer to, or the passed limit of, the id it waits for;
\* and as long as it waits, its entry, the thread that took it, or a resume under
\* way names it (fabric.h:45-50, 213-227).
OneWakeup ==
  TypeOK /\ \A f \in Fibers \ torn :
    /\ Len(inbox[f]) <= 1
    /\ inbox[f] # <<>> =>
         /\ pc[f] = "wait" /\ inbox[f][1].id = id[f]
         /\ inbox[f][1].by = "timeout" => id[f] \in late
    /\ pc[f] = "wait" =>
         \/ \E s \in Found(id[f]) : m_f[s] = f
         \/ \E a \in Actors \ Fibers :
               pc[a] = "copy" /\ id[a] = id[f] /\ m_f[slot[a]] = f
         \/ inbox[f] # <<>>

\* The claim of test/lua/timeout.lua:40, that a call which takes less than its
\* time limit gets no TimeoutError.  It fails: a checker that comes to an entry
\* between SetFiber and SetLimit ends the call.
NoEarlyTimeout ==
  \A f \in Fibers : \A i \in DOMAIN inbox[f] :
    inbox[f][i].by = "timeout" => inbox[f][i].id \in late

\* A fiber that yields runs again, if nobody disturbs its entry.
Resumed ==
  \A f \in Fibers : pc[f] = "wait" ~> pc[f] = "run" \/ f \in torn
============================================================================
