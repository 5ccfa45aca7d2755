----------------------------- MODULE TimerWheel -----------------------------
(***************************************************************************)
(* The timer wheel of a task group (src/handler/timerfd.h, class taskgrp,  *)
(* and timerfd.hpp).                                                       *)
(*                                                                         *)
(* m_sched is a ring of m_size lists, one of them due at each tick.  A     *)
(* task further away than one turn of the ring waits in its list for       *)
(* m_delay turns.  Any thread may add a task: it goes to m_sched_insert    *)
(* and is picked up by the next tick.  A timer event may find that several *)
(* ticks have passed, or that another thread is still working on the last  *)
(* one; m_processed lets one thread in and m_count < count makes it catch  *)
(* up.                                                                     *)
(*                                                                         *)
(* A task may be closed at any time by one word: m_removed is a bit of the *)
(* word that holds m_start_idx until the task is picked up.  A close that  *)
(* comes before that makes an even start odd and is then forgotten (First);*)
(* a close at the very moment the wheel writes the same word may be        *)
(* overwritten, which changes nothing and is no step here.                 *)
(*                                                                         *)
(* A start of 0 in the last slot is linked behind the ring, in a cell the  *)
(* wheel never looks at; sched has that cell too.                          *)
(*                                                                         *)
(* The order of the tasks of one list is left open.  Definitions marked    *)
(* "Slip" are wrong variants of the definition that follows them.          *)
(***************************************************************************)
EXTENDS Integers, FiniteSets, TLC

CONSTANTS
  Task,       \* the entries of m_entries
  Threads,    \* the threads that receive timer events
  Size,       \* m_size
  Starts,     \* first delays asked for, in ticks
  Intervals,  \* intervals asked for, in ticks
  MAX_COUNT,  \* beyond this the counters are set back
  MaxBehind,  \* bound on the ticks one event may bring and on the arrears
  MaxTicks    \* bound on m_trigger_count

ASSUME SizeAssumption == Size \in Nat \ {0}
ASSUME DurationAssumption == Starts \subseteq Nat /\ Intervals \subseteq Nat \ {0}
ASSUME CountAssumption ==
  MAX_COUNT \in Nat /\ MaxBehind \in Nat /\ MaxTicks \in Nat

VARIABLES
  sched,      \* m_sched: the tasks of every slot, and of the cell behind the ring
  inserted,   \* m_sched_insert
  used,       \* the entries that are allocated
  m_idx, m_start_idx, m_removed, m_delay,   \* the fields of a task
  m_count, m_trigger_count,
  pc, goal,   \* where a thread is in process_one_shot, and its count
  taken,      \* t: what is left of the list that is being worked on
  closed,     \* history: the tasks that were closed after they had been picked up
  left        \* history: ticks of the events until the task has to be called

fields == <<m_idx, m_start_idx, m_removed, m_delay>>
vars == <<sched, inserted, used, fields, m_count, m_trigger_count, pc, goal, taken, closed, left>>

Slots == 0 .. Size - 1
Cells == 0 .. Size

Init ==
  /\ sched = [s \in Cells |-> {}]
  /\ inserted = {} /\ used = {} /\ taken = {}
  /\ m_idx = [t \in Task |-> 1]
  /\ m_start_idx = [t \in Task |-> 0]
  /\ m_removed = [t \in Task |-> FALSE]
  /\ m_delay = [t \in Task |-> 0]
  /\ m_count = 0 /\ m_trigger_count = 0
  /\ pc = [h \in Threads |-> "idle"]
  /\ goal = [h \in Threads |-> 0]
  /\ closed = {}
  /\ left = [t \in Task |-> 0]

\* The slot of the tick that is being worked on.
Current == (m_count + Size - 1) % Size

InWheel == UNION {sched[s] : s \in Slots}
BehindWheel == sched[Size]

\* Ticks of the events that the wheel has not worked off.
Arrears == m_trigger_count - m_count

Goto(h, l) == pc' = [pc EXCEPT ![h] = l]

----------------------------------------------------------------------------
(* Users of the wheel *)

\* add_timer: the entry is filled in, then linked under m_mtx.
Add(t, start, intval) ==
  /\ t \notin used
  /\ used' = used \union {t}
  /\ inserted' = inserted \union {t}
  /\ m_idx' = [m_idx EXCEPT ![t] = intval]
  /\ m_start_idx' = [m_start_idx EXCEPT ![t] = start]
  /\ UNCHANGED <<sched, m_removed, m_delay, m_count, m_trigger_count, pc, goal, taken,
                 closed, left>>

\* The task lies in m_sched_insert or in the list that was taken from there.
NotPickedUp(t) == t \in inserted \/ (t \in taken /\ \E h \in Threads : pc[h] = "first")

\* remove_timer_reserve: the bit belongs to m_start_idx or to m_removed.
Close(t) ==
  /\ t \in used
  /\ IF NotPickedUp(t)
     THEN /\ m_start_idx' = [m_start_idx EXCEPT ![t] = IF @ % 2 = 0 THEN @ + 1 ELSE @]
          /\ UNCHANGED <<m_removed, closed>>
     ELSE /\ m_removed' = [m_removed EXCEPT ![t] = TRUE]
          /\ closed' = closed \union {t}
          /\ UNCHANGED m_start_idx
  /\ UNCHANGED <<sched, inserted, used, m_idx, m_delay, m_count, m_trigger_count, pc, goal,
                 taken, left>>

----------------------------------------------------------------------------
(* operator() and process_one_shot *)

Scheduled == InWheel \union {t \in taken : ~NotPickedUp(t)}

Passed(c) == left' = [t \in Task |-> IF t \in Scheduled THEN left[t] - c ELSE left[t]]

\* Slip: an event that finds the wheel busy is not counted.
TriggerIdle(h, c) ==
  /\ pc[h] = "idle"
  /\ m_trigger_count + c <= MaxTicks /\ Arrears + c <= MaxBehind
  /\ m_trigger_count' = IF \E g \in Threads : pc[g] \notin {"idle", "event", "enter"}
                        THEN m_trigger_count ELSE m_trigger_count + c
  /\ Passed(c)
  /\ Goto(h, "event")
  /\ UNCHANGED <<sched, inserted, used, fields, m_count, goal, taken, closed>>

\* An event brings c ticks, which have passed for every task.
Trigger(h, c) ==
  /\ pc[h] = "idle"
  /\ m_trigger_count + c <= MaxTicks /\ Arrears + c <= MaxBehind
  /\ m_trigger_count' = m_trigger_count + c
  /\ Passed(c)
  /\ Goto(h, "event")
  /\ UNCHANGED <<sched, inserted, used, fields, m_count, goal, taken, closed>>

\* The count is read once more, with the ticks other events have added.
ReadCount(h) ==
  /\ pc[h] = "event"
  /\ goal' = [goal EXCEPT ![h] = m_trigger_count]
  /\ Goto(h, "enter")
  /\ UNCHANGED <<sched, inserted, used, fields, m_count, m_trigger_count, taken, closed, left>>

Busy == \E h \in Threads : pc[h] \notin {"idle", "event", "enter"}

\* The compare-and-swap of m_processed.
Enter(h) ==
  /\ pc[h] = "enter"
  /\ \/ ~Busy /\ Goto(h, "loop")
     \/ Busy /\ Goto(h, "idle")
  /\ UNCHANGED <<sched, inserted, used, fields, m_count, m_trigger_count, goal, taken, closed,
                 left>>

\* The list of the next slot is unlinked.
NextSlot(h) ==
  /\ pc[h] = "loop" /\ m_count < goal[h]
  /\ taken' = sched[m_count % Size]
  /\ sched' = [sched EXCEPT ![m_count % Size] = {}]
  /\ m_count' = m_count + 1
  /\ Goto(h, "slot")
  /\ UNCHANGED <<inserted, used, fields, m_trigger_count, goal, closed, left>>

\* remove_timer.  What a free entry holds is read by nobody.
Free(t) ==
  /\ used' = used \ {t}
  /\ closed' = closed \ {t}
  /\ m_idx' = [m_idx EXCEPT ![t] = 1]
  /\ m_removed' = [m_removed EXCEPT ![t] = FALSE]
  /\ m_delay' = [m_delay EXCEPT ![t] = 0]
  /\ left' = [left EXCEPT ![t] = 0]
  /\ UNCHANGED sched

Put(t, s) == sched' = [sched EXCEPT ![s] = @ \union {t}]

\* Where insert_timer puts a task that is due in index ticks.  A multiple of
\* m_size needs one turn less, and 0 means the next tick, whose slot is taken
\* for the next cell also where the ring ends.
Place(index) ==
  LET slot == (index + Current) % Size
      turns == index \div Size
  IN  IF slot # Current THEN [slot |-> slot, delay |-> turns]
      ELSE IF turns > 0 THEN [slot |-> slot, delay |-> turns - 1]
      ELSE [slot |-> slot + 1, delay |-> 0]

\* The task has to be called at the index-th tick after the one the wheel is at.
Asks(t, index) == left' = [left EXCEPT ![t] = (IF index = 0 THEN 1 ELSE index) - Arrears]

\* Slip: a task that falls into the current slot waits for a turn too many.
InsertLate(t, index) ==
  LET at == Place(index)
  IN  /\ Put(t, at.slot)
      /\ m_delay' = [m_delay EXCEPT ![t] = index \div Size]
      /\ Asks(t, index)

\* insert_timer(t, index, current)
Insert(t, index) ==
  LET at == Place(index)
  IN  /\ Put(t, at.slot)
      /\ m_delay' = [m_delay EXCEPT ![t] = at.delay]
      /\ Asks(t, index)

\* A task of the slot that was closed is freed.
Drop(h, t) ==
  /\ pc[h] = "slot" /\ t \in taken
  /\ m_removed[t]
  /\ taken' = taken \ {t}
  /\ Free(t)
  /\ UNCHANGED <<inserted, m_start_idx, m_count, m_trigger_count, pc, goal>>

\* A task with turns to wait stays in the slot.
Wait(h, t) ==
  /\ pc[h] = "slot" /\ t \in taken
  /\ ~m_removed[t] /\ m_delay[t] > 0
  /\ m_delay' = [m_delay EXCEPT ![t] = @ - 1]
  /\ taken' = taken \ {t}
  /\ Put(t, Current)
  /\ UNCHANGED <<inserted, used, m_idx, m_start_idx, m_removed, m_count, m_trigger_count, pc,
                 goal, closed, left>>

\* The callback of a task is called; it goes on after its interval or, if the
\* callback said so, is freed.
Fire(h, t) ==
  /\ pc[h] = "slot" /\ t \in taken
  /\ ~m_removed[t] /\ m_delay[t] = 0
  /\ taken' = taken \ {t}
  /\ \/ Free(t)
     \/ Insert(t, m_idx[t]) /\ UNCHANGED <<used, closed, m_idx, m_removed>>
  /\ UNCHANGED <<inserted, m_start_idx, m_count, m_trigger_count, pc, goal>>

\* Slip: the list of added tasks is read but not emptied.
PickUpKept(h) ==
  /\ pc[h] = "slot" /\ taken = {}
  /\ taken' = inserted
  /\ Goto(h, "first")
  /\ UNCHANGED <<inserted, sched, used, fields, m_count, m_trigger_count, goal, closed, left>>

\* After the slot the added tasks are picked up.
PickUp(h) ==
  /\ pc[h] = "slot" /\ taken = {}
  /\ taken' = inserted
  /\ inserted' = {}
  /\ Goto(h, "first")
  /\ UNCHANGED <<sched, used, fields, m_count, m_trigger_count, goal, closed, left>>

\* m_start_idx is read, and its word used for the bit and m_delay from now on.
First(h, t) ==
  /\ pc[h] = "first" /\ t \in taken
  /\ m_removed' = [m_removed EXCEPT ![t] = FALSE]
  /\ m_start_idx' = [m_start_idx EXCEPT ![t] = 0]
  /\ taken' = taken \ {t}
  /\ Insert(t, m_start_idx[t])
  /\ UNCHANGED <<inserted, used, m_idx, m_count, m_trigger_count, pc, goal, closed>>

EndTick(h) ==
  /\ pc[h] = "first" /\ taken = {}
  /\ Goto(h, "loop")
  /\ UNCHANGED <<sched, inserted, used, fields, m_count, m_trigger_count, goal, taken, closed,
                 left>>

\* All ticks are done.  Large counters are set back, the position kept, and
\* m_processed is cleared.
Leave(h) ==
  /\ pc[h] = "loop" /\ m_count >= goal[h]
  /\ IF m_trigger_count > MAX_COUNT
     THEN /\ m_trigger_count' = m_trigger_count + (m_count % Size) - m_count
          /\ m_count' = m_count % Size
     ELSE UNCHANGED <<m_trigger_count, m_count>>
  /\ Goto(h, "idle")
  /\ UNCHANGED <<sched, inserted, used, fields, goal, taken, closed, left>>

----------------------------------------------------------------------------

Work(h) ==
  \/ ReadCount(h) \/ Enter(h) \/ NextSlot(h) \/ PickUp(h) \/ EndTick(h) \/ Leave(h)
  \/ \E t \in Task : Drop(h, t) \/ Wait(h, t) \/ Fire(h, t) \/ First(h, t)

Next ==
  \/ \E t \in Task : Close(t) \/ \E s \in Starts, i \in Intervals : Add(t, s, i)
  \/ \E h \in Threads : Work(h) \/ \E c \in 1 .. MaxBehind : Trigger(h, c)

Spec == Init /\ [][Next]_vars

----------------------------------------------------------------------------

\* Types; one thread at a time works on the wheel, as m_processed promises.
TypeOK ==
  /\ sched \in [Cells -> SUBSET Task]
  /\ inserted \subseteq Task /\ used \subseteq Task /\ taken \subseteq Task
  /\ closed \subseteq used
  /\ m_idx \in [Task -> Intervals \union {1}] /\ m_start_idx \in [Task -> Nat]
  /\ m_removed \in [Task -> BOOLEAN] /\ m_delay \in [Task -> Nat]
  /\ m_count \in Nat /\ m_trigger_count \in Nat
  /\ goal \in [Threads -> Nat] /\ left \in [Task -> Int]
  /\ pc \in [Threads -> {"idle", "event", "enter", "loop", "slot", "first"}]
  /\ Cardinality({h \in Threads : pc[h] \in {"loop", "slot", "first"}}) <= 1

\* An allocated task is in exactly one list: of a slot or of the cell behind
\* the ring, of the tasks to pick up, or in the hands of the thread that works
\* on the wheel.
InOneList ==
  /\ TypeOK
  /\ used = InWheel \union BehindWheel \union inserted \union taken
  /\ (InWheel \union BehindWheel) \intersect (inserted \union taken) = {}
  /\ inserted \intersect taken = {}
  /\ \A s, r \in Cells : sched[s] \intersect sched[r] # {} => s = r

\* Only closed tasks are dropped without a call, and a task closed after it was
\* picked up is not called any more: the removed bit is what close made it, and
\* a close that came before has left no trace of it (timerfd.hpp:91).
StaysClosed == \A t \in InWheel : m_removed[t] <=> t \in closed

\* Every task of the ring is called at the tick it asked for, in the ticks the
\* events brought, those included that came while the wheel was busy
\* (timerfd.hpp:40): when the wheel has worked off the arrears the task is due
\* at a later tick, and those the thread has taken from the slot are called if
\* and only if they are due.
OnTime ==
  /\ StaysClosed
  /\ \A t \in InWheel : left[t] + Arrears > 0
  /\ \A h \in Threads : pc[h] = "slot" =>
       \A t \in taken : left[t] + Arrears = m_delay[t] * Size

\* The claim of timerfd.h:215, "ASSERT(index < m_size)": a task is put into a
\* slot of the ring.  It fails for a start of 0 (timerfd.h:211).
InRing == BehindWheel = {}

----------------------------------------------------------------------------

\* Tasks are interchangeable, and so are threads.
WheelSymmetry == Permutations(Task) \union Permutations(Threads)
============================================================================
