----------------------------- MODULE TaskQueue -----------------------------
(***************************************************************************)
(* The chunked queue of src/util/queue.h as the servers use it: any thread *)
(* pushes (mpush), the server's own thread pops (pop).                     *)
(*                                                                         *)
(* The positions are handed out by an atomic increment of m_wpos.  A       *)
(* producer writes its cell and then waits for its turn to move m_wp past  *)
(* it, so the cells become readable in order.  The producer that gets the  *)
(* last cell of a chunk links the next chunk, waits until m_wp reached its *)
(* cell, and moves m_w, m_wp and m_wpos on; later ones wait until m_wpos   *)
(* is small again and start over.  The consumer gives a chunk it has read  *)
(* to a list of free chunks that the producers take from; a free chunk is  *)
(* linked through the same next field as a chunk of the queue.             *)
(*                                                                         *)
(* An action is what happens between two accesses to shared memory that    *)
(* another thread could notice.  A cell is <<chunk, index>>, the item of a *)
(* producer <<producer, number>>.                                          *)
(*                                                                         *)
(* Definitions marked "Slip" are wrong variants of the definition that     *)
(* follows them; the properties are required to notice each of them.       *)
(***************************************************************************)
EXTENDS Naturals, Sequences

CONSTANTS
  Producers,  \* threads that push
  Chunks,     \* the memory chunks are allocated from
  NIL,        \* no chunk
  N,          \* cells of a chunk
  MaxItems    \* bound on the items a producer pushes

ASSUME SizeAssumption == N \in Nat \ {0, 1} /\ MaxItems \in Nat
ASSUME ChunkAssumption == NIL \notin Chunks /\ Chunks # {}

VARIABLES
  p,        \* the cells of every chunk
  next,     \* the next field of every chunk
  fresh,    \* the chunks not allocated yet
  m_c, m_w, m_r, m_free,   \* first, written, read and free chunk
  wpos, wp, \* m_wpos, m_wp: next position to reserve, first cell not readable
  rpos, rp, \* m_rpos, m_rp: the same of the consumer
  pc,       \* pc[t]: where producer t is in mpush
  slot,     \* slot[t]: the cell it reserved
  chunk,    \* chunk[t]: the chunk it is going to link
  count,    \* count[t]: items it pushed or is pushing
  cpc, old, \* where the consumer is in pop, and the chunk it is through with
  pushed, popped  \* history: items made readable, items popped

wvars == <<m_w, wpos, wp, pc, slot, chunk, count, pushed>>
rvars == <<m_c, m_r, rpos, rp, cpc, old, popped>>
vars == <<p, next, fresh, m_free, wvars, rvars>>

Cells == Chunks \X (0 .. N - 1)
Items == Producers \X (1 .. MaxItems)
NoItem == <<>>

Init ==
  \E c \in Chunks :
    /\ p = [x \in Cells |-> NoItem]
    /\ next = [x \in Chunks |-> NIL]
    /\ fresh = Chunks \ {c}
    /\ m_c = c /\ m_w = c /\ m_r = c /\ m_free = NIL
    /\ wpos = 0 /\ wp = <<c, 0>>
    /\ rpos = 0 /\ rp = <<c, 0>>
    /\ pc = [t \in Producers |-> "idle"]
    /\ slot = [t \in Producers |-> <<c, 0>>]
    /\ chunk = [t \in Producers |-> NIL]
    /\ count = [t \in Producers |-> 0]
    /\ cpc = "idle" /\ old = NIL
    /\ pushed = <<>> /\ popped = <<>>

Goto(t, l) == pc' = [pc EXCEPT ![t] = l]

----------------------------------------------------------------------------
(* mpush: mmovestep with rval = false *)

\* A thread calls mpush with its next item.
Call(t) ==
  /\ pc[t] = "idle" /\ count[t] < MaxItems
  /\ count' = [count EXCEPT ![t] = @ + 1]
  /\ Goto(t, "reserve")
  /\ UNCHANGED <<p, next, fresh, m_free, m_w, wpos, wp, slot, chunk, pushed, rvars>>

\* Slip: m_wpos is read and written back in two accesses.
ReserveTorn(t) ==
  \/ /\ pc[t] = "reserve"
     /\ slot' = [slot EXCEPT ![t][2] = wpos]
     /\ Goto(t, "torn")
     /\ UNCHANGED <<p, next, fresh, m_free, m_w, wpos, wp, chunk, count, pushed, rvars>>
  \/ /\ pc[t] = "torn"
     /\ wpos' = slot[t][2] + 1
     /\ Goto(t, IF wpos' < N THEN "write" ELSE IF wpos' = N THEN "last" ELSE "wait")
     /\ UNCHANGED <<p, next, fresh, m_free, m_w, wp, slot, chunk, count, pushed, rvars>>

\* The atomic increment of m_wpos; N - 1 is the last cell, larger ones wait.
Reserve(t) ==
  /\ pc[t] = "reserve"
  /\ wpos' = wpos + 1
  /\ slot' = [slot EXCEPT ![t][2] = wpos]
  /\ Goto(t, IF wpos' < N THEN "write" ELSE IF wpos' = N THEN "last" ELSE "wait")
  /\ UNCHANGED <<p, next, fresh, m_free, m_w, wp, chunk, count, pushed, rvars>>

Write(t) ==
  /\ pc[t] \in {"write", "last"}
  /\ slot' = [slot EXCEPT ![t][1] = m_w]
  /\ p' = [p EXCEPT ![slot'[t]] = <<t, count[t]>>]
  /\ Goto(t, IF pc[t] = "write" THEN "publish"
             ELSE IF next[m_w] = NIL THEN "expand" ELSE "advance")
  /\ UNCHANGED <<next, fresh, m_free, m_w, wpos, wp, chunk, count, pushed, rvars>>

\* Slip: m_wp is moved without waiting for the cells before this one.
PublishAnyway(t) ==
  /\ pc[t] = "publish"
  /\ wp' = <<slot[t][1], slot[t][2] + 1>>
  /\ pushed' = Append(pushed, <<t, count[t]>>)
  /\ Goto(t, "idle")
  /\ UNCHANGED <<p, next, fresh, m_free, m_w, wpos, slot, chunk, count, rvars>>

\* The compare-and-swap of m_wp, repeated until it succeeds.
Publish(t) ==
  /\ pc[t] = "publish"
  /\ wp = slot[t]
  /\ wp' = <<slot[t][1], slot[t][2] + 1>>
  /\ pushed' = Append(pushed, <<t, count[t]>>)
  /\ Goto(t, "idle")
  /\ UNCHANGED <<p, next, fresh, m_free, m_w, wpos, slot, chunk, count, rvars>>

\* expand takes a free chunk under m_mtx,
Cache(t) ==
  /\ pc[t] = "expand"
  /\ m_free # NIL
  /\ chunk' = [chunk EXCEPT ![t] = m_free]
  /\ m_free' = next[m_free]
  /\ Goto(t, "link")
  /\ UNCHANGED <<p, next, fresh, m_w, wpos, wp, slot, count, pushed, rvars>>

\* or allocates one when there is none.
Allocate(t) ==
  /\ pc[t] = "expand"
  /\ m_free = NIL
  /\ \E c \in fresh :
       /\ chunk' = [chunk EXCEPT ![t] = c]
       /\ fresh' = fresh \ {c}
  /\ Goto(t, "link")
  /\ UNCHANGED <<p, next, m_free, m_w, wpos, wp, slot, count, pushed, rvars>>

Link(t) ==
  /\ pc[t] = "link"
  /\ next' = [next EXCEPT ![chunk[t]] = NIL, ![m_w] = chunk[t]]
  /\ Goto(t, "advance")
  /\ UNCHANGED <<p, fresh, m_free, m_w, wpos, wp, slot, chunk, count, pushed, rvars>>

\* When all cells before are readable nobody else uses m_w, and it moves on.
Advance(t) ==
  /\ pc[t] = "advance"
  /\ wp = slot[t]
  /\ chunk' = [chunk EXCEPT ![t] = next[m_w]]
  /\ m_w' = next[m_w]
  /\ Goto(t, "switch")
  /\ UNCHANGED <<p, next, fresh, m_free, wpos, wp, slot, count, pushed, rvars>>

Switch(t) ==
  /\ pc[t] = "switch"
  /\ wp = slot[t]
  /\ wp' = <<chunk[t], 0>>
  /\ pushed' = Append(pushed, <<t, count[t]>>)
  /\ Goto(t, "reset")
  /\ UNCHANGED <<p, next, fresh, m_free, m_w, wpos, slot, chunk, count, rvars>>

\* Slip: the producers that wait are never let in.
ResetNever(t) ==
  /\ pc[t] = "reset"
  /\ chunk' = [chunk EXCEPT ![t] = NIL]
  /\ Goto(t, "idle")
  /\ UNCHANGED <<p, next, fresh, m_free, m_w, wpos, wp, slot, count, pushed, rvars>>

Reset(t) ==
  /\ pc[t] = "reset"
  /\ wpos' = 0
  /\ chunk' = [chunk EXCEPT ![t] = NIL]
  /\ Goto(t, "idle")
  /\ UNCHANGED <<p, next, fresh, m_free, m_w, wp, slot, count, pushed, rvars>>

Retry(t) ==
  /\ pc[t] = "wait"
  /\ wpos < N
  /\ Goto(t, "reserve")
  /\ UNCHANGED <<p, next, fresh, m_free, m_w, wpos, wp, slot, chunk, count, pushed, rvars>>

----------------------------------------------------------------------------
(* pop: readable, then movestep with rval = true *)

Pop ==
  /\ cpc = "idle"
  /\ rp # wp
  /\ rpos + 1 < N
  /\ popped' = Append(popped, p[rp])
  /\ rpos' = rpos + 1
  /\ rp' = <<m_r, rpos + 1>>
  /\ UNCHANGED <<p, next, fresh, m_free, wvars, m_c, m_r, cpc, old>>

\* The last cell of a chunk: the reader goes to the next chunk.
PopLast ==
  /\ cpc = "idle"
  /\ rp # wp
  /\ rpos + 1 = N
  /\ popped' = Append(popped, p[rp])
  /\ rpos' = N
  /\ old' = m_r
  /\ m_r' = next[m_r]
  /\ cpc' = "unchain"
  /\ UNCHANGED <<p, next, fresh, m_free, wvars, m_c, rp>>

\* free: the chunk leaves the chain fin would walk ...
Unchain ==
  /\ cpc = "unchain"
  /\ m_c' = IF old = m_c THEN next[m_c] ELSE m_c
  /\ cpc' = "free"
  /\ UNCHANGED <<p, next, fresh, m_free, wvars, m_r, rpos, rp, old, popped>>

\* ... and enters the list of free chunks; m_rp follows.
Free ==
  /\ cpc = "free"
  /\ next' = [next EXCEPT ![old] = m_free]
  /\ m_free' = old
  /\ old' = NIL
  /\ rpos' = 0
  /\ rp' = <<m_r, 0>>
  /\ cpc' = "idle"
  /\ UNCHANGED <<p, fresh, wvars, m_c, m_r, popped>>

----------------------------------------------------------------------------

\* What a producer does once it has called mpush.
Step(t) ==
  \/ Reserve(t) \/ Write(t) \/ Publish(t)
  \/ Cache(t) \/ Allocate(t) \/ Link(t) \/ Advance(t) \/ Switch(t) \/ Reset(t)
  \/ Retry(t)

Consume == Pop \/ PopLast \/ Unchain \/ Free

Next == Consume \/ \E t \in Producers : Call(t) \/ Step(t)

SafeSpec == Init /\ [][Next]_vars

\* A thread inside mpush keeps running, and a server drains its queue in
\* every turn of its loop.
Spec == SafeSpec /\ WF_vars(Consume) /\ \A t \in Producers : WF_vars(Step(t))

----------------------------------------------------------------------------
(* What the task queue must guarantee *)

\* The nodes a walk along link meets from x on, x included: the smallest set
\* with x in it that link does not lead out of.
Chain(link, x) ==
  {n \in DOMAIN link :
     \A S \in SUBSET DOMAIN link :
       /\ x \in DOMAIN link => x \in S
       /\ \A m \in S : link[m] \in DOMAIN link => link[m] \in S
       => n \in S}

\* The chunks of the queue and the chunks kept for later use.
Used == Chain(next, m_c)
Spare == Chain(next, m_free)

\* Chunks on their way between the two: taken by expand and not linked yet,
\* or read to the end and not in the list of free chunks yet.
Moving ==
  {chunk[t] : t \in {x \in Producers : pc[x] = "link"}} \union ({old} \ {NIL})

\* The pointers stay inside the chunks and m_wpos leaves room for every
\* producer that came too late for the chunk.
TypeOK ==
  /\ p \in [Cells -> Items \union {NoItem}]
  /\ next \in [Chunks -> Chunks \union {NIL}]
  /\ {m_c, m_w, m_r} \subseteq Chunks /\ m_free \in Chunks \union {NIL}
  /\ {wp, rp} \subseteq Cells
  /\ rpos \in 0 .. N
  /\ wpos >= N <=> \E t \in Producers :
                      pc[t] \in {"last", "expand", "link", "advance", "switch", "reset"}

\* No chunk is lost or in two places: fin() finds every chunk that was
\* allocated in the chain of m_c or in that of m_free, but for one that a
\* producer or the reader is moving.  The two ends of the queue are in chunks
\* of the first chain, never in one that free() has put aside for expand().
ChunksAccounted ==
  /\ {m_w, m_r, wp[1]} \intersect Spare = {} /\ m_r \in Used
  /\ cpc = "idle" =>
       /\ Used \union Spare \union Moving = Chunks \ fresh
       /\ Used \intersect Spare = {}
       /\ Moving \intersect (Used \union Spare) = {}

\* "p is never be same among each thread" (comment in mmovestep): two
\* producers between their reservation and the move of m_wp have two cells,
\* and the reader has not got to either of them.  The chunks the cells are in are all accounted
\* for.
OwnCells ==
  TypeOK /\ ChunksAccounted /\ \A t, u \in Producers :
    /\ t # u /\ {pc[t], pc[u]} \subseteq {"publish", "expand", "link", "advance", "switch"}
         => slot[t] # slot[u]
    /\ pc[t] \in {"publish", "expand", "link", "advance"} /\ cpc = "idle"
         => ~(slot[t][1] = m_r /\ slot[t][2] < rpos)

\* mpush returns: nobody waits for ever for its turn to move m_wp or for
\* m_wpos to become small again.
PushReturns ==
  \A t \in Producers : pc[t] # "idle" ~> pc[t] = "idle"

Queue == INSTANCE Fifo WITH Item <- Items

\* mpush and pop are the push and pop of a FIFO: the reader gets what was
\* written, in the order in which m_wp moved, and everything in the end.
ImplementsFifo == Queue!Spec
============================================================================
