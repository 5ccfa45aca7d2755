-------------------------------- MODULE Wbuf --------------------------------
(***************************************************************************)
(* How the bytes of a socket get out: the write buffer of the socket       *)
(* (src/net/wbuf.h), the write poller (src/handler/wpoller.h, wpoller.hpp) *)
(* and loop::write (src/loop.hpp).                                         *)
(*                                                                         *)
(* Senders append to the buffer m_next under the mutex; whoever finds      *)
(* m_flag 0 sets it and arms the write poller.  The worker that gets the   *)
(* write event swaps the buffers under the mutex and from then on a chain  *)
(* of WRITE_AGAIN tasks in the queue of that worker empties m_curr, swaps, *)
(* and so on; the chain clears m_flag when both buffers are empty.         *)
(* state_change(WAITACCEPT), executed by the worker that reads the socket, *)
(* clears the flag and arms the poller for the first time.                 *)
(*                                                                         *)
(* All data is sent with one kind of writer, so a buffer holds at most one *)
(* writer: data is its unsent payload and last the length of the buffer.   *)
(* With several workers nothing is sent before the first write event is    *)
(* over; data sent earlier would start a second chain in another worker.   *)
(* All workers share the main poller.  The read side of the socket is only *)
(* its registration there.  Closing the socket is left out, apart from the *)
(* peer that goes away.                                                    *)
(*                                                                         *)
(* Definitions marked "Slip" are wrong variants of the definition that     *)
(* follows them.                                                           *)
(***************************************************************************)
EXTENDS Integers, Sequences, FiniteSets

CONSTANTS
  Workers,     \* threads in loop::poll
  Senders,     \* threads in sendraw
  Opener,      \* the worker that establishes the connection
  Sizes,       \* lengths of messages
  MaxUnits,    \* bound on the units of data sent
  KernelFull,  \* TRUE: the socket may refuse data (EAGAIN)
  PeerLeaves   \* TRUE: the peer may go away (EPIPE, ECONNRESET)

ASSUME ActorAssumption ==
  Opener \in Workers /\ Workers \intersect Senders = {} /\ "none" \notin Senders
ASSUME SizesAssumption == Sizes \subseteq Nat \ {0} /\ MaxUnits \in Nat
ASSUME SwitchAssumption == {KernelFull, PeerLeaves} \subseteq BOOLEAN

VARIABLES
  m_flag,      \* somebody takes care of the buffers
  mtx,         \* the thread that holds the mutex, or "none"
  next, curr,  \* the two buffers: [data, last]
  wfd,         \* the socket in the write poller: "out", "off", "armed"
  wp,          \* the write poller in the main poller is armed
  rfd,         \* the socket in the main poller: "off", "read", "write"
  que,         \* w: WRITE_AGAIN tasks in the queue of worker w
  pc,          \* where a thread is
  ctx,         \* w: worker w is in write_poller::write ("event") or a task
  size,        \* s: what the current sendraw will return
  gone,        \* the peer is gone
  solo,        \* the process has one worker only
  ready,       \* history: the first write event is over
  refused,     \* history: the kernel refused data
  total,       \* history: units handed to sendraw
  wire         \* history: units written to the socket

sending == <<size, total>>
hist == <<solo, ready, refused, wire>>
vars == <<m_flag, mtx, next, curr, wfd, wp, rfd, que, pc, ctx, gone, hist, sending>>

Empty == [data |-> <<>>, last |-> 0]

Goto(t, l) == pc' = [pc EXCEPT ![t] = l]

\* The state in which on_read calls the handshaker: the socket is new.
Init ==
  /\ m_flag = 0 /\ mtx = "none"
  /\ next = Empty /\ curr = Empty
  /\ wfd = "out" /\ wp = TRUE /\ rfd = "off"
  /\ que = [w \in Workers |-> 0]
  /\ pc = [t \in Workers \union Senders |-> IF t = Opener THEN "establish" ELSE "idle"]
  /\ ctx = [w \in Workers |-> "task"]
  /\ size = [s \in Senders |-> 0]
  /\ gone = FALSE /\ total = 0 /\ wire = <<>>
  /\ solo \in BOOLEAN /\ ready = FALSE /\ refused = FALSE

----------------------------------------------------------------------------
(* state_change(WAITACCEPT): the state is changed before the wbuf is armed,
   and a sender looks at the state. *)

Valid == pc[Opener] # "establish"

ChangeState(w) ==
  /\ pc[w] = "establish"
  /\ Goto(w, "detach")
  /\ UNCHANGED <<m_flag, mtx, next, curr, wfd, wp, rfd, que, ctx, gone, hist, sending>>

WriteDetach(w) ==
  /\ pc[w] = "detach"
  /\ m_flag' = 0
  /\ Goto(w, "set")
  /\ UNCHANGED <<mtx, next, curr, wfd, wp, rfd, que, ctx, gone, hist, sending>>

\* Slip: the socket is entered but not armed.
SetWbufOff(w) ==
  /\ pc[w] = "set"
  /\ wfd' = "off"
  /\ Goto(w, "read")
  /\ UNCHANGED <<m_flag, mtx, next, curr, wp, rfd, que, ctx, gone, hist, sending>>

\* set_wbuf
SetWbuf(w) ==
  /\ pc[w] = "set"
  /\ wfd' = "armed"
  /\ Goto(w, "read")
  /\ UNCHANGED <<m_flag, mtx, next, curr, wp, rfd, que, ctx, gone, hist, sending>>

----------------------------------------------------------------------------
(* sendraw *)

Numbers(from, n) == [i \in 1 .. n |-> from + i]

\* The mutex is taken and the payload appended to next.  A new writer costs
\* its command byte and its header, here one each.
Put(s, n) ==
  /\ pc[s] = "idle" /\ Valid /\ mtx = "none"
  /\ solo \/ ready
  /\ total + n <= MaxUnits
  /\ mtx' = s
  /\ next' = [data |-> next.data \o Numbers(total, n),
              last |-> next.last + IF next.last = 0 THEN 2 + n ELSE n]
  /\ size' = [size EXCEPT ![s] = IF next.last = 0 THEN 1 + n ELSE n]
  /\ total' = total + n
  /\ Goto(s, "flag")
  /\ UNCHANGED <<m_flag, curr, wfd, wp, rfd, que, ctx, gone, hist>>

\* write_attach: without success the sender is done.
WriteAttach(s) ==
  /\ pc[s] = "flag"
  /\ \/ m_flag = 0 /\ m_flag' = 1 /\ Goto(s, "attach") /\ mtx' = mtx
     \/ m_flag = 1 /\ m_flag' = 1 /\ Goto(s, "idle") /\ mtx' = "none"
  /\ UNCHANGED <<next, curr, wfd, wp, rfd, que, ctx, gone, hist, sending>>

\* sender.attach: EPOLL_CTL_MOD, which fails for a socket that is not there;
\* then size is taken off the buffer, though the writer still has its data.
Attach(s) ==
  /\ pc[s] = "attach"
  /\ \/ wfd # "out" /\ wfd' = "armed" /\ UNCHANGED <<m_flag, next>>
     \/ wfd = "out" /\ m_flag' = 0 /\ wfd' = wfd
        /\ next' = [next EXCEPT !.last = @ - size[s]]
  /\ mtx' = "none"
  /\ Goto(s, "idle")
  /\ UNCHANGED <<curr, wp, rfd, que, ctx, gone, hist, sending>>

----------------------------------------------------------------------------
(* A worker: events of the write poller and WRITE_AGAIN tasks *)

Waits(w) == pc[w] = "idle" /\ que[w] = 0 /\ (solo => w = Opener)

\* The write poller has an event for the socket.
WriteEvent(w) ==
  /\ Waits(w)
  /\ wp /\ wfd = "armed"
  /\ wp' = FALSE /\ wfd' = "off"
  /\ ctx' = [ctx EXCEPT ![w] = "event"]
  /\ Goto(w, "write")
  /\ UNCHANGED <<m_flag, mtx, next, curr, rfd, que, gone, hist, sending>>

\* A WRITE_AGAIN task; loop::poll runs tasks before it waits for events.
Task(w) ==
  /\ pc[w] = "idle" /\ que[w] > 0
  /\ que' = [que EXCEPT ![w] = @ - 1]
  /\ ctx' = [ctx EXCEPT ![w] = "task"]
  /\ Goto(w, "write")
  /\ UNCHANGED <<m_flag, mtx, next, curr, wfd, wp, rfd, gone, hist, sending>>

\* The result keep: one more task.  The write poller is armed again after an
\* event.
Done(w) ==
  /\ wp' = (wp \/ ctx[w] = "event")
  /\ Goto(w, "idle")

Keep(w) == que' = [que EXCEPT ![w] = @ + 1]

\* curr is empty: the buffers are swapped under the mutex, and the flag is
\* cleared if there is nothing to write at all.
Swap(w) ==
  /\ pc[w] = "write" /\ curr.last = 0 /\ mtx = "none"
  /\ curr' = next /\ next' = curr
  /\ \/ next.last = 0 /\ m_flag' = 0 /\ que' = que
     \/ next.last > 0 /\ Keep(w) /\ m_flag' = m_flag
  /\ ready' = TRUE
  /\ Done(w)
  /\ UNCHANGED <<mtx, wfd, rfd, ctx, gone, solo, refused, wire, sending>>

\* curr is looked at without the mutex; a writer in it is executed.
Look(w) ==
  /\ pc[w] = "write" /\ curr.last > 0
  /\ Goto(w, "call")
  /\ UNCHANGED <<m_flag, mtx, next, curr, wfd, wp, rfd, que, ctx, gone, hist, sending>>

\* Slip: what the kernel took is not taken off the buffer.
WriteKeep(w) ==
  /\ pc[w] = "call" /\ ~gone
  /\ \E r \in 1 .. Len(curr.data) :
       /\ wire' = wire \o SubSeq(curr.data, 1, r)
       /\ curr' = IF r = Len(curr.data) THEN Empty
                  ELSE [curr EXCEPT !.data = SubSeq(@, 2, Len(@))]
  /\ Keep(w)
  /\ Done(w)
  /\ UNCHANGED <<m_flag, mtx, next, wfd, rfd, ctx, gone, solo, ready, refused, sending>>

\* The kernel takes some of the data; the buffer is given back as a whole
\* when its writer is finished.
Write(w) ==
  /\ pc[w] = "call" /\ ~gone
  /\ \E r \in 1 .. Len(curr.data) :
       /\ wire' = wire \o SubSeq(curr.data, 1, r)
       /\ curr' = IF r = Len(curr.data) THEN Empty
                  ELSE [curr EXCEPT !.data = SubSeq(@, r + 1, Len(@))]
  /\ Keep(w)
  /\ Done(w)
  /\ UNCHANGED <<m_flag, mtx, next, wfd, rfd, ctx, gone, solo, ready, refused, sending>>

\* EAGAIN.  write_poller::write adds the socket to the write poller, which
\* fails since it is there already; loop::write arms it in the main poller.
WriteAgain(w) ==
  /\ pc[w] = "call" /\ ~gone /\ KernelFull
  /\ \/ ctx[w] = "event" /\ rfd' = rfd
     \/ ctx[w] = "task" /\ rfd' = "write"
  /\ refused' = TRUE
  /\ Done(w)
  /\ UNCHANGED <<m_flag, mtx, next, curr, wfd, que, ctx, gone, solo, ready, wire, sending>>

\* EPIPE or ECONNRESET: the chain ends, the data and the flag stay.
WriteBroken(w) ==
  /\ pc[w] = "call" /\ gone
  /\ Done(w)
  /\ UNCHANGED <<m_flag, mtx, next, curr, wfd, rfd, que, ctx, gone, hist, sending>>

----------------------------------------------------------------------------
(* The read side and the peer *)

\* An event of the main poller: the socket is read, whatever it was armed for.
ReadEvent(w) ==
  /\ Waits(w) /\ rfd # "off"
  /\ rfd' = "off"
  /\ Goto(w, "read")
  /\ UNCHANGED <<m_flag, mtx, next, curr, wfd, wp, que, ctx, gone, hist, sending>>

\* on_read returns read_again.
EndRead(w) ==
  /\ pc[w] = "read"
  /\ rfd' = "read"
  /\ Goto(w, "idle")
  /\ UNCHANGED <<m_flag, mtx, next, curr, wfd, wp, que, ctx, gone, hist, sending>>

PeerGone ==
  /\ PeerLeaves /\ ~gone
  /\ gone' = TRUE
  /\ UNCHANGED <<m_flag, mtx, next, curr, wfd, wp, rfd, que, pc, ctx, hist, sending>>

----------------------------------------------------------------------------

Establish(w) == ChangeState(w) \/ WriteDetach(w) \/ SetWbuf(w)
Output(w) ==
  \/ WriteEvent(w) \/ Task(w) \/ Swap(w) \/ Look(w)
  \/ Write(w) \/ WriteAgain(w) \/ WriteBroken(w)
Send(s) == WriteAttach(s) \/ Attach(s)

Next ==
  \/ \E w \in Workers : Establish(w) \/ Output(w) \/ ReadEvent(w) \/ EndRead(w)
  \/ \E s \in Senders : Send(s) \/ \E n \in Sizes : Put(s, n)
  \/ PeerGone

SafeSpec == Init /\ [][Next]_vars

\* Threads that have work to do run on.  loop::poll runs all tasks before it
\* waits, and handles every event that a wait returns, so a worker that keeps
\* being busy with reads does not put off writes for ever.  Nobody is forced
\* to send, and no input has to arrive.
Spec ==
  /\ SafeSpec
  /\ \A w \in Workers : WF_vars(Establish(w) \/ EndRead(w)) /\ SF_vars(Output(w))
  /\ \A s \in Senders : WF_vars(Send(s))

----------------------------------------------------------------------------

\* Types; the mutex is held by the sender between its append and its return.
TypeOK ==
  /\ m_flag \in {0, 1} /\ mtx \in Senders \union {"none"}
  /\ \A b \in {next, curr} : b.data \in Seq(1 .. MaxUnits) /\ b.last \in Nat
  /\ wfd \in {"out", "off", "armed"} /\ rfd \in {"off", "read", "write"}
  /\ {wp, gone, solo, ready, refused} \subseteq BOOLEAN
  /\ que \in [Workers -> Nat] /\ ctx \in [Workers -> {"event", "task"}]
  /\ size \in [Senders -> Nat] /\ total \in 0 .. MaxUnits /\ wire \in Seq(1 .. MaxUnits)
  /\ pc \in [Workers \union Senders ->
               {"idle", "establish", "detach", "set", "read", "write", "call", "flag", "attach"}]
  /\ \A s \in Senders : pc[s] # "idle" <=> mtx = s

InWrite(w) == pc[w] \in {"write", "call"}

\* "curr is only touched by this thread": one chain of events and tasks at a
\* time works on the buffers.
OneWriter ==
  TypeOK /\ \A w, v \in Workers : InWrite(w) => ~(w # v /\ InWrite(v)) /\ que[v] = 0

\* What went out, what waits in curr and what waits in next are together what
\* was sent: nothing is lost, repeated or overtaken while partial writes and
\* swaps go on beside the senders, and one writer
\* at a time works on curr.
InOrder ==
  OneWriter /\ wire \o curr.data \o next.data = Numbers(0, total)

\* What was handed to sendraw reaches the wire, unless the peer goes away or
\* the socket refuses data: whoever leaves the buffers has armed the write
\* poller, queued a task or found them empty under the mutex.
Flushed ==
  \A n \in 1 .. MaxUnits : total >= n ~> Len(wire) >= n \/ gone \/ refused

\* write_command gives the buffers up only when both are empty, so what was
\* handed to sendraw reaches the wire also if the socket refuses data for a
\* while.
FlushedAfterAll ==
  \A n \in 1 .. MaxUnits : total >= n ~> Len(wire) >= n \/ gone
============================================================================
