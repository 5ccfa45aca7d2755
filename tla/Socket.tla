------------------------------- MODULE Socket -------------------------------
(***************************************************************************)
(* The life of a client connection: open, handshake, reading and close of  *)
(* one socket (src/handler/socket.h, socket.hpp, handshake.h) by several   *)
(* workers, with the tables of the loop (src/loop.hpp) and its io tasks    *)
(* (src/task.hpp).                                                         *)
(*                                                                         *)
(* A connection is handed from worker to worker through the poller: it is  *)
(* disarmed when an event is taken and armed again by what on_read         *)
(* returns.  Nothing locks it; m_state, m_fd, m_closed and the entry of    *)
(* the handler table change by compare-and-swap.  A close is a task in the *)
(* queue of the worker that found the end of the connection.               *)
(*                                                                         *)
(* Two ways of running are explored.  With one worker the socket is opened *)
(* and closed several times.  With several workers it is opened once and   *)
(* the handshake may time out; a second open beside a close, or after a    *)
(* timeout, loses a descriptor (see the README).                           *)
(*                                                                         *)
(* Every worker uses the main poller.  EPOLL_CTL_DEL succeeds for a        *)
(* registered descriptor, armed or not.  The writing side is in module     *)
(* Wbuf.  A worker that would follow a null pointer stops there.           *)
(*                                                                         *)
(* Definitions marked "Slip" are wrong variants of the definition that     *)
(* follows them.                                                           *)
(***************************************************************************)
EXTENDS Integers, Sequences, FiniteSets

CONSTANTS
  Workers,     \* threads in server::poll
  First,       \* one of them
  Fds,         \* descriptors the kernel gives out
  MaxOpens,    \* bound on calls of open_client_conn
  MaxCloses,   \* bound on calls of close
  MaxQueue     \* bound on the tasks of a worker when it reads on

ASSUME FirstAssumption == First \in Workers
ASSUME FdsAssumption == Fds \subseteq Nat \ {0}
ASSUME BoundsAssumption == {MaxOpens, MaxCloses, MaxQueue} \subseteq Nat

VARIABLES
  m_state, m_fd, m_closed,  \* of the socket; m_fd is 0 for INVALID_FD
  closing,    \* F_CLOSING
  open,       \* the descriptors that are open
  ms_h,       \* fd: the socket is in the handler table
  ms_pl,      \* fd: there is a poller in the poller table
  reg,        \* fd in the poller: "out", "off", or armed: "hup", "read", "write"
  hs,         \* the descriptors in the handshake map
  que,        \* w: the io tasks of worker w, "read" and "close"
  pc,         \* where a worker is
  lfd,        \* w: the descriptor worker w works on
  ev, res,    \* w: the event it has, the result of on_read
  solo,       \* the process has one worker only
  opens, closes  \* history: calls so far

fields == <<m_state, m_fd, m_closed, closing>>
tables == <<open, ms_h, ms_pl, reg, hs>>
local == <<que, lfd, ev, res>>
calls == <<solo, opens, closes>>
vars == <<fields, tables, local, calls, pc>>

Connected == {"WAITACCEPT", "ESTABLISH"}

Init ==
  /\ m_state = "CLOSED" /\ m_fd = 0 /\ m_closed = FALSE /\ closing = FALSE
  /\ open = {} /\ hs = {}
  /\ ms_h = [f \in Fds |-> FALSE] /\ ms_pl = [f \in Fds |-> FALSE]
  /\ reg = [f \in Fds |-> "out"]
  /\ que = [w \in Workers |-> <<>>]
  /\ pc = [w \in Workers |-> "idle"]
  /\ lfd = [w \in Workers |-> 0]
  /\ ev = [w \in Workers |-> "none"] /\ res = [w \in Workers |-> "nop"]
  /\ solo \in BOOLEAN /\ opens = 0 /\ closes = 0

At(w, l) == pc[w] = l
Waits(w) == At(w, "idle") /\ (solo => w = First)
Goto(w, l) == pc' = [pc EXCEPT ![w] = l]
Push(w, task) == que' = [que EXCEPT ![w] = Append(@, task)]

\* The compare-and-swap of state_change.
Change(old, new) == m_state' = IF m_state = old THEN new ELSE m_state

----------------------------------------------------------------------------
(* open_client_conn and loop::open *)

\* The caller sees that the socket is not valid.
OpenReset(w) ==
  /\ Waits(w) /\ m_state \notin Connected
  /\ opens < IF solo THEN MaxOpens ELSE 1
  /\ opens' = opens + 1
  /\ closing' = FALSE /\ m_closed' = FALSE
  /\ Goto(w, "enter")
  /\ UNCHANGED <<m_state, m_fd, tables, local, solo, closes>>

\* The state becomes HANDSHAKE.  If a close came in between the call ends and
\* the state remains.
OpenEnter(w) ==
  /\ At(w, "enter")
  /\ Change("CLOSED", "HANDSHAKE")
  /\ Goto(w, IF m_state = "CLOSED" /\ ~closing THEN "socket" ELSE "idle")
  /\ UNCHANGED <<m_fd, m_closed, closing, tables, local, calls>>

\* A descriptor, connect, and the entry in the handshake map.
OpenSocket(w) ==
  /\ At(w, "socket")
  /\ \E f \in Fds \ open :
       /\ m_fd' = f /\ open' = open \union {f} /\ hs' = hs \union {f}
       /\ lfd' = [lfd EXCEPT ![w] = f]
  /\ Goto(w, "task")
  /\ UNCHANGED <<m_state, m_closed, closing, ms_h, ms_pl, reg, que, ev, res, calls>>

\* socket or connect fails.
OpenRefused(w) ==
  /\ At(w, "socket")
  /\ Change("HANDSHAKE", "CLOSED")
  /\ Goto(w, "idle")
  /\ UNCHANGED <<m_fd, m_closed, closing, tables, local, calls>>

\* on_open asks for a first call of on_read.
OpenTask(w) ==
  /\ At(w, "task")
  /\ Push(w, "read")
  /\ Goto(w, "handler")
  /\ UNCHANGED <<fields, tables, lfd, ev, res, calls>>

OpenHandler(w) ==
  /\ At(w, "handler") /\ ~ms_h[lfd[w]]
  /\ ms_h' = [ms_h EXCEPT ![lfd[w]] = TRUE]
  /\ Goto(w, "poller")
  /\ UNCHANGED <<fields, open, ms_pl, reg, hs, local, calls>>

OpenPoller(w) ==
  /\ At(w, "poller")
  /\ ms_pl' = [ms_pl EXCEPT ![lfd[w]] = TRUE]
  /\ Goto(w, "attach")
  /\ UNCHANGED <<fields, open, ms_h, reg, hs, local, calls>>

OpenAttach(w) ==
  /\ At(w, "attach") /\ lfd[w] \in open
  /\ reg' = [reg EXCEPT ![lfd[w]] = "hup"]
  /\ Goto(w, "idle")
  /\ UNCHANGED <<fields, open, ms_h, ms_pl, hs, local, calls>>

Open(w) ==
  \/ OpenEnter(w) \/ OpenSocket(w) \/ OpenRefused(w) \/ OpenTask(w)
  \/ OpenHandler(w) \/ OpenPoller(w) \/ OpenAttach(w)

----------------------------------------------------------------------------
(* socket::close, socket::grant *)

CloseFlag(w) ==
  /\ Waits(w) /\ closes < MaxCloses
  /\ closes' = closes + 1
  /\ closing' = TRUE
  /\ Goto(w, IF m_fd = 0 THEN "idle" ELSE "detach")
  /\ UNCHANGED <<m_state, m_fd, m_closed, tables, local, solo, opens>>

\* Who takes the descriptor out of the poller dispatches the close.
CloseDetach(w) ==
  /\ At(w, "detach")
  /\ reg' = [f \in Fds |-> IF f = m_fd THEN "out" ELSE reg[f]]
  /\ Goto(w, IF reg' # reg THEN "dispatch" ELSE "idle")
  /\ UNCHANGED <<fields, open, ms_h, ms_pl, hs, local, calls>>

\* Slip: the close is left to the reader although nobody reads.
CloseDispatchNever(w) ==
  /\ At(w, "dispatch")
  /\ m_closed' = TRUE
  /\ Goto(w, "idle")
  /\ UNCHANGED <<m_state, m_fd, closing, tables, local, calls>>

CloseDispatch(w) ==
  /\ At(w, "dispatch")
  /\ m_closed' = TRUE
  /\ \/ m_closed /\ que' = que
     \/ ~m_closed /\ Push(w, "close")
  /\ Goto(w, "idle")
  /\ UNCHANGED <<m_state, m_fd, closing, tables, lfd, ev, res, calls>>

Grant(w) ==
  /\ Waits(w) /\ m_state = "WAITACCEPT"
  /\ m_state' = "ESTABLISH"
  /\ UNCHANGED <<m_fd, m_closed, closing, tables, local, calls, pc>>

----------------------------------------------------------------------------
(* loop::poll, loop::read and on_read *)

Armed(f) == reg[f] \in {"hup", "read", "write"}

\* An event is taken, which disarms the descriptor.
Event(w) ==
  /\ Waits(w) /\ que[w] = <<>>
  /\ \E f \in Fds, k \in {"hup", "read", "write"} :
       /\ Armed(f) /\ k \in {"hup", reg[f]}
       /\ reg' = [reg EXCEPT ![f] = "off"]
       /\ lfd' = [lfd EXCEPT ![w] = f]
       /\ ev' = [ev EXCEPT ![w] = k]
  /\ Goto(w, "lookup")
  /\ UNCHANGED <<fields, open, ms_h, ms_pl, hs, que, res, calls>>

\* The handler is looked up and asked for its descriptor.
Lookup(w) ==
  /\ At(w, "lookup") /\ ms_h[lfd[w]]
  /\ lfd' = [lfd EXCEPT ![w] = m_fd]
  /\ Goto(w, "read")
  /\ UNCHANGED <<fields, tables, que, ev, res, calls>>

TaskRead(w) ==
  /\ At(w, "idle") /\ que[w] # <<>> /\ Head(que[w]) = "read"
  /\ que' = [que EXCEPT ![w] = Tail(@)]
  /\ lfd' = [lfd EXCEPT ![w] = m_fd]
  /\ ev' = [ev EXCEPT ![w] = "none"]
  /\ Goto(w, "read")
  /\ UNCHANGED <<fields, tables, res, calls>>

Returns(w, r) == res' = [res EXCEPT ![w] = r] /\ Goto(w, "flags")

\* In HANDSHAKE: the handshake of TCP is done when the descriptor is writable,
\* and who takes the entry out of the map completes it.
Handshake(w) ==
  /\ At(w, "read") /\ m_state = "HANDSHAKE"
  /\ \/ ev[w] = "hup" /\ Returns(w, "destroy") /\ hs' = hs
     \/ ev[w] \in {"none", "read"} /\ Returns(w, "write_again") /\ hs' = hs
     \/ ev[w] = "write" /\ m_fd \notin hs /\ Returns(w, "nop") /\ hs' = hs
     \/ ev[w] = "write" /\ m_fd \in hs /\ hs' = hs \ {m_fd}
        /\ Goto(w, "accept") /\ res' = res
  /\ UNCHANGED <<fields, open, ms_h, ms_pl, reg, que, lfd, ev, calls>>

\* The handshaker calls the socket, which becomes WAITACCEPT.
Accept(w) ==
  /\ At(w, "accept")
  /\ Change("HANDSHAKE", "WAITACCEPT")
  /\ Returns(w, "read_again")
  /\ UNCHANGED <<m_fd, m_closed, closing, tables, que, lfd, ev, calls>>

\* The connection is read: more may wait, the socket is drained, or it ended.
Read(w) ==
  /\ At(w, "read") /\ m_state \in Connected
  /\ IF ev[w] = "hup" THEN Returns(w, "destroy")
     ELSE \E r \in {"keep", "read_again", "destroy"} :
            (r = "keep" => Len(que[w]) < MaxQueue) /\ Returns(w, r)
  /\ UNCHANGED <<fields, tables, que, lfd, ev, calls>>

ReadClosed(w) ==
  /\ At(w, "read") /\ m_state = "CLOSED"
  /\ Returns(w, "nop")
  /\ UNCHANGED <<fields, tables, que, lfd, ev, calls>>

\* While F_CLOSING is set on_read destroys the socket, unless close has
\* dispatched that already.
Flags(w) ==
  /\ At(w, "flags")
  /\ res' = [res EXCEPT ![w] = IF ~closing THEN @ ELSE IF m_closed THEN "nop" ELSE "destroy"]
  /\ Goto(w, "result")
  /\ UNCHANGED <<fields, tables, que, lfd, ev, calls>>

\* EPOLL_CTL_MOD, without effect if the descriptor is not in the poller.
Retach(f, how) ==
  reg' = IF f # 0 /\ reg[f] # "out" THEN [reg EXCEPT ![f] = how] ELSE reg

Result(w) ==
  /\ At(w, "result")
  /\ \/ res[w] = "keep" /\ Push(w, "read") /\ reg' = reg
     \/ res[w] = "destroy" /\ Push(w, "close") /\ reg' = reg
     \/ res[w] = "read_again" /\ Retach(lfd[w], "read") /\ que' = que
     \/ res[w] = "write_again" /\ Retach(lfd[w], "write") /\ que' = que
     \/ res[w] = "nop" /\ reg' = reg /\ que' = que
  /\ Goto(w, "idle")
  /\ UNCHANGED <<fields, open, ms_h, ms_pl, hs, lfd, ev, res, calls>>

----------------------------------------------------------------------------
(* The handshake map is checked for timeouts by the worker of the timer. *)

TimeoutErase(w) ==
  /\ ~solo /\ Waits(w)
  /\ \E f \in hs : hs' = hs \ {f} /\ lfd' = [lfd EXCEPT ![w] = f]
  /\ Goto(w, "expire")
  /\ UNCHANGED <<fields, open, ms_h, ms_pl, reg, que, ev, res, calls>>

\* The socket is told and becomes CLOSED; the descriptor stays.
TimeoutTell(w) ==
  /\ At(w, "expire")
  /\ IF m_fd = lfd[w] THEN Change("HANDSHAKE", "CLOSED") ELSE m_state' = m_state
  /\ Goto(w, "idle")
  /\ UNCHANGED <<m_fd, m_closed, closing, tables, local, calls>>

----------------------------------------------------------------------------
(* loop::close and on_close *)

TaskClose(w) ==
  /\ At(w, "idle") /\ que[w] # <<>> /\ Head(que[w]) = "close"
  /\ que' = [que EXCEPT ![w] = Tail(@)]
  /\ lfd' = [lfd EXCEPT ![w] = m_fd]
  /\ Goto(w, IF m_fd = 0 THEN "idle" ELSE "unpoll")
  /\ UNCHANGED <<fields, tables, ev, res, calls>>

\* ms_pl[fd]->detach
Unpoll(w) ==
  /\ At(w, "unpoll") /\ ms_pl[lfd[w]]
  /\ reg' = [reg EXCEPT ![lfd[w]] = "out"]
  /\ Goto(w, "unhook")
  /\ UNCHANGED <<fields, open, ms_h, ms_pl, hs, local, calls>>

\* Who takes the socket out of the handler table closes it.
Unhook(w) ==
  /\ At(w, "unhook")
  /\ ms_h' = [ms_h EXCEPT ![lfd[w]] = FALSE]
  /\ Goto(w, IF ms_h[lfd[w]] THEN "forget" ELSE "idle")
  /\ UNCHANGED <<fields, open, ms_pl, reg, hs, local, calls>>

\* on_close: the handshake is taken out of the map.
Forget(w) ==
  /\ At(w, "forget")
  /\ hs' = hs \ {m_fd}
  /\ Goto(w, "close")
  /\ UNCHANGED <<fields, open, ms_h, ms_pl, reg, local, calls>>

\* A socket that timed out is CLOSED already, and on_close ends here.
CloseState(w) ==
  /\ At(w, "close")
  /\ m_state' = "CLOSED"
  /\ Goto(w, IF m_state = "CLOSED" THEN "clear" ELSE "shut")
  /\ UNCHANGED <<m_fd, m_closed, closing, tables, local, calls>>

\* Slip: the descriptor is closed but stays in m_fd.
ShutKeep(w) ==
  /\ At(w, "shut")
  /\ open' = open \ {m_fd}
  /\ Goto(w, "clear")
  /\ UNCHANGED <<fields, ms_h, ms_pl, reg, hs, local, calls>>

\* m_fd is read again; the kernel forgets a closed descriptor.
Shut(w) ==
  /\ At(w, "shut")
  /\ open' = open \ {m_fd}
  /\ reg' = [f \in Fds |-> IF f = m_fd THEN "out" ELSE reg[f]]
  /\ m_fd' = 0
  /\ Goto(w, "clear")
  /\ UNCHANGED <<m_state, m_closed, closing, ms_h, ms_pl, hs, local, calls>>

Clear(w) ==
  /\ At(w, "clear")
  /\ ms_pl' = [ms_pl EXCEPT ![lfd[w]] = FALSE]
  /\ Goto(w, "idle")
  /\ UNCHANGED <<fields, open, ms_h, reg, hs, local, calls>>

Shutdown(w) ==
  \/ TaskClose(w) \/ Unpoll(w) \/ Unhook(w) \/ Forget(w) \/ CloseState(w)
  \/ Shut(w) \/ Clear(w)

----------------------------------------------------------------------------

User(w) == OpenReset(w) \/ CloseFlag(w) \/ Grant(w) \/ TimeoutErase(w)
Running(w) ==
  \/ Open(w) \/ CloseDetach(w) \/ CloseDispatch(w) \/ TimeoutTell(w)
  \/ Lookup(w) \/ TaskRead(w) \/ Handshake(w) \/ Accept(w) \/ Read(w)
  \/ ReadClosed(w) \/ Flags(w) \/ Result(w) \/ Shutdown(w)

Next == \E w \in Workers : User(w) \/ Running(w) \/ Event(w)

SafeSpec == Init /\ [][Next]_vars

\* A worker that is inside a call or has tasks runs on.  Nothing is assumed of
\* the network or of the users.
Spec == SafeSpec /\ \A w \in Workers : WF_vars(Running(w))

----------------------------------------------------------------------------

\* Types; one worker at a time closes, however many close tasks there are.
TypeOK ==
  /\ m_state \in {"CLOSED", "HANDSHAKE"} \union Connected /\ m_fd \in Fds \union {0}
  /\ {m_closed, closing, solo} \subseteq BOOLEAN
  /\ open \subseteq Fds /\ hs \subseteq Fds
  /\ ms_h \in [Fds -> BOOLEAN] /\ ms_pl \in [Fds -> BOOLEAN]
  /\ reg \in [Fds -> {"out", "off", "hup", "read", "write"}]
  /\ \A w \in Workers : que[w] \in Seq({"read", "close"}) /\ Len(que[w]) <= MaxQueue + MaxCloses + 1
  /\ lfd \in [Workers -> Fds \union {0}]
  /\ ev \in [Workers -> {"none", "hup", "read", "write"}]
  /\ res \in [Workers -> {"nop", "keep", "destroy", "read_again", "write_again"}]
  /\ Cardinality({w \in Workers : pc[w] \in {"forget", "close", "shut"}}) <= 1

\* The handshake map and the handler table name open descriptors only, so a
\* descriptor that is used again finds neither an old handshake that would end
\* its own nor an old handler; and a descriptor the poller may report has a
\* handler.
TablesAgree ==
  /\ hs \union {f \in Fds : ms_h[f]} \subseteq open
  /\ \A f \in Fds : Armed(f) => ms_h[f]

\* The open descriptor is the one the socket knows: none is left behind, and
\* the socket does not hold one that is closed; no table names another one.
Owned == TypeOK /\ TablesAgree /\ open = IF m_fd = 0 THEN {} ELSE {m_fd}

\* With one worker a connection is never forgotten: it is armed, or a task or
\* the worker will go on with it.  (With several, a close may detach it while
\* another worker reads it; socket::close says so itself.)
Served ==
  solo /\ m_fd # 0 /\ m_state # "CLOSED" =>
    \/ Armed(m_fd)
    \/ \E w \in Workers : ~At(w, "idle") \/ que[w] # <<>>

\* With one worker a close ends the connection, unless it is opened again.
Closes == solo /\ closing ~> ~closing \/ m_fd = 0
============================================================================
