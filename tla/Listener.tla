------------------------------ MODULE Listener ------------------------------
(***************************************************************************)
(* A listener that the workers of a group share by its address, and the    *)
(* connections it accepts: server::listen (src/server.h), the listener     *)
(* (src/handler/listener.h), the opening of server connections             *)
(* (src/handler/socket.h), and what the binding of Lua does with them      *)
(* (src/ll/lua/emitter/).                                                  *)
(*                                                                         *)
(* A socket has no reference but the ones its users hold in turn: the      *)
(* event that tells of it, the task that takes the event to another        *)
(* worker, the command by which the fiber there binds its callbacks, the   *)
(* VM, and the table of handlers.  Who drops the last one frees it.        *)
(*                                                                         *)
(* One address over TCP; its descriptor is not closed while the workers    *)
(* run.  Commands of one emitter are executed in the order they were       *)
(* linked (module Emittable), so what counts is the order of linking.  A   *)
(* worker takes its tasks in any order here.  Races between a close and a  *)
(* reader are in module Socket, timeouts of the handshake too: a           *)
(* connection ends in one step.  The pause of 100 ms after a failure is    *)
(* longer than anybody takes to look at the entry.                         *)
(*                                                                         *)
(* Definitions marked "Slip" are wrong variants of the definition that     *)
(* follows them.                                                           *)
(***************************************************************************)
EXTENDS Naturals, Sequences, FiniteSets

CONSTANTS
  Workers,      \* threads of the group, each with a VM
  First,        \* one of them
  Conns,        \* connections from outside, and their descriptors
  NIL,          \* neither
  MaxFailures   \* bound on what the system refuses

VARIABLES
  solo,      \* the group has one worker only
  entry,     \* of the address in m_listener_pool: none, "empty", "set", "error"
  m_flag,    \* open was called
  armed,     \* the listener is in the poller
  watch,     \* the workers bound to the listener, whose turn it is first
  pc, cur,   \* where a worker is, the connection it works on
  backlog,   \* connections the kernel keeps
  events,    \* the EMIT_ONE commands of the listener
  m_state,   \* of the socket of a connection; "none" and "freed" without one
  open,      \* the descriptors that are open
  refs,      \* c: who holds a reference to the socket
  owner,     \* c: the worker it was given to
  fib,       \* c: how far the fiber is that serves it
  told,      \* c: the event of WAITACCEPT is linked
  failures   \* history: calls that failed

listing == <<solo, entry, m_flag, watch>>
kernel == <<armed, backlog, open>>
sockets == <<events, m_state, refs, owner, fib, told>>
vars == <<listing, kernel, sockets, pc, cur, failures>>

Init ==
  /\ solo \in BOOLEAN
  /\ entry = "none" /\ m_flag = FALSE /\ armed = FALSE /\ watch = <<>>
  /\ pc = [w \in Workers |-> "out"] /\ cur = [w \in Workers |-> NIL]
  /\ backlog = <<>> /\ events = <<>> /\ open = {}
  /\ m_state = [c \in Conns |-> "none"] /\ refs = [c \in Conns |-> {}]
  /\ owner = [c \in Conns |-> NIL] /\ fib = [c \in Conns |-> "none"]
  /\ told = [c \in Conns |-> FALSE]
  /\ failures = 0

At(w, l) == pc[w] = l /\ (solo => w = First)
Goto(w, l) == pc' = [pc EXCEPT ![w] = l]
Works(w, l, c) == Goto(w, l) /\ cur' = [cur EXCEPT ![w] = c]
Fails == failures < MaxFailures /\ failures' = failures + 1
State(c, s) == m_state' = [m_state EXCEPT ![c] = s]
Fiber(c, f) == fib' = [fib EXCEPT ![c] = f]

\* The references move from some holders to others; without any the socket is
\* given back to its pool.
Handed(c, from, to) ==
  /\ refs' = [refs EXCEPT ![c] = (@ \ from) \union to]
  /\ m_state' = [m_state EXCEPT ![c] = IF refs'[c] = {} THEN "freed" ELSE @]

----------------------------------------------------------------------------
(* server::listen, called by each worker for the same address *)

\* The entry is made by the first who asks for it.
Listen(w) ==
  /\ At(w, "out")
  /\ entry' = IF entry = "none" THEN "empty" ELSE entry
  /\ Goto(w, IF entry = "none" THEN "create" ELSE "find")
  /\ UNCHANGED <<solo, m_flag, watch, kernel, sockets, cur, failures>>

\* The entry gets the listener and holds a reference from now on.
Create(w) ==
  /\ At(w, "create")
  /\ entry' = "set"
  /\ Goto(w, "listed")
  /\ UNCHANGED <<solo, m_flag, watch, kernel, sockets, cur, failures>>

\* There is no such transport, or no memory.
CreateFails(w) ==
  /\ At(w, "create") /\ Fails
  /\ entry' = "error"
  /\ Goto(w, "sleep")
  /\ UNCHANGED <<solo, m_flag, watch, kernel, sockets, cur>>

\* After 100 ms.
Erase(w) ==
  /\ At(w, "sleep") /\ \A v \in Workers : ~At(v, "find")
  /\ entry' = "none"
  /\ Goto(w, "out")
  /\ UNCHANGED <<solo, m_flag, watch, kernel, sockets, cur, failures>>

\* fd() is a truth value and never INVALID_FD, so nobody waits: an entry that
\* is not set is followed all the same, and the process ends.
Find(w) ==
  /\ At(w, "find")
  /\ Goto(w, CASE entry = "set" -> "listed" [] entry = "error" -> "out" [] OTHER -> "dead")
  /\ UNCHANGED <<listing, kernel, sockets, cur, failures>>

\* The callback for accept is bound before the listener is opened.
Bind(w) ==
  /\ At(w, "listed")
  /\ watch' = Append(watch, w)
  /\ Goto(w, "open")
  /\ UNCHANGED <<solo, entry, m_flag, kernel, sockets, cur, failures>>

\* listener::open: the first call makes the descriptor and attaches it.  If that
\* fails nobody tries again, and to the other workers it looks open.
Open(w) ==
  /\ At(w, "open")
  /\ m_flag' = TRUE
  /\ \/ armed' = (armed \/ ~m_flag) /\ UNCHANGED failures
     \/ ~m_flag /\ Fails /\ UNCHANGED armed
  /\ Goto(w, "idle")
  /\ UNCHANGED <<solo, entry, watch, backlog, open, sockets, cur>>

Registering(w) ==
  Listen(w) \/ Create(w) \/ CreateFails(w) \/ Erase(w) \/ Find(w) \/ Bind(w) \/ Open(w)

----------------------------------------------------------------------------
(* listener::on_read *)

Listening == armed \/ \E w \in Workers : At(w, "accept")

Arrive(c) ==
  /\ Listening /\ m_state[c] = "none" /\ c \notin {backlog[i] : i \in DOMAIN backlog}
  /\ backlog' = Append(backlog, c)
  /\ UNCHANGED <<listing, armed, open, sockets, pc, cur, failures>>

Event(w) ==
  /\ At(w, "idle") /\ armed /\ backlog # <<>>
  /\ armed' = FALSE
  /\ Goto(w, "accept")
  /\ UNCHANGED <<listing, backlog, open, sockets, cur, failures>>

\* A descriptor, a socket for it, and an event with the only reference.
Accept(w) ==
  /\ At(w, "accept") /\ backlog # <<>>
  /\ LET c == Head(backlog) IN
       /\ open' = open \union {c}
       /\ State(c, "CLOSED")
       /\ refs' = [refs EXCEPT ![c] = {"event"}]
       /\ events' = Append(events, c)
  /\ backlog' = Tail(backlog)
  /\ UNCHANGED <<listing, armed, owner, fib, told, pc, cur, failures>>

\* No socket is left: the descriptor is closed and the poller asked again.
AcceptFails(w) ==
  /\ At(w, "accept") /\ backlog # <<>> /\ Fails
  /\ State(Head(backlog), "freed")
  /\ backlog' = Tail(backlog)
  /\ armed' = TRUE
  /\ Goto(w, "idle")
  /\ UNCHANGED <<listing, open, events, refs, owner, fib, told, cur>>

AcceptEnd(w) ==
  /\ At(w, "accept") /\ backlog = <<>>
  /\ armed' = TRUE
  /\ Goto(w, "idle")
  /\ UNCHANGED <<listing, backlog, open, sockets, cur, failures>>

----------------------------------------------------------------------------
(* The fiber that serves a connection *)

\* emit_one: the worker whose turn it is gets the connection.  Its fiber runs at
\* once or, on another worker, from a task; it stops at the first bind, whose
\* command keeps the socket.
Give(w) ==
  /\ At(w, "idle") /\ events # <<>>
  /\ LET c == Head(events)
         v == Head(watch)
     IN /\ owner' = [owner EXCEPT ![c] = v]
        /\ Fiber(c, IF v = w THEN "binding" ELSE "queued")
        /\ Handed(c, {"event"}, IF v = w THEN {"command"} ELSE {"task"})
        /\ watch' = Append(Tail(watch), v)
  /\ events' = Tail(events)
  /\ UNCHANGED <<solo, entry, m_flag, kernel, told, pc, cur, failures>>

\* Slip: a command holds no reference.
StartBare(w, c) ==
  /\ At(w, "idle") /\ owner[c] = w /\ fib[c] = "queued"
  /\ Fiber(c, "binding")
  /\ Handed(c, {"task"}, {})
  /\ UNCHANGED <<listing, kernel, events, owner, told, pc, cur, failures>>

Start(w, c) ==
  /\ At(w, "idle") /\ owner[c] = w /\ fib[c] = "queued"
  /\ Fiber(c, "binding")
  /\ Handed(c, {"task"}, {"command"})
  /\ UNCHANGED <<listing, kernel, events, owner, told, pc, cur, failures>>

\* The command is executed and resumes the fiber, while it still holds the
\* socket: the VM takes its reference and opens it, which enters the table of
\* handlers.  Then the user's callbacks run, at once or after a yield.
Activate(w, c) ==
  /\ At(w, "idle") /\ owner[c] = w /\ fib[c] = "binding"
  /\ refs' = [refs EXCEPT ![c] = {"vm", "table"}]
  /\ State(c, "HANDSHAKE")
  /\ \/ Fiber(c, "user") /\ UNCHANGED <<pc, cur>>
     \/ Fiber(c, "grant") /\ Works(w, "grant", c)
  /\ UNCHANGED <<listing, kernel, events, owner, told, failures>>

Resume(w, c) ==
  /\ At(w, "idle") /\ owner[c] = w /\ fib[c] = "user"
  /\ Fiber(c, "grant")
  /\ Works(w, "grant", c)
  /\ UNCHANGED <<listing, kernel, events, m_state, refs, owner, told, failures>>

\* Slip: the state is not asked for before the fiber waits for it.
GrantUnasked(w, c) ==
  /\ At(w, "grant") /\ cur[w] = c
  /\ Fiber(c, "wait") /\ Goto(w, "wait") /\ UNCHANGED m_state
  /\ UNCHANGED <<listing, kernel, events, refs, owner, told, cur, failures>>

\* grant: once the handshake is done the peer is let in.  If the VM has given the
\* socket up already the call is an error.
Grant(w, c) ==
  /\ At(w, "grant") /\ cur[w] = c
  /\ \/ "vm" \notin refs[c] /\ Fiber(c, "failed") /\ Goto(w, "idle") /\ UNCHANGED m_state
     \/ /\ "vm" \in refs[c] /\ m_state[c] = "WAITACCEPT"
        /\ State(c, "ESTABLISH") /\ Fiber(c, "done") /\ Goto(w, "idle")
     \/ /\ "vm" \in refs[c] /\ m_state[c] # "WAITACCEPT"
        /\ Fiber(c, "wait") /\ Goto(w, "wait") /\ UNCHANGED m_state
  /\ UNCHANGED <<listing, kernel, events, refs, owner, told, cur, failures>>

\* wait('open'): an event that was linked before the watcher is not heard.
Wait(w, c) ==
  /\ At(w, "wait") /\ cur[w] = c
  /\ Fiber(c, IF told[c] THEN "unheard" ELSE "waits")
  /\ Goto(w, "idle")
  /\ UNCHANGED <<listing, kernel, events, m_state, refs, owner, told, cur, failures>>

\* grant goes on; the state may have changed.
Woken(w, c) ==
  /\ At(w, "idle") /\ owner[c] = w /\ fib[c] = "woken"
  /\ IF m_state[c] = "WAITACCEPT" THEN State(c, "ESTABLISH") ELSE UNCHANGED m_state
  /\ Fiber(c, "done")
  /\ UNCHANGED <<listing, kernel, events, refs, owner, told, pc, cur, failures>>

----------------------------------------------------------------------------
(* The connection, handled by whoever gets its event *)

\* The handshake of TCP is done when the descriptor is writable.
Handshake(w, c) ==
  /\ At(w, "idle") /\ m_state[c] = "HANDSHAKE"
  /\ State(c, "WAITACCEPT")
  /\ Works(w, "tell", c)
  /\ UNCHANGED <<listing, kernel, events, refs, owner, fib, told, failures>>

Tell(w, c) ==
  /\ At(w, "tell") /\ cur[w] = c
  /\ told' = [told EXCEPT ![c] = TRUE]
  /\ Fiber(c, IF fib[c] = "waits" THEN "woken" ELSE fib[c])
  /\ Goto(w, "idle")
  /\ UNCHANGED <<listing, kernel, events, m_state, refs, owner, cur, failures>>

Handled(c) == \E w \in Workers : At(w, "tell") /\ cur[w] = c

\* loop::close and on_close: an event tells of it before the table's reference
\* is dropped.
End(w, c) ==
  /\ At(w, "idle") /\ "table" \in refs[c] /\ ~Handled(c)
  /\ open' = open \ {c}
  /\ State(c, "CLOSED")
  /\ refs' = [refs EXCEPT ![c] = (@ \ {"table"}) \union {"closed"}]
  /\ UNCHANGED <<listing, armed, backlog, events, owner, fib, told, pc, cur, failures>>

\* __post_close gives up what the VM holds, and the event is through.
Unref(w, c) ==
  /\ At(w, "idle") /\ owner[c] = w /\ "closed" \in refs[c]
  /\ Handed(c, {"vm", "closed"}, {})
  /\ UNCHANGED <<listing, kernel, events, owner, fib, told, pc, cur, failures>>

Serving(w) ==
  \/ Event(w) \/ Accept(w) \/ AcceptFails(w) \/ AcceptEnd(w) \/ Give(w)
  \/ \E c \in Conns :
       \/ Start(w, c) \/ Activate(w, c) \/ Resume(w, c) \/ Grant(w, c) \/ Wait(w, c)
       \/ Woken(w, c) \/ Handshake(w, c) \/ Tell(w, c) \/ End(w, c) \/ Unref(w, c)

Next ==
  /\ \A w \in Workers : pc[w] # "dead"
  /\ \/ \E w \in Workers : Registering(w) \/ Serving(w)
     \/ \E c \in Conns : Arrive(c)

Spec == Init /\ [][Next]_vars

----------------------------------------------------------------------------

\* Whoever has the listener has the one of the entry.  A socket lives from its
\* acceptance until its connection has ended and the VM gave it up: somebody
\* holds it while its event or its fiber is under way, it is not given back with
\* an open descriptor, and it is in the hands of one worker.
Kept ==
  /\ \A w \in Workers : pc[w] \in {"listed", "open", "idle"} => entry = "set"
  /\ \A c \in Conns :
       /\ refs[c] = {} <=> m_state[c] \in {"none", "freed"}
       /\ fib[c] \in {"queued", "binding"} => m_state[c] = "CLOSED" /\ c \in open
       /\ c \in open <=> m_state[c] \notin {"none", "freed"} /\ "closed" \notin refs[c]
       /\ "event" \in refs[c] <=> \E i \in DOMAIN events : events[i] = c
       /\ owner[c] # NIL <=> fib[c] # "none"

\* In a group of one worker a peer that waits for its admission gets it: a fiber
\* is on the way to grant, or will hear that the handshake is done.  (With
\* several workers the handshake may be done by another between the question and
\* the wait; see the README.)
Admitted ==
  \A c \in Conns : solo /\ m_state[c] = "WAITACCEPT" =>
    fib[c] \in {"user", "grant", "wait", "woken"} \/ (fib[c] = "waits" /\ ~told[c])
============================================================================
