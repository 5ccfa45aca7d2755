------------------------------ MODULE Upgrade ------------------------------
(***************************************************************************)
(* The handshake of a websocket connection and the object that belongs to  *)
(* it (net/protocol/ws.hpp).  The object and the flag that tells a server  *)
(* from a client are found by the descriptor, which the system gives out   *)
(* again as soon as it is closed, while other threads open connections.    *)
(*                                                                         *)
(* A message is what the handshake looks at: it comes whole (modules Http  *)
(* and WebSocket cut it), from any program, also one that speaks another   *)
(* version.  An accept key is the request's key it was computed from, and  *)
(* no two connections choose the same key.  There is memory for the        *)
(* objects.  That write_frame closes the descriptor itself when a frame    *)
(* cannot be sent is left out.                                             *)
(*                                                                         *)
(* Definitions marked "Slip" are wrong variants of the definition that     *)
(* follows them; the property is required to notice each of them.          *)
(***************************************************************************)
EXTENDS Naturals, FiniteSets

CONSTANTS
  Conns,  \* connections of this program, one after the other or together
  Fds,    \* descriptors the system gives out
  NIL     \* no connection, no object, no key

VARIABLES
  conn,    \* conn[c]: pc, side, descriptor
  g_wsock, \* the object of each descriptor
  m_server_conn_flags,
  taken,   \* the connection each descriptor belongs to
  got,     \* history: the message each connection was established by
  gave     \* history: the accept key each server has answered with

vars == <<conn, g_wsock, m_server_conn_flags, taken, got, gave>>

Init ==
  /\ conn = [c \in Conns |-> [pc |-> "idle", side |-> NIL, fd |-> NIL]]
  /\ g_wsock = [f \in Fds |-> NIL]
  /\ m_server_conn_flags \in [Fds -> BOOLEAN]
  /\ taken = [f \in Fds |-> NIL]
  /\ got = [c \in Conns |-> NIL] /\ gave = got

Fd(c) == conn[c].fd
Object(c) == g_wsock[Fd(c)]
At(c, pc) == conn[c].pc = pc
Becomes(c, pc) == conn' = [conn EXCEPT ![c].pc = pc]

\* Keys of this program's requests, and those of others.
AcceptKeys == Conns \union {"other"}

\* Any program's request, and any program's response.
Requests ==
  [upgrade : BOOLEAN, host : BOOLEAN, key : {NIL, "short", "other"}, version : {NIL, 8, 13}]
Responses == [upgrade : BOOLEAN, rc : {101, 400}, accept : AcceptKeys \union {NIL}]

----------------------------------------------------------------------------

\* ws_socket and tcp_accept.
Socket(c, side) ==
  /\ At(c, "idle")
  /\ \E f \in Fds :
       /\ taken[f] = NIL
       /\ taken' = [taken EXCEPT ![f] = c]
       /\ conn' = [conn EXCEPT ![c] = [pc |-> "socket", side |-> side, fd |-> f]]
  /\ UNCHANGED <<g_wsock, m_server_conn_flags, got, gave>>

\* The object that is found or made; an old one keeps its key.
Alloc(c, server, state) ==
  /\ g_wsock' = [g_wsock EXCEPT ![Fd(c)] =
       [m_state |-> state, m_key |-> IF @ = NIL THEN NIL ELSE @.m_key]]
  /\ m_server_conn_flags' = [m_server_conn_flags EXCEPT ![Fd(c)] = server]

\* ws_connect
Connect(c) ==
  /\ At(c, "socket") /\ conn[c].side = "client"
  /\ Alloc(c, FALSE, "client_handshake")
  /\ Becomes(c, "handshake")
  /\ UNCHANGED <<taken, got, gave>>

\* ws_accept
Accept(c) ==
  /\ At(c, "socket") /\ conn[c].side = "server"
  /\ Alloc(c, TRUE, "server_handshake")
  /\ Becomes(c, "handshake")
  /\ UNCHANGED <<taken, got, gave>>

\* handshake always finds an object; in which state it is decides what comes.
SendRequest(c) ==
  /\ At(c, "handshake") /\ Object(c) # NIL
  /\ Object(c).m_state = "client_handshake"
  /\ g_wsock' = [g_wsock EXCEPT ![Fd(c)] = [m_state |-> "client_handshake_2", m_key |-> c]]
  /\ UNCHANGED <<conn, m_server_conn_flags, taken, got, gave>>

\* recv_header lets a message without a key through to no handshake.
Establishes(m, keys) == keys # NIL

\* Slip: any accept key will do.
VerifyResponseAny(o, m) == m.upgrade /\ m.rc = 101 /\ m.accept # NIL

VerifyResponse(o, m) == m.upgrade /\ m.rc = 101 /\ m.accept = o.m_key

VerifyRequest(m) == m.upgrade /\ m.host /\ m.version = 13

\* A key that is not 16 bytes long has no answer.
Answers(m) == m.key # "short"

RecvResponse(c) ==
  /\ At(c, "handshake") /\ Object(c) # NIL
  /\ Object(c).m_state = "client_handshake_2"
  /\ \E m \in Responses :
       IF Establishes(m, m.accept) /\ VerifyResponse(Object(c), m)
       THEN /\ g_wsock' = [g_wsock EXCEPT ![Fd(c)].m_state = "established"]
            /\ got' = [got EXCEPT ![c] = m]
            /\ Becomes(c, "established")
       ELSE Becomes(c, "failed") /\ UNCHANGED <<g_wsock, got>>
  /\ UNCHANGED <<m_server_conn_flags, taken, gave>>

RecvRequest(c) ==
  /\ At(c, "handshake") /\ Object(c) # NIL
  /\ Object(c).m_state = "server_handshake"
  /\ \E m \in Requests :
       IF Establishes(m, m.key) /\ VerifyRequest(m) /\ Answers(m)
       THEN /\ g_wsock' = [g_wsock EXCEPT ![Fd(c)] = [m_state |-> "established", m_key |-> m.key]]
            /\ got' = [got EXCEPT ![c] = m] /\ gave' = [gave EXCEPT ![c] = m.key]
            /\ Becomes(c, "established")
       ELSE Becomes(c, "failed") /\ UNCHANGED <<g_wsock, got, gave>>
  /\ UNCHANGED <<m_server_conn_flags, taken>>

\* The socket is closed, also while the handshake is waited for.
Shut(c) ==
  /\ At(c, "handshake") \/ At(c, "established") \/ At(c, "failed")
  /\ Becomes(c, "close")
  /\ got' = [got EXCEPT ![c] = NIL] /\ gave' = [gave EXCEPT ![c] = NIL]
  /\ UNCHANGED <<g_wsock, m_server_conn_flags, taken>>

Free(c) == g_wsock' = [g_wsock EXCEPT ![Fd(c)] = NIL] /\ UNCHANGED taken
CloseFd(c) == taken' = [taken EXCEPT ![Fd(c)] = NIL] /\ UNCHANGED g_wsock

\* Slip: the descriptor first.
CloseFirst(c) ==
  /\ \/ At(c, "close") /\ CloseFd(c) /\ Becomes(c, "freed")
     \/ At(c, "freed") /\ Free(c) /\ Becomes(c, "idle")
  /\ UNCHANGED <<m_server_conn_flags, got, gave>>

\* ws_close
Close(c) ==
  /\ \/ At(c, "close") /\ Free(c) /\ Becomes(c, "freed")
     \/ At(c, "freed") /\ CloseFd(c) /\ Becomes(c, "idle")
  /\ UNCHANGED <<m_server_conn_flags, got, gave>>

Next ==
  \E c \in Conns :
    \/ \E side \in {"client", "server"} : Socket(c, side)
    \/ Connect(c) \/ Accept(c)
    \/ SendRequest(c) \/ RecvResponse(c) \/ RecvRequest(c)
    \/ Shut(c) \/ Close(c)

Spec == Init /\ [][Next]_vars

----------------------------------------------------------------------------

Having == {"handshake", "established", "failed", "close"}

\* A connection has an object as long as it is open, no other one has it, and it
\* masks what it sends if it is a client; a client is established by an answer
\* to its own request, and a server by a request it answered: ws.hpp, ws_close,
\* alloc and verify_handshake.
Established ==
  /\ \A c \in Conns : conn[c].pc \in Having =>
       /\ Object(c) # NIL /\ taken[Fd(c)] = c
       /\ m_server_conn_flags[Fd(c)] = (conn[c].side = "server")
       /\ At(c, "established") => Object(c).m_state = "established"
  /\ \A f \in Fds : g_wsock[f] # NIL => \E c \in Conns : conn[c].pc \in Having /\ Fd(c) = f
  /\ \A c \in Conns : At(c, "established") =>
       IF conn[c].side = "client" THEN got[c].accept = c /\ got[c].rc = 101
       ELSE gave[c] = got[c].key /\ got[c].host /\ got[c].version = 13
=============================================================================
