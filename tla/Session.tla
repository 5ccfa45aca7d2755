------------------------------ MODULE Session ------------------------------
(***************************************************************************)
(* Remote calls over a client socket that connects when it is asked for,   *)
(* loses its connection and connects again: the calls of Lua (yue.lua and  *)
(* ll/lua/emitter/socket.hpp), the socket with its write buffer and its    *)
(* parser (src/handler/socket.h, src/net/wbuf.h), and the fibers of the    *)
(* server that answer through their endpoint (src/fiber/endpoint.h).       *)
(*                                                                         *)
(* One worker on each side; what it does in one go is one step.  An id is  *)
(* the number of a wait, so it is fresh (module MsgId); a wait is over     *)
(* when its event, its answer or its timeout comes (module Yielded).       *)
(* Requests and answers are cut in two at most, other messages are not.    *)
(* The user neither closes the socket for good (module Binding) nor        *)
(* refuses to be accepted; the answer to accept__ is left out, which the   *)
(* server ignores.  In mobile mode one fiber calls (a bound).              *)
(*                                                                         *)
(* The program keeps the first half of a message when a connection ends,   *)
(* in the parser and in the write buffer, and spoils the write buffer when *)
(* it is to send without a connection.  A reader is then out of step; the  *)
(* model ends there.                                                       *)
(*                                                                         *)
(* Definitions marked "Slip" are wrong variants of the definition that     *)
(* follows them.                                                           *)
(***************************************************************************)
EXTENDS Naturals, Sequences

CONSTANTS
  Fibers,      \* fibers of the client that call
  MaxLinks,    \* bound on the connections
  MaxRetries   \* bound on the calls

VARIABLES
  mobile,    \* the socket is in mobile mode: it is closed after a timeout
  m_state,   \* of the client's socket
  closing,   \* F_CLOSING with its task of closing
  dbf, curr, \* the two buffers of units, and the one that is written
  m_flag,    \* the output is attached
  link,      \* the connections so far; the last one may be the socket's
  held,      \* what the client's parser keeps of a message
  cmds,      \* the events the socket is to emit
  watch,     \* the watchers of waiting fibers, with the events emitted before them
  wait,      \* f: what the fiber waits for, under which id
  via,       \* history: the waits; the connection that took the request, or 0
  calls,     \* f: the number of its last call
  got,       \* history: f: the call whose answer ended the last one
  ran,       \* history: the calls the server ran
  spoiled    \* history: a stream is not what was packed

client == <<m_state, closing, dbf, curr, m_flag, held, cmds, watch>>
fibers == <<wait, via, calls, got>>
vars == <<mobile, client, link, fibers, ran, spoiled>>

None == [kind |-> "none"]
Request(i, c) == [kind |-> "request", id |-> i, call |-> c]
Answer(m) == [m EXCEPT !.kind = "answer"]

\* How a message goes through a stream.
Unit(m, p) == [msg |-> m, part |-> p]
Halves(m) == <<Unit(m, "first"), Unit(m, "rest")>>
Whole(k) == <<Unit([kind |-> k], "whole")>>

\* A unit the parser can go on with.
Fits(h, u) == IF u.part = "rest" THEN h = u.msg ELSE h = None

NoWait == [for |-> "nothing", id |-> 0]
Waits(f, what) == wait[f].for = what
Wake(fs, what) == wait' = [f \in Fibers |->
  IF f \in fs THEN [for |-> what, id |-> 0] ELSE wait[f]]

Init ==
  /\ mobile \in BOOLEAN
  /\ m_state = "CLOSED" /\ closing = FALSE
  /\ dbf = <<<<>>, <<>>>> /\ curr = 1 /\ m_flag = FALSE
  /\ link = <<>> /\ held = None
  /\ cmds = <<>> /\ watch = {}
  /\ wait = [f \in Fibers |-> NoWait] /\ via = <<>>
  /\ calls = [f \in Fibers |-> 0] /\ got = [f \in Fibers |-> 0]
  /\ ran = <<>> /\ spoiled = FALSE

Current == Len(link)
valid == m_state \in {"WAITACCEPT", "ESTABLISH"}
Attached == valid /\ ~closing

\* Nobody is to be resumed before the worker does something else.
Idle == \A f \in Fibers : ~Waits(f, "send")

Fresh == Len(via) + 1

----------------------------------------------------------------------------
(* Output *)

\* wbuf::sendraw puts a message behind the others.  To attach the output takes a
\* connection; without one the header of what is taken back remains.
Put(us) ==
  /\ dbf' = [dbf EXCEPT ![3 - curr] = @ \o us]
  /\ m_flag' = TRUE
Puts == m_flag \/ valid

\* wbuf::write_command: an empty buffer changes places with the other one.
Write ==
  /\ Idle /\ Attached
  /\ LET b == IF dbf[curr] = <<>> THEN 3 - curr ELSE curr
         u == Head(dbf[b])
     IN /\ dbf[b] # <<>>
        /\ link' = [link EXCEPT ![Current].up = Append(@, u)]
        /\ via' = IF u.msg.kind = "request" /\ via[u.msg.id] = 0
                  THEN [via EXCEPT ![u.msg.id] = Current] ELSE via
        /\ dbf' = [dbf EXCEPT ![b] = Tail(@)]
        /\ curr' = b
  /\ UNCHANGED <<mobile, m_state, closing, m_flag, held, cmds, watch,
                 wait, calls, got, ran, spoiled>>

\* When both are empty the output is detached.
Detach ==
  /\ Idle /\ Attached /\ m_flag /\ dbf = <<<<>>, <<>>>>
  /\ m_flag' = FALSE /\ curr' = 3 - curr
  /\ UNCHANGED <<mobile, m_state, closing, dbf, link, held, cmds, watch, fibers, ran, spoiled>>

----------------------------------------------------------------------------
(* A call *)

\* Slip: what the buffers hold is dropped.
OpensClean ==
  /\ m_state' = "HANDSHAKE" /\ closing' = FALSE
  /\ link' = Append(link, [up |-> <<>>, down |-> <<>>, run |-> {},
                           state |-> "WAITACCEPT"])
  /\ dbf' = <<<<>>, <<>>>> /\ curr' = 1

\* open_client_conn: the flags are reset and the descriptor connects.  What the
\* buffers hold stays, as wbuf::init finds a buffer that is invalidated.
Opens ==
  /\ m_state' = "HANDSHAKE" /\ closing' = FALSE
  /\ link' = Append(link, [up |-> <<>>, down |-> <<>>, run |-> {},
                           state |-> "WAITACCEPT"])
  /\ dbf' = dbf /\ curr' = 1

\* open_client_conn fails and takes the state back, with an event.
Unreachable(before) ==
  /\ cmds' = Append(before, "CLOSED") /\ closing' = FALSE
  /\ UNCHANGED <<m_state, link, dbf, curr>>

\* A fiber waits for a state of the socket.  Its watcher is a command like the
\* events, so those that are there already are not heard.
Await(f, s) ==
  /\ wait' = [wait EXCEPT ![f] = [for |-> s, id |-> Fresh]]
  /\ via' = Append(via, 0)
  /\ watch' = watch \union {[id |-> Fresh, state |-> s, behind |-> Len(cmds)]}

\* Slip: the request goes out under the id by which the fiber waited first.
SendAgain(f, c) ==
  LET i == IF got[f] = 0 /\ c = 1 THEN Fresh ELSE 1 IN
  /\ IF Puts THEN Put(Halves(Request(i, c))) /\ UNCHANGED spoiled
     ELSE spoiled' = TRUE /\ UNCHANGED <<dbf, m_flag>>
  /\ wait' = [wait EXCEPT ![f] = IF Puts THEN [for |-> "answer", id |-> i] ELSE NoWait]
  /\ via' = Append(via, 0)

\* yue_socket_call: the fiber is in the table before the request is sent.
Send(f, c) ==
  /\ IF Puts THEN Put(Halves(Request(Fresh, c))) /\ UNCHANGED spoiled
     ELSE spoiled' = TRUE /\ UNCHANGED <<dbf, m_flag>>
  /\ wait' = [wait EXCEPT ![f] = IF Puts THEN [for |-> "answer", id |-> Fresh] ELSE NoWait]
  /\ via' = Append(via, 0)

Made == CHOOSE n \in {calls[f] : f \in Fibers} : \A f \in Fibers : calls[f] <= n

Begins(f) ==
  /\ Idle /\ Waits(f, "nothing") /\ Made < MaxRetries
  /\ mobile => \A g \in Fibers \ {f} : calls[g] = 0
  /\ calls' = [calls EXCEPT ![f] = Made + 1]
  /\ got' = [got EXCEPT ![f] = 0]

Call(f) ==
  /\ Begins(f) /\ valid
  /\ Send(f, calls'[f])
  /\ UNCHANGED <<mobile, m_state, closing, curr, link, held, cmds, watch, ran>>

\* The first who needs the connection opens it, the others find it opened already.
\* (They reset the flags, but a descriptor that is to be closed is detached.)
CallConnect(f) ==
  /\ Begins(f) /\ ~valid
  /\ IF m_state = "CLOSED" THEN Current < MaxLinks /\ Opens
     ELSE UNCHANGED <<m_state, closing, link, dbf, curr>>
  /\ Await(f, "ESTABLISH")
  /\ UNCHANGED <<mobile, m_flag, held, cmds, ran, spoiled>>

\* The network cannot be reached: the call ends.
CallUnreachable(f) ==
  /\ Begins(f) /\ m_state = "CLOSED" /\ Unreachable(cmds)
  /\ UNCHANGED <<mobile, m_flag, held, watch, wait, via, ran, spoiled>>

\* A fiber that was resumed after its wait for the connection.
Connected(f) ==
  /\ Waits(f, "send")
  /\ Send(f, calls[f])
  /\ UNCHANGED <<mobile, m_state, closing, curr, link, held, cmds, watch, calls, got, ran>>

\* The answer is late.  In mobile mode the socket is closed, and the fiber waits
\* for that; the one who waits for that in vain gives up.
Timeout(f) ==
  /\ Idle /\ wait[f].for \notin {"nothing", "send"}
  /\ IF mobile /\ ~Waits(f, "CLOSED")
     THEN /\ closing' = TRUE
          /\ Await(f, "CLOSED")
     ELSE wait' = [wait EXCEPT ![f] = NoWait] /\ UNCHANGED <<closing, via, watch>>
  /\ UNCHANGED <<mobile, m_state, dbf, curr, m_flag, link, held, cmds, calls, got, ran, spoiled>>

----------------------------------------------------------------------------
(* The events of the socket *)

\* Those who waited for it under the id of their watcher, and the watchers left.
Hear(s) == {f \in Fibers : [id |-> wait[f].id, state |-> s, behind |-> 0] \in watch}
Left(s) == {[x EXCEPT !.behind = IF @ > 0 THEN @ - 1 ELSE 0] :
             x \in {y \in watch : y.behind > 0 \/ y.state # s}}

EmitEstablish ==
  /\ Idle /\ cmds # <<>> /\ Head(cmds) = "ESTABLISH"
  /\ Wake(Hear("ESTABLISH"), "send") /\ watch' = Left("ESTABLISH")
  /\ cmds' = Tail(cmds)
  /\ UNCHANGED <<mobile, m_state, closing, dbf, curr, m_flag, link, held, via, calls, got, ran, spoiled>>

\* __post_close: the user's callbacks say whether the socket is to connect again.
EmitClosed ==
  /\ Idle /\ cmds # <<>> /\ Head(cmds) = "CLOSED"
  /\ Wake(Hear("CLOSED"), "nothing") /\ watch' = Left("CLOSED")
  /\ \/ UNCHANGED <<m_state, closing, link, dbf, curr>> /\ cmds' = Tail(cmds)
     \/ m_state = "CLOSED" /\ Current < MaxLinks /\ Opens /\ cmds' = Tail(cmds)
     \/ m_state = "CLOSED" /\ Unreachable(Tail(cmds))
  /\ UNCHANGED <<mobile, m_flag, held, via, calls, got, ran, spoiled>>

----------------------------------------------------------------------------
(* The connection at the client *)

\* The descriptor is writable: the output starts anew.
Handshake ==
  /\ Idle /\ m_state = "HANDSHAKE" /\ ~closing
  /\ m_state' = "WAITACCEPT" /\ m_flag' = FALSE
  /\ UNCHANGED <<mobile, closing, dbf, curr, link, held, cmds, watch, fibers, ran, spoiled>>

\* on_close, whoever ends the connection.
End ==
  /\ Idle /\ m_state # "CLOSED"
  /\ m_state' = "CLOSED"
  /\ cmds' = Append(cmds, "CLOSED")
  /\ link' = [link EXCEPT ![Current].down = <<>>]
  /\ UNCHANGED <<mobile, closing, dbf, curr, m_flag, held, watch, fibers, ran, spoiled>>

Next1 == Head(link[Current].down)
Reads == Idle /\ Attached /\ link[Current].down # <<>>
Takes == link' = [link EXCEPT ![Current].down = Tail(@)]

ReadPart ==
  /\ Reads /\ Fits(held, Next1) /\ Next1.part = "first"
  /\ Takes /\ held' = Next1.msg
  /\ UNCHANGED <<mobile, m_state, closing, dbf, curr, m_flag, cmds, watch, fibers, ran, spoiled>>

\* fabric::recv: who waits under the id is resumed; nobody does for a late one.
ReadAnswer ==
  /\ Reads /\ Fits(held, Next1) /\ Next1.part = "rest"
  /\ Takes /\ held' = None
  /\ LET to == {f \in Fibers : Waits(f, "answer") /\ wait[f].id = Next1.msg.id} IN
       /\ Wake(to, "nothing")
       /\ got' = [f \in Fibers |-> IF f \in to THEN Next1.msg.call ELSE got[f]]
  /\ UNCHANGED <<mobile, m_state, closing, dbf, curr, m_flag, cmds, watch, via, calls, ran, spoiled>>

\* The server's call of accept__ grants the socket.
ReadAccept ==
  /\ Reads /\ Fits(held, Next1) /\ Next1.part = "whole"
  /\ Takes
  /\ IF m_state = "WAITACCEPT"
     THEN m_state' = "ESTABLISH" /\ cmds' = Append(cmds, "ESTABLISH")
     ELSE UNCHANGED <<m_state, cmds>>
  /\ UNCHANGED <<mobile, closing, dbf, curr, m_flag, held, watch, fibers, ran, spoiled>>

ReadSpoiled ==
  /\ Reads /\ ~Fits(held, Next1) /\ spoiled' = TRUE
  /\ UNCHANGED <<mobile, client, link, fibers, ran>>

----------------------------------------------------------------------------
(* The server, for each connection a socket of its own *)

\* __post_accept lets the peer in, then calls it.
Grant(k) ==
  /\ link[k].state = "WAITACCEPT"
  /\ link' = [link EXCEPT ![k].state = "ESTABLISH", ![k].down = @ \o Whole("accept")]
  /\ UNCHANGED <<mobile, client, fibers, ran, spoiled>>

ServerValid(k) == link[k].state \in {"WAITACCEPT", "ESTABLISH"}

\* Its parser is fresh with each connection.
Complete(u) == Len(u) > 1 /\ <<u[1], u[2]>> = Halves(u[1].msg)

\* A request runs if the peer was let in, and is answered by an error if not.
Receive(k) ==
  /\ ServerValid(k) /\ Complete(link[k].up)
  /\ LET m == Head(link[k].up).msg
         rest == [link[k] EXCEPT !.up = SubSeq(@, 3, Len(@))]
     IN IF link[k].state = "ESTABLISH"
        THEN /\ link' = [link EXCEPT ![k] = [rest EXCEPT !.run = @ \union {m}]]
             /\ ran' = Append(ran, m.call)
        ELSE /\ link' = [link EXCEPT ![k] = [rest EXCEPT !.down = @ \o Halves(Answer(m))]]
             /\ UNCHANGED ran
  /\ UNCHANGED <<mobile, client, fibers, spoiled>>

ReceiveSpoiled(k) ==
  /\ ServerValid(k) /\ link[k].up # <<>> /\ link[k].up[1].part = "rest"
  /\ spoiled' = TRUE
  /\ UNCHANGED <<mobile, client, link, fibers, ran>>

\* The fiber has finished; its endpoint sends while its own connection lasts.
Respond(k) ==
  \E m \in link[k].run :
    /\ link' = [link EXCEPT ![k].run = @ \ {m},
                            ![k].down = IF ServerValid(k) /\ k = Current /\ m_state # "CLOSED"
                                        THEN @ \o Halves(Answer(m)) ELSE @]
    /\ UNCHANGED <<mobile, client, fibers, ran, spoiled>>

ServerEnd(k) ==
  /\ ServerValid(k)
  /\ link' = [link EXCEPT ![k].state = "CLOSED", ![k].up = <<>>]
  /\ UNCHANGED <<mobile, client, fibers, ran, spoiled>>

----------------------------------------------------------------------------

Next ==
  /\ ~spoiled
  /\ \/ \E f \in Fibers :
          Call(f) \/ CallConnect(f) \/ CallUnreachable(f) \/ Connected(f) \/ Timeout(f)
     \/ Write \/ Detach \/ EmitEstablish \/ EmitClosed
     \/ Handshake \/ End \/ ReadPart \/ ReadAnswer \/ ReadAccept \/ ReadSpoiled
     \/ \E k \in DOMAIN link :
          Grant(k) \/ Receive(k) \/ ReceiveSpoiled(k) \/ Respond(k) \/ ServerEnd(k)

Spec == Init /\ [][Next]_vars

----------------------------------------------------------------------------

\* Where a message is found.
In(s, i) == \E n \in DOMAIN s : s[n].msg.kind \in {"request", "answer"} /\ s[n].msg.id = i
Is(m, i) == m.kind \in {"request", "answer"} /\ m.id = i
OnWay(l, i) ==
  \/ In(l.up, i) \/ In(l.down, i) \/ Is(held, i)
  \/ \E m \in l.run : m.id = i

\* The server runs a call once, whatever connections come and go, and a call ends
\* with its own answer.  A call that waits for its answer is in the buffers, or on
\* the way over the connection that took it; or that connection has ended.
CallsOnce ==
  /\ \A i, j \in DOMAIN ran : ran[i] = ran[j] => i = j
  /\ \A f \in Fibers : got[f] \in {0, calls[f]}
  /\ \A f \in Fibers : Waits(f, "answer") =>
       LET i == wait[f].id
           k == via[i]
       IN \/ In(dbf[1], i) \/ In(dbf[2], i)
          \/ k # 0 /\ (OnWay(link[k], i) \/ k < Current \/ m_state = "CLOSED"
                       \/ link[k].state = "CLOSED")
============================================================================
