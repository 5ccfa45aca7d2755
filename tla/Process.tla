------------------------------ MODULE Process ------------------------------
(***************************************************************************)
(* Connections to child processes (net/protocol/popen.hpp)                 *)
(*                                                                         *)
(* A connection is two pipes and a child.  The program knows it by the     *)
(* descriptor it reads from; the table g_popen_fdset has the other one.    *)
(* The kernel gives the lowest number that is free, so that a descriptor   *)
(* that was closed may come back at once, for a connection that another    *)
(* worker opens.  The child reads the command with stdio, says a newline   *)
(* to make the connection readable, and becomes the program.  The newline  *)
(* gets out only if stdout is line buffered.                               *)
(*                                                                         *)
(* Definitions marked "Slip" are wrong variants of the definition that     *)
(* follows them; the properties are required to notice each of them.       *)
(***************************************************************************)
EXTENDS Naturals, Sequences, FiniteSetsExt

CONSTANTS
  MaxOpens,  \* bound on the connections, which are numbered
  MaxFd,     \* descriptors of the process
  MaxData    \* bound on what is said on the connections together

VARIABLES
  tty,      \* stdout is line buffered
  fds,      \* fds[d]: what descriptor d is an end of, or Closed
  table,    \* g_popen_fdset: table[d] for a descriptor that is read from
  st,       \* st[k]: how far connection k is, with its descriptors
  child,    \* child[k]: "none", "reading", "running", "exited"
  kept,     \* kept[k]: connections whose writing end child k inherited
  down, up, \* what is in the pipes
  wrote, got, said, heard,  \* history: data sent and received, both ways
  refused   \* history: the system refused a pipe or a process

vars == <<tty, fds, table, st, child, kept, down, up, wrote, got, said, heard, refused>>

Opens == 1 .. MaxOpens
Closed == [of |-> 0, end |-> "none"]
End(k, e) == [of |-> k, end |-> e]
Other == End(0, "other")  \* something else that the process has open
NoEntry == [wfd |-> 0, connected |-> FALSE, recved |-> FALSE]

newline == 0
command == 100
message == 101  \* that the command cannot be executed

Init ==
  /\ tty \in BOOLEAN
  /\ fds = [d \in 1 .. MaxFd |-> IF d = 1 THEN Other ELSE Closed]
  /\ table = [d \in 1 .. MaxFd |-> NoEntry]
  /\ st = [k \in Opens |-> [pc |-> "none", rfd |-> 0, wfd |-> 0]]
  /\ child = [k \in Opens |-> "none"] /\ kept = [k \in Opens |-> {}]
  /\ down = [k \in Opens |-> <<>>] /\ up = [k \in Opens |-> <<>>]
  /\ wrote = [k \in Opens |-> 0] /\ got = [k \in Opens |-> <<>>]
  /\ said = [k \in Opens |-> 0] /\ heard = [k \in Opens |-> <<>>]
  /\ refused = FALSE

Goes(k, from, to) == st[k].pc = from /\ st' = [st EXCEPT ![k].pc = to]
InUse(k) == st[k].pc \in {"made", "connecting", "talking"}
data == <<wrote, got, said, heard>>

Spoken == MapThenSumSet(LAMBDA k : wrote[k] + said[k], Opens)

----------------------------------------------------------------------------
(* popen_socket *)

\* Four descriptors, the lowest ones.
Pipe(k) ==
  /\ st[k].pc = "none"
  /\ \A j \in 1 .. k - 1 : st[j].pc # "none"
  /\ \E r1, w1, r2, w2 \in 1 .. MaxFd :
       /\ r1 < w1 /\ w1 < r2 /\ r2 < w2
       /\ \A d \in 1 .. w2 : fds[d] = Closed <=> d \in {r1, w1, r2, w2}
       /\ fds' = [fds EXCEPT ![r1] = End(k, "down r"), ![w1] = End(k, "down w"),
                             ![r2] = End(k, "up r"), ![w2] = End(k, "up w")]
       /\ st' = [st EXCEPT ![k] = [pc |-> "piped", rfd |-> r2, wfd |-> w1]]
  /\ UNCHANGED <<tty, table, child, kept, down, up, data, refused>>

\* The child has what the parent has open, and closes the ends of its own pipes.
Fork(k) ==
  /\ Goes(k, "piped", "forked")
  /\ child' = [child EXCEPT ![k] = "reading"]
  /\ kept' = [kept EXCEPT ![k] = {j \in Opens \ {k} : \E d \in 1 .. MaxFd : fds[d] = End(j, "down w")}]
  /\ UNCHANGED <<tty, fds, table, down, up, data, refused>>

\* No process: the descriptors stay open.
Refuse(k) ==
  /\ ~refused /\ refused' = TRUE
  /\ Goes(k, "piped", "refused")
  /\ UNCHANGED <<tty, fds, table, child, kept, down, up, data>>

Shut(f, ds) == [d \in 1 .. MaxFd |-> IF d \in ds THEN Closed ELSE f[d]]

\* The ends of the child are closed, and the descriptor that is read from gets
\* its entry, or the one that is still there.
Enter(k) ==
  /\ Goes(k, "forked", "made")
  /\ fds' = Shut(fds, {d \in 1 .. MaxFd : fds[d] \in {End(k, "down r"), End(k, "up w")}})
  /\ table' = [table EXCEPT ![st[k].rfd].wfd = st[k].wfd]
  /\ UNCHANGED <<tty, child, kept, down, up, data, refused>>

----------------------------------------------------------------------------
(* The other calls: each finds the entry by the descriptor *)

Writes(d, s) ==  \* to the pipe the entry's descriptor is an end of
  LET e == fds[table[d].wfd] IN
  down' = [k \in Opens |-> IF e = End(k, "down w") THEN down[k] \o s ELSE down[k]]

\* Slip: the connection counts as established when the command was written.
ConnectAtOnce(k) ==
  /\ Goes(k, "made", "talking")
  /\ table[st[k].rfd].wfd # 0 /\ ~table[st[k].rfd].connected
  /\ Writes(st[k].rfd, <<command, newline>>)
  /\ table' = [table EXCEPT ![st[k].rfd].connected = TRUE]
  /\ UNCHANGED <<tty, fds, child, kept, up, data, refused>>

\* popen_connect: the command is written, once.
Connect(k) ==
  /\ Goes(k, "made", "connecting")
  /\ table[st[k].rfd].wfd # 0 /\ ~table[st[k].rfd].connected
  /\ Writes(st[k].rfd, <<command, newline>>)
  /\ table' = [table EXCEPT ![st[k].rfd].connected = TRUE]
  /\ UNCHANGED <<tty, fds, child, kept, up, data, refused>>

\* popen_handshake, when the poller says that there is something to read: the
\* newline, or the end of the child.
Handshake(k) ==
  /\ Goes(k, "connecting", "talking")
  /\ up[k] # <<>> \/ child[k] = "exited"
  /\ UNCHANGED <<tty, fds, table, child, kept, down, up, data, refused>>

Write(k) ==
  /\ st[k].pc = "talking" /\ Spoken < MaxData
  /\ table[st[k].rfd].wfd # 0
  /\ wrote' = [wrote EXCEPT ![k] = @ + 1]
  /\ Writes(st[k].rfd, <<wrote[k] + 1>>)
  /\ UNCHANGED <<tty, fds, table, st, child, kept, up, got, said, heard, refused>>

\* Slip: nothing is discarded.
ReadAll(k) ==
  /\ st[k].pc = "talking" /\ up[k] # <<>>
  /\ table[st[k].rfd].wfd # 0
  /\ heard' = [heard EXCEPT ![k] = @ \o up[k]]
  /\ up' = [up EXCEPT ![k] = <<>>]
  /\ UNCHANGED <<tty, fds, table, st, child, kept, down, wrote, got, said, refused>>

\* popen_read: what is there, without the first byte of all.
Read(k) ==
  LET first == IF table[st[k].rfd].recved THEN 1 ELSE 2 IN
  /\ st[k].pc = "talking" /\ up[k] # <<>>
  /\ table[st[k].rfd].wfd # 0
  /\ heard' = [heard EXCEPT ![k] = @ \o SubSeq(up[k], first, Len(up[k]))]
  /\ up' = [up EXCEPT ![k] = <<>>]
  /\ table' = [table EXCEPT ![st[k].rfd].recved = TRUE]
  /\ UNCHANGED <<tty, fds, st, child, kept, down, wrote, got, said, refused>>

\* Slip: the descriptor is closed before its entry is erased.
CloseLate(k) ==
  /\ \/ /\ InUse(k) /\ st' = [st EXCEPT ![k].pc = "erased"]
        /\ fds' = Shut(fds, {st[k].rfd})
        /\ UNCHANGED table
     \/ /\ Goes(k, "erased", "closed")
        /\ fds' = Shut(fds, {table[st[k].rfd].wfd})
        /\ table' = [table EXCEPT ![st[k].rfd] = NoEntry]
  /\ UNCHANGED <<tty, child, kept, down, up, data, refused>>

\* popen_close: the entry is erased, which closes the end that is written to,
\* and then the descriptor is closed.
Close(k) ==
  /\ \/ /\ InUse(k) /\ st' = [st EXCEPT ![k].pc = "erased"]
        /\ fds' = Shut(fds, {table[st[k].rfd].wfd})
        /\ table' = [table EXCEPT ![st[k].rfd] = NoEntry]
     \/ /\ Goes(k, "erased", "closed")
        /\ fds' = Shut(fds, {st[k].rfd})
        /\ UNCHANGED table
  /\ UNCHANGED <<tty, child, kept, down, up, data, refused>>

----------------------------------------------------------------------------
(* The child *)

\* Nobody can write to it any more.
AtEnd(k) ==
  /\ \A d \in 1 .. MaxFd : fds[d] # End(k, "down w")
  /\ \A j \in Opens : child[j] \in {"reading", "running"} => k \notin kept[j]

Becomes(k, s) == child' = [child EXCEPT ![k] = s]

\* A line is read, and with it whatever else there is.  The program starts, or
\* there is no such program and everything buffered gets out.
Execute(k) ==
  /\ child[k] = "reading" /\ down[k] # <<>>
  /\ down' = [down EXCEPT ![k] = <<>>]
  /\ \/ /\ Becomes(k, "running")
        /\ up' = [up EXCEPT ![k] = IF tty THEN <<newline>> ELSE <<>>]
     \/ /\ Becomes(k, "exited")
        /\ up' = [up EXCEPT ![k] = <<newline, message>>]
  /\ UNCHANGED <<tty, fds, table, st, kept, data, refused>>

Say(k) ==
  /\ child[k] = "running" /\ Spoken < MaxData
  /\ said' = [said EXCEPT ![k] = @ + 1]
  /\ up' = [up EXCEPT ![k] = Append(@, said[k] + 1)]
  /\ UNCHANGED <<tty, fds, table, st, child, kept, down, wrote, got, heard, refused>>

Get(k) ==
  /\ child[k] = "running" /\ down[k] # <<>>
  /\ got' = [got EXCEPT ![k] = @ \o down[k]]
  /\ down' = [down EXCEPT ![k] = <<>>]
  /\ UNCHANGED <<tty, fds, table, st, child, kept, up, wrote, said, heard, refused>>

Exit(k) ==
  /\ \/ child[k] = "running"
     \/ child[k] = "reading" /\ AtEnd(k)
  /\ down[k] = <<>>
  /\ Becomes(k, "exited")
  /\ UNCHANGED <<tty, fds, table, st, kept, down, up, data, refused>>

Leave ==
  /\ fds[1] = Other /\ fds' = [fds EXCEPT ![1] = Closed]
  /\ UNCHANGED <<tty, table, st, child, kept, down, up, data, refused>>

Next ==
  \/ Leave
  \/ \E k \in Opens :
       \/ Pipe(k) \/ Fork(k) \/ Refuse(k) \/ Enter(k)
       \/ Connect(k) \/ Handshake(k) \/ Write(k) \/ Read(k) \/ Close(k)
       \/ Execute(k) \/ Say(k) \/ Get(k) \/ Exit(k)

Spec == Init /\ [][Next]_vars

----------------------------------------------------------------------------

\* A connection in use has its own two descriptors, and is found by the one it
\* reads from; a descriptor that is open belongs to a connection, unless the
\* system refused one: popen.hpp, popen_socket and popen_close.
Owned ==
  /\ \A k \in Opens : InUse(k) =>
       /\ fds[st[k].rfd] = End(k, "up r")
       /\ table[st[k].rfd].wfd = st[k].wfd /\ fds[st[k].wfd] = End(k, "down w")
  /\ \A d \in 1 .. MaxFd : fds[d] \notin {Closed, Other} => st[fds[d].of].pc # "closed"
  /\ \A d \in 1 .. MaxFd : table[d] # NoEntry => \E k \in Opens :
       st[k].rfd = d /\ (InUse(k) \/ st[k].pc = "erased")

FromOne(s) == \A i \in DOMAIN s : s[i] = i

\* The program gets what the application sends, from the first byte and in
\* order; and the application what the program says, if the newline came before
\* it, or else the reason why there is no program: popen.hpp, popen_read.
Talks ==
  \A k \in Opens :
    /\ FromOne(got[k])
    /\ tty => FromOne(heard[k]) \/ heard[k] = <<message>>
=============================================================================
