------------------------------ MODULE Writers ------------------------------
(***************************************************************************)
(* What the buffers of a socket hold (net/wbuf.h): chunks, each begun by   *)
(* the command that writes it.  A stream appends to the chunk it began     *)
(* last, which p_last_writer points to, until the buffers are exchanged; a *)
(* datagram is always a chunk of its own, with its address.  Who may call  *)
(* what at the same time is in module Wbuf; here every call is whole.      *)
(*                                                                         *)
(* The buffers are large enough, the objects can be packed in the space    *)
(* that is reserved, and the poller accepts the socket.                    *)
(*                                                                         *)
(* Definitions marked "Slip" are wrong variants of the definition that     *)
(* follows them; the property is required to notice each of them.          *)
(***************************************************************************)
EXTENDS Naturals, Sequences, SequencesExt

CONSTANTS
  Addresses,  \* where datagrams go
  MaxSends    \* bound on the calls of send

VARIABLES
  stream,         \* the socket's type
  dbf,            \* the two buffers, sequences of chunks
  curr,           \* which of them is written from
  m_last_wcmd,    \* a chunk was begun since the exchange
  p_last_writer,  \* buffer and place of the chunk that was begun last
  sent,           \* history: what was sent
  wire            \* history: what the system took

vars == <<stream, dbf, curr, m_last_wcmd, p_last_writer, sent, wire>>

next == 1 - curr
MaxWrites == 3 * MaxSends  \* bound on what the system takes before it refuses something

Init ==
  /\ stream \in BOOLEAN
  /\ dbf = [b \in {0, 1} |-> <<>>] /\ curr = 0
  /\ m_last_wcmd = FALSE /\ p_last_writer = [buf |-> 0, at |-> 0]
  /\ sent = <<>> /\ wire = <<>>

----------------------------------------------------------------------------
(* sendraw *)

\* The writer of raw data and of objects: a chunk is begun, or the data goes
\* behind that of the last one, wherever it is.
Chunk(to, data) == [to |-> to, data |-> data, pos |-> 0]

Begin(c) ==
  /\ dbf' = [dbf EXCEPT ![next] = Append(@, c)]
  /\ p_last_writer' = [buf |-> next, at |-> Len(dbf[next]) + 1]

AppendTo(p, data) ==
  /\ dbf' = IF p.at \in DOMAIN dbf[p.buf]
            THEN [dbf EXCEPT ![p.buf][p.at].data = @ \o data] ELSE dbf
  /\ UNCHANGED p_last_writer

\* Slip: a datagram is appended to the one before it.
SendJoined(to, data) ==
  /\ sent' = Append(sent, [to |-> to, data |-> data])
  /\ IF m_last_wcmd THEN AppendTo(p_last_writer, data) ELSE Begin(Chunk(to, data))
  /\ m_last_wcmd' = TRUE
  /\ UNCHANGED <<stream, curr, wire>>

Send(to, data) ==
  /\ sent' = Append(sent, [to |-> to, data |-> data])
  /\ IF stream /\ m_last_wcmd THEN AppendTo(p_last_writer, data) ELSE Begin(Chunk(to, data))
  /\ m_last_wcmd' = stream
  /\ UNCHANGED <<stream, curr, wire>>

----------------------------------------------------------------------------
(* write_command *)

\* Slip: the kind of the last chunk is kept.
SwapKept ==
  /\ dbf[curr] = <<>>
  /\ curr' = next
  /\ UNCHANGED <<stream, dbf, m_last_wcmd, p_last_writer, sent, wire>>

\* The buffer is empty and exchanged for the other one.
Swap ==
  /\ dbf[curr] = <<>>
  /\ curr' = next /\ m_last_wcmd' = FALSE
  /\ UNCHANGED <<stream, dbf, p_last_writer, sent, wire>>

\* What chunk c has left to write; there may be nothing, and then a datagram
\* without data is sent.
Left(c) == SubSeq(c.data, c.pos + 1, Len(c.data))

\* The system takes n bytes of chunk c.
Out(c, n) == [to |-> c.to, data |-> SubSeq(Left(c), 1, n)]
Outs(s) == [i \in DOMAIN s |-> Out(s[i], Len(Left(s[i])))]
Moved(c, n) == [c EXCEPT !.pos = @ + n]

\* Slip: the place in a chunk is not moved.
WriteShortAgain(i, n) ==
  LET b == dbf[curr] IN
  /\ stream
  /\ n < Len(Left(b[i]))
  /\ wire' = wire \o Outs(SubSeq(b, 1, i - 1)) \o <<Out(b[i], n)>>
  /\ dbf' = [dbf EXCEPT ![curr] = SubSeq(b, i, Len(b))]
  /\ UNCHANGED <<stream, curr, m_last_wcmd, p_last_writer, sent>>

\* The chunks before i are written and removed, and n bytes of that one.
WriteShort(i, n) ==
  LET b == dbf[curr] IN
  /\ stream
  /\ n < Len(Left(b[i]))
  /\ wire' = wire \o Outs(SubSeq(b, 1, i - 1)) \o <<Out(b[i], n)>>
  /\ dbf' = [dbf EXCEPT ![curr] = <<Moved(b[i], n)>> \o SubSeq(b, i + 1, Len(b))]
  /\ UNCHANGED <<stream, curr, m_last_wcmd, p_last_writer, sent>>

\* The chunks before i are written; the system refuses that one, and the buffer
\* keeps all of them.
WriteRefused(i) ==
  LET b == dbf[curr] IN
  /\ wire' = wire \o Outs(SubSeq(b, 1, i - 1))
  /\ dbf' = [dbf EXCEPT ![curr] =
       [j \in DOMAIN b |-> IF j < i THEN Moved(b[j], Len(Left(b[j]))) ELSE b[j]]]
  /\ UNCHANGED <<stream, curr, m_last_wcmd, p_last_writer, sent>>

WriteAll ==
  /\ dbf[curr] # <<>>
  /\ wire' = wire \o Outs(dbf[curr])
  /\ dbf' = [dbf EXCEPT ![curr] = <<>>]
  /\ UNCHANGED <<stream, curr, m_last_wcmd, p_last_writer, sent>>

\* Datagrams of one and of two bytes, every byte another number.
Next ==
  \/ /\ Len(sent) < MaxSends
     /\ \E to \in Addresses, n \in {1, 2} : Send(to, [i \in 1 .. n |-> 10 * Len(sent) + i])
  \/ Swap \/ WriteAll
  \/ \E i \in DOMAIN dbf[curr] :
       \/ \E n \in 1 .. Len(Left(dbf[curr][i])) : WriteShort(i, n)
       \/ Len(wire) < MaxWrites /\ WriteRefused(i)

Spec == Init /\ [][Next]_vars

----------------------------------------------------------------------------

Bytes(s) == FlattenSeq([i \in DOMAIN s |-> s[i].data])
Full(s) == SelectSeq(s, LAMBDA m : m.data # <<>>)

\* A stream gets the bytes that were sent, in order and once, and a peer the
\* datagrams that were sent to it, each whole and once, beside some without
\* data; when the buffers are empty nothing is missing: wbuf.h, sendraw.
GoesOutOnce ==
  /\ IF stream THEN IsPrefix(Bytes(wire), Bytes(sent)) ELSE IsPrefix(Full(wire), sent)
  /\ dbf = [b \in {0, 1} |-> <<>>] =>
       IF stream THEN Bytes(wire) = Bytes(sent) ELSE Full(wire) = sent
=============================================================================
