-------------------------------- MODULE Http --------------------------------
(***************************************************************************)
(* One http message from http::sender to http::fsm (src/net/http.h).       *)
(*                                                                         *)
(* The sender writes a body at once behind its length, or as chunks, one   *)
(* per turn of sender_task.  The receiver appends one byte after the other *)
(* to its memory and asks after each of them whether a line has ended; it  *)
(* takes the lines with the lengths of chunks out of the memory again, so  *)
(* that the body ends up in one piece, and it accepts a bare line feed as  *)
(* the end of a line, so that the bytes of a body can look like one.       *)
(*                                                                         *)
(* A byte is a record; a header line, or the hexadecimal length of a chunk,*)
(* is a single one of them that carries its value.  A call of send writes  *)
(* all bytes or fails.                                                     *)
(*                                                                         *)
(* Definitions marked "Slip" are wrong variants of the definition that     *)
(* follows them; the properties are required to notice each of them.       *)
(***************************************************************************)
EXTENDS Integers, Sequences, SequencesExt

CONSTANTS
  MaxBody,     \* bound on the length of a body
  CHUNK_SIZE,  \* 1024 in the program
  Frame,       \* the bytes around a chunk, 17 in the program
  Heading,     \* the bytes of the header of a result
  MAX_HEADER,  \* lines of a header the receiver keeps, 64 in the program
  MaxMemory    \* memory of the receiver, fsm::m_max

VARIABLES
  kind,     \* what is sent: see Kinds
  content,  \* the body, or what follows a handshake
  step,     \* of the sender: "header", "body", "chunks", "closed" or "failed"
  m_curr,   \* bytes of the body that were sent
  wire,     \* bytes on the way
  sm        \* the receiver: see Reset

vars == <<kind, content, step, m_curr, wire, sm>>

Byte(c, v) == [is |-> c, v |-> v]
CR == Byte("cr", 0)
LF == Byte("lf", 0)
NUL == Byte("nul", 0)
X == Byte("text", 0)

Line(c, v) == <<Byte(c, v), CR, LF>>
EmptyLine == <<CR, LF>>

Kinds == {"code", "result", "post", "post chunked", "request", "response"}
Handshake == {"request", "response"}

\* fsm::reset.  mem is the memory up to m_len; m_buf, bd and the members of hd
\* are places in it.
Reset ==
  [state |-> "recv_header", mem |-> <<>>, m_buf |-> 1, hd |-> <<>>,
   bd |-> 1, bl |-> 0, res |-> 0]

Init ==
  /\ kind \in Kinds
  /\ content \in UNION {[1 .. n -> {X, CR, LF}] : n \in 0 .. MaxBody}
  /\ step = "header" /\ m_curr = 0
  /\ wire = <<>>
  /\ sm = Reset

----------------------------------------------------------------------------
(* The sender *)

Send(b) == wire' = wire \o b

\* The status line, or the request line, and what belongs to it.
FirstLines ==
  IF kind = "code" THEN Line("status", 404)
  ELSE IF kind = "result" THEN Line("status", 200) \o Line("Content-Type", 0)
  ELSE IF kind = "response" THEN Line("status", 101)
  ELSE Line("method", 0)

Length == Line("Content-Length", Len(content)) \o EmptyLine
Chunked == Line("Transfer-Encoding", 0) \o EmptyLine

\* send_result_code.
SendCode ==
  /\ kind = "code" /\ step = "header"
  /\ Send(FirstLines \o EmptyLine)
  /\ step' = "closed"
  /\ UNCHANGED <<kind, content, m_curr, sm>>

\* send_handshake_request and send_handshake_response; the peer goes on to
\* send frames.
SendHandshake ==
  /\ kind \in Handshake /\ step = "header"
  /\ Send(FirstLines \o Line("Upgrade", 0)
            \o Line(IF kind = "request" THEN "Sec-WebSocket-Key"
                    ELSE "Sec-WebSocket-Accept", 0)
            \o EmptyLine \o content)
  /\ step' = "closed"
  /\ UNCHANGED <<kind, content, m_curr, sm>>

\* send_result_and_body.
Fits == Heading + Len(content) <= CHUNK_SIZE

SendResult ==
  /\ kind = "result" /\ step = "header"
  /\ Send(FirstLines \o IF Fits THEN Length ELSE Chunked)
  /\ step' = IF Fits THEN "body" ELSE "chunks"
  /\ UNCHANGED <<kind, content, m_curr, sm>>

\* send_request_common writes the header; the caller of post states the length
\* of a body that is not sent as chunks.
SendPost ==
  /\ kind \in {"post", "post chunked"} /\ step = "header"
  /\ Send(FirstLines \o IF kind = "post" THEN Length ELSE Chunked)
  /\ step' = IF kind = "post chunked" /\ Len(content) > CHUNK_SIZE THEN "chunks" ELSE "body"
  /\ UNCHANGED <<kind, content, m_curr, sm>>

\* buffer_sendable::send of at most n bytes.
Piece(n) == SubSeq(content, m_curr + 1, IF m_curr + n < Len(content) THEN m_curr + n ELSE Len(content))

\* The body at once.  A result passes NO_LIMIT to buffer_sendable::send, which
\* takes -1 for the number of bytes: the call fails, or what stands behind the
\* body goes out with it.
SendBody ==
  /\ step = "body"
  /\ IF kind = "result"
     THEN \E junk \in {<<>>, <<X>>, <<LF, X>>} :
            Send(content \o junk) /\ m_curr' = Len(content)
     ELSE /\ Send(Piece(CHUNK_SIZE) \o EmptyLine \o EmptyLine)
          /\ m_curr' = m_curr + Len(Piece(CHUNK_SIZE))
  /\ step' = "closed"
  /\ UNCHANGED <<kind, content, sm>>

LastChunk == Line("size", 0) \o EmptyLine

\* sender_task calls send_body.
SendChunk ==
  /\ step = "chunks"
  /\ LET b == Piece(CHUNK_SIZE - Frame)
         finished == m_curr + Len(b) >= Len(content)
     IN /\ Send(Line("size", Len(b)) \o b \o EmptyLine
                  \o IF finished THEN LastChunk ELSE <<>>)
        /\ m_curr' = m_curr + Len(b)
        /\ step' = IF finished THEN "closed" ELSE "chunks"
  /\ UNCHANGED <<kind, content, sm>>

\* A call of send fails and the sender gives the message up.
Fail ==
  /\ step \in {"header", "body", "chunks"}
  /\ step' = "failed"
  /\ UNCHANGED <<kind, content, m_curr, wire, sm>>

----------------------------------------------------------------------------
(* The receiver *)

\* recv_lf: the length of the line's end if the last bytes are one.
RecvLf(mem) ==
  LET n == Len(mem)
  IN IF n > 2 /\ mem[n - 1] = CR /\ mem[n] = LF THEN 2
     ELSE IF n > 1 /\ mem[n] = LF THEN 1 ELSE 0

\* The end of the line is overwritten with zeros.
Ended(mem, nlf) == [i \in DOMAIN mem |-> IF i > Len(mem) - nlf THEN NUL ELSE mem[i]]

\* hdrstr: the header lines of that name.
Hdr(s, key) == {i \in DOMAIN s.hd : s.mem[s.hd[i]].is = key}
Hdrint(s, key) == s.mem[s.hd[CHOOSE i \in Hdr(s, key) : \A j \in Hdr(s, key) : i <= j]].v

\* putrc: the result code, an error for a request.
Putrc(s) == IF s.mem[s.hd[1]].is = "status" THEN s.mem[s.hd[1]].v ELSE -1

\* The empty line behind the header.
HeaderEnds(s) ==
  LET p == Len(s.mem) + 1
      t == [s EXCEPT !.res = Putrc(s), !.bd = p]
  IN IF Hdr(s, "Content-Length") # {}
     THEN [t EXCEPT !.bl = Hdrint(s, "Content-Length"), !.state = "recv_body_nochunk"]
     ELSE IF Hdr(s, "Transfer-Encoding") # {}
     THEN [t EXCEPT !.m_buf = p, !.bl = 0, !.state = "recv_bodylen"]
     ELSE IF Hdr(s, "Sec-WebSocket-Key") \union Hdr(s, "Sec-WebSocket-Accept") # {}
     THEN [t EXCEPT !.m_buf = p, !.bl = 0, !.state = "websocket_establish"]
     ELSE [t EXCEPT !.bd = s.bd, !.state = IF t.res = 200 THEN "error" ELSE "recv_finish"]

\* A line of the header or the footer ends; then is what an empty one leads to.
LineEnds(s, then(_)) ==
  LET nlf == RecvLf(s.mem)
      p == Len(s.mem) + 1
      t == [s EXCEPT !.mem = Ended(s.mem, nlf)]
  IN IF nlf = 0 THEN s
     ELSE IF p - nlf = s.m_buf THEN then(t)
     ELSE IF Len(s.hd) < MAX_HEADER
     THEN [t EXCEPT !.hd = Append(s.hd, s.m_buf), !.m_buf = p]
     ELSE [t EXCEPT !.state = "error"]

RecvHeader(s) == LineEnds(s, HeaderEnds)

FooterEnds(s) == [s EXCEPT !.state = "recv_finish"]
RecvFooter(s) == LineEnds(s, FooterEnds)

\* Whether the bytes behind the body are nlf long: 0 if so, more if bytes are
\* missing, less if there are too many.
Diff(s, nlf) == (s.bd + s.bl) - (Len(s.mem) + 1 - nlf)

RecvBodyNochunk(s) ==
  LET diff == Diff(s, 0)
  IN IF diff > 0 THEN s
     ELSE [s EXCEPT !.state = IF diff < 0 THEN "error" ELSE "recv_finish"]

\* Slip: the first line feed ends the chunk.
RecvBodyAtLf(s) ==
  LET nlf == RecvLf(s.mem)
  IN IF nlf = 0 THEN s
     ELSE [s EXCEPT !.mem = SubSeq(s.mem, 1, Len(s.mem) - nlf),
                    !.m_buf = Len(s.mem) + 1 - nlf,
                    !.state = "recv_bodylen"]

\* recv_body: a line's end that is not where the chunk ends belongs to it.
RecvBody(s) ==
  LET nlf == RecvLf(s.mem)
  IN IF nlf = 0 \/ Diff(s, nlf) > 0 THEN s
     ELSE IF Diff(s, nlf) < 0 THEN [s EXCEPT !.state = "error"]
     ELSE [s EXCEPT !.mem = SubSeq(s.mem, 1, Len(s.mem) - nlf),
                    !.m_buf = Len(s.mem) + 1 - nlf,
                    !.state = "recv_bodylen"]

\* htoi: the number a line without its end stands for, -1 if it is none.
Htoi(line) ==
  IF line = <<>> THEN 0
  ELSE IF Len(line) = 1 /\ line[1].is = "size" THEN line[1].v ELSE -1

\* recv_bodylen.  The test for a comment looks at the byte behind the last one,
\* which is zero, so that recv_comment is never called.
RecvBodylen(s) ==
  LET nlf == RecvLf(s.mem)
      cl == Htoi(SubSeq(s.mem, s.m_buf, Len(s.mem) - nlf))
      t == [s EXCEPT !.mem = Ended(s.mem, nlf)]
  IN IF nlf = 0 THEN s
     ELSE IF cl < 0 THEN [t EXCEPT !.state = "error"]
     ELSE IF cl = 0 THEN [t EXCEPT !.m_buf = Len(s.mem) + 1, !.state = "recv_footer"]
     ELSE [t EXCEPT !.bl = s.bl + cl, !.mem = SubSeq(s.mem, 1, s.m_buf - 1),
                    !.state = "recv_body"]

RecvWsFrame(s) == [s EXCEPT !.bl = s.bl + 1]

\* One turn of the loop in append.
AppendByte(s, b) ==
  IF s.state \in {"error", "recv_finish"} THEN s
  ELSE IF Len(s.mem) >= MaxMemory - 1 THEN [s EXCEPT !.state = "error"]
  ELSE LET t == [s EXCEPT !.mem = Append(s.mem, b)]
       IN CASE s.state = "recv_header" -> RecvHeader(t)
            [] s.state = "recv_body" -> RecvBody(t)
            [] s.state = "recv_body_nochunk" -> RecvBodyNochunk(t)
            [] s.state = "recv_bodylen" -> RecvBodylen(t)
            [] s.state = "recv_footer" -> RecvFooter(t)
            [] s.state = "websocket_establish" -> RecvWsFrame(t)

\* fsm::append with what one read of the socket returns.
AppendBytes ==
  \E k \in 1 .. Len(wire) :
    /\ sm' = FoldLeft(AppendByte, sm, SubSeq(wire, 1, k))
    /\ wire' = SubSeq(wire, k + 1, Len(wire))
    /\ UNCHANGED <<kind, content, step, m_curr>>

----------------------------------------------------------------------------

Next ==
  \/ SendCode \/ SendHandshake \/ SendResult \/ SendPost
  \/ SendBody \/ SendChunk \/ Fail
  \/ AppendBytes

Spec == Init /\ [][Next]_vars

----------------------------------------------------------------------------

\* What body and bodylen give to the program.
Body == SubSeq(sm.mem, sm.bd, sm.bd + sm.bl - 1)

\* What post gets wrong: it announces chunks but sends a short body without a
\* length, and it cuts a long body off, behind which empty lines follow.
Misframed ==
  \/ kind = "post chunked" /\ Len(content) <= CHUNK_SIZE
  \/ kind = "post" /\ Len(content) > CHUNK_SIZE

\* A message that was sent to its end and read to its end is complete.  The
\* receiver waits in vain for an empty body of known length.
Completes ==
  step = "closed" /\ wire = <<>> =>
    \/ sm.state = IF kind \in Handshake THEN "websocket_establish" ELSE "recv_finish"
    \/ kind \in {"result", "post"} /\ content = <<>>
    \/ Misframed

\* A message that is complete has the body that was sent, whatever bytes the
\* body is made of and however it was cut; and behind a handshake nothing is
\* lost that came with it.
BodyAsSent ==
  /\ Completes
  /\ sm.state = "recv_finish" /\ kind # "code" => Body = content \/ Misframed
  /\ sm.state = "websocket_establish" =>
       /\ IsPrefix(Body, content)
       /\ wire = SubSeq(content, Len(Body) + 1, Len(content))
============================================================================
