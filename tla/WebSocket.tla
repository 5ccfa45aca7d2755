----------------------------- MODULE WebSocket -----------------------------
(***************************************************************************)
(* One direction of a websocket connection between two programs            *)
(* (src/net/protocol/ws.hpp on top of src/net/http.h): the writer opens    *)
(* the connection and sends frames, TCP cuts what it sends anywhere, and   *)
(* the reader puts the payloads together again.                            *)
(*                                                                         *)
(* Three buffers hold bytes that were read too far: http::fsm keeps what   *)
(* came behind the handshake (body), ws_connection keeps what it takes for *)
(* the next header (m_frame_buff), and of these bytes the ones behind the  *)
(* header go to the caller at once.  Three cursors tell where in a frame   *)
(* the reader is: m_state, m_read and m_mask_idx.                          *)
(*                                                                         *)
(* A header is read with up to 14 bytes at once, and what comes behind it  *)
(* is taken for payload of this frame without asking how long it is, and   *)
(* for less than the caller has room for (ws.hpp:364-378).  Frames with    *)
(* payloads under 12 bytes, or under 8 with a mask, and a buffer that is   *)
(* nearly full break that: spoiled says when it happened.  The reader has  *)
(* lost its place in the stream then; it is followed to the end of this    *)
(* call, and the properties speak of what was delivered before it.         *)
(*                                                                         *)
(* A byte is a record: the frame it belongs to and its place at in the     *)
(* payload, negative for the bytes of the header; frame 0 is the           *)
(* handshake.  A read may return fewer bytes than were asked for, or none  *)
(* yet, whatever was sent.                                                 *)
(*                                                                         *)
(* Definitions marked "Slip" are wrong variants of the definition that     *)
(* follows them; the properties are required to notice each of them.       *)
(***************************************************************************)
EXTENDS Integers, Sequences, SequencesExt

CONSTANTS
  Lens,       \* lengths of the payloads that are sent
  MaxFrames,  \* bound on the frames that are sent
  Ext16,      \* first length that needs the 16 bit field, 0x7E in the program
  Ext64,      \* first length that needs the 64 bit field, 0x10000 in the program
  Wrap,       \* size_t, where m_read is subtracted from the length, wraps here
  HsLen,      \* bytes of a handshake request or response
  READSIZE,   \* space for a handshake and what comes behind it, 512
  Buf,        \* free space of the buffer the caller hands over
  MaxCuts     \* bound on the times the stream is cut or held up between writes

ASSUME LengthAssumption ==
  /\ Lens \subseteq 1 .. Wrap - 1
  /\ {MaxFrames, Ext16, Ext64, Wrap, HsLen, READSIZE, Buf, MaxCuts} \subseteq Nat
  /\ 0 < HsLen /\ HsLen < READSIZE /\ Ext16 <= Ext64

VARIABLES
  side,         \* "client" or "server": what the reader is
  wstate,       \* writer: "connect", "wait", "established" or "closed"
  sent,         \* the frames whose header the writer has sent
  rest,         \* the bytes of the last of them it has yet to send
  pipe,         \* bytes on the way
  cuts,         \* how often the stream was cut so far
  eof,          \* whether the writer's end is shut
  asked,        \* whether the reader sent its own half of the handshake
  m_state,      \* reader: the state of ws_connection
  m_len,        \* bytes the http fsm got
  body,         \* bytes behind the handshake that http::fsm still keeps
  m_frame_buff, \* the header so far, and what was read behind it
  m_read, m_mask_idx,
  pc,           \* "poll", "keep", "header", "payload" or "closed"
  buf,          \* what this call of read_frame has put into the buffer
  errno,        \* of the thread: "again" or "other"
  delivered,    \* history: the bytes handed to the caller
  spoiled       \* history: "no"; "next", when bytes of the next frame were taken for
                \* payload; "room", when bytes were dropped for want of room

wvars == <<side, wstate, sent, rest, eof>>
rvars == <<m_state, m_len, m_frame_buff, m_read, m_mask_idx>>
vars == <<wvars, pipe, cuts, asked, rvars, body, pc, buf, errno, delivered, spoiled>>

FRAME == 14     \* sizeof(frame), the longest header

\* The states of a reader that knows the header, and the length of it.
HeaderSize ==
  [recv_mask |-> 6, recv_mask_0x7E |-> 8, recv_mask_0x7F |-> 14,
   recv |-> 2, recv_0x7E |-> 4, recv_0x7F |-> 10]

Masked == {"recv_mask", "recv_mask_0x7E", "recv_mask_0x7F"}
Handshakes == {"client_handshake", "client_handshake_2", "server_handshake"}

\* The form the header of frame f has.
Form(f) ==
  IF f.masked
  THEN IF f.len < Ext16 THEN "recv_mask"
       ELSE IF f.len < Ext64 THEN "recv_mask_0x7E" ELSE "recv_mask_0x7F"
  ELSE IF f.len < Ext16 THEN "recv"
       ELSE IF f.len < Ext64 THEN "recv_0x7E" ELSE "recv_0x7F"

Least(a, b) == IF a < b THEN a ELSE b

\* The first n bytes of s, and the others.
Upto(s, n) == SubSeq(s, 1, Least(n, Len(s)))
After(s, n) == SubSeq(s, n + 1, Len(s))

\* A step that cuts or holds up the stream if c is true.
Cut(c) == cuts' = cuts + (IF c THEN 1 ELSE 0) /\ cuts' <= MaxCuts

\* Bytes a to b of frame i.
Bytes(i, a, b) == [n \in 1 .. b - a + 1 |-> [frame |-> i, at |-> a + n - 1]]

Init ==
  /\ side \in {"client", "server"}
  /\ wstate = "connect" /\ sent = <<>> /\ rest = <<>>
  /\ pipe = <<>> /\ cuts = 0 /\ eof = FALSE /\ asked = FALSE
  /\ m_state = IF side = "client" THEN "client_handshake" ELSE "server_handshake"
  /\ m_len = 0 /\ body = <<>>
  /\ m_frame_buff = <<>> /\ m_read = 0 /\ m_mask_idx = 0
  /\ pc = "poll" /\ buf = <<>> /\ errno = "other" /\ delivered = <<>>
  /\ spoiled = "no"

----------------------------------------------------------------------------
(* The writer *)

\* A server answers the request, a client sends its own and waits.
Open ==
  /\ wstate = "connect"
  /\ side = "client" => asked
  /\ wstate' = IF side = "client" THEN "established" ELSE "wait"
  /\ pipe' = pipe \o Bytes(0, 0, HsLen - 1)
  /\ UNCHANGED <<side, sent, rest, eof, cuts, asked, rvars, body, pc, buf, errno, delivered, spoiled>>

\* The client has read the response.
Opened ==
  /\ wstate = "wait" /\ asked
  /\ wstate' = "established"
  /\ UNCHANGED <<side, sent, rest, eof, pipe, cuts, asked, rvars, body, pc, buf, errno, delivered, spoiled>>

\* write_frame sends the header in a call of its own.  If that fails nothing
\* has happened and the caller tries again later.
WriteHeader(n) ==
  /\ wstate = "established" /\ rest = <<>>
  /\ Len(sent) < MaxFrames
  /\ LET f == [len |-> n, masked |-> side = "server", op |-> "binary"]
         i == Len(sent) + 1
     IN /\ sent' = Append(sent, f)
        /\ pipe' = pipe \o Bytes(i, -HeaderSize[Form(f)], -1)
        /\ rest' = Bytes(i, 0, n - 1)
  /\ UNCHANGED <<side, wstate, eof, cuts, asked, rvars, body, pc, buf, errno, delivered, spoiled>>

\* The payload goes out as a whole ...
WritePayload ==
  /\ wstate = "established" /\ rest # <<>>
  /\ pipe' = pipe \o rest
  /\ rest' = <<>>
  /\ UNCHANGED <<side, wstate, sent, eof, cuts, asked, rvars, body, pc, buf, errno, delivered, spoiled>>

\* ... or in part or not at all, and then write_frame closes the socket.
WriteShort ==
  /\ wstate = "established" /\ rest # <<>>
  /\ \E k \in 0 .. Len(rest) - 1 : pipe' = pipe \o Upto(rest, k)
  /\ Cut(TRUE)
  /\ wstate' = "closed" /\ eof' = TRUE
  /\ UNCHANGED <<side, sent, rest, asked, rvars, body, pc, buf, errno, delivered, spoiled>>

\* ws_close sends an empty, unmasked close frame and closes the socket.
WriteClose ==
  /\ wstate = "established" /\ rest = <<>>
  /\ LET f == [len |-> 0, masked |-> FALSE, op |-> "close"]
     IN /\ sent' = Append(sent, f)
        /\ pipe' = pipe \o Bytes(Len(sent) + 1, -HeaderSize[Form(f)], -1)
  /\ wstate' = "closed" /\ eof' = TRUE
  /\ UNCHANGED <<side, rest, cuts, asked, rvars, body, pc, buf, errno, delivered, spoiled>>

----------------------------------------------------------------------------
(* The handshake of the reader *)

SendRequest ==
  /\ pc = "poll" /\ m_state = "client_handshake"
  /\ asked' = TRUE
  /\ m_state' = "client_handshake_2"
  /\ UNCHANGED <<wvars, pipe, cuts, m_len, m_frame_buff, m_read, m_mask_idx, body,
                 pc, buf, errno, delivered, spoiled>>

\* Slip: the socket waits for the poller first.
ProceedArmed == "poll"

\* After the handshake on_read_impl goes on to read at once.
Proceed == "keep"

\* Whatever there is, up to READSIZE bytes, goes through http::fsm::append.
\* The fsm has no room for its last byte; the bytes behind the empty line are
\* its body.  When the handshake is complete the reader goes on to read.
RecvHandshake ==
  /\ pc = "poll" /\ m_state \in {"client_handshake_2", "server_handshake"}
  /\ \E k \in 1 .. Least(READSIZE, Len(pipe)) :
       /\ Cut(k < Least(READSIZE, Len(pipe)))
       /\ pipe' = After(pipe, k)
       /\ m_len' = m_len + k
       /\ IF m_len' >= READSIZE
          THEN pc' = "closed" /\ UNCHANGED <<m_state, body, asked>>
          ELSE IF m_len' < HsLen
          THEN UNCHANGED <<pc, m_state, body, asked>>
          ELSE /\ body' = After(Upto(pipe, k), HsLen - m_len)
               /\ asked' = TRUE
               /\ m_state' = "established"
               /\ pc' = Proceed
  /\ UNCHANGED <<wvars, m_frame_buff, m_read, m_mask_idx, buf, errno, delivered, spoiled>>

----------------------------------------------------------------------------
(* The loop and the socket around read_frame *)

\* The thread works on other sockets in between, whose calls fail in their own
\* ways.
Elsewhere ==
  /\ pc \in {"poll", "keep"}
  /\ errno' \in {"again", "other"}
  /\ UNCHANGED <<wvars, pipe, cuts, asked, rvars, body, pc, buf, delivered, spoiled>>

\* The poller reports the end of the stream, read or not.
Hangup ==
  /\ pc = "poll" /\ eof
  /\ pc' = "closed"
  /\ UNCHANGED <<wvars, pipe, cuts, asked, rvars, body, buf, errno, delivered, spoiled>>

\* socket::read_and_parse calls read_frame.  A reader that has lost its place in
\* the stream is followed to the end of the call.
Call ==
  /\ m_state \notin Handshakes /\ spoiled = "no"
  /\ pc = "keep" \/ (pc = "poll" /\ (pipe # <<>> \/ eof))
  /\ pc' = IF m_state \in {"established", "recv_frame"} THEN "header" ELSE "payload"
  /\ buf' = <<>>
  /\ UNCHANGED <<wvars, pipe, cuts, asked, rvars, body, errno, delivered, spoiled>>

\* What read_frame returns and what read_and_parse makes of it: with bytes the
\* socket is read again at once; with -1 it is left to the poller if errno says
\* so, whoever set it, and destroyed otherwise.
Return(b) ==
  /\ delivered' = delivered \o b
  /\ pc' = "keep"

Fail(e) ==
  /\ pc' = IF e = "again" THEN "poll" ELSE "closed"
  /\ UNCHANGED delivered

\* The label "again" of read_frame.
Again(b, e) == IF b # <<>> THEN Return(b) ELSE Fail(e)

----------------------------------------------------------------------------
(* read_body_and_fd and mask_payload *)

\* The results of a read of n bytes: bytes the fsm kept come first, alone.
Read(n) ==
  IF body # <<>> THEN {Upto(body, n)}
  ELSE {Upto(pipe, k) : k \in 1 .. Least(n, Len(pipe))}

\* b is what a read of n bytes returned.
Consume(b, n) ==
  IF body # <<>> THEN body' = After(body, Len(b)) /\ UNCHANGED <<pipe, cuts>>
  ELSE /\ pipe' = After(pipe, Len(b)) /\ UNCHANGED body
       /\ Cut(Len(b) < Least(n, Len(pipe)))

\* The read returns 0: the stream has ended or nothing was asked for.
ReadsNothing(n) ==
  \/ n = 0
  \/ body = <<>> /\ pipe = <<>> /\ eof

\* What was sent has not come yet.
ReadsLater(n) ==
  n # 0 /\ body = <<>> /\ ~(pipe = <<>> /\ eof)

\* The payload bytes b after mask_payload with the key of frame i, and index m.
Unmask(b, i, m) ==
  LET first == IF m > 0 THEN Least(Len(b), 4 - m) ELSE 0
      index(n) == IF n <= first THEN m + n - 1 ELSE (n - 1 - first) % 4
  IN [n \in 1 .. Len(b) |->
        [frame |-> b[n].frame, at |-> b[n].at, key |-> <<i, index(n)>>]]

\* The mask index after n bytes.
MaskIdx(n, m) ==
  LET first == IF m > 0 THEN Least(n, 4 - m) ELSE 0
      last == (n - first) % 4
  IN IF last > 0 THEN last ELSE (m + first) % 4

Plain(b) ==
  [n \in 1 .. Len(b) |-> [frame |-> b[n].frame, at |-> b[n].at, key |-> <<>>]]

----------------------------------------------------------------------------
(* read_frame: the header *)

\* Slip: a header that comes in pieces is begun anew with each of them.
KnownNone == <<>>

\* What is known of the header when a read begins.
Known == IF m_state = "established" THEN <<>> ELSE m_frame_buff

\* The state analyze_frame finds for the bytes b.
Analyze(b) ==
  IF Len(b) < 2 THEN "recv_frame"
  ELSE LET form == Form(sent[b[1].frame])
       IN IF Len(b) < HeaderSize[form] THEN "recv_frame" ELSE form

\* What is wrong with handing n bytes behind the header of frame i to a caller
\* who has room for some.
Judge(n, i, room) ==
  IF spoiled # "no" THEN spoiled
  ELSE IF n > room THEN "room"
  ELSE IF n > sent[i].len THEN "next" ELSE "no"

\* A read of up to FRAME bytes.  When it completes the header, the bytes behind
\* the header go to the caller as payload, however short the payload is.
ReadHeader ==
  /\ pc = "header"
  /\ \E b \in Read(FRAME - Len(Known)) :
       /\ Consume(b, FRAME - Len(Known))
       /\ m_frame_buff' = Known \o b
       /\ LET s == Analyze(m_frame_buff')
              i == m_frame_buff'[1].frame
              over == After(m_frame_buff', HeaderSize[s])
          IN /\ m_state' = s
             /\ IF s = "recv_frame"
                THEN /\ Again(buf, errno)
                     /\ m_read' = 0 /\ m_mask_idx' = 0 /\ UNCHANGED <<buf, spoiled>>
                ELSE IF Buf - Len(buf) < Len(over)
                THEN /\ Fail(errno)
                     /\ spoiled' = Judge(Len(over), i, Buf - Len(buf))
                     /\ m_read' = 0 /\ m_mask_idx' = 0 /\ UNCHANGED buf
                ELSE /\ buf' = buf \o IF s \in Masked THEN Unmask(over, i, 0) ELSE Plain(over)
                     /\ m_read' = Len(over)
                     /\ m_mask_idx' = IF s \in Masked THEN MaskIdx(Len(over), 0) ELSE 0
                     /\ spoiled' = Judge(Len(over), i, Buf - Len(buf))
                     /\ pc' = "payload"
                     /\ UNCHANGED delivered
  /\ UNCHANGED <<wvars, asked, m_len, errno>>

HeaderLater ==
  /\ pc = "header"
  /\ ReadsLater(FRAME - Len(Known)) /\ Cut(pipe # <<>>)
  /\ errno' = "again"
  /\ m_frame_buff' = Known /\ m_read' = 0 /\ m_mask_idx' = 0
  /\ Again(buf, "again")
  /\ UNCHANGED <<wvars, pipe, asked, m_state, m_len, body, buf, spoiled>>

----------------------------------------------------------------------------
(* read_frame: the payload *)

Header == sent[m_frame_buff[1].frame]

\* The length minus what was read, a size_t.
Remain == (Header.len - m_read) % Wrap

\* The frame is complete and the next one begins.
NextFrame ==
  /\ pc = "payload" /\ Header.op = "binary" /\ Remain = 0
  /\ m_state' = "established"
  /\ pc' = "header"
  /\ UNCHANGED <<wvars, pipe, cuts, asked, m_len, m_frame_buff, m_read, m_mask_idx, body,
                 buf, errno, delivered, spoiled>>

Want == Least(Buf - Len(buf), Remain)

ReadPayload ==
  /\ pc = "payload" /\ Header.op = "binary" /\ Want > 0
  /\ \E b \in Read(Want) :
       /\ Consume(b, Want)
       /\ m_read' = m_read + Len(b)
       /\ LET i == m_frame_buff[1].frame
              now == buf \o IF m_state \in Masked THEN Unmask(b, i, m_mask_idx) ELSE Plain(b)
          IN /\ buf' = now
             /\ IF Len(now) = Buf THEN Return(now) ELSE UNCHANGED <<pc, delivered>>
       /\ m_mask_idx' = IF m_state \in Masked THEN MaskIdx(Len(b), m_mask_idx) ELSE m_mask_idx
  /\ UNCHANGED <<wvars, asked, m_state, m_len, m_frame_buff, errno, spoiled>>

PayloadLater ==
  /\ pc = "payload" /\ Header.op = "binary" /\ Remain # 0
  /\ ReadsLater(Want) /\ Cut(pipe # <<>>)
  /\ errno' = "again"
  /\ Again(buf, "again")
  /\ UNCHANGED <<wvars, pipe, asked, rvars, body, buf, spoiled>>

\* The stream ends, or the close frame has come: read_frame returns 0, whatever
\* it put into the buffer, and the socket is destroyed.
ReadEnd ==
  /\ \/ pc = "header" /\ ReadsNothing(FRAME - Len(Known))
     \/ pc = "payload" /\ Header.op = "binary" /\ Remain # 0 /\ ReadsNothing(Want)
     \/ pc = "payload" /\ Header.op = "close"
  /\ pc' = "closed"
  /\ UNCHANGED <<wvars, pipe, cuts, asked, rvars, body, buf, errno, delivered, spoiled>>

----------------------------------------------------------------------------

Write == Open \/ Opened \/ WritePayload \/ WriteShort \/ WriteClose
Get == ReadHeader \/ ReadPayload \/ NextFrame \/ ReadEnd

Next ==
  \/ Write \/ \E n \in Lens : WriteHeader(n)
  \/ SendRequest \/ RecvHandshake
  \/ Elsewhere \/ Hangup \/ Call
  \/ Get \/ HeaderLater \/ PayloadLater

SafeSpec == Init /\ [][Next]_vars

\* The writer finishes what it began and the reader's thread keeps running.
Spec ==
  /\ SafeSpec
  /\ WF_vars(Open \/ Opened) /\ WF_vars(WritePayload \/ WriteShort)
  /\ WF_vars(SendRequest) /\ WF_vars(RecvHandshake) /\ WF_vars(Call)
  /\ WF_vars(Get \/ HeaderLater \/ PayloadLater)

----------------------------------------------------------------------------

\* The reader's cursors belong together: in the payload the header is complete,
\* a partial header has not been counted as payload, and a kept byte or a
\* partial header exist only where the next read comes back to them.
TypeOK ==
  /\ m_state \in Handshakes \union {"established", "recv_frame"} \union DOMAIN HeaderSize
  /\ pc \in {"poll", "keep", "header", "payload", "closed"}
  /\ Len(m_frame_buff) <= FRAME /\ m_mask_idx \in 0 .. 3 /\ m_len \in Nat
  /\ Len(buf) <= Buf
  /\ pc = "payload" => m_state \in DOMAIN HeaderSize
  /\ m_state = "recv_frame" => m_frame_buff # <<>> /\ m_read = 0
  /\ m_state \in DOMAIN HeaderSize =>
       m_state = Form(Header) /\ (spoiled = "next" \/ m_read <= Header.len)
  /\ pc = "poll" => body = <<>>

\* Byte at of the payload of frame i as the caller should see it.
Clear(i, at) ==
  [frame |-> i, at |-> at, key |-> IF sent[i].masked THEN <<i, at % 4>> ELSE <<>>]

\* The payloads of all frames, one after the other.
Payload ==
  FlattenSeq([i \in DOMAIN sent |-> [n \in 1 .. sent[i].len |-> Clear(i, n - 1)]])

\* The caller gets the payloads and nothing else, each byte once, in order and
\* unmasked with its own byte of the key of its own frame, wherever the network
\* and the buffers cut the stream, up to the first frame that is shorter than
\* what was read behind its header, or has no room for that (ws.hpp:364-378).
InOrder == TypeOK /\ (spoiled = "no" => IsPrefix(delivered, Payload))

\* Everything that was sent is delivered unless one side closes the connection
\* or a frame spoils the stream: no byte is forgotten in one of the buffers when
\* the socket falls silent.
Arrives ==
  Len(Payload) > Len(delivered) ~>
    \/ Len(Payload) = Len(delivered)
    \/ pc = "closed" \/ eof \/ spoiled # "no"

\* The claim of ws.hpp:367, "ASSERT(false);" under "if (l < n_read)": the caller
\* has room for what is read behind a header.  It fails: the read is of 14 bytes
\* whatever room there is (ws.hpp:352).
HasRoom == spoiled # "room"
============================================================================
