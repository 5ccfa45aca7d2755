------------------------------- MODULE Codec -------------------------------
(***************************************************************************)
(* Messages on a stream: a Lua value is packed into the buffer of the      *)
(* sender (src/ll/lua/lua.cpp, src/serializer), the bytes are cut anywhere *)
(* on their way, and the receiver unpacks them while they arrive           *)
(* (src/serializer/mpak/mpak.h, src/util/sbuf.h, src/handler/socket.hpp).  *)
(*                                                                         *)
(* The packer does not know how long a message will be.  When a value does *)
(* not fit, the buffer is enlarged and the value is pushed again, as often *)
(* as it takes.  The parser keeps a stack in m_ctx and goes on where it    *)
(* stopped when there are more bytes.  The strings of an object are not    *)
(* copied: they stay in the buffer they came with, which the object counts *)
(* a reference to, while the socket goes on with a buffer of its own when  *)
(* that one is full.  Fibers give objects up in their own time.            *)
(*                                                                         *)
(* Bytes are the bytes of the format, a double is its last byte.           *)
(*                                                                         *)
(* Definitions marked "Slip" are wrong variants of the definition that     *)
(* follows them; the properties are required to notice each of them.       *)
(***************************************************************************)
EXTENDS Integers, Sequences, FiniteSets, SequencesExt, FiniteSetsExt

CONSTANTS
  Messages,    \* the messages that are sent: see Request and Response
  MaxSent,     \* bound on the messages that are sent
  MaxCuts,     \* bound on the reads that return fewer bytes than they could
  Buffers,     \* bound on the buffers that exist at the same time
  WriteRoom,   \* free bytes of the sender's buffer before a message is packed
  Grow,        \* bytes it is enlarged by when a value does not fit, 1024
  MINIMUM_FREE_PBUF,   \* free bytes of the receiver's buffer before a read
  INITIAL_BUFFER_SIZE, \* 256 in the program
  UNPACK_STACK_DEPTH   \* 16 in the program

VARIABLES
  sent,      \* history: the messages that were packed
  intact,    \* history: how many of them were packed without a fault
  out,       \* the buffer of the sender
  pipe,      \* bytes on the way
  cuts,      \* history: reads that returned fewer bytes than they could
  pc,        \* receiver: "read", "unpack" or "closed"
  mem, cnt,  \* buffers: their bytes and their references
  cur,       \* the buffer of the socket, 0 before there is one
  m_ofs, m_limit,
  m_ctx,     \* the parser: see NewContext
  held,      \* objects fibers work with: what they are made of and refer to
  delivered  \* history: the messages as the fibers got them

vars == <<sent, intact, out, pipe, cuts, pc, mem, cnt, cur, m_ofs, m_limit, m_ctx, held, delivered>>

RECURSIVE Doubled(_, _)
\* The limit l doubled until it is n at least.
Doubled(l, n) == IF n <= l THEN l ELSE Doubled(2 * l, n)

----------------------------------------------------------------------------
(* Values of Lua and messages made of them *)

LUA_TFUNCTION == 6
request == 0
response == 1

Value(k, n, s) == [kind |-> k, n |-> n, s |-> s]
Nil == Value("nil", 0, <<>>)
Bool(b) == Value("bool", b, <<>>)
Num(n) == Value("num", n, <<>>)
Str(s) == Value("str", 0, s)
Fn(s) == Value("fn", 0, s)
\* A table; s holds its keys and values in turn.
Table(s) == Value("map", 0, s)

Request(id, method, args) == [type |-> request, id |-> id, cmd |-> method, args |-> args]
Response(id, results) == [type |-> response, id |-> id, cmd |-> Nil, args |-> results]

RECURSIVE Height(_)
\* Levels of the parser's stack above the one of v itself.
Height(v) ==
  IF v.kind = "fn" THEN 1
  ELSE IF v.kind = "map" /\ v.s # <<>> THEN 1 + Max({Height(x) : x \in Range(v.s)})
  ELSE 0

\* The parser has no room for a message nested like this.
TooDeep(m) == \E v \in Range(m.args) : 2 + Height(v) >= UNPACK_STACK_DEPTH

----------------------------------------------------------------------------
(* mpak: the operators that push *)

PBuf(l) == [bytes |-> <<>>, limit |-> l, ok |-> TRUE]

Available(p) == p.limit - Len(p.bytes)

\* pbuf::reserve of a buffer nothing is read from.
Reserve(p, n) ==
  IF Available(p) >= n THEN p
  ELSE [p EXCEPT !.limit = Doubled(@, n + Len(p.bytes))]

\* CHECK_LENGTH leaves one byte free; ok tells whether the call succeeded.
Push(p, b) ==
  IF ~p.ok THEN p
  ELSE IF Len(b) >= Available(p) THEN [p EXCEPT !.ok = FALSE]
  ELSE [p EXCEPT !.bytes = @ \o b]

\* The result of a call that nobody looks at.
Ignored(p) == [p EXCEPT !.ok = TRUE]

Word(n) == <<n \div 256, n % 256>>

FixNum(n) == IF n <= 127 THEN <<n>> ELSE <<204, n>>
U32(n) == <<206, 0, 0>> \o Word(n)
Double(n) == <<203, 0, 0, 0, 0, 0, 0, 0, n>>
RawLen(l) == IF l <= 31 THEN <<160 + l>> ELSE <<218>> \o Word(l)
ArrayLen(l) == IF l <= 15 THEN <<144 + l>> ELSE <<220>> \o Word(l)
MapLen(l) == IF l <= 15 THEN <<128 + l>> ELSE <<222>> \o Word(l)

\* push_raw pushes the length and then the bytes.
PushRaw(p, s) == Push(Push(p, RawLen(Len(s))), s)

----------------------------------------------------------------------------
(* lua::coroutine: packing the stack *)

RECURSIVE Again(_, _, _)
\* The macro retry: what a failing call has pushed so far stays in the buffer.
Again(p, Op(_), sz) ==
  LET q == Op(p)
  IN IF q.ok THEN q ELSE Again(Reserve(Ignored(q), sz), Op, 2 * sz)

Retry(p, Op(_)) == Again(p, Op, Grow)

\* pack_function enlarges the buffer by the length of the code alone.
PackFunction(p, s) ==
  PushRaw(Push(Push(Reserve(p, Len(s)), ArrayLen(2)), FixNum(LUA_TFUNCTION)), s)

RECURSIVE PackStack(_, _)
\* pack_stack.  A value of a table that cannot be packed is passed over.
PackStack(p, v) ==
  IF ~p.ok THEN p
  ELSE CASE v.kind = "nil" -> Retry(p, LAMBDA q : Push(q, <<192>>))
         [] v.kind = "bool" -> Retry(p, LAMBDA q : Push(q, <<194 + v.n>>))
         [] v.kind = "num" -> Retry(p, LAMBDA q : Push(q, Double(v.n)))
         [] v.kind = "str" -> Retry(p, LAMBDA q : PushRaw(q, v.s))
         [] v.kind = "map" ->
              FoldLeft(LAMBDA q, x : Ignored(PackStack(q, x)),
                       Ignored(Push(p, MapLen(Len(v.s) \div 2))), v.s)
         [] v.kind = "fn" -> PackFunction(p, v.s)

\* pack_stack_as_rpc_args and pack_stack_as_response.
PackArgs(p, m) ==
  LET q == IF m.type = request THEN PackStack(p, m.cmd) ELSE Push(p, <<192>>)
  IN IF ~q.ok THEN q
     ELSE FoldLeft(PackStack, Ignored(Push(q, ArrayLen(Len(m.args)))), m.args)

\* pack_request and pack_response.
Pack(p, m) ==
  PackArgs(Push(Push(Push(p, ArrayLen(4)), FixNum(m.type)), U32(m.id)), m)

\* What the message is in the format, whatever room there is.
Format(m) == Pack(PBuf(10000), m).bytes

----------------------------------------------------------------------------
(* The parser *)

NewContext == [stack |-> <<[status |-> "INITIAL", d |-> <<>>, len |-> 0, n |-> 0, type |-> "NIL"]>>,
               tree |-> <<>>, refs |-> <<>>]

\* A parser at work: ret tells how the call of unpack ends.
Top(c) == c.stack[Len(c.stack)]
SetTop(c, s) == [c EXCEPT !.stack[Len(c.stack)] = s]

\* Nodes of the object, which is a tree of places: element n of the array or
\* map at d is at Append(d, n); a map has its keys at even n.
Node(t, n, o) == [type |-> t, n |-> n, buf |-> 0, ofs |-> o]
Put(c, d, node) ==
  [c EXCEPT !.tree = [x \in DOMAIN c.tree \union {d} |-> IF x = d THEN node ELSE c.tree[x]]]

\* l_pushstack.
PushStack(c, d) ==
  IF Len(c.stack) >= UNPACK_STACK_DEPTH THEN [c EXCEPT !.ret = "error"]
  ELSE [c EXCEPT !.stack =
          Append(@, [status |-> "INITIAL", d |-> d, len |-> 0, n |-> 0, type |-> "NIL"])]

\* l_popstack.
PopStack(c) ==
  IF Len(c.stack) = 1
  THEN [c EXCEPT !.ret = IF c.ofs = Len(mem[cur]) THEN "success" ELSE "extra"]
  ELSE [c EXCEPT !.stack = Front(@)]

\* sp->d->set and l_popstack.
Set(c, node) == PopStack(Put(c, Top(c).d, node))

\* l_length_check.
LengthCheck(c, type, len) ==
  LET sp == Top(c)
      t == Put(c, sp.d, Node(type, len, 0))
  IN IF type \notin {"ARRAY", "MAP"}
     THEN SetTop(c, [sp EXCEPT !.status = "PROCESS_DATA", !.type = type, !.len = len])
     ELSE IF len = 0 THEN PopStack(t)
     ELSE PushStack(SetTop(t, [sp EXCEPT !.status = IF type = "ARRAY" THEN "PROCESS_ARRAY"
                                                    ELSE "PROCESS_MAP",
                                         !.type = type, !.len = len, !.n = 0]),
                    Append(sp.d, 0))

\* The bytes of a number or a length, and the type of what follows, by the first byte.
Sizes == [b \in {202, 203} |-> [n |-> IF b = 202 THEN 4 ELSE 8, type |-> "DOUBLE"]]
         @@ [b \in 204 .. 211 |-> [n |-> 2^((b - 204) % 4), type |-> "INTEGER"]]
Lengths == [b \in 214 .. 223 |->
              [n |-> IF b % 2 = 0 THEN 2 ELSE 4,
               type |-> <<"DOUBLE", "INTEGER", "BLOB", "ARRAY", "MAP">>[(b - 214) \div 2 + 1]]]

\* The state INITIAL: the next byte tells what comes.
Initial(c) ==
  IF c.ofs >= Len(mem[cur]) THEN [c EXCEPT !.ret = "continue"]
  ELSE LET b == mem[cur][c.ofs + 1]
           t == [c EXCEPT !.ofs = @ + 1]
           wait(status, x) ==
             SetTop(t, [Top(t) EXCEPT !.status = status, !.len = x.n, !.type = x.type])
       IN IF b <= 127 THEN Set(t, Node("INTEGER", b, 0))
          ELSE IF b <= 143 THEN LengthCheck(t, "MAP", b - 128)
          ELSE IF b <= 159 THEN LengthCheck(t, "ARRAY", b - 144)
          ELSE IF b <= 191 THEN wait("PROCESS_DATA", [n |-> b - 160, type |-> "BLOB"])
          ELSE IF b = 192 THEN Set(t, Node("NIL", 0, 0))
          ELSE IF b \in {194, 195} THEN Set(t, Node("BOOLEAN", b - 194, 0))
          ELSE IF b \in DOMAIN Sizes THEN wait("PROCESS_DATA", Sizes[b])
          ELSE IF b \in DOMAIN Lengths THEN wait("PROCESS_LENGTH", Lengths[b])
          ELSE IF b >= 224 THEN Set(t, Node("INTEGER", b - 256, 0))
          ELSE [t EXCEPT !.ret = "error"]

\* The number in the n bytes from the cursor on; it fits into the last two.
Read(c, n) ==
  LET b == SubSeq(mem[cur], c.ofs + 1, c.ofs + n)
  IN b[n] + IF n > 1 THEN 256 * b[n - 1] ELSE 0

\* The bytes that are asked for have not all arrived.
Missing(c) == Top(c).len + c.ofs > Len(mem[cur])

\* One turn of the loop.
Turn(c) ==
  LET sp == Top(c)
      step == [sp EXCEPT !.n = @ + 1]
  IN CASE sp.status = "INITIAL" -> Initial(c)
       [] sp.status = "PROCESS_LENGTH" ->
            IF Missing(c) THEN [c EXCEPT !.ret = "continue"]
            ELSE LengthCheck([c EXCEPT !.ofs = @ + sp.len], sp.type, Read(c, sp.len))
       [] sp.status = "PROCESS_DATA" ->
            IF Missing(c) THEN [c EXCEPT !.ret = "continue"]
            ELSE IF sp.type = "BLOB"
            THEN Set([c EXCEPT !.ofs = @ + sp.len],
                     [Node("BLOB", sp.len, c.ofs) EXCEPT !.buf = cur])
            ELSE Set([c EXCEPT !.ofs = @ + sp.len], Node(sp.type, Read(c, sp.len), 0))
       [] sp.status = "PROCESS_ARRAY" ->
            IF step.n < sp.len THEN PushStack(SetTop(c, step), Append(sp.d, step.n))
            ELSE PopStack(c)
       [] sp.status = "PROCESS_MAP" ->
            PushStack(SetTop(c, [sp EXCEPT !.status = "PROCESS_MAP_VAL"]),
                      Append(sp.d, 2 * sp.n + 1))
       [] sp.status = "PROCESS_MAP_VAL" ->
            IF step.n < sp.len
            THEN PushStack(SetTop(c, [step EXCEPT !.status = "PROCESS_MAP"]),
                           Append(sp.d, 2 * step.n))
            ELSE PopStack(c)

RECURSIVE Parse(_)
Parse(c) == IF c.ret # "go" THEN c ELSE Parse(Turn(c))

----------------------------------------------------------------------------
(* Objects *)

\* The bytes of a blob, as they are now.
Blob(node) == SubSeq(mem[node.buf], node.ofs + 1, node.ofs + node.n)

RECURSIVE UnpackStack(_, _)
\* unpack_stack: the Lua value the node at d stands for.
UnpackStack(tree, d) ==
  LET x == tree[d]
  IN CASE x.type = "NIL" -> Nil
       [] x.type = "BOOLEAN" -> Bool(x.n)
       [] x.type \in {"DOUBLE", "INTEGER"} -> Num(x.n)
       [] x.type = "BLOB" -> Str(Blob(x))
       [] x.type = "MAP" -> Table([i \in 1 .. 2 * x.n |-> UnpackStack(tree, Append(d, i - 1))])
       [] x.type = "ARRAY" ->
            IF x.n = 2 /\ tree[Append(d, 0)].n = LUA_TFUNCTION /\ tree[Append(d, 1)].type = "BLOB"
            THEN Fn(Blob(tree[Append(d, 1)])) ELSE Nil

\* The message an object stands for; not a message, which no value is, if the
\* object is not made like one.
Message(tree) ==
  IF /\ tree[<<>>].type = "ARRAY" /\ tree[<<>>].n = 4
     /\ tree[<<0>>].type = "INTEGER" /\ tree[<<1>>].type = "INTEGER"
     /\ tree[<<3>>].type = "ARRAY"
  THEN [type |-> tree[<<0>>].n, id |-> tree[<<1>>].n, cmd |-> UnpackStack(tree, <<2>>),
        args |-> [i \in 1 .. tree[<<3>>].n |-> UnpackStack(tree, <<3, i - 1>>)]]
  ELSE Request(0, Nil, <<>>)

----------------------------------------------------------------------------

Init ==
  /\ sent = <<>> /\ intact = 0
  /\ out = PBuf(WriteRoom) /\ pipe = <<>> /\ cuts = 0
  /\ pc = "read"
  /\ mem = [b \in 1 .. Buffers |-> <<>>] /\ cnt = [b \in 1 .. Buffers |-> 0]
  /\ cur = 0 /\ m_ofs = 0 /\ m_limit = 0
  /\ m_ctx = NewContext
  /\ held = {} /\ delivered = <<>>

rvars == <<pc, mem, cnt, cur, m_ofs, m_limit, m_ctx, held, delivered>>

\* A message is packed behind what is in the buffer already.  Bound: everything
\* is written before the first read; what is not there yet when the receiver
\* reads is a cut.
Write(m) ==
  /\ Len(sent) < MaxSent /\ cur = 0
  /\ LET p == Reserve(out, WriteRoom)
         q == Pack(p, m)
     IN /\ out' = Ignored(q)
        /\ intact' = intact + IF intact = Len(sent) /\ q.bytes = p.bytes \o Format(m)
                              THEN 1 ELSE 0
  /\ sent' = Append(sent, m)
  /\ UNCHANGED <<pipe, cuts, rvars>>

\* The write buffer empties the buffer.
Flush ==
  /\ out.bytes # <<>>
  /\ pipe' = pipe \o out.bytes
  /\ out' = [out EXCEPT !.bytes = <<>>]
  /\ UNCHANGED <<sent, intact, cuts, rvars>>

\* unref of the buffers in the sequence s, and of ref another one for b unless
\* it is 0: a buffer without references is given back.
Unref(s, b) ==
  [x \in 1 .. Buffers |-> cnt[x] - Cardinality({i \in DOMAIN s : s[i] = x})
                          + IF x = b THEN 1 ELSE 0]

\* Slip: what was not parsed yet stays behind in the old buffer.
UnreadNone(bytes) == <<>>

\* What was not parsed yet moves to the new buffer.
Unread(bytes) == SubSeq(bytes, m_ofs + 1, Len(bytes))

\* read_and_parse: reserve makes another buffer when there is too little room
\* and moves to it what was not parsed yet; then k bytes are read.
ReadSome(k) ==
  /\ pc = "read" /\ out.bytes = <<>>
  /\ LET bytes == IF cur = 0 THEN <<>> ELSE mem[cur]
         unread == Unread(bytes)
         stay == m_limit - Len(bytes) >= MINIMUM_FREE_PBUF
         limit == IF stay THEN m_limit
                  ELSE Doubled(IF cur = 0 THEN INITIAL_BUFFER_SIZE ELSE m_limit,
                               MINIMUM_FREE_PBUF + Len(unread))
         room == limit - Len(IF stay THEN bytes ELSE unread)
         read == SubSeq(pipe, 1, k)
     IN /\ k <= room
        /\ IF k < Min({room, Len(pipe)})
           THEN cuts < MaxCuts /\ cuts' = cuts + 1 ELSE cuts' = cuts
        /\ IF stay
           THEN /\ mem' = [mem EXCEPT ![cur] = @ \o read]
                /\ UNCHANGED <<cur, cnt, m_ofs, m_limit>>
           ELSE \E b \in 1 .. Buffers :
                /\ cnt[b] = 0 /\ \A x \in 1 .. b - 1 : cnt[x] # 0
                /\ mem' = [mem EXCEPT ![b] = unread \o read]
                /\ cnt' = Unref(IF cur = 0 THEN <<>> ELSE <<cur>>, b)
                /\ cur' = b /\ m_ofs' = 0 /\ m_limit' = limit
  /\ pipe' = SubSeq(pipe, k + 1, Len(pipe))
  /\ pc' = "unpack"
  /\ UNCHANGED <<sent, intact, out, m_ctx, held, delivered>>

\* Slip: the buffers an object came with are counted when it is complete.
ReferLate(ret) ==
  /\ m_ctx.refs = <<>>
  /\ ret \in {"success", "extra"}

\* Whether unpack counts a reference to the buffer: with every call.
Refer(ret) == TRUE

\* One call of unpack from read_stream, and the fiber that gets the object.
Unpack ==
  /\ pc = "unpack"
  /\ LET c == Parse([stack |-> m_ctx.stack, tree |-> m_ctx.tree, ofs |-> m_ofs, ret |-> "go"])
         refs == IF Refer(c.ret) THEN Append(m_ctx.refs, cur) ELSE m_ctx.refs
     IN /\ m_ofs' = c.ofs
        /\ cnt' = IF Refer(c.ret) THEN [cnt EXCEPT ![cur] = @ + 1] ELSE cnt
        /\ IF c.ret \in {"success", "extra"}
           THEN /\ m_ctx' = NewContext
                /\ held' = held \union
                     {[nth |-> Len(delivered) + 1, tree |-> c.tree, refs |-> refs]}
                /\ delivered' = Append(delivered, Message(c.tree))
           ELSE /\ m_ctx' = [stack |-> c.stack, tree |-> c.tree, refs |-> refs]
                /\ UNCHANGED <<held, delivered>>
        /\ pc' = CASE c.ret = "extra" -> "unpack"
                   [] c.ret = "error" -> "closed"
                   [] OTHER -> "read"
  /\ UNCHANGED <<sent, intact, out, pipe, cuts, mem, cur, m_limit>>

\* object::fin: a fiber, on whatever thread, is done with the object.
Fin(o) ==
  /\ o \in held
  /\ held' = held \ {o}
  /\ cnt' = Unref(o.refs, 0)
  /\ UNCHANGED <<sent, intact, out, pipe, cuts, pc, mem, cur, m_ofs, m_limit, m_ctx, delivered>>

Next ==
  \/ \E m \in Messages : Write(m)
  \/ Flush
  \/ \E k \in 1 .. Len(pipe) : ReadSome(k)
  \/ Unpack
  \/ \E o \in held : Fin(o)

Spec == Init /\ [][Next]_vars

----------------------------------------------------------------------------

\* As long as messages are packed without a fault the fibers get them as they
\* were sent, each once and in order, however the stream was cut; all of them
\* when the last byte was read, unless one is nested too deeply.
RoundTrip ==
  /\ \A i \in 1 .. intact : i \in DOMAIN delivered => delivered[i] = sent[i]
  /\ intact = Len(sent) =>
       /\ Len(delivered) <= Len(sent)
       /\ pc = "closed" => \E m \in Range(sent) : TooDeep(m)
       /\ pc = "read" /\ pipe = <<>> /\ out.bytes = <<>> => Len(delivered) = Len(sent)

\* A buffer is referred to by the socket, by the parser for the object at work
\* and by the objects fibers work with, and given back with the last of them.
NoLeak ==
  \A b \in 1 .. Buffers :
    LET of(s) == Cardinality({i \in DOMAIN s : s[i] = b})
    IN cnt[b] = (IF cur = b THEN 1 ELSE 0) + of(m_ctx.refs)
                + FoldSet(LAMBDA o, n : n + of(o.refs), 0, held)

\* The strings of an object stay what they were until the fiber is done with
\* it, whatever the socket and the other fibers do with the buffers.
HeldIntact ==
  NoLeak /\ \A o \in held : Message(o.tree) = delivered[o.nth]
============================================================================
