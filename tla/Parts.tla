------------------------------- MODULE Parts -------------------------------
(***************************************************************************)
(* Parts of the program that do not interact, checked side by side: the    *)
(* generator of message ids, one http message, messages on a stream, the   *)
(* hash map and its values, the pools of objects, the watchers of an       *)
(* emitter, a listener with its connections, child processes, what the     *)
(* buffers of a socket hold, named timers, signals, the handshake of       *)
(* websocket connections, the objects, futures, names and coroutines of a  *)
(* Lua VM, calls over a connection that is made again, the text functions, *)
(* numbers on the wire, base64, and memory that the VMs share.  A behavior *)
(* is one of a single part; as only one part runs they share the variables, *)
(* which stand for those of it.                                            *)
(***************************************************************************)
EXTENDS Integers, Sequences, FiniteSets

CONSTANTS
  Callers, Half, MSGID_START, Pending,
  MaxBody, CHUNK_SIZE, Frame, Heading, MAX_HEADER, MaxMemory,
  MaxSent, MaxCuts, Buffers, WriteRoom, Grow,
  MINIMUM_FREE_PBUF, INITIAL_BUFFER_SIZE, UNPACK_STACK_DEPTH,
  Keys, Slots, Own,
  Entry, NIL, OneResult,
  Threads, MaxLive,
  Workers, First, Conns, MaxFailures,
  Fibers, Events, Together, Callbacks, MaxObjects, MaxCalls, MaxWalks, MaxReceivers,
  MaxOpens, MaxFd, MaxData, Addresses, MaxSends, MaxEntries, MaxCount,
  Signos, PipeSize, MaxRaised, MaxHooks, Fds, MaxName, NameRoom, MaxValues,
  Base, MaxOption, Functions, Tables, MaxChanges,
  IntBits, BigBits, MaxDigits, MaxText, MaxPrime,
  MaxLinks, MaxRetries,
  Storage, MaxBegun, Arity, MaxYields,
  Octet, MaxPlain, CHARS_PER_LINE, MaxBlocks

ASSUME EntryAssumption ==
  /\ NIL \notin Entry /\ IsFiniteSet(Entry)
  /\ OneResult \subseteq {"STOP", "KEEP", "IGNORE"}

ASSUME NobodyAssumption == NIL \notin Workers \union Conns /\ First \in Workers

ASSUME BoundAssumption ==
  {MaxObjects, MaxCalls, MaxWalks, MaxReceivers, MaxChanges, MaxOpens,
   MaxSends, MaxEntries, MaxCount, PipeSize, MaxRaised, MaxHooks,
   MaxName, NameRoom, MaxValues, MaxOption, MaxLinks,
   MaxRetries, MaxBegun, MaxYields, MaxPlain, MaxBlocks} \subseteq Nat \ {0}

ASSUME TogetherAssumption ==
  Together \subseteq SUBSET (Events \union {"close"}) \ {{}}

VARIABLES
  part,  \* the part that runs
  v1, v2, v3, v4, v5, v6, v7, v8, v9, v10, v11, v12, v13, v14, v15, v16  \* its variables

----------------------------------------------------------------------------
(* Messages that differ in what packing and parsing tell apart: bytes of a *)
(* string that look like values and code, an id of two bytes and a table,  *)
(* tables too deep for the parser, and a string longer than what the       *)
(* buffer grows by, of bytes that are no values.                           *)

Value(k, n, s) == [kind |-> k, n |-> n, s |-> s]
Nil == Value("nil", 0, <<>>)
Num(n) == Value("num", n, <<>>)
Str(s) == Value("str", 0, s)
Table(s) == Value("map", 0, s)
Call(id, arg) == [type |-> 0, id |-> id, cmd |-> Str(<<109>>), args |-> arg]

Messages == {
  Call(5, <<Num(7), Str(<<145, 192>>)>>),
  [type |-> 1, id |-> 300, cmd |-> Nil,
   args |-> <<Table(<<Str(<<107>>), Value("bool", 1, <<>>), Num(1), Nil>>)>>],
  Call(6, <<Value("fn", 0, <<1, 2, 3>>)>>),
  Call(7, <<Table(<<Num(1), Table(<<Num(1), Table(<<Num(1), Nil>>)>>)>>)>>),
  Call(8, <<Str([i \in 1 .. 33 |-> 193])>>)}

----------------------------------------------------------------------------
(* The parts, each with the variables that stand for its own *)

I == INSTANCE MsgId WITH m_msgid_seed <- v1, pc <- v2, age <- v3
H == INSTANCE Http WITH
  kind <- v1, content <- v2, step <- v3, m_curr <- v4, wire <- v5, sm <- v6
C == INSTANCE Codec WITH
  sent <- v1, intact <- v2, out <- v3, pipe <- v4, cuts <- v5, pc <- v6,
  mem <- v7, cnt <- v8, cur <- v9, m_ofs <- v10, m_limit <- v11,
  m_ctx <- v12, held <- v13, delivered <- v14
M == INSTANCE Map WITH
  m_used <- v1, m_free <- v2, m_max <- v3, m_use <- v4, elm <- v5,
  m_table <- v6, walk <- v7
A == INSTANCE Array WITH
  used <- v1, free <- v2, m_max <- v3, m_use <- v4, heap <- v5, object <- v6,
  hand <- v7, step <- v8, ended <- v9
L == INSTANCE WatchList WITH
  top <- v1, last <- v2, next <- v3, live <- v4, pc <- v5, cur <- v6,
  remain <- v7, tail <- v8, due <- v9, owed <- v10
S == INSTANCE Listener WITH
  solo <- v1, entry <- v2, m_flag <- v3, armed <- v4, watch <- v5, pc <- v6,
  cur <- v7, backlog <- v8, events <- v9, m_state <- v10, open <- v11,
  refs <- v12, owner <- v13, fib <- v14, told <- v15, failures <- v16
B == INSTANCE Binding WITH
  pc <- v1, mine <- v2, rest <- v3, left <- v4, entry <- v5, made <- v6,
  objects <- v7, initializing <- v8, bounds <- v9, list <- v10, refs <- v11,
  socket <- v12, finalized <- v13, watchers <- v14, cmds <- v15, walk <- v16
F == INSTANCE Future WITH
  stage <- v1, receiver <- v2, called <- v3, place <- v4, result <- v5,
  st <- v6, Waiters <- Fibers
X == INSTANCE Text WITH call <- v1
P == INSTANCE Process WITH
  tty <- v1, fds <- v2, table <- v3, st <- v4, child <- v5, kept <- v6,
  down <- v7, up <- v8, wrote <- v9, got <- v10, said <- v11, heard <- v12,
  refused <- v13
W == INSTANCE Writers WITH
  stream <- v1, dbf <- v2, curr <- v3, m_last_wcmd <- v4,
  p_last_writer <- v5, sent <- v6, wire <- v7
T == INSTANCE Timers WITH
  entry <- v1, named <- v2, vm <- v3, task <- v4, shared <- v5, broken <- v6,
  VMs <- Threads
G == INSTANCE Signals WITH
  m_signo <- v1, action <- v2, m_hmap <- v3, vm <- v4, cmds <- v5,
  watched <- v6, pipe <- v7, reader <- v8, raised <- v9, asked <- v10,
  owed <- v11, heard <- v12, told <- v13, broken <- v14, VMs <- Threads
U == INSTANCE Upgrade WITH
  conn <- v1, g_wsock <- v2, m_server_conn_flags <- v3, taken <- v4,
  got <- v5, gave <- v6
K == INSTANCE Store WITH
  kind <- v1, slot <- v2, table <- v3, count <- v4, removable <- v5,
  dict <- v6, clouded <- v7, destroyed <- v8, handed <- v9
V == INSTANCE Scalars WITH passed <- v1
N == INSTANCE Names WITH
  space <- v1, sym <- v2, own <- v3, member <- v4, bound <- v5, latest <- v6,
  changes <- v7, astray <- v8, asked <- v9
O == INSTANCE Session WITH
  mobile <- v1, m_state <- v2, closing <- v3, dbf <- v4, curr <- v5,
  m_flag <- v6, link <- v7, held <- v8, cmds <- v9, watch <- v10,
  wait <- v11, via <- v12, calls <- v13, got <- v14, ran <- v15,
  spoiled <- v16
Q == INSTANCE Coroutine WITH
  fiber <- v1, m_exec <- v2, thread <- v3, registry <- v4, kept <- v5,
  running <- v6, begun <- v7, yields <- v8, due <- v9, replies <- v10
E == INSTANCE Base64 WITH
  plain <- v1, coder <- v2, code <- v3, ended <- v4, decoder <- v5,
  text <- v6, ofs <- v7
Y == INSTANCE Shm WITH
  entry <- v1, m_p <- v2, m_lock <- v3, making <- v4, got <- v5,
  blocks <- v6, spoiled <- v7, Keys <- Signos

ASSUME WidthAssumption == I!SeedBounds

\* The variables a part has no use for.
Free16 == v16 = 0
Free15 == v15 = 0 /\ Free16
Free14 == v14 = 0 /\ Free15
Free13 == v13 = 0 /\ Free14
Free12 == v12 = 0 /\ Free13
Free11 == v11 = 0 /\ Free12
Free10 == v10 = 0 /\ Free11
Free9 == v9 = 0 /\ Free10
Free8 == v8 = 0 /\ Free9
Free7 == v7 = 0 /\ Free8
Free6 == v6 = 0 /\ Free7
Free5 == v5 = 0 /\ Free6
Free4 == v4 = 0 /\ Free5
Free3 == v3 = 0 /\ Free4
Free2 == v2 = 0 /\ Free3

Same16 == v16' = v16
Same15 == v15' = v15 /\ Same16
Same14 == v14' = v14 /\ Same15
Same13 == v13' = v13 /\ Same14
Same12 == v12' = v12 /\ Same13
Same11 == v11' = v11 /\ Same12
Same10 == v10' = v10 /\ Same11
Same9 == v9' = v9 /\ Same10
Same8 == v8' = v8 /\ Same9
Same7 == v7' = v7 /\ Same8
Same6 == v6' = v6 /\ Same7
Same5 == v5' = v5 /\ Same6
Same4 == v4' = v4 /\ Same5
Same3 == v3' = v3 /\ Same4
Same2 == v2' = v2 /\ Same3

AllInit ==
  \/ part = "msgid" /\ I!Init /\ Free4
  \/ part = "http" /\ H!Init /\ Free7
  \/ part = "codec" /\ C!Init /\ Free15
  \/ part = "map" /\ M!Init /\ Free8
  \/ part = "array" /\ A!Init /\ Free10
  \/ part = "watchers" /\ L!Init /\ Free11
  \/ part = "listener" /\ S!Init
  \/ part = "objects" /\ B!Init
  \/ part = "future" /\ F!Init /\ Free7
  \/ part = "text" /\ X!Init /\ Free2
  \/ part = "process" /\ P!Init /\ Free14
  \/ part = "writers" /\ W!Init /\ Free8
  \/ part = "timers" /\ T!Init /\ Free7
  \/ part = "signals" /\ G!Init /\ Free15
  \/ part = "upgrade" /\ U!Init /\ Free7
  \/ part = "store" /\ K!Init /\ Free10
  \/ part = "scalars" /\ V!Init /\ Free2
  \/ part = "names" /\ N!Init /\ Free10
  \/ part = "session" /\ O!Init
  \/ part = "coroutine" /\ Q!Init /\ Free11
  \/ part = "base64" /\ E!Init /\ Free8
  \/ part = "shm" /\ Y!Init /\ Free8

AllNext ==
  /\ part' = part
  /\ \/ part = "msgid" /\ I!Next /\ Same4
     \/ part = "http" /\ H!Next /\ Same7
     \/ part = "codec" /\ C!Next /\ Same15
     \/ part = "map" /\ M!Next /\ Same8
     \/ part = "array" /\ A!Next /\ Same10
     \/ part = "watchers" /\ L!Next /\ Same11
     \/ part = "listener" /\ S!Next
     \/ part = "objects" /\ B!Next
     \/ part = "future" /\ F!Next /\ Same7
     \/ part = "text" /\ X!Next /\ Same2
     \/ part = "process" /\ P!Next /\ Same14
     \/ part = "writers" /\ W!Next /\ Same8
     \/ part = "timers" /\ T!Next /\ Same7
     \/ part = "signals" /\ G!Next /\ Same15
     \/ part = "upgrade" /\ U!Next /\ Same7
     \/ part = "store" /\ K!Next /\ Same10
     \/ part = "scalars" /\ V!Next /\ Same2
     \/ part = "names" /\ N!Next /\ Same10
     \/ part = "session" /\ O!Next
     \/ part = "coroutine" /\ Q!Next /\ Same11
     \/ part = "base64" /\ E!Next /\ Same8
     \/ part = "shm" /\ Y!Next /\ Same8

vars == <<part, v1, v2, v3, v4, v5, v6, v7, v8, v9, v10, v11, v12, v13, v14, v15, v16>>

Spec == AllInit /\ [][AllNext]_vars

----------------------------------------------------------------------------
(* The properties, each stated in the module of its part *)

\* An id is not given out while a fiber waits for its answer: msgid.h, new_id.
FreshIds == [][part = "msgid" => I!Fresh]_vars

\* A http message read to its end is complete and has the body that was sent; a
\* child process gets what is sent to it and is heard in full; what is written to
\* a socket goes out once; a remote call runs once and ends with its own answer,
\* whatever connections come and go, and the answer is what its function returned:
\* http.h, send_body and the recv_ functions, popen.hpp, popen_read, wbuf.h,
\* sendraw, socket.h, open_client_conn, and lua.h, pack_response.
ReadAsSent ==
  /\ part = "http" => H!BodyAsSent
  /\ part = "process" => P!Talks
  /\ part = "writers" => W!GoesOutOnce
  /\ part = "session" => O!CallsOnce
  /\ part = "coroutine" => Q!AnswersItsOwn

\* Messages arrive as they were sent however the stream is cut, and so do the
\* bytes that are sent in base64: lua.cpp, mpak.h, socket.hpp and util.cpp.
RoundTrip ==
  /\ part = "codec" => C!RoundTrip
  /\ part = "base64" => E!DecodesBack

\* Buffers live as long as they are referred to, and an object's strings stay
\* what they were while a fiber works with it; the block that threads share by
\* its name stays while they have its address, and who writes to it is alone:
\* sbuf.h, refer, and misc.h, insert and lock.
HeldIntact ==
  /\ part = "codec" => C!HeldIntact
  /\ part = "shm" => Y!SharesOne

\* Insertions and removals change the place of their own key's value only: map.h.
ImplementsMap ==
  /\ part = "map" => M!NothingFound
  /\ [][part = "map" => M!KeepsItsPlaces]_vars

\* The pool counts its elements and a walk comes to each of them once: array.h,
\* count_usenum, and map.h, iterate_array.
WalkVisits == part = "map" => M!WalkVisits

\* The memory of a pool is accounted for, and so are the values of a map: array.h,
\* alloc_elm and free_elm, and map.h, erase and fin.
PoolWhole ==
  /\ part = "array" => A!PoolWhole
  /\ part = "store" => K!ValuesEnd

\* No watcher is lost or kept after it was freed: emittable.h, emit.
HoldsTheLive == part = "watchers" => L!HoldsTheLive

\* An accepted socket lives until it has ended and the VM gave it up, and a
\* connection to a child process has its own descriptors; a timer is there as
\* long as a VM has it, and no longer; a websocket connection has its object
\* while it is open and is established by the handshake it made; a fiber has its
\* own Lua thread, with nothing in it of those before: server.h,
\* listener::operator() and finalize, the references of ll/lua/emitter/base.hpp,
\* popen.hpp, popen_close, ws.hpp, ws_close and verify_handshake, and lua.cpp,
\* coroutine::init and fin.
Kept ==
  /\ part = "listener" => S!Kept
  /\ part = "process" => P!Owned
  /\ part = "timers" => T!HeldIsThere /\ T!ClosedIsGone
  /\ part = "upgrade" => U!Established
  /\ part = "coroutine" => Q!FindsItsOwn /\ Q!ThreadsKnown

\* The fibers of a VM share the one object of an address, those that wait for
\* it or for a future are told, an event marked as bound has its watcher, and a
\* run of callbacks calls each once; the VMs that bound a signal hear of it, and
\* a peer that waits for its admission gets it:
\* yue.lua, __ctor, bind, exec and future, and signalfd.h, process.
Notified ==
  /\ part = "objects" => B!OneObject /\ B!WillBeTold /\ B!MarkedIsBound /\ B!CalledOnce
  /\ part = "future" => F!ToldOnce
  /\ part = "signals" => G!SignalsTold
  /\ part = "listener" => S!Admitted

\* Texts are read as the numbers they denote, tables get the largest prime that
\* is not larger than what was asked for, urls and lines are taken apart into
\* what they were made of, names and keys find what they were given for, and numbers and
\* options are read as they were meant: util.cpp, util.h, yue.lua, map.h, mpak.h
\* and serializer.h.
Texts ==
  /\ part = "text" => X!Numbers /\ X!Strings
  /\ part = "names" => N!NamesMean
  /\ part = "store" => K!KeysMean
  /\ part = "scalars" => V!ReadsBack /\ V!OptionsMean
============================================================================
