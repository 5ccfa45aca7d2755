# Verification of yue

yue (the program of the repository `cyue`) is an event-driven runtime for Lua programs.  A process runs several worker threads, each with its own server, Lua virtual machine and set of fibers.  Objects that produce events, the *emitters* (sockets, timers, listeners, threads, signals, peers), are shared by all of them.  Almost everything is synchronised by compare-and-swap, by single-consumer queues and by the one-shot arming of descriptors in a poller; locks are rare and short.  This directory states what that synchronisation is meant to achieve, models it in TLA+, checks the models with TLC and proves some of it with TLAPS.

Paths are given from `src/src/` of the repository.

## 1. The system

| part | state it keeps | operations | modules |
|---|---|---|---|
| emitter command queue (`emittable.h`, `emittable.hpp`) | a list of commands under `m_mtx`, `m_owner`, `m_refc`, `F_DYING` | `add_command` from any thread, `process_commands` on the owner, `refer`/`unref` and the finalizer | `Emittable`, `CommandStream` |
| emitter watcher list (`emittable.h`) | the list `m_top .. m_last` of watch entries from a pool | `emit` (all watchers), `emit_one` (the next in turn), `add_watch_entry`, `remove_watch_entry` | `WatchList` |
| task queue of a server (`util/queue.h`) | chunks of `N` cells, a write position, a read limit, a free list | `mpush` by any thread, `pop` by the owner | `TaskQueue`, `Fifo` |
| fibers and their watchers (`fiber/`, `ll/lua/lua.hpp`, `emitter/base.hpp`) | a coroutine, the watcher it waits with, the bound watchers | create, wait, bind, emit, call, resume, finish, delete, timeout | `Fiber` |
| yielded fibers (`fiber/fabric.h`, `fiber/fiber.hpp`, `util/map.h`) | a map from message id to fiber, time limit and key | `yield`, `recv`, `resume_fiber`, `check_timeout` | `Yielded` |
| message ids (`util/msgid.h`) | one counter | `new_id` | `MsgId` |
| server and threads (`server.h`, `server.cpp`, `loop.cpp`, `util/thread.h`, `app.h`) | the thread table, pollers and pools of each group with their references | launch, start, run, kill, signal, join, cancel, `static_fin` | `Server` |
| timers (`handler/timerfd.h`, `timerfd.hpp`, `server.h`, `util/shalloc.h`) | a wheel of task lists; named timers with the count of the allocator and that of the emitter | `add_timer`, `remove_timer_reserve`, the timer event; create, open, close, finalize | `TimerWheel`, `Timers` |
| socket output (`net/wbuf.h`, `handler/wpoller.h`, `wpoller.hpp`, `loop.hpp`) | two buffers of chunks, `m_flag`, a mutex, a poller for writing | `sendraw`, `write_command`, `set_wbuf`, `write_poller::write`, `loop::write` | `Wbuf`, `Writers` |
| socket life cycle (`handler/socket.h`, `socket.hpp`, `handshake.h`, `loop.hpp`, `task.hpp`) | `m_state`, `m_fd`, `m_closed`, `F_CLOSING`; the handler, poller and handshake tables of the loop | open, handshake, read, `close`, timeout, `on_close`, connecting again | `Socket`, `Session` |
| listeners and server connections (`handler/listener.h`, `server.h`) | the table of listeners by address, the references of an accepted socket | listen, accept, activate, grant, end | `Listener` |
| websocket connections (`net/protocol/ws.hpp`, `net/http.h`) | `m_state`, a partial header, `m_read`, `m_mask_idx`, bytes behind the handshake, the table of connections by descriptor | handshake, `read_frame`, `write_frame`, `ws_close` | `WebSocket`, `Upgrade` |
| http (`net/http.h`) | `fsm` with its memory, `sender` with its body | send, `append`, `reset` | `Http` |
| child processes (`net/protocol/popen.hpp`) | a table of descriptors, two pipes each | connect, handshake, read, write, close | `Process` |
| signals (`handler/signalfd.h`, `server.h`) | a pipe, a table of handlers, an emitter for each signal | hook, handler, process, close | `Signals` |
| serializer and packing (`serializer/`, `ll/lua/lua.cpp`, `util/sbuf.h`) | buffers with references, the stack of the parser | pack, unpack, retry | `Codec`, `Scalars` |
| containers (`util/map.h`, `util/array.h`) | hash table, pool of elements | insert, find, erase, iterate, alloc, free | `Map`, `Store`, `Array` |
| objects of a Lua VM (`ll/lua/yue.lua`, `ll/lua/emitter/`) | objects by pointer, callback lists, flags, namespaces, futures | `__call`, `bind`, `unbind`, `close`, `__unref`, `on`, `sync`, `mobile_mode` | `Binding`, `Future`, `Names`, `Coroutine`, `Session` |
| text functions (`util/util.cpp`, `util/util.h`, `util/exlib/b64`) | none, or the step of a block | numbers, urls, comparison, hexadecimal digits, primes, base64 | `Text`, `Base64` |
| shared memory of Lua (`ll/lua/misc.h`) | a map of blocks with locks | insert, rdlock, wrlock, unlock, fetch | `Shm` |

How they interact.  A Lua program calls a method of an emitter; the binding turns that into a command (`add_command`) or an operation on the socket or wheel.  The thread that claims the emitter queues a `type_emit` task on the task queue of its own server; `server::poll` pops it and runs `process_commands`, which calls watchers.  A watcher belongs to a fiber that waits (it is resumed through the table of yielded fibers) or starts a new fiber.  `loop::poll` first runs the io tasks of its queue, then waits in the main poller; events lead to `on_read` of the handler, whose result decides whether the descriptor is armed again (`read_again`), read on by a task (`keep`), left alone (`nop`) or closed by a task (`destroy`).  What is read goes through the parser of the session, whose objects start fibers or resume the ones that called.  Data goes out through the write buffer: senders in any thread append, one chain of events and tasks writes.  The timer wheel drives the timeout checks of the fabric and the handshake map.

What is hard in this code:

* hand-over of an emitter between threads by `m_owner`, released before the list is looked at a last time;
* reference counts that reach zero in one thread while another is about to use the object, and objects with two counts;
* lists and maps that are walked without a lock, from pools that hand storage out again with its old contents;
* tables by descriptor, a number that the system gives out again at once;
* producers that spin at the end of a chunk while one of them swaps it;
* an answer and a timeout for the same call;
* events that were taken from the poller before another thread closes the descriptor;
* flags that say "somebody takes care of this", set by one thread and cleared by another;
* Lua code that yields between a check and what it does, or in the middle of a walk;
* streams that are cut anywhere, with parsers that go on where they stopped and buffers that are replaced under their objects;
* threads that start, kill and wait for each other while the process ends.

`PROJECT.json` lists forty places (`hazards`) where these bite, each with the properties that cover it.

## 2. The modules and the code they model

In every module an action is what a thread does between two points where another thread may see or change the shared state: one atomic instruction, one critical section, or code that touches private state only.  Where the code has a longer stretch without synchronisation on shared data (the copy of an erased map entry, `yielded::set`), it is cut at each access.  `PROJECT.json` (`map`) names the lines behind every definition.  Definitions marked "Slip" are deliberate mistakes, the ones a change of this code could plausibly make; each property is required to notice at least one.  They take no part in any specification.

The models are stacked: a module uses what another one shows and does not repeat it.  `WatchList` has no concurrency because `OneProcessor` of `Emittable` says that one thread at a time works on the list.  `Fiber` takes commands in order (`Emittable`), calls each watcher of a list once (`WatchList`), queues that are first in first out (`TaskQueue`), and one taker for each id (`Yielded`).  `Binding`, `Listener` and `Signals` rely on the order of commands; `Binding` on the bound watchers of `Fiber`.  `Store` has the keys and values of a map whose lists and walks are in `Map`, and `Array` the objects of pools whose links are in `Map`.  `Upgrade` and `Http` take whole what `WebSocket` cuts.  `Session` uses fresh ids (`MsgId`), one wake-up for each wait (`Yielded`) and events in order (`Emittable`).

### The emitter

**`Emittable`** (with its theorems).  `cmds` is the list `m_head .. m_tail`, `owner` is `m_owner`, `refc` is `m_refc`, `dying` is `F_DYING`, `fque[t]` the tasks of this emitter in the queue of thread t, `held[t]` the reference of t's VM, `add[t]` and `proc[t]` where t is in `add_command` and in the task.  A command is its submission number.  `Submit` is the critical section of `add_command`, `Claim`/`Push` its compare-and-swap and `push`; `StartTask`, `Take`, `Execute`/`Return` (a callback, in which the thread may submit again), `Release`, `Recheck`, `Reclaim`, `Repush` follow `process_commands` line by line, `FinishTask` is `UNREF_EMWRAP`.  `VmRefer`/`VmUnref` are the references of the Lua VMs.  **`CommandStream`** is what an emitter promises: commands come out in the order in which they went in, and all of them.

**`WatchList`**.  `next` are the links of the pool's entries (a freed entry keeps its link, as in the code), `top` and `last` the ends, `cur`, `remain`, `tail` the locals of `emit`/`emit_one`.  The result of a watcher is free, per call.  `Remove` may name any entry of the pool, also one that is gone.  `OneResult` is the set of results `emit_one` may get: `IGNORE` breaks the list (section 5) and is explored by `watchlist_ignore` only.

**`TaskQueue`** (proofs in `TaskQueueProofs`).  `Reserve` is the atomic add on the position, `Write`, `Publish` (the wait for the cells before), the last producer's `Cache`/`Allocate`, `Link`, `Advance`, `Switch`, `Reset`; `Retry` is the spinning of those who came beyond the end.  `Pop` and `PopLast` are the consumer, `Unchain` and `Free` the return of an emptied chunk.  It refines **`Fifo`**: the contents are the values published and not yet popped.

### Fibers

**`Fiber`** (proofs in `FiberProofs`).  A fiber waits with a watcher of its own (`m_w`), binds functions with watchers that name no fiber, emits and waits until the watchers were called, or calls a function on a worker; each time it enters the table of yielded fibers under a new id.  Whoever takes it out resumes it, in the middle of what it is doing on the fiber's worker and by a task elsewhere.  `Wait`, `Bind`, `Added`, `Emit`, `SyncEmit`, `Call`, `Finish` are what a running fiber may do; `StartProcess` .. `EndProcess` is the emitter; `Calling`, `CallStopped`, `CallKept`, `CallWaiting` a watcher's call with its reference; `Task*` the tasks of a worker; `Expire`/`Raise` the timeout.  In mode "solo" one worker has two fibers that may be deleted while they wait; in mode "multi" two workers have one each and a thread that owns no fiber times them out.  Not both: a deleted fiber stays in the table (section 6).

**`Yielded`** (proofs in `YieldedProofs`).  A slot is the storage of a map entry.  `Alloc` is the insertion under the lock, which hands the entry out with its fields cleared, so that its limit counts as passed; `SetFiber` and `SetLimit` are `yielded::set`, after the lock; `Ask` lets the others know the id; `Erase`/`Resume` an answer; `Look`, `EraseLate`, `Raise` the checker.  An erased slot may be handed out at once (the free list is last in, first out) or go back to the heap, where somebody else writes to it (`Scribble`), while a thread is still about to copy it.  Time is one bit per slot: its limit has passed or not.  Nothing keeps the threads apart; the history `torn` names the fibers to whose entry this happened, and what is promised of a fiber is promised of the others.  That an id is taken by one thread only (`OneTaker`) is promised in any case.

**`MsgId`** (with its theorem).  The counter with `2 * Half` numbers, 2^32 in the program; `Swap` is the compare-and-swap at `MSGID_LIMIT`, `Add` the increment.  `age` tells which ids may still be waited for.

### Threads and timers

**`Server`** (proofs in `ServerProofs`).  `Launch` inserts a name in the thread table and waits until the new worker has published its server (`Launched`, `LaunchTimeout`); the worker takes poller and resource of its group through `Insert`, `Open`, `Check` or `CheckFails`, and `Refer`, the main poller by compare-and-swap (`ReadMain`, `TakeMain`), runs its code, which may fail, and its tasks, and ends through `Leave`, `Drain`, `CloseQueue`, `Unref`, `CloseEntry`, `Erase`.  A shared entry is found by name (`named`), has a place (`st`) and a count (`refc`), and each of these changes in a step of its own as in `shalloc.h`: a worker may find an entry that another is making or tearing down, and may count it after the last reference was given back.  The history `raced` has the entries this happened to.  `Kill`, `Call` and `Launch` are what the code of a worker does to others; a call may come at any time until the queue of the called worker is torn down, and `tardy` counts those that come after `fin` has emptied it.  `Die` is SIGINT; `Join`, `Cancel`, `Stop`, `StaticFin` the end of the process.

**`TimerWheel`** (proofs in `TimerWheelProofs`).  `sched` is the ring with the cell behind it, `inserted` the list `m_sched_insert`, `taken` the list the working thread has unlinked.  `Trigger` is the event with the number of ticks, which count whether the wheel is busy or not, `ReadCount` the second read of the counter, `Enter` the compare-and-swap of `m_processed`, then one action for each thing that can happen to a task.  `Close` comes at any time: before the pick-up it changes the start index, whose word `m_removed` shares, and is forgotten, as in the code; afterwards it sets the bit.  A start of 0 that falls into the last slot goes to the cell behind the ring (`BehindWheel`).  `left` counts the ticks of the events until a task is due, independently of the arithmetic of slots and turns.  `MAX_COUNT` is 2^63 - 1 in the code, so setting the counters back is in the model (`Leave`) but out of reach of the run.

**`Timers`**.  A timer with a name has one count in the allocator, of creations, and one in the emitter, of VMs, poller and closing task; only the end of the second takes from the first.  `Alloc`, `Created`, `Initialize`, `Checked`, `GiveUp` are the creation by several VMs, `Activate` and `Again` the opening, `Close`, `CloseTask`, `End`, `Drop` the ends.

### Sockets

**`Wbuf`** (proofs in `WbufProofs`).  A buffer is the unsent payload (`data`) and its length (`last`) including the command byte and the header.  `Put`, `WriteAttach`, `Attach` are `sendraw` under the mutex; `WriteEvent`, `Task`, `Swap`, `Look`, `Write`, `WriteAgain`, `WriteBroken` the writing chain; `ChangeState`, `WriteDetach`, `SetWbuf` the part of `state_change(WAITACCEPT)` that arms it, in the order of the code.  `solo` chooses between a process with one worker, where data may be sent at any time, and one with several, where nothing is sent before the first write event is over (section 6).

**`Writers`**.  The same buffers with whole calls, but chunk by chunk: a stream appends to the chunk `p_last_writer` points to as long as its command is the last one, a datagram is a chunk of its own with its address; `Swap` exchanges the buffers, the writes may be short.

**`Socket`**.  One client socket over TCP that may be opened several times.  `Open*`, `Close*`, `Event`/`Lookup`/`TaskRead`, `Handshake`/`Accept`/`Read`/`Flags`/`Result`, `Timeout*` and `TaskClose` .. `Clear` follow the functions of those names; each access to a shared field is a step.  A worker about to follow a null pointer is stuck in the model, which is why the null pointers appear as guards (`ms_h[..]`, `ms_pl[..]`).  All workers share the main poller; EPOLL_CTL_DEL succeeds for any registered descriptor, as the comment at `handler/socket.hpp:44` says.  With `solo` there are up to `MaxOpens` opens and no timeouts; with several workers one open, and the handshake may time out.

**`Coroutine`**.  The Lua thread under a fiber.  `Exists` and `Emptied` are `coroutine::init`, `Destroy` and `Forget` the end of a fiber, after which the storage keeps a thread that ended well.  C and Lua pass values by position: `Go` pushes and `Resumed` is `lua_resume`, for a new function or for the call that yielded; `Response` takes what `pack_response` takes, from the third position on.  `Start`, `StartFails`, `Run`, `Resume`, `ResumeFails`, `Wake` are the ways in which a fiber begins or goes on, on top of the one that runs; `Yield`, `Return`, `Fail` what its code does; `Delete` is `yue_deletefiber`.  Each value carries the number of the fiber it is of, so that one left over from another fiber shows.

**`Session`**.  Remote calls over a client socket from end to end, with one worker on each side: `Call`, `CallConnect` and `Connected` are `__call`, which connects first if it has to; `Opens` is `open_client_conn`; `Write` and `Detach` the output, `ReadPart`, `ReadAnswer`, `ReadAccept` the parser with what it keeps between two reads; `EmitEstablish` and `EmitClosed` the events in their order, with the fibers that wait for them and `__post_close`, which may connect again; `Timeout` an answer that is late, in mobile mode with the close and its wait.  `End` may come at any time.  The server admits its peer (`Grant`), runs the requests it has in full (`Receive`) and answers over the connection a request came with (`Respond`).  A message goes through a stream in two units, so that a connection can end between them.

**`Listener`**.  Workers of a group listen to one address (`Listen` .. `Listening`), connections arrive, and the references of an accepted socket go from the event (`Accept`) to the task that gives it to a fiber (`Give`, `Start`), to the VM (`Resume`) and the table of handlers (`Activate`), until `End` and `Unref`.  `Grant`, `Wait`, `Woken` are the admission of a peer from Lua.

**`WebSocket`**.  The reader is a client or a server (`side`), the writer the other one.  A byte names its frame and its place in it, so that one that is lost, doubled, delivered as payload though it is header, or unmasked with the wrong byte of the key can be told.  `Open` .. `WriteClose` are the writer: both handshakes, and `write_frame` with its separate writes of header and payload.  `RecvHandshake` is `handshake` with `http::fsm::append`, which keeps what comes behind the empty line; `Call`, `Return`, `Fail` and `Hangup` are the socket around `ws_recv`; `ReadHeader` and `ReadPayload` are the two stages of the loop in `read_frame`, with one `read` each, and `HeaderLater`/`PayloadLater` the same reads when they return EAGAIN.  A read for a header goes as far as 14 bytes, and what is behind the header goes to the caller also when the frame is shorter or there is no room; `Judge` enters that in the history `spoiled`, the call goes on to its end, and there the module ends.  `Elsewhere` stands for the other sockets of the thread: errno, which decides what a -1 means, is theirs as well.

**`Upgrade`**.  The handshake's keys, versions and headers, and the object of a connection that is found by its descriptor: alloc, connect or accept, verification, close and reuse of the number.

**`Http`**.  One message from `sender` to `fsm`: a body behind its length, chunks with their lengths, or a handshake.  The receiver appends byte after byte (`AppendByte`) and looks for the end of a line after each.

**`Process`**.  Two connections to children: pipes, fork, the newline that makes a connection readable, which the reader discards, the command, reading, writing and closing, with the lowest free descriptor given out next.

**`Signals`**.  `Raise` is the handler, which writes to the pipe and waits while it is full; `Take`/`Empty` read it; `HookAction`/`HookTable`, `Bind` and `Close` are what VMs do.

### Data

**`Codec`**.  `Pack` packs a request or response into the writer's buffer: a value that does not fit makes the buffer grow and is pushed again.  `ReadSome` brings any part of the stream, `Unpack` runs the parser until it needs more (`Turn` is one turn of its loop, `PushStack`/`PopStack` its stack in `m_ctx`); strings stay in the buffer, which the object refers to (`Refer`), while `Reserve` gives the socket a new one; `Fin` is a fiber that gives an object up.

**`Base64`**.  The block functions of the b64 library as `encode` and `decode` use them, each cut anywhere.

**`Scalars`**.  Numbers of every width and sign, packed, read, and packed again; options in a received table, looked up by name with a default.

**`Map`**.  Elements are records of a pool with the links of the used list, the free list and the slots' chains; `Insert`, `Remove`, and one walk in steps (`Begin`, `Step`, `EraseCurrent`, `End`), each under the lock.  What it implements is a function from keys to places, of which an insertion or a removal changes one (`ImplementsMap`).  **`Store`** has the kinds of keys (numbers, names, memory) and values (objects, pointers) and the functions of `map` around them.  **`Array`** has the pools of objects, several threads and elements from the heap.

### The Lua side

**`Binding`**.  The fibers of one VM and the object of one address: `Get`/`Construct` (with the `bind` inside, which yields), `Await` for those who come meanwhile, callback lists with `Put`, `Pop` and their runs (`Step`, `Change`, `End`), `Ask`/`Bind`/`Unbind`, events, `Connect`, `CloseSocket`, `OnClose`, `Post`, `Unref`.  A new socket takes the place of the one before.

**`Shm`**: memory that VMs share by name: the entry made under the lock of the map (`Alloc`), its block and lock made after it (`InitBlock`, `InitLock`, `InitFails`), and what threads do with an entry that is there.

**`Future`**: receivers by `on` and `sync`, the result or failure of the function, the walk over the receivers.

**`Names`**: `fetcher`, assignment to namespaces, the parsing of method names and their modifiers, `super` and `is_a` of errors, `import`.

**`Text`**: each function as an operator, called on every small input and compared with what it is for: a number with the value of its digits, `parse_url` with the url put together, `prime` with the largest prime.

### `Parts`

The parts that need small instances are checked by one run.  `Parts` is their sum: the initial state chooses a part, and a behavior is one of this part.  They do not interact; the variables `v1` .. `v16` stand for the variables of whichever part runs, through `INSTANCE ... WITH`.  An invariant of `Parts` is the conjunction of what it says of the parts it is about.

## 3. The runs

Bounds are named constants; every run is exhaustive within them.

| run | instance | what it shows |
|---|---|---|
| `emittable` | 3 threads, 4 commands | `OneProcessor`, `NotStranded`, `InOrder`, `References`, `NoResurrection`, `ImplementsStream` |
| `fiber` | 2 workers; 1 worker with 2 fibers, 4 ids and deletion, or 2 workers with 1 fiber each, 3 ids and timeouts; 2 watchers, 2 entries, 2 commands, 1 task | `WakesItsWait`: a call is ended by its own event or timeout, once; `HoldsItsWatcher`: no watcher is lost or freed in use; `BoundHears`: what is emitted after `bind` returned is heard; `RemovesOwn`: an entry is taken off by its own watcher only |
| `taskqueue` | 2 producers, 3 chunks of 3 cells, 4 items | `OwnCells`, `PushReturns`, `ImplementsFifo` |
| `yielded` | 2 fibers, 2 answering threads, 2 slots, 2 ids | `OneWakeup`, `Resumed`: a fiber whose entry nobody disturbs is woken once, by its own answer or timeout; `OneTaker`: an id is taken by one of them, whatever happens to the storage |
| `server` | 3 workers, the first with or without the group of the others, calls to one of them, 1 task in a queue | `HeldLives`: shared entries are counted and open as long as somebody refers to them, unless they were found while they were made or torn down; `Drained`: what came before the queue was emptied is executed; `PoolsOutlive`: nothing is freed under a worker; `Stops`: after the signal everything ends |
| `timerwheel` | 2 tasks, 2 threads, 3 slots, starts 0 to 3, intervals 2 and 6, up to 2 ticks an event, 7 ticks, closes at any time | `InOneList`; `OnTime`: a task of the ring is called at its tick, ticks of events that find the wheel busy included, and not after it was closed behind its pick-up |
| `wbuf` | 2 workers, 2 senders, 4 units in messages of 1 or 2, EAGAIN, a peer that leaves | `InOrder`, `Flushed` |
| `socket` | 2 workers, 2 descriptors, 3 opens, 2 closes, 2 tasks in a queue | `Owned`, `Served`, `Closes` |
| `websocket` | 2 frames and a close, payloads of 3, 12 and 13 bytes with each form of the length, a buffer of 22, 2 cuts | `InOrder`, `Arrives`, both up to the first frame that is shorter than what was read behind its header or finds no room for that |
| `parts` | see below | `Texts`, `ReadAsSent`, `RoundTrip`, `HeldIntact`, `WalkVisits`, `HoldsTheLive`, `PoolWhole`, `Kept`, `Notified`, `FreshIds`, `ImplementsMap` |
| `watchlist_ignore` | 3 entries, IGNORE as well | violates `LastEndsList` |
| `wbuf_full` | 1 worker, 1 sender, 3 units, EAGAIN | violates `FlushedAfterAll` |

What the properties of `parts` say, part by part:

| property | of | states |
|---|---|---|
| `ReadAsSent` | `Http`, `Writers`, `Process`, `Session`, `Coroutine` | what the other side reads is what was sent: the body of a message, the bytes and datagrams of a socket, the words to and from a child; a remote call runs once at most and ends with its own answer, and one that waits has its message somewhere on the way unless its connection has ended; the answer has all the values that the function of the request returned, or its error, and nothing else |
| `RoundTrip`, `HeldIntact` | `Codec`, `Base64`, `Shm` | the objects that come out are the ones that were packed, in order, however the stream is cut; the strings of an object stay readable until it is given up, and every buffer is counted by those who use it; base64 gives back the bytes that went in, and its text fits the buffer; the threads that know a name share one block, and who writes to it is alone |
| `WalkVisits`, `ImplementsMap` | `Map` | a walk comes once to each element that is there all the time; an insertion or a removal changes the place of its own key only |
| `PoolWhole` | `Array`, `Store` | every element of a pool is in one place and counted; every value made is in the map, with the caller or destroyed, and destroyed once |
| `HoldsTheLive` | `WatchList` | the list has exactly the watchers that were added and neither stopped nor removed, in their order |
| `Kept` | `Listener`, `Process`, `Timers`, `Upgrade`, `Coroutine` | an accepted socket, a child's descriptors, a timer, a websocket object are there as long as somebody has them, are nobody else's, and go when the last one lets go; a fiber has a Lua thread of its own, its code finds its own function, arguments and answers in it, and a thread that was given up is out of the registry |
| `Notified` | `Binding`, `Future`, `Signals`, `Listener` | fibers that ask for one address share one object and hear that it is ready; an event marked as bound has its watcher; a run calls every callback once; receivers of a future get the result once; the VMs that bound a signal hear of it; a peer that waits for its admission is on the way to get it (one worker) |
| `FreshIds` | `MsgId` | no id is given out that is still waited for |
| `Texts` | `Text`, `Names`, `Store`, `Scalars` | numbers, urls, words and names mean what they say; a key finds what was stored under it; numbers come back as they were sent |

Why the bounds are enough for the questions asked:

* *emittable*: a stranded command needs one thread that releases, one that links and loses the compare-and-swap, and a third that could claim in between; the fourth command is the one that is submitted from inside a callback while others wait.
* *fiber*: two watchers and two entries are exhausted and used again at once, which is what makes a late event, a late removal or an answer find somebody else's; three or four ids are two waits of one fiber and the other's.
* *taskqueue*: a chunk of three cells has a cell whose producer waits for the cell before it and a last cell whose producer swaps the chunk.  Three chunks are one being read, one being written and one on the free list, so chunks are used again while producers still hold their address.
* *yielded*: two slots and two ids make a slot serve two ids, the second while a thread still works on it for the first; two answers and the checker may be at work on it at the same time.
* *server*: three workers are one that creates the entries of a group, one that joins it and one that leaves while the others do, in any order of their steps at an entry; each name is launched at most once.  Calls go to one of them, from both others, at any time until its queue is torn down: which worker is called makes no difference to those that are not.
* *timerwheel*: with three slots the delays 1, 2, 3 and 6 are less than a turn, exactly one and exactly two turns, and 0 is the next tick; seven ticks let the longest of them pass after the latest pick-up that matters, and one event may bring two ticks while another thread is at work.
* *wbuf*: four units give a partial write, a swap, a second buffer and a sender that arrives at each point of them.
* *socket*: two descriptors let a closed number be given out again while the other is in use; two closes are the least that can meet in two workers.
* *websocket*: real header lengths, so that the read of 14 bytes reaches behind all headers but the longest.  The thresholds of the length field are scaled down to make 3, 12 and 13 its three forms.  A payload of 3 is one that the read for its header passes, so that the next frame is taken for payload; one of 12 is the shortest that it never passes.  The buffer of 22 is filled in the middle of a second frame, also with less room than was read behind its header, and 24 bytes of room for the handshake hold a response with a frame and part of the next, or are exceeded.  Two cuts can fall on a header and a payload, or twice on one of them.
* *parts*, one by one:
  * watchers: the code tells apart the first, a middle and the last entry of both the list and what `emit` has kept; with four entries there are all of them, and the pool is exhausted.
  * ids: with five bits the numbers turn around several times, and all three threads can be between the two halves of `new_id` at the limit.  The assumption `MSGID_START + Pending + |Callers| < MSGID_LIMIT` is met by 1000 and 2^31 - 1 unless two thousand million fibers wait.
  * http: bodies of up to 4 bytes, each a line feed, a carriage return or another, in chunks of 3: a whole chunk, a short one and the one that ends in the limit.
  * codec: buffers of 8 bytes that grow by 4 and messages up to 16, with one cut anywhere, so that packing is torn and buffers are replaced inside a value; four buffers are all reached; tables are nested beyond the parser's depth.
  * map: the keys 1, 3, 5 are in one chain of two slots; one element of the pool's own, so two come from the heap.
  * array: two threads, one element of its own, four objects.
  * store: names of up to 3 characters with room for 2, three values, every hash function of two slots.
  * scalars: digits of 8 instead of 256, the numbers around every border of form or sign for each width, tables of one or two options.
  * listener: two workers or one, two connections, one failure.
  * process: eight descriptors, two connections, one other descriptor that may be closed between; two items said altogether.
  * writers: two addresses, three sends of one or two bytes.
  * timers: two VMs, two entries, counts to two.
  * session: two fibers, two calls, two connections, so that a request or an answer can be late, lost with its connection, kept for the next one or come after its call has timed out; in mobile mode one fiber calls.  The state ends where a stream is out of step (section 6).
  * coroutine: two storages and three fibers, so that each may be used again, below or above another that runs; none or two values, two yields.
  * base64: seven bytes, more than two lines of eight letters; shm: two threads, two names, three allocations.
  * signals: two VMs, two signals, a pipe of two, each raised twice, two hooks.
  * upgrade: two connections and two descriptors, so that a closed number comes back for the other one.
  * objects: two fibers, two events, two callbacks, two objects one after the other, three calls, one walk inside another; future: four receivers.
  * names: two functions, two tables, three assignments, method names of up to four words.
  * text: widths of 8 and 12 bits so that numbers of three characters overflow the first, texts of three or four characters, primes to 60.

Deadlock is checked where the system cannot stop (`fiber`, `wbuf`, `wbuf_full`, `watchlist_ignore`).  The other systems really stop when all bounded inputs are used up and everybody is idle, and their configurations say so.

Fairness, and what justifies it:

* *Emittable* and *TaskQueue*: a thread that is inside a call goes on, and `server::poll` drains its queue in a loop without end: weak fairness of each thread's own steps.  Nobody is obliged to submit.
* *Yielded*: threads go on, time passes, and the checker is a periodic timer task whose walk starts again every few seconds.  A slot may be freed and used again between two visits, so a visit is enabled again and again rather than continuously: strong fairness of `Look(s)` for each slot says that the walk comes to an entry that stays.
* *Server*: weak fairness of each thread that can go on (`Advance`); nobody has to launch, call or kill.
* *Wbuf*: weak fairness of senders and of the opener; strong fairness of a worker's output steps, because `loop::poll` runs all tasks before it waits and handles every event a wait returns, so reading cannot put writing off for ever.
* *Socket*: weak fairness of what a worker does inside a call and with its tasks.  Nothing is assumed of users, peers or the network.
* *WebSocket*: weak fairness of both programs; the bound on cuts means that bytes on the way arrive.
* All others: safety only.  That somebody will be told is stated there as an invariant: whoever waits has somebody who is on the way to tell.

## 4. What is proved

The modules `...Proofs`, `Emittable` and `MsgId` hold theorems that `tlapm` checks to the last leaf.  They speak of every value of the constants (any number of threads, workers, slots, chunks, tasks, any width of the ids), where a run speaks of one small instance.  What they assume are the named assumptions of the modules, which TLC evaluates in the runs, and the conditions in the second column.

| module | condition | theorems |
|---|---|---|
| `Emittable` | | `TypeCorrect` (`TypeOK`), `OneTask`, `MutualExclusion` (`OneProcessor`), `NoCommandStranded` (`NotStranded`), `ExecutedInOrder` (`InOrder`), `ReferencesAccounted`, `FinalizedWhenUnused`, `CountedReferences` (`References` and its halves), `StaysFinalized` (`NoResurrection`), `Refinement` (`CommandStream`, safety part) |
| `TaskQueueProofs` | a chunk has at least two cells | `Invariant`, `CellsAndChunks` (`OwnCells`), `Refinement` (`Fifo`, safety part) |
| `ServerProofs` | | `Invariant`, `UsedIsOpen` (`HeldLives`), `NothingLost` (`Drained`), `PoolsLast` (`PoolsOutlive`) |
| `FiberProofs` | | `Invariant`, `ResumedForItsCall` (`WakesItsWait`), `HoldsOne` (`HoldsItsWatcher`), `BoundIsHeard` (`BoundHears`), `RemovesNoOther` (`RemovesOwn`) |
| `YieldedProofs` | | `Invariant`, `TakenOnce` (`OneTaker`), `ResumedOnce` (`OneWakeup`) |
| `MsgId` | `SeedBounds`: fewer ids are waited for than there are between `MSGID_START` and `MSGID_LIMIT` | `IdsAreFresh` (`FreshIds`) |
| `TimerWheelProofs` | for `ListedOnce` only, that the counters are not set back in the time looked at (2^63 ticks) | `Invariant`, `CalledOnTime` (`OnTime`), `ListedOnce` (`InOneList`) |
| `WbufProofs` | | `Invariant`, `SentInOrder` (`InOrder`) |

Each proof has the same plan: an inductive invariant (`Ind` with `Order` and `Refs` in `Emittable`, `TypeOK` with `Lap` in `MsgId`, `IInv` elsewhere) as a conjunction of named parts, one lemma for each action (for each case of an action where it sends or does not send, finds or does not find), the step from the invariant to the property.  Before a part was proved TLC looked for states that refute it, in the instance of the run of its module.

**The emitter.**  `OwnerProcesses` is not inductive: a step out of a state where two tasks are queued breaks it.  What is inductive is `Ind`: the types, `Nesting` (`add_command` is entered outside the task or inside a callback only) and `OneTaskPerClaim`, which accounts for a claim from the compare-and-swap through `push` and the queue to the release.  `MutualExclusion` follows from it in one step.  `NotStranded` is inductive relative to `Ind`, since the only steps that could strand a command are the release, followed by the second look, and a lost compare-and-swap, which implies an owner.  For the order, `Order` numbers everything that is under way: what was executed, the batch of the (only) running thread and the list are consecutive pieces of the submissions.  For the references, `Refs` says that `m_refc` is the number of VMs, queued tasks and running tasks, that `dying` holds exactly when it is zero, and that whoever is in `add_command` got there through a reference that outlives the call; with `NotStranded` this gives `FinalizedUnused`.  The refinement uses all of them.

**The task queue.**  Which chunk comes after which is spread over the links, the write position and the producers that are about to link or to switch.  `IInv` says that there are two numberings, `o` of the chunks in the order in which they were linked and `s` of the free ones from the bottom of their stack, that fit the state: the reader is in chunk `o[r]`, the write position in `o[w]`, the chain ends in `o[l]`, and `l` is `w` or one more (`Chained`, `Stacked`, `Placed`).  The numberings are no variables; each step is shown to have some that fit afterwards, which for most are the same, for `Allocate`, `Link`, `Unchain` and `Free` have one place changed.  The rest of the invariant gives each producer its cell: those who have a number below `N` write their own (`Writing`, `Reserved`, `Apart`), one at most has the last cell (`OneLast`, `LastCell`) and is alone between there and the reset, and what is published has been written and is what the abstract queue contains, in order (`Written`, `Counted`, `Contents`).  Where the argument would count down along the chain it takes the least element of a set of numbers, since induction with an operator is out of reach.  `CellsAndChunks` and the refinement of `Fifo` are corollaries: `Publish` and `Pop` are the two abstract steps, all others stutter.

**The server.**  `HeldLives` compares a count with the number of workers that refer to an entry, and is not inductive: a worker that gives back a reference it does not have would break it.  `Holds` says at each point of a worker's life what it refers to, `OneHands` that the reference of `m_mainp` is given back by one worker.  Nothing keeps workers apart at an entry, so what is said of entries is said of those that nobody found at a wrong time: `Entries` and `Closers` say in which state such an entry is for who opens it or tears it down, `Alone` that nobody tears down what another opens.  Three steps can break that, an `Insert` that finds an entry which is torn down, a last `Unref` while another has found the entry, and a failed check; each is shown to enter its entry in `raced`, and all others to keep it.  So these three are the only ways to a shared entry that is closed under its users.  The count is counted by `Counted`, through the cardinality of the set of holders, with one worker more or less at each step.  `NothingLost` and `PoolsLast` have no such condition.

**The fibers.**  Each of the four properties speaks of one moment, the invariant of everything that leads there; it has three groups of parts.  The first is about ids.  Whoever may still ask for a fiber (a watcher, a command, a task, an endpoint, the checker) does so by an id, and the fiber may have gone on, or have been deleted with its storage used again.  `Own` says that an id a request carries is in the table for the call it was made with, or not at all; `CmdTable`, `CmdWatch`, `Owed` and `Sole` say the same of commands and watchers; `ResumeOwn`, `ResumeGone`, `ResumeFree`, `ResumeOnce`, `LateOwn`, `LateGone` that what was taken out of the table is under way to a fiber of this call, and alone.  With `Reached`, that a fiber in a call is in the table or on the way to be resumed, this is `WakesItsWait`.  The second group is about watchers: `Held`, `Entered`, `OneEntry`, `Whereabouts` and the three `...Apart` say where an entry is while it goes from the command to the list, to what `emit` took out of it and back, `Removing` that the commands which remove it come to no watcher in use.  The third, `HeardBound` to `HearRest`, follows an event from the return of a bind to its emit: the watchers it owes a call are in what is left of the list.  In both modes it is one invariant; `Alone...` are the parts that only one worker gives, `Home...` and `NoneDeleted` those that need that fibers are not deleted.  A handler that resumes somebody finds an entry of the table or not, and the fiber is on its own worker or on another one: there is a lemma for each of these cases.

**Yielded fibers.**  Two things are proved.  `TakenOnce` says that an id is in one place only, the table, the hands of a thread or a resume under way, however long threads are delayed and whatever happens to the storage: `Filled` and `Setting` say which keys slots have and when an entry is still clear, `Once` and `Posted` that an id that was taken is nowhere else.  `ResumedOnce` adds what a fiber may rely on if no entry of its was disturbed: a taker that has erased its entry and holds no lock any more still reads its name there (`Held`, `Looked`), and it waits in exactly one place (`Boxes`, `Told`).  `Own` and `Filling` say which slot is whose while it is filled after the lock.  That three steps suffice to disturb an entry (it is handed out again, given back to the heap, or found by the checker before it is complete) is what the induction shows: every other step keeps these parts for all fibers.

**Message ids.**  The ids go in a circle with a short cut: from the limit the seed goes back to the start, unless two threads came between the two halves of `new_id` and it runs past the limit and wraps.  `Lap` says how far each id that is waited for is behind the seed on the way the seed took (`Straight`, `Restarted`, `Wrapped`); an id that comes out is not among them because each way round is longer than the number of ids in use.

**The write buffer.**  That one thread at a time works on the buffer that is being sent is not inductive.  What is, is that there is one chain of them (`OneChain`): a sender that is about to arm the write poller, the armed poller, a queued task and a worker in `write_command` exclude each other, and `m_flag` is set while there is one of them.  With one worker a second chain may start from the opening, but then the two take turns in one thread (`OneTask`, `Alone`).  `Held` says why a buffer of length 0 has no data, though an attach that fails takes off the length and leaves the data: what it takes off is one byte short of the length of a first command, so that the length does not come to 0.  Then what is on the wire, in `curr` and in `next` are consecutive pieces of what was sent (`Sequence`).

**The timer wheel.**  The heart is `Due`: a task in slot s with m turns to go is called after as many ticks as s is away from the current slot, plus m turns, and the ticks of the events that the wheel has yet to work off count for it already.  The module starts with the arithmetic of that distance, a remainder of a difference that may be negative, for a ring of any size.  `Alone` (the compare-and-swap of `m_processed`), `Lists` and `Flags` say which list a task is in, who may move it, and that the removed bit is right wherever the wheel looks at it: a close before the pick-up leaves no trace, one after it stays.

Only model-checked are:

* liveness, and the fairness half of the refinements (`Resumed`, `PushReturns`, `Stops`, `Flushed`, `Closes`, `Arrives`, `ImplementsStream` and `ImplementsFifo` as stated with fairness): they need ENABLED, which is out of the prover's reach;
* what recursive definitions compute (`Codec`): induction over data is out of its reach as well;
* `ImplementsMap` of `Map`, and the invariants `InOrder` of `WebSocket`, `Owned` and `Served` of `Socket`, and those of the other parts of `Parts`.  They rest on where bytes are in a stream, or on the state of a connection in a dozen places, and an inductive invariant for them has not been written down.

## 5. Where the code disagrees with what it says

Two disagreements are runs of their own:

* `watchlist_ignore`: `emit_one` unlinks a watcher before it calls it.  If the result is IGNORE it goes on with the next one without linking the first again and while the second is still linked (`emittable.h:342-347`); a KEEP of the second then appends it behind itself.  `add_watch_entry` asserts that the last entry has no successor.
* `wbuf_full`: after EAGAIN nobody continues the output.  `loop::write` arms the socket in the main poller, whose events lead to `on_read`; `write_poller::write` adds a descriptor that is registered already, which fails.  `m_flag` stays set, so no sender attaches either.  `Flushed` holds as long as the kernel never refuses.

Six more are stated in the modules, as invariants that no run lists.  Each was found by TLC, within seconds, under the configuration of its module with the invariant in place of the properties; the models go on from there, and what the properties exclude is what these lead to (`torn`, `BehindWheel`, `spoiled`, `raced`, `tardy`):

* `NoEarlyTimeout` (`Yielded`): an entry is inserted with a time limit of 0, and `yielded::set` writes the id before the limit (`fiber/fabric.h:27-30`, `45`).  A checker that comes to it in between ends a call that has just begun.
* `InRing` (`TimerWheel`): a start of 0 that is picked up while the last slot is current is put at `m_sched[m_size]` (`handler/timerfd.h:211`) and never called; an assertion says that the index is below `m_size`.
* `HasRoom` (`WebSocket`): what was read behind a header is dropped when the caller has less room (`ws.hpp:364-368`), which an `ASSERT(false)` rules out.
* `SharedLives` (`Server`): a worker finds a resource and counts it after the lock of the map was given up (`util/shalloc.h:40-41`); who gives back the last reference in between closes and erases it under its new user.
* `PollerFound` (`Server`): `rpoller::check` (`loop.h:48-52`) returns INVALID_FD until the poller is open, and `alloc_and_init` (`map.h:746`) takes this for a failure: it gives up after 1 ms, erases the entry another thread is initializing, and the worker runs without a poller, though the comment says "5sec initialization timeout".
* `AllExecuted` (`Server`): a call that comes after `fin` has emptied the queue and before `m_fque.fin` (`server.h:380-391`) is never executed.

Others were met while modelling.  Where a model follows the code into them its property is stated for the rest; where it keeps away, the assumption is named in its header.

* **Short websocket frames.**  `read_frame` reads up to 14 bytes for a header and hands everything behind the header to the caller, even what belongs to the next frame (`ws.hpp:352-377`).  `m_read` is then greater than the length, the unsigned difference is enormous, and the rest of the connection counts as payload of that frame.  A payload of fewer than 12 bytes behind an unmasked header, or fewer than 8 behind a masked one, is enough if the next frame follows at once.  The model follows this (`spoiled`), and `InOrder` speaks of the bytes before.
* **Listeners.**  `server::listener::fd()` returns a bool (`server.h:63`), so the loop that waits for the descriptor never waits, and a second worker that finds the entry before `c->set(l)` follows a null pointer ("dead" in `Listener`).
* **Retries of the packer.**  When a string does not fit behind its own header, the retry pushes the header again (`lua.cpp:309`, `push_raw` in `mpak.h:619`), and the stream is corrupt from there on.  `RoundTrip` speaks of the messages before that.
* **Numbers.**  Negative numbers of one or two bytes, but for the small ones, are read as positive; integers of received data that are packed again are cut to 32 bits (`mpak.h:549-569`).
* **Chunked posts.**  `post` with `chunked` and a body that fits one chunk announces chunks and sends a plain body; without `chunked` a longer body is cut at CHUNK_SIZE and followed by line ends that are read as its rest.  `recv_bodylen` looks for ';' at the byte behind the last one, which is always 0, so chunk extensions are errors.  `Content-Length: 0` never finishes.
* **Text errors.**  `errors.new` cuts "Class@message" behind the "@", so that every error made from a text is of class `Error` (`yue.lua:103`).

## 6. Known limits of the code that shape the models

Situations in which the code goes wrong but which no line of the repository rules out or promises anything about, left out of the models by an assumption each of them names, or followed and excluded by a condition of a property.  They are listed so that nobody takes the properties for more than they are.

*Emitters, fibers, threads*

* Message ids (`util/msgid.h:25`): two threads at `MSGID_LIMIT - 1` may carry the counter beyond the limit; it then runs through all numbers, 0 (the invalid id) included.  Freshness still holds.
* Yielded fibers: a thread that is about to copy an erased entry may find it handed out again or given back (`map.h:691-694`, `array.h:312-321`), and then resumes another fiber, a fiber that does not wait, or nobody, while the right one sleeps on; `OneWakeup` and `Resumed` speak of the fibers this did not happen to (`torn`).  What a resume through a bad pointer does is not followed.
* Fibers: `fin` does not take the fiber out of the table, so a later timeout raises a fiber that is dead or used again (`fiber.hpp:70-83`; deletion is in mode "solo" only, which has no timeouts).  `finish_wait` is check-then-act and atomic in the model.  With two workers `m_watcher` may be written after the watcher was called and freed (`fiber.h:52`).  A `lua_yield` that fails after the wait ends a fiber with its watcher set.
* Task queue: when the next chunk cannot be allocated, every later push spins for ever (`queue.h:144`).
* Server: `thread.find` returns a thread that is still starting, and the call on it hits an ASSERT (`thread.hpp:43`); `m_server` dangles after a worker ended; workers launched after the join began are cancelled, so their `fin` does not run; a launch that times out erases the entry while its thread may run; a worker that found a resource while it was torn down waits for its result for ever (`Stops` says so); SIGINT needs a worker in the main group; a worker that failed keeps its references; `epoll::close` does not reset its descriptor; `loop::init` and `create_task` do not check what their pools return.
* Timer wheel: a close before the task is picked up is undone, because `m_removed` shares its word with the start index (`timerfd.hpp:91`), so the task is called all the same, one tick later if its start was even; `OnTime` says "closed" of the closes after that.  The read-modify-write of that word is not atomic; a handle that is closed after its task was freed and used again closes another task, which users must not do and the model does not; where the counters have 32 bits they are set back after 2^31 ticks, and a thread between its event and its turn then holds a goal that is far ahead.
* Named timers: a second VM's opening of a timer that is open fails with EALREADY, and its error path clears the handler table entry of the first (`loop.hpp:141`), so the timer is never closed and its events find nobody; two creations and one finalize leave the entry for ever; a creator whose initialization fails erases the entry others wait for; a VM that ends without close leaves the timer running; the fraction of the start time is dropped unless it carries (`timerfd.h:285-289`), so the first event comes up to a second early.  The holder of a timer that `find_timer` returned, which counts nothing, takes another creation's count with it at its end.
* Signals: `sig::close` clears `m_signo` first and then unhooks signal 0, which fails (`server.h:113-115`), so a hook is never taken back; one VM's close removes every VM's watchers, and a VM that bound after another's close cannot remove its own; a signal between `sigaction` and the table entry calls a null function (`signalfd.h:65-66`); the end of the pipe the handler writes to blocks, so the reader's own thread may wait for itself.
* File system events: neither `fiber::resume` (`fiber.hpp:226-257`) nor `start_fiber` (269-282) has a case for them, and `inotify::watch` (`fs.hpp:21-31`) takes a watch descriptor for a file descriptor.

*Sockets*

* Write buffer: data sent between the first write event and its handling starts a second chain (`handler/socket.h:176` arms the poller without setting `m_flag`); with several workers two of them then write one buffer.  A failed `attach` rolls back the header but not the command byte (`net/wbuf.h:375`), or leaves the size of an appended chunk.  After EAGAIN the chunks that are finished stay and are written again with 0 bytes, which for datagrams is an empty datagram and a failed ASSERT.  `iov::sent` never moves on when everything was written (`wbuf.h:166-178`); `writev` and `writef` have no caller.  For an object of more than 1024 bytes that makes the buffer move, the command's size is written to the old place (`wbuf.h:366`).
* Socket: a second CLOSE task in another worker follows the null pointer the first has left (`loop.hpp:151`); a handshake that times out leaves the descriptor open (`handshake.h:34`, `socket.h:336`); a socket that is opened again between the change to CLOSED and the close of its descriptor loses one (`socket.h:340`); a close between the reset of the flags and the change to HANDSHAKE leaves the state at HANDSHAKE (`socket.h:225-228`).
* Connecting again: nothing resets the parser and its buffer (`handler/socket.h:219-258`), so after half a message of the old connection the new stream is read out of step.  `wbuf::init` takes a buffer for new when it was invalidated (`net/wbuf.h:298`), which every close does: unsent data stays and goes out first over the new connection, from the middle of a message if part of it was sent, and the mutex is initialized again.  A fiber that was resumed by ESTABLISH after the connection has ended sends without one; `attach` fails, leaves the command and header in the buffer, and the next stream is corrupt.  The model follows these and ends there.
* Fibers that wait for ESTABLISH are not told when the connection fails, and `close_for_reconnection` of a socket that is down waits for an event that has passed; both end by their timeout only.  With several workers `__call` may find the socket connected meanwhile, and `connect` returns nothing, so the call returns nil (`emitter/socket.hpp:73`).
* An `open_client_conn` that fails sets `m_fd` to INVALID_FD before the change to CLOSED, which resets the write poller's entry of descriptor -1 (`handler/socket.h:252-256`).
* A close may detach a connection while another worker reads it (`handler/socket.hpp:37-46` says so); `Served` and `Closes` are therefore stated for one worker.
* Events: `loop::read` looks the handler up by the descriptor of an event that was taken before another worker closed it, and may find NULL (`loop.hpp:16-19`); the lookup of the model waits for a handler.
* Listener: a configuration that fails leaks the listener; an opening that fails leaves `m_flag` set, and the others take EALREADY for success and never try again; with several workers `grant` may wait for an event that came between its question and its wait (`Notified` says this of one); `tcp_accept` sets options on the descriptor that listens (`tcp.hpp:203`); a task with a stale serial number returns without dropping its reference (`task.hpp:21-24`); cached sockets are handed out without a reference (`server.h:612-647`).
* Websocket: a close frame or the end of the stream in the same call as data loses that data (`ws.hpp:440`); `ws_recv` reports an incomplete header by -1 with whatever errno an earlier call left, so the connection may be destroyed without need (`ws.hpp:786`).  A ping is answered again and again, because nothing leaves the state of its header; the program sends none.  `write_frame` closes the descriptor itself when a frame cannot be sent in full (`ws.hpp:543`), and the socket closes it again, perhaps when it is another's.  A response that cannot be sent waits for readability, then for its timeout.
* Child processes: failures of `fork` or `pipe` leak descriptors; the newline of the child gets out only if its stdout is line buffered, otherwise the first byte the program says is discarded; children inherit the writing ends of other connections, so one may not see its own closed.
* Http: `buffer_sendable::send` without a limit passes -1 as the size; short sends are not handled (a send writes all or fails in the model); bytes behind a finished message are dropped.  Only `ws.hpp` uses the `fsm` in the program, the rest is used by its tests.

*Data*

* Map: if somebody other than the callback removes the element a walk comes to next, the walk goes on along the free list or in freed memory (`map.h:235-246`; `WalkVisits` is conditional on that).  The copy or end of a value happens after the lock is dropped (`map.h:697-720`).  Names are cut at the room and two pointers more (`map.h:93-99`, `154-157`), which are written over the beginning of the value; a name that was cut is not found again and takes the place of a shorter one.  `find_and_erase` and assignment end no object; `find_and_erase_if` of a value that must stay copies it and returns true; erasing by value from a map of pointers uses no key (`map.h:565`).
* Pools: whether an element is in use is asked before the lock, so a double free is not prevented; no model frees twice.
* Codec: the results of `push_array_len` and `push_map_len` are ignored; `pack_function` reserves the length of the code only; `push_map` always returns an error; after an error of nesting the height of the stack stays at 16; the parts of datagrams of several peers share one parser.
* Options: a number that is given as a boolean reads the other bytes of the union (`mpak.h:152`).
* Text: a host that ends the url is left without its end (`util.cpp:447-452`); a missing path leaves its buffer as it was; ports are cut to 16 bits; the limit n of a comparison compares one more; `split` may write one entry too many; `parse_http_req_str` does not end on '&' without '='; `utf8_copy`, `chop` and `divide` have no caller and are left out.

*The Lua side*

* Objects: a `server::open` that fails while an object is activated leaves it half made, and whoever waits for it sleeps for ever; `bind` of several events marks all of them before the first is asked for, so another fiber's `bind` returns early; a callback list that is changed at or before the place where it runs skips or repeats a callback (`CalledOnce` is about the others); `F_FINALIZED` is never reset, so an entry that a watcher or a connection keeps alive counts as closed for good; a close of a socket that is down gives no event, and the object is never given up; an event executed after `__unref` finds no namespace (`lua.hpp:52`); a second close event fails in `__post_close`.
* `watcher::filter` compares as many bytes of an event's name as the emitted name has (`fiber.hpp`), so a prefix matches.
* Futures: `sync` on a future that is completed hangs its fiber; `run_unprotect` with a function that fails tells nobody; `__catch` lives in the global environment and is shared by all fibers of a VM.
* Coroutines: the timer of `util.suspend` keeps the address of the coroutine, so a fiber deleted while it sleeps, or what follows it in its storage, is resumed (`lua.hpp:21`; `Delete` leaves sleeping fibers out); the object of `yue.fiber` keeps the address of its fiber, so a second `run` starts one that has ended; an answer that cannot be unpacked ends the fiber with an error reply that cannot be packed, and its caller hears nothing before its timeout (`lua.cpp:459`); `FLAG_EXIT` is never set.
* Shared memory: a thread that comes while the entry of a name is made gets a null address, or takes a lock that is then made anew under it (`misc.h:208`); `fetch` pushes an address and returns no value (`misc.h:264`).
* Names: a dotted name that a namespace keeps stays what it was when the table changes; a name parsed loses "async_", "timed_" or "mcast_" anywhere in it; the modifiers of the outer part of a method name are lost; a modifier given twice is removed once.

Allocation failure is not modelled anywhere.

## 7. What is left

Not modelled, with the reason:

* file system events: what is reported never reaches a program (section 6);
* `ll/lua/future.h`: no file includes it;
* datagram sessions, peers, and cached sockets (`server.h`, `net/parking.h`): they share `on_read` and `on_close` with the connection of `Socket` (`open_peer` finds a peer by its address alone, and `__gc` of a peer's table never runs in Lua 5.1); a model of several peers behind one descriptor is the next one to write;
* the keepalive pings of the mobile mode (`yue.lua:783-805`);
* udp, multicast, addresses, files, clocks and processes of the system: thin layers over the kernel, whose answers are choices in the models;
* the registration of Lua modules, debugging output and dumps (`lua.cpp:540-1000`), build files, tests, vendored code (`util/exlib`: hashes, random numbers, SHA-1).

Next, the proofs, each from an inductive invariant that a run checks first: `Owned` of `Socket`; `PoolWhole` of `Array` and `ImplementsMap` of `Map`, with numberings of the links as in `TaskQueueProofs`.
