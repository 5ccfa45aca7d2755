----------------------------- MODULE FiberProofs -----------------------------
(***************************************************************************)
(* Theorems about the fibers and their watchers, for any number of         *)
(* workers, fibers, watchers, entries and ids, in both modes: a fiber is   *)
(* resumed for the call it is in and once, and never forgotten; it holds   *)
(* the watcher of its call; a bound function hears what is emitted after   *)
(* its bind returned; a late remove takes no other watcher off.            *)
(*                                                                         *)
(* The inductive invariant is IInv, a conjunction of named parts in three  *)
(* groups.  The first says who may still find an id: the table, the        *)
(* watchers, the commands, the tasks and the checker, all by the id of the *)
(* call a fiber is in (Own, Home, WaitIds .. LateGone).  The second says   *)
(* where the watchers and their entries are (Held .. Removing), the third  *)
(* which of the bound ones have heard an event (HeardBound .. HearRest).   *)
(* A handler that sends or runs, finds or does not find an entry of the    *)
(* table is split into a lemma for each case; "How the handlers come to    *)
(* these cases" puts them together again.                                  *)
(***************************************************************************)
EXTENDS Fiber, Integers, FiniteSetTheorems, TLAPS

Cmd == [type : {"add", "remove", "emit"}, e : Entry \union {NIL}, respond : Nat,
        hear : SUBSET Watchers]
Tsk == [type : {"resume", "start", "request", "response"},
        f : Fibers \union Workers \union {NIL}, id : Nat]
WatcherRec == [used : BOOLEAN, stopped : BOOLEAN, fb : Fibers \union {NIL},
            owner : Workers \union {NIL}, msgid : Nat, entry : Entry \union {NIL}]
ProcRec == [by : Workers \union {NIL}, at : {"next", "emit", "called"}, rest : SUBSET Entry,
         called : Entry \union {NIL}, respond : Nat, hear : SUBSET Watchers]

Types ==
  /\ acting \subseteq Workers
  /\ st \in [Fibers -> {"free", "run", "wait"}]
  /\ m_w \in [Fibers -> Watchers \union {NIL}]
  /\ m_endp \in [Fibers -> (Workers \X Nat) \union {NIL}]
  /\ watch \in [Watchers -> WatcherRec]
  /\ ent \in [Entry -> Watchers \union {NIL}]
  /\ cmds \in Seq(Cmd)
  /\ list \subseteq Entry
  /\ proc \in ProcRec
  /\ table \subseteq Nat \X Fibers
  /\ seed \in Nat
  /\ cur \in [Workers -> Fibers \union {NIL}]
  /\ add \in [Workers -> (Watchers \X Entry) \union {NIL}]
  /\ fque \in [Workers -> Seq(Tsk)]
  /\ late \in (Nat \X Fibers) \union {NIL}
  /\ waits \in [Fibers -> Nat]
  /\ heard \subseteq Watchers

\* An id that a request was made with: no entry of the table is left over from
\* it, and no watcher has it.
Own(i) ==
  /\ i <= seed
  /\ \A p \in table : p[1] = i => waits[p[2]] = i
  /\ \A w \in Watchers : watch[w].used => watch[w].msgid # i

\* Whoever waits with id i is a fiber of worker u.
Home(u, i) == i <= seed /\ \A p \in table : p[1] = i => Owner(p[2]) = u

\* In mode "solo" there is one worker and no checker.
Mode ==
  Solo => late = NIL /\ \E t \in Workers : acting = {t}

\* process_commands runs on a worker.
Inside ==
  proc.by # NIL => proc.by \in acting

\* What process_commands keeps between two commands and while it calls a watcher.
Stages ==
  /\ proc.at = "called" <=> proc.called # NIL
  /\ proc.at = "next" => proc.rest = {} /\ proc.respond = 0 /\ proc.hear = {}
  /\ proc.by = NIL => proc.at = "next"

\* What the commands carry.
Commands ==
  \A k \in 1 .. Len(cmds) :
    /\ cmds[k].type \in {"add", "remove"}
         => cmds[k].e \in Entry /\ cmds[k].hear = {}
    /\ cmds[k].type = "remove" => cmds[k].respond = 0

\* What the tasks carry.
Tasks ==
  \A t \in Workers : \A k \in 1 .. Len(fque[t]) :
    /\ fque[t][k].type = "resume" => fque[t][k].f \in Fibers
    /\ fque[t][k].type = "request" => fque[t][k].f \in Workers

\* A fiber runs on its own worker, and there is one at a time.
Running ==
  \A f \in Fibers : st[f] = "run" <=> cur[Owner(f)] = f

\* What runs on a worker is a fiber of its own.
OnOwner ==
  \A t \in Workers : cur[t] # NIL => Owner(cur[t]) = t /\ t \in acting

\* The fiber that runs is in a call while add_watcher has not returned.
Adding ==
  \A t \in Workers :
    /\ add[t] # NIL => cur[t] # NIL
    /\ cur[t] # NIL => (add[t] # NIL <=> waits[cur[t]] # 0)

\* A fiber that waits is in a call; free storage is in none.
InCall ==
  \A f \in Fibers : /\ st[f] = "wait" => waits[f] # 0
                    /\ st[f] = "free" => waits[f] = 0

\* The ids of the calls were given out.
WaitIds ==
  \A f \in Fibers : waits[f] <= seed

\* No two fibers are in a call with the same id.
WaitOnce ==
  \A f, g \in Fibers : waits[f] = waits[g] /\ waits[f] # 0 => f = g

\* The ids in the table were given out.
TableIds ==
  \A p \in table : p[1] \in 1 .. seed

\* The table has one entry for an id.
TableOnce ==
  \A p, q \in table : p[1] = q[1] => p = q

\* The ids of the watchers were given out.
WatchIds ==
  \A w \in Watchers : watch[w].used => watch[w].msgid \in 1 .. seed

\* No two watchers in use have the same id.
WatchOnce ==
  \A v, w \in Watchers :
    watch[v].used /\ watch[w].used /\ watch[v].msgid = watch[w].msgid => v = w

\* The command that is executed, the tasks and the endpoints answer to ids that
\* a call was made with.
AskedProc ==
  proc.respond # 0 => Own(proc.respond)
AskedTasks ==
  \A t \in Workers : \A k \in 1 .. Len(fque[t]) :
    fque[t][k].type \in {"request", "response"} => Own(fque[t][k].id)
AskedEnds ==
  \A f \in Fibers : st[f] # "free" /\ m_endp[f] # NIL => Own(m_endp[f][2])

\* A command that answers does so to an id that was given out,
CmdIds ==
  \A k \in 1 .. Len(cmds) : cmds[k].respond <= seed

\* for which the table has the fiber that waits with it,
CmdTable ==
  \A k \in 1 .. Len(cmds) : cmds[k].respond # 0 =>
    \A p \in table : p[1] = cmds[k].respond => waits[p[2]] = p[1]

\* and which no watcher has, except the bound one the command adds.
CmdWatch ==
  \A k \in 1 .. Len(cmds) : cmds[k].respond # 0 =>
    \A w \in Watchers : watch[w].used /\ watch[w].msgid = cmds[k].respond =>
      cmds[k].type = "add" /\ ent[cmds[k].e] = w /\ watch[w].fb = NIL

\* An entry of the table that nobody waits with any more is left to a watcher
\* that was stopped.
Owed ==
  \A p \in table : waits[p[2]] # p[1] =>
    \A w \in Watchers : watch[w].used /\ watch[w].fb # NIL /\ watch[w].msgid = p[1]
      => watch[w].stopped

\* A fiber in a call is in the table, or on its way to be resumed.
Reached ==
  \A f \in Fibers : waits[f] # 0 =>
    \/ \E p \in table : p[1] = waits[f] /\ p[2] = f
    \/ \E k \in 1 .. Len(fque[Owner(f)]) :
         fque[Owner(f)][k].type = "resume" /\ fque[Owner(f)][k].f = f
    \/ late # NIL /\ late[2] = f

\* A resume is in the queue of the owner, with the id the fiber waits with.
ResumeOwn ==
  \A t \in Workers : \A k \in 1 .. Len(fque[t]) : fque[t][k].type = "resume" =>
    /\ t = Owner(fque[t][k].f) /\ waits[fque[t][k].f] = fque[t][k].id
    /\ fque[t][k].id # 0

\* This id is out of the table.
ResumeGone ==
  \A t \in Workers : \A k \in 1 .. Len(fque[t]) : fque[t][k].type = "resume" =>
    \A p \in table : p[1] # fque[t][k].id

\* The fiber has no watcher then, and the checker is not about to resume it.
ResumeFree ==
  \A t \in Workers : \A k \in 1 .. Len(fque[t]) : fque[t][k].type = "resume" =>
    m_w[fque[t][k].f] = NIL /\ (late # NIL => late[2] # fque[t][k].f)

\* There is one resume for a fiber.
ResumeOnce ==
  \A t \in Workers : \A j, k \in 1 .. Len(fque[t]) :
    fque[t][j].type = "resume" /\ fque[t][k].type = "resume" /\ fque[t][j].f = fque[t][k].f => j = k

\* What the checker took out is of the call the fiber is in.
LateOwn ==
  late # NIL => waits[late[2]] = late[1] /\ late[1] # 0

\* It is out of the table.
LateGone ==
  late # NIL => \A p \in table : p[1] # late[1]

\* The watcher a fiber holds is its own, of its call, and not stopped.
Held ==
  \A f \in Fibers : m_w[f] # NIL =>
    /\ watch[m_w[f]].used /\ watch[m_w[f]].fb = f /\ ~watch[m_w[f]].stopped
    /\ watch[m_w[f]].msgid = waits[f]

\* A bound watcher is not stopped and its function runs on a worker.
Bound ==
  \A w \in Watchers : watch[w].used /\ watch[w].fb = NIL
    => ~watch[w].stopped /\ watch[w].owner \in Workers

\* A watcher in use has an entry.
Entered ==
  \A w \in Watchers : watch[w].used => \E e \in Entry : ent[e] = w

\* A fiber that waits with a watcher that is not stopped holds this one.
Sole ==
  \A w \in Watchers : watch[w].used /\ ~watch[w].stopped =>
    \A p \in table : p[1] = watch[w].msgid /\ p[2] = watch[w].fb => m_w[p[2]] = w

\* While a watcher is called no fiber holds it.
Called ==
  proc.called # NIL
    => watch[ent[proc.called]].fb # NIL /\ \A f \in Fibers : m_w[f] # ent[proc.called]

\* An entry in use is in the list, in what is left of it, called, or named by
\* the command that adds it.
Whereabouts ==
  \A e \in Entry : ent[e] # NIL <=>
    \/ e \in list \/ e \in proc.rest \/ e = proc.called
    \/ \E k \in 1 .. Len(cmds) : cmds[k].type = "add" /\ cmds[k].e = e

\* An entry in use has a watcher in use.
Occupied ==
  \A e \in Entry : ent[e] # NIL => watch[ent[e]].used

\* A watcher has one entry.
OneEntry ==
  \A d, e \in Entry : ent[d] = ent[e] /\ ent[d] # NIL => d = e

\* An entry is in one of these places.
ListApart ==
  \A e \in list : e \notin proc.rest /\ e # proc.called
CalledApart ==
  proc.called \notin proc.rest
CmdApart ==
  \A k \in 1 .. Len(cmds) : cmds[k].type = "add" =>
    cmds[k].e \notin list /\ cmds[k].e \notin proc.rest /\ cmds[k].e # proc.called

\* An entry is added by one command.
CmdOnce ==
  \A j, k \in 1 .. Len(cmds) :
    cmds[j].type = "add" /\ cmds[k].type = "add" /\ cmds[j].e = cmds[k].e => j = k

\* With one worker an entry is not freed before add_watcher returns,
AloneAdd ==
  \A t \in Workers : Solo /\ add[t] # NIL => ent[add[t][2]] = add[t][1]

\* a watcher knows its entry, unless add_watcher is about to return it,
AloneNamed ==
  \A w \in Watchers : Solo /\ watch[w].used =>
    \/ watch[w].entry # NIL /\ ent[watch[w].entry] = w
    \/ \E t \in Workers : add[t] # NIL /\ add[t][1] = w

\* and the watcher that add_watcher returns is that of the call.
AloneId ==
  \A t \in Workers : Solo /\ add[t] # NIL => watch[add[t][1]].msgid = waits[cur[t]]

\* A command that removes an entry meets no entry, a stopped watcher, or comes
\* before the command that adds the entry again.
Removing ==
  \A k \in 1 .. Len(cmds) : cmds[k].type = "remove" =>
    \/ ent[cmds[k].e] = NIL
    \/ watch[ent[cmds[k].e]].stopped
    \/ \E j \in 1 .. Len(cmds) :
         j > k /\ cmds[j].type = "add" /\ cmds[j].e = cmds[k].e

\* A bound watcher that heard of the return of its bind stays in use,
HeardBound ==
  \A w \in heard : watch[w].used /\ watch[w].fb = NIL

\* in the list or in what is left of it.
HeardPlaces ==
  \A e \in Entry : ent[e] \in heard => e \in list \/ e \in proc.rest

\* An event is to be heard by watchers whose bind returned,
HearCmds ==
  \A k \in 1 .. Len(cmds) : cmds[k].hear \subseteq heard

\* when it is emitted as well,
HearProc ==
  proc.hear \subseteq heard

\* and those that have not heard it are in what is left of the list.
HearRest ==
  \A e \in Entry : ent[e] \in proc.hear => e \in proc.rest

\* A call and its answer go to the worker of the fiber that made it.
HomeTasks ==
  \A t \in Workers : \A k \in 1 .. Len(fque[t]) :
    /\ fque[t][k].type = "request" => Home(fque[t][k].f, fque[t][k].id)
    /\ fque[t][k].type = "response" => Home(t, fque[t][k].id)
HomeEnds ==
  \A f \in Fibers : st[f] # "free" /\ m_endp[f] # NIL
    => Home(m_endp[f][1], m_endp[f][2])

\* With all workers no fiber leaves its entry behind.
NoneDeleted ==
  ~Solo => \A p \in table : waits[p[2]] = p[1]

\* The inductive invariant
IInv ==
  /\ Types /\ Mode /\ Inside /\ Stages /\ Commands /\ Tasks /\ Running
  /\ OnOwner /\ Adding /\ InCall /\ WaitIds /\ WaitOnce /\ TableIds
  /\ TableOnce /\ WatchIds /\ WatchOnce /\ AskedProc /\ AskedTasks
  /\ AskedEnds /\ CmdIds /\ CmdTable /\ CmdWatch /\ Owed /\ Reached
  /\ ResumeOwn /\ ResumeGone /\ ResumeFree /\ ResumeOnce /\ LateOwn
  /\ LateGone /\ Held /\ Bound /\ Entered /\ Sole /\ Called /\ Whereabouts
  /\ Occupied /\ OneEntry /\ ListApart /\ CalledApart /\ CmdApart /\ CmdOnce
  /\ AloneAdd /\ AloneNamed /\ AloneId /\ Removing /\ HeardBound
  /\ HeardPlaces /\ HearCmds /\ HearProc /\ HearRest /\ HomeTasks /\ HomeEnds
  /\ NoneDeleted

----------------------------------------------------------------------------
(* Sequences, and what the types say *)

\* A sequence with one element more at its end.
LEMMA Appended ==
  ASSUME NEW S, NEW s \in Seq(S), NEW c \in S, NEW r, r = Append(s, c)
  PROVE  /\ r \in Seq(S)
         /\ \A k \in 1 .. Len(r) : (k \in 1 .. Len(s) /\ r[k] = s[k])
              \/ (k = Len(s) + 1 /\ r[k] = c)
         /\ \A k \in 1 .. Len(s) : k \in 1 .. Len(r) /\ r[k] = s[k]
         /\ Len(s) + 1 \in 1 .. Len(r) /\ r[Len(s) + 1] = c /\ Len(s) \in Nat
  OBVIOUS

\* A sequence without its first element.
LEMMA Cut ==
  ASSUME NEW S, NEW s \in Seq(S), s # <<>>, NEW r, r = Tail(s)
  PROVE  /\ r \in Seq(S)
         /\ 1 \in 1 .. Len(s) /\ Head(s) = s[1] /\ Head(s) \in S
         /\ \A k \in 1 .. Len(r) : k + 1 \in 1 .. Len(s) /\ r[k] = s[k + 1]
         /\ \A k \in 1 .. Len(s) : k = 1
              \/ (k - 1 \in 1 .. Len(r) /\ r[k - 1] = s[k])
  OBVIOUS

\* fabric.hpp:102, fiber.hpp:258: one task more in the queue of one worker.
LEMMA Pushed ==
  ASSUME NEW q \in [Workers -> Seq(Tsk)], NEW u \in Workers, NEW x \in Tsk, NEW r,
         r = [q EXCEPT ![u] = Append(@, x)]
  PROVE  /\ r \in [Workers -> Seq(Tsk)]
         /\ \A v \in Workers : \A k \in 1 .. Len(r[v]) :
              (k \in 1 .. Len(q[v]) /\ r[v][k] = q[v][k])
                \/ (v = u /\ k = Len(q[u]) + 1 /\ r[v][k] = x)
         /\ \A v \in Workers : \A k \in 1 .. Len(q[v]) :
              k \in 1 .. Len(r[v]) /\ r[v][k] = q[v][k]
         /\ Len(q[u]) + 1 \in 1 .. Len(r[u]) /\ r[u][Len(q[u]) + 1] = x
         /\ Len(q[u]) \in Nat
<1>1. /\ r[u] = Append(q[u], x) /\ q[u] \in Seq(Tsk)
      /\ \A v \in Workers : v # u => r[v] = q[v]
  OBVIOUS
<1>2. /\ r[u] \in Seq(Tsk)
      /\ \A k \in 1 .. Len(r[u]) : (k \in 1 .. Len(q[u]) /\ r[u][k] = q[u][k])
           \/ (k = Len(q[u]) + 1 /\ r[u][k] = x)
      /\ \A k \in 1 .. Len(q[u]) : k \in 1 .. Len(r[u]) /\ r[u][k] = q[u][k]
      /\ Len(q[u]) + 1 \in 1 .. Len(r[u]) /\ r[u][Len(q[u]) + 1] = x
      /\ Len(q[u]) \in Nat
  BY <1>1, Appended
<1>3. r \in [Workers -> Seq(Tsk)]
  BY <1>1, <1>2
<1> QED
  BY <1>1, <1>2, <1>3

\* The first task of one worker's queue is taken out.
LEMMA Popped ==
  ASSUME NEW q \in [Workers -> Seq(Tsk)], NEW u \in Workers, q[u] # <<>>, NEW r,
         r = [q EXCEPT ![u] = Tail(@)]
  PROVE  /\ r \in [Workers -> Seq(Tsk)]
         /\ 1 \in 1 .. Len(q[u]) /\ Head(q[u]) = q[u][1] /\ Head(q[u]) \in Tsk
         /\ \A v \in Workers : v # u => r[v] = q[v]
         /\ \A k \in 1 .. Len(r[u]) :
              k + 1 \in 1 .. Len(q[u]) /\ r[u][k] = q[u][k + 1]
         /\ \A k \in 1 .. Len(q[u]) : k = 1
              \/ (k - 1 \in 1 .. Len(r[u]) /\ r[u][k - 1] = q[u][k])
<1>1. /\ r[u] = Tail(q[u]) /\ q[u] \in Seq(Tsk)
      /\ \A v \in Workers : v # u => r[v] = q[v]
  OBVIOUS
<1>2. /\ r[u] \in Seq(Tsk)
      /\ 1 \in 1 .. Len(q[u]) /\ Head(q[u]) = q[u][1] /\ Head(q[u]) \in Tsk
      /\ \A k \in 1 .. Len(r[u]) : k + 1 \in 1 .. Len(q[u]) /\ r[u][k] = q[u][k + 1]
      /\ \A k \in 1 .. Len(q[u]) : k = 1
           \/ (k - 1 \in 1 .. Len(r[u]) /\ r[u][k - 1] = q[u][k])
  BY <1>1, Cut
<1>3. r \in [Workers -> Seq(Tsk)]
  BY <1>1, <1>2
<1> QED
  BY <1>1, <1>2, <1>3

\* What the types say of each variable, in the form in which it is needed.
LEMMA TSeed == ASSUME IInv PROVE seed \in Nat
  BY DEF IInv, Types

\* So for the ids of the calls,
LEMMA TWaits == ASSUME IInv PROVE \A f \in Fibers : waits[f] \in Nat
  BY DEF IInv, Types

\* of the table,
LEMMA TTable ==
  ASSUME IInv
  PROVE  \A p \in table : p = <<p[1], p[2]>> /\ p[1] \in Nat /\ p[2] \in Fibers
  BY DEF IInv, Types

\* of the checker,
LEMMA TLate ==
  ASSUME IInv
  PROVE  late # NIL => late = <<late[1], late[2]>> /\ late[1] \in Nat /\ late[2] \in Fibers
  BY DEF IInv, Types

\* of the watchers,
LEMMA TWatch ==
  ASSUME IInv
  PROVE  \A w \in Watchers : watch[w].msgid \in Nat /\ watch[w].fb \in Fibers \union {NIL}
  BY DEF IInv, Types, WatcherRec

\* of the entries,
LEMMA TEnt == ASSUME IInv PROVE \A e \in Entry : ent[e] # NIL => ent[e] \in Watchers
  BY DEF IInv, Types

\* of m_w,
LEMMA TMw == ASSUME IInv PROVE \A f \in Fibers : m_w[f] # NIL => m_w[f] \in Watchers
  BY DEF IInv, Types

\* of the emitter that is processed,
LEMMA TProc ==
  ASSUME IInv
  PROVE  /\ (proc.called # NIL => proc.called \in Entry)
         /\ proc.rest \subseteq Entry /\ list \subseteq Entry
  BY DEF IInv, Types, ProcRec

\* of what hears an event,
LEMMA THear ==
  ASSUME IInv
  PROVE  proc.hear \subseteq Watchers /\ heard \subseteq Watchers
  BY DEF IInv, Types, ProcRec

\* of a watcher that is being added,
LEMMA TAdd ==
  ASSUME IInv
  PROVE  \A t \in Workers : add[t] # NIL =>
           /\ add[t] = <<add[t][1], add[t][2]>> /\ add[t][1] \in Watchers
           /\ add[t][2] \in Entry
  BY DEF IInv, Types

\* of the commands,
LEMMA TCmd ==
  ASSUME IInv
  PROVE  \A k \in 1 .. Len(cmds) : cmds[k].respond \in Nat /\ cmds[k] \in Cmd
<1>1. cmds \in Seq(Cmd)
  BY DEF IInv, Types
<1>2. \A c \in Cmd : c.respond \in Nat
  BY DEF Cmd
<1> QED
  BY <1>1, <1>2

\* of the fibers that run,
LEMMA TCur == ASSUME IInv PROVE \A t \in Workers : cur[t] # NIL => cur[t] \in Fibers
  BY DEF IInv, Types

\* of the tasks,
LEMMA TFque ==
  ASSUME IInv
  PROVE  \A t \in Workers : \A k \in 1 .. Len(fque[t]) : fque[t][k].id \in Nat /\ fque[t][k] \in Tsk
<1>1. \A t \in Workers : fque[t] \in Seq(Tsk)
  BY DEF IInv, Types
<1>2. \A x \in Tsk : x.id \in Nat
  BY DEF Tsk
<1> QED
  BY <1>1, <1>2

\* of the id an emit answers to,
LEMMA TResp == ASSUME IInv PROVE proc.respond \in Nat
  BY DEF IInv, Types, ProcRec

\* and of the ends.
LEMMA TEndp ==
  ASSUME IInv
  PROVE  \A f \in Fibers : m_endp[f] # NIL => m_endp[f][1] \in Workers /\ m_endp[f][2] \in Nat
<1>1. \A f \in Fibers : m_endp[f] # NIL => m_endp[f] \in Workers \X Nat
  BY DEF IInv, Types
<1> QED
  BY <1>1

\* NIL is none of the things it stands in for, and a fiber has an owner.
LEMMA Nobody ==
  /\ NIL \notin Workers /\ NIL \notin Watchers /\ NIL \notin Entry
  /\ NIL \notin Fibers
  /\ NIL \notin Watchers \X Entry /\ NIL \notin Nat \X Fibers
  /\ NIL \notin Workers \X Nat
  /\ \A f \in Fibers : Owner(f) \in Workers
  BY WorkerAssumption, FiberBounds DEF Fibers, Owner

\* A watcher stays one when its entry is set,
LEMMA SetEntry ==
  ASSUME NEW r \in WatcherRec, NEW e \in Entry
  PROVE  [r EXCEPT !.entry = e] \in WatcherRec
  BY DEF WatcherRec

\* or when it is stopped.
LEMMA SetStopped ==
  ASSUME NEW r \in WatcherRec
  PROVE  [r EXCEPT !.stopped = TRUE] \in WatcherRec
  BY DEF WatcherRec


\* In mode "solo" nobody else is between the two halves of an add_watcher.
LEMMA Alone ==
  ASSUME IInv, NEW t \in Workers, t \in acting, add[t] = NIL, Solo
  PROVE  \A v \in Workers : add[v] = NIL
<1> SUFFICES ASSUME NEW v \in Workers, add[v] # NIL PROVE FALSE
  OBVIOUS
<1>1. v \in acting /\ v # t
  BY DEF IInv, Adding, OnOwner
<1> QED
  BY <1>1 DEF IInv, Mode

----------------------------------------------------------------------------
(* What the code of a fiber does *)

\* fiber::wait: the fiber gets a watcher, an entry and an id of its own.
LEMMA WaitStep ==
  ASSUME IInv, NEW t \in Workers, Wait(t)
  PROVE  IInv'
<1>u. UNCHANGED <<acting, st, m_endp, list, proc, cur, fque, late, heard>>
  BY DEF Wait, pvars
<1>f. PICK f \in Fibers : f = cur[t]
  BY DEF IInv, Types, InBody, Wait
<1>n. PICK n \in Nat : n = seed + 1 /\ n # 0 /\ seed \in Nat
  BY DEF IInv, Types
<1>q. PICK q : q = <<n, f>>
  OBVIOUS
<1>pk. PICK w \in FreeWatchers, e \in FreeEntries :
       /\ watch' = [watch EXCEPT ![w] = [NoWatcher EXCEPT !.used = TRUE, !.fb = cur[t],
                                                          !.msgid = seed + 1]]
       /\ ent' = [ent EXCEPT ![e] = w]
       /\ m_w' = [m_w EXCEPT ![cur[t]] = w]
       /\ cmds' = Append(cmds, Command("add", e, 0, {}))
       /\ add' = [add EXCEPT ![t] = <<w, e>>]
  BY DEF Wait
<1>c. PICK c \in Cmd : c = Command("add", e, 0, {})
  BY <1>pk, <1>n, <1>f DEF Cmd, Command, FreeEntries
<1>g. /\ f \in Fibers /\ n \in Nat /\ n = seed + 1 /\ n # 0 /\ t \in acting
      /\ cur[t] = f /\ f # NIL /\ add[t] = NIL /\ Owner(f) = t /\ st[f] = "run"
      /\ waits[f] = 0 /\ m_w[f] = NIL
  BY <1>f, <1>n, Nobody DEF IInv, Types, Running, OnOwner, Adding, InCall, InBody,
     Wait
<1>h. /\ w \in Watchers /\ e \in Entry /\ w # NIL /\ e # NIL /\ ~watch[w].used
      /\ ent[e] = NIL
  BY <1>pk, Nobody DEF FreeWatchers, FreeEntries
<1>watch. /\ watch'[w].used /\ ~watch'[w].stopped /\ watch'[w].fb = f
          /\ watch'[w].owner = NIL /\ watch'[w].msgid = n /\ watch'[w].entry = NIL
          /\ \A v \in Watchers : v # w => watch'[v] = watch[v]
  BY <1>pk, <1>n, <1>f, <1>h DEF IInv, Types, NoWatcher
<1>ent. ent'[e] = w /\ (\A y \in Entry : y # e => ent'[y] = ent[y])
  BY <1>pk, <1>h DEF IInv, Types
<1>add. /\ add'[t] = <<w, e>> /\ (\A y \in Workers : y # t => add'[y] = add[y])
        /\ add'[t] # NIL /\ add'[t][1] = w /\ add'[t][2] = e
  BY <1>pk, <1>h, Nobody DEF IInv, Types
<1>cmds. /\ \A k \in 1 .. Len(cmds') : (k \in 1 .. Len(cmds) /\ cmds'[k] = cmds[k])
              \/ (k = Len(cmds) + 1 /\ cmds'[k] = c)
         /\ \A k \in 1 .. Len(cmds) : k \in 1 .. Len(cmds') /\ cmds'[k] = cmds[k]
         /\ Len(cmds) + 1 \in 1 .. Len(cmds') /\ cmds'[Len(cmds) + 1] = c
         /\ Len(cmds) \in Nat
         /\ cmds' \in Seq(Cmd)
         /\ c.type = "add" /\ c.e = e /\ c.respond = 0 /\ c.hear = {}
  BY <1>pk, <1>c, <1>n, Appended DEF IInv, Types, Command
<1>c1. \A k \in 1 .. Len(cmds') : (k \in 1 .. Len(cmds) /\ cmds'[k] = cmds[k])
         \/ (k = Len(cmds) + 1 /\ cmds'[k] = c)
  BY <1>cmds
<1>c2. \A k \in 1 .. Len(cmds) : k \in 1 .. Len(cmds') /\ cmds'[k] = cmds[k]
  BY <1>cmds
<1>c3. Len(cmds) + 1 \in 1 .. Len(cmds') /\ cmds'[Len(cmds) + 1] = c
  BY <1>cmds
<1>c4. /\ c.type = "add" /\ c.e = e /\ c.respond = 0 /\ c.hear = {}
       /\ Len(cmds) \in Nat
  BY <1>cmds
<1>seed. seed' = n /\ n = seed + 1 /\ seed \in Nat
  BY <1>n DEF Wait
<1>table. table' = table \union {q} /\ q[1] = n /\ q[2] = f
  BY <1>q, <1>n, <1>f DEF Wait
<1>waits. /\ waits'[f] = n /\ (\A y \in Fibers : y # f => waits'[y] = waits[y])
          /\ n # 0
  BY <1>n, <1>f DEF IInv, Types, Wait
<1>new1. \A g \in Fibers : waits[g] # n
  BY <1>n, TWaits DEF IInv, WaitIds
<1>new2. \A p \in table : p[1] # n
  BY <1>n, TTable DEF IInv, TableIds
<1>new3. \A v \in Watchers : watch[v].used => watch[v].msgid # n
  BY <1>n, TWatch DEF IInv, WatchIds
<1>new4. \A k \in 1 .. Len(cmds) : cmds[k].respond # n
  BY <1>n, TCmd DEF IInv, CmdIds
<1>new5. \A v \in Workers : \A k \in 1 .. Len(fque[v]) : fque[v][k].type = "resume"
           => fque[v][k].id # n
  BY <1>new1 DEF IInv, ResumeOwn, Tasks
<1>new6. late # NIL => late[1] # n
  BY <1>new1, TLate DEF IInv, LateOwn
<1>e1. e \notin list /\ e \notin proc.rest /\ e # proc.called
  BY <1>h DEF IInv, Whereabouts
<1>e2. \A k \in 1 .. Len(cmds) : cmds[k].type = "add" => cmds[k].e # e
  BY <1>h DEF IInv, Whereabouts
<1>e3. \A d \in Entry : ent[d] # w
  BY <1>h DEF IInv, Occupied
<1>e4. w \notin heard /\ w \notin proc.hear
  BY <1>h DEF IInv, HeardBound, HearProc
<1>e5. \A g \in Fibers : m_w[g] # w
  BY <1>h DEF IInv, Held
<1>mw. m_w'[f] = w /\ (\A y \in Fibers : y # f => m_w'[y] = m_w[y])
  BY <1>pk, <1>f DEF IInv, Types
<1>0. Types'
  <2>1. m_w' \in [Fibers -> Watchers \union {NIL}]
    BY <1>pk, <1>h, <1>f DEF IInv, Types
  <2>2. watch' \in [Watchers -> WatcherRec]
    BY <1>pk, <1>h, <1>n, <1>f, <1>g DEF IInv, Types, WatcherRec, NoWatcher
  <2>3. ent' \in [Entry -> Watchers \union {NIL}]
    BY <1>pk, <1>h DEF IInv, Types
  <2>4. cmds' \in Seq(Cmd)
    BY <1>cmds
  <2>5. table' \subseteq Nat \X Fibers
    BY <1>table, <1>q, <1>n, <1>f DEF IInv, Types
  <2>6. seed' \in Nat
    BY <1>seed, <1>n
  <2>7. add' \in [Workers -> (Watchers \X Entry) \union {NIL}]
    BY <1>pk, <1>h DEF IInv, Types
  <2>8. waits' \in [Fibers -> Nat]
    BY <1>n, <1>f DEF IInv, Types, Wait
  <2> QED
    BY <2>1, <2>2, <2>3, <2>4, <2>5, <2>6, <2>7, <2>8, <1>u DEF IInv, Types
<1>own. \A i \in Nat : Own(i) => Own(i)'
  BY <1>u, TWaits, TTable, TWatch, TSeed, <1>g, <1>h, <1>waits, <1>new1, <1>table,
     <1>new2, <1>watch, <1>new3, <1>seed, SMTT(30) DEF IInv, WaitIds, WaitOnce, TableIds,
     WatchIds, TableOnce, Own
<1>home. \A v \in Workers, i \in Nat : Home(v, i) => Home(v, i)'
  BY <1>u, TTable, TSeed, <1>g, <1>h, <1>table, <1>new2, <1>seed DEF IInv, Home
<1>1. Commands'
  BY <1>c4, <1>c1, <1>h DEF IInv, Commands
<1>2. Adding'
  <2> SUFFICES ASSUME NEW v \in Workers
               PROVE  /\ add'[v] # NIL => cur'[v] # NIL
                      /\ cur'[v] # NIL => (add'[v] # NIL <=> waits'[cur'[v]] # 0)
    BY DEF Adding
  <2>1. CASE v = t
    BY <2>1, <1>u, <1>g, <1>add, <1>waits
  <2>2. CASE v # t
    <3>1. cur[v] # f /\ (cur[v] # NIL => cur[v] \in Fibers)
      BY <2>2, <1>g, TCur DEF IInv, OnOwner
    <3> QED
      BY <2>2, <3>1, <1>u, <1>add, <1>waits DEF IInv, Adding
  <2> QED
    BY <2>1, <2>2
<1>3. InCall'
  BY <1>u, <1>waits, <1>g DEF IInv, InCall
<1>4. WaitIds'
  BY <1>seed, <1>waits, TWaits DEF IInv, WaitIds
<1>5. WaitOnce'
  BY <1>waits, <1>new1 DEF IInv, WaitOnce
<1>6. TableIds'
  BY <1>table, <1>seed DEF IInv, TableIds
<1>7. TableOnce'
  BY <1>table, <1>new2 DEF IInv, TableOnce
<1>8. WatchIds'
  BY <1>watch, <1>seed DEF IInv, WatchIds
<1>9. WatchOnce'
  BY <1>watch, <1>new3 DEF IInv, WatchOnce
<1>10. AskedProc'
  BY <1>u, <1>own, TResp DEF IInv, AskedProc
<1>11. AskedTasks'
  BY <1>u, <1>own, TFque DEF IInv, AskedTasks
<1>12. AskedEnds'
  BY <1>u, <1>own, TEndp DEF IInv, AskedEnds
<1>13. CmdIds'
  BY <1>c4, <1>c1, <1>seed, TCmd DEF IInv, CmdIds
<1>14. CmdTable'
  BY <1>c4, <1>c1, <1>table, <1>waits, <1>g, TTable DEF IInv, CmdTable
<1>15. CmdWatch'
  BY <1>u, <1>watch, <1>ent, <1>c4, <1>new4, <1>e2, <1>c1 DEF IInv, CmdWatch,
     Commands
<1>16. Owed'
  BY <1>watch, <1>table, <1>new2, <1>waits, <1>g, TTable DEF IInv, Owed,
     TableIds
<1>17. Reached'
  BY <1>u, <1>table, <1>waits DEF IInv, Reached
<1>18. ResumeOwn'
  BY <1>u, <1>waits, <1>g DEF IInv, ResumeOwn, Tasks
<1>19. ResumeGone'
  BY <1>u, <1>table, <1>new5 DEF IInv, ResumeGone
<1>20. ResumeFree'
  BY <1>u, <1>mw, <1>g DEF IInv, ResumeFree, Tasks, ResumeOwn
<1>21. LateOwn'
  BY <1>u, <1>waits, <1>g, TLate DEF IInv, LateOwn
<1>22. LateGone'
  BY <1>u, <1>table, <1>new6 DEF IInv, LateGone
<1>23. Held'
  BY <1>e5, <1>mw, <1>watch, <1>waits, TMw DEF IInv, Held
<1>24. Bound'
  BY <1>watch, <1>g DEF IInv, Bound
<1>25. Entered'
  BY <1>watch, <1>ent, <1>h, Nobody DEF IInv, Entered
<1>26. Sole'
  BY <1>mw, <1>watch, <1>new3, <1>table, <1>g, TTable, Nobody DEF IInv, Sole
<1>27. Called'
  BY <1>u, <1>mw, <1>watch, <1>ent, <1>e3, <1>e1, <1>g, TEnt, TProc DEF IInv,
     Called
<1>28. Whereabouts'
  BY <1>u, <1>ent, <1>e3, <1>c4, <1>e1, <1>e2, <1>c1, <1>c3 DEF IInv,
     Whereabouts
<1>29. Occupied'
  BY <1>watch, <1>ent, TEnt DEF IInv, Occupied
<1>30. OneEntry'
  BY <1>ent, <1>e3 DEF IInv, OneEntry
<1>31. CmdApart'
  BY <1>u, <1>c4, <1>e1, <1>c1 DEF IInv, CmdApart
<1>32. CmdOnce'
  BY <1>c4, <1>e2, <1>c1 DEF IInv, CmdOnce
<1>33. AloneAdd'
  BY <1>u, <1>ent, <1>add, <1>h, TAdd, Nobody DEF IInv, AloneAdd, Solo
<1>34. AloneNamed'
  <2> SUFFICES ASSUME NEW v \in Watchers, Solo, watch'[v].used
               PROVE  \/ watch'[v].entry # NIL /\ ent'[watch'[v].entry] = v
                      \/ \E x \in Workers : add'[x] # NIL /\ add'[x][1] = v
    BY <1>u DEF AloneNamed, Solo
  <2>1. CASE v = w
    BY <2>1, <1>add, <1>g
  <2>2. CASE v # w
    <3>1. /\ watch[v].used /\ watch'[v] = watch[v]
          /\ watch[v].entry \in Entry \union {NIL}
      BY <2>2, <1>watch DEF IInv, Types, WatcherRec
    <3>2. \/ watch[v].entry # NIL /\ ent[watch[v].entry] = v
          \/ \E x \in Workers : add[x] # NIL /\ add[x][1] = v
      BY <3>1 DEF IInv, AloneNamed
    <3>3. ASSUME NEW x \in Workers, add[x] # NIL PROVE add'[x] = add[x]
      BY <3>3, <1>g, <1>add
    <3> QED
      BY <3>1, <3>2, <3>3, <1>ent, <1>h, Nobody
  <2> QED
    BY <2>1, <2>2
<1>35. AloneId'
  <2> SUFFICES ASSUME NEW v \in Workers, Solo, add'[v] # NIL
               PROVE  watch'[add'[v][1]].msgid = waits'[cur'[v]]
    BY <1>u DEF AloneId, Solo
  <2>1. v = t
    BY <1>g, <1>add, Alone
  <2> QED
    BY <2>1, <1>g, <1>u, <1>add, <1>watch, <1>waits, <1>h
<1>36. Removing'
  BY <1>u, <1>watch, <1>new3, <1>ent, <1>e3, <1>c4, <1>new4, <1>e1, <1>e2,
     <1>c1, <1>c2, <1>c3, <1>add, <1>g, TWatch, TEnt, TCmd, TAdd, Nobody, SMTT(30) DEF
     IInv, Removing, Commands
<1>37. HeardBound'
  BY <1>u, <1>watch, <1>e4, THear DEF IInv, HeardBound
<1>38. HeardPlaces'
  BY <1>u, <1>ent, <1>e4 DEF IInv, HeardPlaces
<1>39. HearCmds'
  BY <1>u, <1>c4, <1>c1 DEF IInv, HearCmds
<1>40. HearRest'
  BY <1>u, <1>ent, <1>h DEF IInv, HearRest, HearProc, HeardBound
<1>41. HomeTasks'
  BY <1>u, <1>home, TFque DEF IInv, HomeTasks, Tasks
<1>42. HomeEnds'
  BY <1>u, <1>home, TEndp DEF IInv, HomeEnds
<1>43. NoneDeleted'
  BY <1>u, <1>table, <1>waits, <1>g, TTable DEF IInv, NoneDeleted, TableIds,
     Solo
<1>44. Mode'
  BY <1>u DEF IInv, Solo, Mode
<1>45. /\ Inside' /\ Stages' /\ Tasks' /\ Running' /\ OnOwner'
       /\ ResumeOnce' /\ ListApart' /\ CalledApart' /\ HearProc'
  BY <1>u DEF IInv, Inside, Stages, Tasks, Running, OnOwner, ResumeOnce,
     ListApart, CalledApart, HearProc
<1> QED
  BY <1>0, <1>1, <1>2, <1>3, <1>4, <1>5, <1>6, <1>7, <1>8, <1>9, <1>10, <1>11,
     <1>12, <1>13, <1>14, <1>15, <1>16, <1>17, <1>18, <1>19, <1>20, <1>21,
     <1>22, <1>23, <1>24, <1>25, <1>26, <1>27, <1>28, <1>29, <1>30, <1>31,
     <1>32, <1>33, <1>34, <1>35, <1>36, <1>37, <1>38, <1>39, <1>40, <1>41,
     <1>42, <1>43, <1>44, <1>45 DEF IInv

\* fiber::bind: a watcher without a fiber; the command answers.
LEMMA BindStep ==
  ASSUME IInv, NEW t \in Workers, Bind(t)
  PROVE  IInv'
<1>u. UNCHANGED <<acting, st, m_w, m_endp, list, proc, cur, fque, late, heard>>
  BY DEF Bind, pvars
<1>f. PICK f \in Fibers : f = cur[t]
  BY DEF IInv, Types, InBody, Bind
<1>n. PICK n \in Nat : n = seed + 1 /\ n # 0 /\ seed \in Nat
  BY DEF IInv, Types
<1>q. PICK q : q = <<n, f>>
  OBVIOUS
<1>pk. PICK w \in FreeWatchers, e \in FreeEntries :
       /\ watch' = [watch EXCEPT ![w] = [NoWatcher EXCEPT !.used = TRUE, !.owner = t,
                                                          !.msgid = seed + 1]]
       /\ ent' = [ent EXCEPT ![e] = w]
       /\ cmds' = Append(cmds, Command("add", e, seed + 1, {}))
       /\ add' = [add EXCEPT ![t] = <<w, e>>]
  BY DEF Bind
<1>c. PICK c \in Cmd : c = Command("add", e, n, {})
  BY <1>pk, <1>n, <1>f DEF Cmd, Command, FreeEntries
<1>g. /\ f \in Fibers /\ n \in Nat /\ n = seed + 1 /\ n # 0 /\ t \in acting
      /\ cur[t] = f /\ f # NIL /\ add[t] = NIL /\ Owner(f) = t /\ st[f] = "run"
      /\ waits[f] = 0
  BY <1>f, <1>n, Nobody DEF IInv, Types, Running, OnOwner, Adding, InCall, InBody,
     Bind
<1>h. /\ w \in Watchers /\ e \in Entry /\ w # NIL /\ e # NIL /\ ~watch[w].used
      /\ ent[e] = NIL
  BY <1>pk, Nobody DEF FreeWatchers, FreeEntries
<1>watch. /\ watch'[w].used /\ ~watch'[w].stopped /\ watch'[w].fb = NIL
          /\ watch'[w].owner = t /\ watch'[w].msgid = n /\ watch'[w].entry = NIL
          /\ \A v \in Watchers : v # w => watch'[v] = watch[v]
  BY <1>pk, <1>n, <1>f, <1>h DEF IInv, Types, NoWatcher
<1>ent. ent'[e] = w /\ (\A y \in Entry : y # e => ent'[y] = ent[y])
  BY <1>pk, <1>h DEF IInv, Types
<1>add. /\ add'[t] = <<w, e>> /\ (\A y \in Workers : y # t => add'[y] = add[y])
        /\ add'[t] # NIL /\ add'[t][1] = w /\ add'[t][2] = e
  BY <1>pk, <1>h, Nobody DEF IInv, Types
<1>cmds. /\ \A k \in 1 .. Len(cmds') : (k \in 1 .. Len(cmds) /\ cmds'[k] = cmds[k])
              \/ (k = Len(cmds) + 1 /\ cmds'[k] = c)
         /\ \A k \in 1 .. Len(cmds) : k \in 1 .. Len(cmds') /\ cmds'[k] = cmds[k]
         /\ Len(cmds) + 1 \in 1 .. Len(cmds') /\ cmds'[Len(cmds) + 1] = c
         /\ Len(cmds) \in Nat
         /\ cmds' \in Seq(Cmd)
         /\ c.type = "add" /\ c.e = e /\ c.respond = n /\ c.hear = {}
  BY <1>pk, <1>c, <1>n, Appended DEF IInv, Types, Command
<1>c1. \A k \in 1 .. Len(cmds') : (k \in 1 .. Len(cmds) /\ cmds'[k] = cmds[k])
         \/ (k = Len(cmds) + 1 /\ cmds'[k] = c)
  BY <1>cmds
<1>c2. \A k \in 1 .. Len(cmds) : k \in 1 .. Len(cmds') /\ cmds'[k] = cmds[k]
  BY <1>cmds
<1>c3. Len(cmds) + 1 \in 1 .. Len(cmds') /\ cmds'[Len(cmds) + 1] = c
  BY <1>cmds
<1>c4. /\ c.type = "add" /\ c.e = e /\ c.respond = n /\ c.hear = {}
       /\ Len(cmds) \in Nat
  BY <1>cmds
<1>seed. seed' = n /\ n = seed + 1 /\ seed \in Nat
  BY <1>n DEF Bind
<1>table. table' = table \union {q} /\ q[1] = n /\ q[2] = f
  BY <1>q, <1>n, <1>f DEF Bind
<1>waits. /\ waits'[f] = n /\ (\A y \in Fibers : y # f => waits'[y] = waits[y])
          /\ n # 0
  BY <1>n, <1>f DEF IInv, Types, Bind
<1>m. m_w[f] = NIL
  BY <1>g, <1>f, TWatch, TMw DEF IInv, WaitIds, WatchIds, Held
<1>new1. \A g \in Fibers : waits[g] # n
  BY <1>n, TWaits DEF IInv, WaitIds
<1>new2. \A p \in table : p[1] # n
  BY <1>n, TTable DEF IInv, TableIds
<1>new3. \A v \in Watchers : watch[v].used => watch[v].msgid # n
  BY <1>n, TWatch DEF IInv, WatchIds
<1>new4. \A k \in 1 .. Len(cmds) : cmds[k].respond # n
  BY <1>n, TCmd DEF IInv, CmdIds
<1>new5. \A v \in Workers : \A k \in 1 .. Len(fque[v]) : fque[v][k].type = "resume"
           => fque[v][k].id # n
  BY <1>new1 DEF IInv, ResumeOwn, Tasks
<1>new6. late # NIL => late[1] # n
  BY <1>new1, TLate DEF IInv, LateOwn
<1>e1. e \notin list /\ e \notin proc.rest /\ e # proc.called
  BY <1>h DEF IInv, Whereabouts
<1>e2. \A k \in 1 .. Len(cmds) : cmds[k].type = "add" => cmds[k].e # e
  BY <1>h DEF IInv, Whereabouts
<1>e3. \A d \in Entry : ent[d] # w
  BY <1>h DEF IInv, Occupied
<1>e4. w \notin heard /\ w \notin proc.hear
  BY <1>h DEF IInv, HeardBound, HearProc
<1>e5. \A g \in Fibers : m_w[g] # w
  BY <1>h DEF IInv, Held
<1>0. Types'
  <2>1. watch' \in [Watchers -> WatcherRec]
    BY <1>pk, <1>h, <1>n, <1>f, <1>g DEF IInv, Types, WatcherRec, NoWatcher
  <2>2. ent' \in [Entry -> Watchers \union {NIL}]
    BY <1>pk, <1>h DEF IInv, Types
  <2>3. cmds' \in Seq(Cmd)
    BY <1>cmds
  <2>4. table' \subseteq Nat \X Fibers
    BY <1>table, <1>q, <1>n, <1>f DEF IInv, Types
  <2>5. seed' \in Nat
    BY <1>seed, <1>n
  <2>6. add' \in [Workers -> (Watchers \X Entry) \union {NIL}]
    BY <1>pk, <1>h DEF IInv, Types
  <2>7. waits' \in [Fibers -> Nat]
    BY <1>n, <1>f DEF IInv, Types, Bind
  <2> QED
    BY <2>1, <2>2, <2>3, <2>4, <2>5, <2>6, <2>7, <1>u DEF IInv, Types
<1>own. \A i \in Nat : Own(i) => Own(i)'
  BY <1>u, TWaits, TTable, TWatch, TSeed, <1>g, <1>h, <1>m, <1>waits, <1>new1,
     <1>table, <1>new2, <1>watch, <1>new3, <1>seed DEF IInv, WaitIds, WaitOnce,
     TableIds, WatchIds, TableOnce, Own
<1>home. \A v \in Workers, i \in Nat : Home(v, i) => Home(v, i)'
  BY <1>u, TTable, TSeed, <1>g, <1>h, <1>m, <1>table, <1>new2, <1>seed DEF IInv,
     Home
<1>1. Commands'
  BY <1>c4, <1>c1, <1>h DEF IInv, Commands
<1>2. Adding'
  <2> SUFFICES ASSUME NEW v \in Workers
               PROVE  /\ add'[v] # NIL => cur'[v] # NIL
                      /\ cur'[v] # NIL => (add'[v] # NIL <=> waits'[cur'[v]] # 0)
    BY DEF Adding
  <2>1. CASE v = t
    BY <2>1, <1>u, <1>g, <1>add, <1>waits
  <2>2. CASE v # t
    <3>1. cur[v] # f /\ (cur[v] # NIL => cur[v] \in Fibers)
      BY <2>2, <1>g, TCur DEF IInv, OnOwner
    <3> QED
      BY <2>2, <3>1, <1>u, <1>add, <1>waits DEF IInv, Adding
  <2> QED
    BY <2>1, <2>2
<1>3. InCall'
  BY <1>u, <1>waits, <1>g DEF IInv, InCall
<1>4. WaitIds'
  BY <1>seed, <1>waits, TWaits DEF IInv, WaitIds
<1>5. WaitOnce'
  BY <1>waits, <1>new1 DEF IInv, WaitOnce
<1>6. TableIds'
  BY <1>table, <1>seed DEF IInv, TableIds
<1>7. TableOnce'
  BY <1>table, <1>new2 DEF IInv, TableOnce
<1>8. WatchIds'
  BY <1>watch, <1>seed DEF IInv, WatchIds
<1>9. WatchOnce'
  BY <1>watch, <1>new3 DEF IInv, WatchOnce
<1>10. AskedProc'
  BY <1>u, <1>own, TResp DEF IInv, AskedProc
<1>11. AskedTasks'
  BY <1>u, <1>own, TFque DEF IInv, AskedTasks
<1>12. AskedEnds'
  BY <1>u, <1>own, TEndp DEF IInv, AskedEnds
<1>13. CmdIds'
  BY <1>c4, <1>c1, <1>seed, TCmd DEF IInv, CmdIds
<1>14. CmdTable'
  BY <1>c4, <1>new4, <1>c1, <1>table, <1>new2, <1>waits, <1>g, TTable DEF IInv,
     CmdTable
<1>15. CmdWatch'
  BY <1>u, <1>watch, <1>new3, <1>ent, <1>c4, <1>new4, <1>e2, <1>c1 DEF IInv,
     CmdWatch, Commands
<1>16. Owed'
  BY <1>watch, <1>table, <1>waits, <1>g, TTable DEF IInv, Owed, TableIds
<1>17. Reached'
  BY <1>u, <1>table, <1>waits DEF IInv, Reached
<1>18. ResumeOwn'
  BY <1>u, <1>waits, <1>g DEF IInv, ResumeOwn, Tasks
<1>19. ResumeGone'
  BY <1>u, <1>table, <1>new5 DEF IInv, ResumeGone
<1>20. LateOwn'
  BY <1>u, <1>waits, <1>g, TLate DEF IInv, LateOwn
<1>21. LateGone'
  BY <1>u, <1>table, <1>new6 DEF IInv, LateGone
<1>22. Held'
  BY <1>u, <1>e5, <1>watch, <1>waits, <1>m, TMw DEF IInv, Held
<1>23. Bound'
  BY <1>watch DEF IInv, Bound
<1>24. Entered'
  BY <1>watch, <1>ent, <1>h, Nobody DEF IInv, Entered
<1>25. Sole'
  BY <1>u, <1>watch, <1>new3, <1>table, <1>new2, <1>g DEF IInv, Sole
<1>26. Called'
  BY <1>u, <1>watch, <1>ent, <1>e3, <1>e1, TEnt, TProc DEF IInv, Called,
     Whereabouts
<1>27. Whereabouts'
  BY <1>u, <1>ent, <1>e3, <1>c4, <1>e1, <1>e2, <1>c1, <1>c3 DEF IInv,
     Whereabouts
<1>28. Occupied'
  BY <1>watch, <1>ent, TEnt DEF IInv, Occupied
<1>29. OneEntry'
  BY <1>ent, <1>e3 DEF IInv, OneEntry
<1>30. CmdApart'
  BY <1>u, <1>c4, <1>e1, <1>c1 DEF IInv, CmdApart
<1>31. CmdOnce'
  BY <1>c4, <1>e2, <1>c1 DEF IInv, CmdOnce
<1>32. AloneAdd'
  BY <1>u, <1>ent, <1>add, <1>h, TAdd, Nobody DEF IInv, AloneAdd, Solo
<1>33. AloneNamed'
  <2> SUFFICES ASSUME NEW v \in Watchers, Solo, watch'[v].used
               PROVE  \/ watch'[v].entry # NIL /\ ent'[watch'[v].entry] = v
                      \/ \E x \in Workers : add'[x] # NIL /\ add'[x][1] = v
    BY <1>u DEF AloneNamed, Solo
  <2>1. CASE v = w
    BY <2>1, <1>add, <1>g
  <2>2. CASE v # w
    <3>1. /\ watch[v].used /\ watch'[v] = watch[v]
          /\ watch[v].entry \in Entry \union {NIL}
      BY <2>2, <1>watch DEF IInv, Types, WatcherRec
    <3>2. \/ watch[v].entry # NIL /\ ent[watch[v].entry] = v
          \/ \E x \in Workers : add[x] # NIL /\ add[x][1] = v
      BY <3>1 DEF IInv, AloneNamed
    <3>3. ASSUME NEW x \in Workers, add[x] # NIL PROVE add'[x] = add[x]
      BY <3>3, <1>g, <1>add
    <3> QED
      BY <3>1, <3>2, <3>3, <1>ent, <1>h, Nobody
  <2> QED
    BY <2>1, <2>2
<1>34. AloneId'
  <2> SUFFICES ASSUME NEW v \in Workers, Solo, add'[v] # NIL
               PROVE  watch'[add'[v][1]].msgid = waits'[cur'[v]]
    BY <1>u DEF AloneId, Solo
  <2>1. v = t
    BY <1>g, <1>add, Alone
  <2> QED
    BY <2>1, <1>g, <1>u, <1>add, <1>watch, <1>waits, <1>h
<1>35. Removing'
  <2> SUFFICES ASSUME NEW k \in 1 .. Len(cmds'), cmds'[k].type = "remove"
               PROVE  \/ ent'[cmds'[k].e] = NIL
                      \/ watch'[ent'[cmds'[k].e]].stopped
                      \/ \E j \in 1 .. Len(cmds') :
                           j > k /\ cmds'[j].type = "add" /\ cmds'[j].e = cmds'[k].e
    BY DEF Removing
  <2>1. k \in 1 .. Len(cmds) /\ cmds'[k] = cmds[k]
    BY <1>c1, <1>c4
  <2>2. PICK z \in Entry : z = cmds[k].e
    BY <2>1 DEF IInv, Commands
  <2>3. CASE z = e
    <3>1. Len(cmds) + 1 > k
      BY <2>1, <1>c4
    <3> QED
      BY <2>1, <2>2, <2>3, <3>1, <1>c3, <1>c4
  <2>4. CASE ent[z] = NIL \/ watch[ent[z]].stopped
    <3>1. z # e
            => ent'[z] = ent[z] /\ (ent[z] # NIL => watch'[ent[z]] = watch[ent[z]])
      BY <1>ent, <1>watch, <1>e3, TEnt
    <3> QED
      BY <2>1, <2>2, <2>3, <2>4, <3>1
  <2>5. CASE \E j \in 1 .. Len(cmds) :
          j > k /\ cmds[j].type = "add" /\ cmds[j].e = z
    BY <2>1, <2>2, <2>5, <1>c2
  <2> QED
    BY <2>1, <2>2, <2>4, <2>5 DEF IInv, Removing
<1>36. HeardBound'
  BY <1>u, <1>watch, THear DEF IInv, HeardBound
<1>37. HeardPlaces'
  BY <1>u, <1>ent, <1>e4 DEF IInv, HeardPlaces
<1>38. HearCmds'
  BY <1>u, <1>c4, <1>c1 DEF IInv, HearCmds
<1>39. HearRest'
  BY <1>u, <1>ent, <1>h DEF IInv, HearRest, HearProc, HeardBound
<1>40. HomeTasks'
  BY <1>u, <1>home, TFque DEF IInv, HomeTasks, Tasks
<1>41. HomeEnds'
  BY <1>u, <1>home, TEndp DEF IInv, HomeEnds
<1>42. NoneDeleted'
  BY <1>u, <1>table, <1>waits, <1>g, TTable DEF IInv, NoneDeleted, TableIds,
     Solo
<1>43. Mode'
  BY <1>u DEF IInv, Solo, Mode
<1>44. /\ Inside' /\ Stages' /\ Tasks' /\ Running' /\ OnOwner'
       /\ ResumeFree' /\ ResumeOnce' /\ ListApart' /\ CalledApart'
       /\ HearProc'
  BY <1>u DEF IInv, Inside, Stages, Tasks, Running, OnOwner, ResumeFree,
     ResumeOnce, ListApart, CalledApart, HearProc
<1> QED
  BY <1>0, <1>1, <1>2, <1>3, <1>4, <1>5, <1>6, <1>7, <1>8, <1>9, <1>10, <1>11,
     <1>12, <1>13, <1>14, <1>15, <1>16, <1>17, <1>18, <1>19, <1>20, <1>21,
     <1>22, <1>23, <1>24, <1>25, <1>26, <1>27, <1>28, <1>29, <1>30, <1>31,
     <1>32, <1>33, <1>34, <1>35, <1>36, <1>37, <1>38, <1>39, <1>40, <1>41,
     <1>42, <1>43, <1>44 DEF IInv

\* add_watcher returns, and the fiber yields.
LEMMA AddedStep ==
  ASSUME IInv, NEW t \in Workers, Added(t)
  PROVE  IInv'
<1>u. UNCHANGED <<acting, m_w, m_endp, ent, cmds, list, proc, table, seed, fque,
                  late, waits, heard>>
  BY DEF Added, pvars
<1>f0. cur[t] # NIL /\ t \in Workers /\ cur[t] \in Fibers
  BY DEF IInv, Types, Running, OnOwner, Adding, InCall, Added
<1>x0. add[t] \in Watchers \X Entry
  BY DEF IInv, Types, Added
<1>f. /\ t \in acting /\ cur[t] # NIL /\ Owner(cur[t]) = t /\ st[cur[t]] = "run"
      /\ waits[cur[t]] # 0 /\ cur[t] \in Fibers
  BY <1>f0 DEF IInv, Running, OnOwner, Adding, InCall, Added
<1>x. /\ add[t] # NIL /\ add[t][1] \in Watchers /\ add[t][2] \in Entry
      /\ add[t][2] # NIL
  BY <1>x0, Nobody DEF Added
<1>watch. \A v \in Watchers : /\ watch'[v].used = watch[v].used
                              /\ watch'[v].stopped = watch[v].stopped
                              /\ watch'[v].fb = watch[v].fb
                              /\ watch'[v].owner = watch[v].owner
                              /\ watch'[v].msgid = watch[v].msgid
                              /\ watch'[v].entry = IF v = add[t][1] THEN add[t][2]
                                                      ELSE watch[v].entry
  BY <1>x DEF IInv, Types, WatcherRec, Added
<1>add. add'[t] = NIL /\ (\A y \in Workers : y # t => add'[y] = add[y])
  BY DEF IInv, Types, Added
<1>st. st'[cur[t]] = "wait" /\ (\A y \in Fibers : y # cur[t] => st'[y] = st[y])
  BY <1>f DEF IInv, Types, Added
<1>cur. cur'[t] = NIL /\ (\A y \in Workers : y # t => cur'[y] = cur[y])
  BY DEF IInv, Types, Added
<1>0. Types'
  <2>1. st' \in [Fibers -> {"free", "run", "wait"}]
    BY WorkerAssumption, <1>f, <1>x DEF IInv, Types, Added
  <2>2. watch' \in [Watchers -> WatcherRec]
    BY <1>x, SetEntry DEF IInv, Types, Added
  <2>3. cur' \in [Workers -> Fibers \union {NIL}]
    BY WorkerAssumption, <1>f, <1>x DEF IInv, Types, Added
  <2>4. add' \in [Workers -> (Watchers \X Entry) \union {NIL}]
    BY WorkerAssumption, <1>f, <1>x DEF IInv, Types, Added
  <2> QED
    BY <2>1, <2>2, <2>3, <2>4, <1>u DEF IInv, Types
<1>own. \A i \in Nat : Own(i) => Own(i)'
  BY <1>u, TWaits, TTable, TWatch, TSeed, <1>f, <1>x, <1>watch DEF IInv, WaitIds,
     WaitOnce, TableIds, WatchIds, TableOnce, Own
<1>home. \A v \in Workers, i \in Nat : Home(v, i) => Home(v, i)'
  BY <1>u DEF Home
<1>1. Commands'
  BY <1>u DEF IInv, Commands
<1>2. Running'
  BY <1>st, <1>cur, <1>f, Nobody DEF IInv, Running
<1>3. OnOwner'
  BY <1>u, <1>cur DEF IInv, OnOwner
<1>4. Adding'
  BY <1>u, <1>cur, <1>add DEF IInv, Adding
<1>5. InCall'
  BY <1>u, <1>st, <1>f DEF IInv, InCall
<1>6. WatchIds'
  BY <1>u, <1>watch DEF IInv, WatchIds
<1>7. WatchOnce'
  BY <1>watch DEF IInv, WatchOnce
<1>8. AskedProc'
  BY <1>u, <1>own, TResp DEF IInv, AskedProc
<1>9. AskedTasks'
  BY <1>u, <1>own, TFque DEF IInv, AskedTasks
<1>10. AskedEnds'
  BY <1>u, <1>own, <1>st, <1>f, TEndp DEF IInv, AskedEnds
<1>11. CmdWatch'
  BY <1>u, <1>watch DEF IInv, CmdWatch
<1>12. Owed'
  BY <1>u, <1>watch DEF IInv, Owed
<1>13. Held'
  BY <1>u, <1>watch, TMw DEF IInv, Held
<1>14. Bound'
  BY <1>watch DEF IInv, Bound
<1>15. Entered'
  BY <1>u, <1>watch DEF IInv, Entered
<1>16. Sole'
  BY <1>u, <1>watch DEF IInv, Sole
<1>17. Called'
  BY <1>u, <1>watch, TEnt, TProc DEF IInv, Called, Whereabouts
<1>18. Whereabouts'
  BY <1>u DEF IInv, Whereabouts
<1>19. Occupied'
  BY <1>u, <1>watch, TEnt DEF IInv, Occupied
<1>20. CmdApart'
  BY <1>u DEF IInv, CmdApart
<1>21. CmdOnce'
  BY <1>u DEF IInv, CmdOnce
<1>22. AloneAdd'
  BY <1>u, <1>add DEF IInv, AloneAdd, Solo
<1>23. AloneNamed'
  BY <1>u, <1>watch, <1>add, <1>x DEF IInv, AloneNamed, AloneAdd, Solo
<1>24. AloneId'
  <2> SUFFICES ASSUME NEW v \in Workers, Solo, add'[v] # NIL
               PROVE  FALSE
    BY <1>u DEF AloneId, Solo
  <2>1. v # t /\ add[v] # NIL
    BY <1>add
  <2>2. v \in acting
    BY <2>1 DEF IInv, Adding, OnOwner
  <2> QED
    BY <2>1, <2>2, <1>f DEF IInv, Mode
<1>25. Removing'
  BY <1>u, <1>watch, TEnt DEF IInv, Removing, Commands
<1>26. HeardBound'
  BY <1>u, <1>watch, THear DEF IInv, HeardBound
<1>27. HomeEnds'
  BY <1>u, <1>home, <1>st, <1>f, TEndp DEF IInv, HomeEnds
<1>28. Mode' /\ NoneDeleted'
  BY <1>u DEF IInv, Solo, Mode, NoneDeleted
<1>29. /\ Inside' /\ Stages' /\ Tasks' /\ WaitIds' /\ WaitOnce'
       /\ TableIds' /\ TableOnce' /\ CmdIds' /\ CmdTable' /\ Reached'
  BY <1>u DEF IInv, Inside, Stages, Tasks, WaitIds, WaitOnce, TableIds,
     TableOnce, CmdIds, CmdTable, Reached
<1>30. /\ ResumeOwn' /\ ResumeGone' /\ ResumeFree' /\ ResumeOnce'
       /\ LateOwn' /\ LateGone' /\ OneEntry' /\ ListApart' /\ CalledApart'
       /\ HeardPlaces'
  BY <1>u DEF IInv, ResumeOwn, ResumeGone, ResumeFree, ResumeOnce, LateOwn,
     LateGone, OneEntry, ListApart, CalledApart, HeardPlaces
<1>31. HearCmds' /\ HearProc' /\ HearRest'
  BY <1>u DEF IInv, HearCmds, HearProc, HearRest
<1>32. HomeTasks'
  BY <1>u DEF IInv, Home, HomeTasks
<1> QED
  BY <1>0, <1>1, <1>2, <1>3, <1>4, <1>5, <1>6, <1>7, <1>8, <1>9, <1>10, <1>11,
     <1>12, <1>13, <1>14, <1>15, <1>16, <1>17, <1>18, <1>19, <1>20, <1>21,
     <1>22, <1>23, <1>24, <1>25, <1>26, <1>27, <1>28, <1>29, <1>30, <1>31,
     <1>32 DEF IInv

\* An event: a command that answers to nobody.
LEMMA EmitStep ==
  ASSUME IInv, NEW t \in Workers, Emit(t)
  PROVE  IInv'
<1>u. UNCHANGED <<acting, st, m_w, m_endp, watch, ent, list, proc, table, seed, cur,
                  add, fque, late, waits, heard>>
  BY DEF Emit, pvars
<1>c. PICK c \in Cmd : c = Command("emit", NIL, 0, heard)
  BY DEF IInv, Types, Cmd, Command
<1>cmds. /\ \A k \in 1 .. Len(cmds') : (k \in 1 .. Len(cmds) /\ cmds'[k] = cmds[k])
              \/ (k = Len(cmds) + 1 /\ cmds'[k] = c)
         /\ \A k \in 1 .. Len(cmds) : k \in 1 .. Len(cmds') /\ cmds'[k] = cmds[k]
         /\ Len(cmds) + 1 \in 1 .. Len(cmds') /\ cmds'[Len(cmds) + 1] = c
         /\ Len(cmds) \in Nat
         /\ cmds' \in Seq(Cmd)
         /\ c.type = "emit" /\ c.respond = 0 /\ c.hear = heard
  BY <1>c, Appended DEF IInv, Types, Emit, Command
<1>c1. \A k \in 1 .. Len(cmds') : (k \in 1 .. Len(cmds) /\ cmds'[k] = cmds[k])
         \/ (k = Len(cmds) + 1 /\ cmds'[k] = c)
  BY <1>cmds
<1>c3. Len(cmds) + 1 \in 1 .. Len(cmds') /\ cmds'[Len(cmds) + 1] = c
  BY <1>cmds
<1>c4. c.type = "emit" /\ c.respond = 0 /\ c.hear = heard /\ Len(cmds) \in Nat
  BY <1>cmds
<1>0. Types'
  <2>1. cmds' \in Seq(Cmd)
    BY <1>cmds
  <2> QED
    BY <2>1, <1>u DEF IInv, Types
<1>1. Commands'
  BY <1>c4, <1>c1 DEF IInv, Commands
<1>2. CmdIds'
  BY <1>u, <1>c4, <1>c1, TSeed DEF IInv, CmdIds
<1>3. CmdTable'
  BY <1>u, <1>c4, <1>c1 DEF IInv, CmdTable
<1>4. CmdWatch'
  BY <1>u, <1>c4, <1>c1 DEF IInv, CmdWatch
<1>5. Whereabouts'
  BY <1>u, <1>c4, <1>c1, <1>c3 DEF IInv, Whereabouts
<1>6. CmdApart'
  BY <1>u, <1>c4, <1>c1 DEF IInv, CmdApart
<1>7. CmdOnce'
  BY <1>u, <1>c4, <1>c1 DEF IInv, CmdOnce
<1>8. Removing'
  BY <1>u, <1>c4, <1>c1, <1>c3 DEF IInv, Removing
<1>9. HearCmds'
  BY <1>u, <1>c4, <1>c1 DEF IInv, HearCmds
<1>10. Mode' /\ AloneAdd' /\ AloneNamed' /\ AloneId' /\ NoneDeleted'
  BY <1>u DEF IInv, Solo, Mode, AloneAdd, AloneNamed, AloneId, NoneDeleted
<1>11. /\ Inside' /\ Stages' /\ Tasks' /\ Running' /\ OnOwner' /\ Adding'
       /\ InCall' /\ WaitIds' /\ WaitOnce' /\ TableIds'
  BY <1>u DEF IInv, Inside, Stages, Tasks, Running, OnOwner, Adding, InCall,
     WaitIds, WaitOnce, TableIds
<1>12. /\ TableOnce' /\ WatchIds' /\ WatchOnce' /\ Owed' /\ Reached'
       /\ ResumeOwn' /\ ResumeGone' /\ ResumeFree' /\ ResumeOnce'
       /\ LateOwn'
  BY <1>u DEF IInv, TableOnce, WatchIds, WatchOnce, Owed, Reached, ResumeOwn,
     ResumeGone, ResumeFree, ResumeOnce, LateOwn
<1>13. AskedProc' /\ AskedTasks' /\ AskedEnds'
  BY <1>u DEF IInv, Own, AskedProc, AskedTasks, AskedEnds
<1>14. /\ LateGone' /\ Held' /\ Bound' /\ Entered' /\ Sole' /\ Called'
       /\ Occupied' /\ OneEntry' /\ ListApart' /\ CalledApart'
  BY <1>u DEF IInv, LateGone, Held, Bound, Entered, Sole, Called, Occupied,
     OneEntry, ListApart, CalledApart
<1>15. HeardBound' /\ HeardPlaces' /\ HearProc' /\ HearRest'
  BY <1>u DEF IInv, HeardBound, HeardPlaces, HearProc, HearRest
<1>16. HomeTasks' /\ HomeEnds'
  BY <1>u DEF IInv, Home, HomeTasks, HomeEnds
<1> QED
  BY <1>0, <1>1, <1>2, <1>3, <1>4, <1>5, <1>6, <1>7, <1>8, <1>9, <1>10, <1>11,
     <1>12, <1>13, <1>14, <1>15, <1>16 DEF IInv

\* fiber::emit: the command answers to the fiber.
LEMMA SyncEmitStep ==
  ASSUME IInv, NEW t \in Workers, SyncEmit(t)
  PROVE  IInv'
<1>u. UNCHANGED <<acting, m_w, m_endp, watch, ent, list, proc, add, fque, late,
                  heard>>
  BY DEF SyncEmit, pvars
<1>f. PICK f \in Fibers : f = cur[t]
  BY DEF IInv, Types, InBody, SyncEmit
<1>n. PICK n \in Nat : n = seed + 1 /\ n # 0 /\ seed \in Nat
  BY DEF IInv, Types
<1>q. PICK q : q = <<n, f>>
  OBVIOUS
<1>c. PICK c \in Cmd : c = Command("emit", NIL, n, heard)
  BY <1>n DEF IInv, Types, Cmd, Command
<1>new1. \A g \in Fibers : waits[g] # n
  BY <1>n, TWaits DEF IInv, WaitIds
<1>new2. \A p \in table : p[1] # n
  BY <1>n, TTable DEF IInv, TableIds
<1>new3. \A v \in Watchers : watch[v].used => watch[v].msgid # n
  BY <1>n, TWatch DEF IInv, WatchIds
<1>new4. \A k \in 1 .. Len(cmds) : cmds[k].respond # n
  BY <1>n, TCmd DEF IInv, CmdIds
<1>new5. \A v \in Workers : \A k \in 1 .. Len(fque[v]) : fque[v][k].type = "resume"
           => fque[v][k].id # n
  BY <1>new1 DEF IInv, ResumeOwn, Tasks
<1>new6. late # NIL => late[1] # n
  BY <1>new1, TLate DEF IInv, LateOwn
<1>g. /\ f \in Fibers /\ n \in Nat /\ n = seed + 1 /\ n # 0 /\ t \in acting
      /\ cur[t] = f /\ f # NIL /\ add[t] = NIL /\ Owner(f) = t /\ st[f] = "run"
      /\ waits[f] = 0
  BY <1>f, <1>n, Nobody DEF IInv, Types, Running, OnOwner, Adding, InCall, InBody,
     SyncEmit
<1>m. m_w[f] = NIL
  BY <1>g, <1>f, TWatch, TMw DEF IInv, WaitIds, WaitOnce, TableIds, TableOnce,
     WatchIds, WatchOnce, Held
<1>seed. seed' = n /\ n = seed + 1 /\ seed \in Nat
  BY <1>n DEF SyncEmit
<1>table. table' = table \union {q} /\ q[1] = n /\ q[2] = f
  BY <1>q, <1>n, <1>f DEF SyncEmit
<1>waits. /\ waits'[f] = n /\ (\A y \in Fibers : y # f => waits'[y] = waits[y])
          /\ n # 0
  BY <1>n, <1>f DEF IInv, Types, SyncEmit
<1>st. st'[f] = "wait" /\ (\A y \in Fibers : y # f => st'[y] = st[y])
  BY <1>f DEF IInv, Types, SyncEmit
<1>cur. cur'[t] = NIL /\ (\A y \in Workers : y # t => cur'[y] = cur[y])
  BY DEF IInv, Types, SyncEmit
<1>cmds. /\ \A k \in 1 .. Len(cmds') : (k \in 1 .. Len(cmds) /\ cmds'[k] = cmds[k])
              \/ (k = Len(cmds) + 1 /\ cmds'[k] = c)
         /\ \A k \in 1 .. Len(cmds) : k \in 1 .. Len(cmds') /\ cmds'[k] = cmds[k]
         /\ Len(cmds) + 1 \in 1 .. Len(cmds') /\ cmds'[Len(cmds) + 1] = c
         /\ Len(cmds) \in Nat
         /\ cmds' \in Seq(Cmd)
         /\ c.type = "emit" /\ c.respond = n /\ c.hear = heard
  BY <1>c, <1>n, Appended DEF IInv, Types, SyncEmit, Command
<1>c1. \A k \in 1 .. Len(cmds') : (k \in 1 .. Len(cmds) /\ cmds'[k] = cmds[k])
         \/ (k = Len(cmds) + 1 /\ cmds'[k] = c)
  BY <1>cmds
<1>c2. \A k \in 1 .. Len(cmds) : k \in 1 .. Len(cmds') /\ cmds'[k] = cmds[k]
  BY <1>cmds
<1>c4. c.type = "emit" /\ c.respond = n /\ c.hear = heard /\ Len(cmds) \in Nat
  BY <1>cmds
<1>0. Types'
  <2>1. st' \in [Fibers -> {"free", "run", "wait"}]
    BY <1>f DEF IInv, Types, SyncEmit
  <2>2. cmds' \in Seq(Cmd)
    BY <1>cmds
  <2>3. table' \subseteq Nat \X Fibers
    BY <1>table, <1>q, <1>n, <1>f DEF IInv, Types
  <2>4. seed' \in Nat
    BY <1>seed, <1>n
  <2>5. cur' \in [Workers -> Fibers \union {NIL}]
    BY DEF IInv, Types, SyncEmit
  <2>6. waits' \in [Fibers -> Nat]
    BY <1>n, <1>f DEF IInv, Types, SyncEmit
  <2> QED
    BY <2>1, <2>2, <2>3, <2>4, <2>5, <2>6, <1>u DEF IInv, Types
<1>own. \A i \in Nat : Own(i) => Own(i)'
  BY <1>u, TWaits, TTable, TWatch, TSeed, <1>g, <1>m, <1>new1, <1>waits, <1>new2,
     <1>table, <1>new3, <1>seed DEF IInv, WaitIds, WaitOnce, TableIds, WatchIds,
     TableOnce, Own
<1>home. \A v \in Workers, i \in Nat : Home(v, i) => Home(v, i)'
  BY <1>u, TTable, TSeed, <1>g, <1>m, <1>new2, <1>table, <1>seed DEF IInv, Home
<1>1. Commands'
  BY <1>c4, <1>c1 DEF IInv, Commands
<1>2. Running'
  BY <1>st, <1>cur, <1>g, Nobody DEF IInv, Running
<1>3. OnOwner'
  BY <1>u, <1>cur DEF IInv, OnOwner
<1>4. Adding'
  BY <1>u, <1>cur, <1>waits, <1>g, TCur DEF IInv, Adding, OnOwner
<1>5. InCall'
  BY <1>st, <1>waits DEF IInv, InCall
<1>6. WaitIds'
  BY <1>seed, <1>waits, TWaits DEF IInv, WaitIds
<1>7. WaitOnce'
  BY <1>new1, <1>waits DEF IInv, WaitOnce
<1>8. TableIds'
  BY <1>table, <1>seed DEF IInv, TableIds
<1>9. TableOnce'
  BY <1>new2, <1>table DEF IInv, TableOnce
<1>10. WatchIds'
  BY <1>u, <1>seed DEF IInv, WatchIds
<1>11. AskedProc'
  BY <1>u, <1>own, TResp DEF IInv, AskedProc
<1>12. AskedTasks'
  BY <1>u, <1>own, TFque DEF IInv, AskedTasks
<1>13. AskedEnds'
  BY <1>u, <1>own, <1>st, <1>g, TEndp DEF IInv, AskedEnds
<1>14. CmdIds'
  BY <1>new4, <1>c4, <1>c1, <1>seed, TCmd DEF IInv, CmdIds
<1>15. CmdTable'
  BY <1>c4, <1>c1, <1>new2, <1>table, <1>waits, <1>g, TTable DEF IInv, CmdTable
<1>16. CmdWatch'
  BY <1>u, <1>new3, <1>c4, <1>c1 DEF IInv, CmdWatch
<1>17. Owed'
  BY <1>u, <1>table, <1>waits, <1>g, TTable DEF IInv, Owed, TableIds
<1>18. Reached'
  BY <1>u, <1>table, <1>waits DEF IInv, Reached
<1>19. ResumeOwn'
  <2> SUFFICES ASSUME NEW v \in Workers, NEW k \in 1 .. Len(fque'[v]), fque'[v][k].type = "resume"
               PROVE  /\ v = Owner(fque'[v][k].f)
                      /\ waits'[fque'[v][k].f] = fque'[v][k].id
                      /\ fque'[v][k].id # 0
    BY DEF ResumeOwn
  <2>1. k \in 1 .. Len(fque[v]) /\ fque'[v][k] = fque[v][k]
    BY <1>u
  <2>2. /\ v = Owner(fque[v][k].f) /\ waits[fque[v][k].f] = fque[v][k].id
        /\ fque[v][k].id # 0 /\ fque[v][k].f \in Fibers
    BY <2>1 DEF IInv, ResumeOwn, Tasks
  <2> QED
    BY <2>1, <2>2, <1>g, <1>waits
<1>20. ResumeGone'
  BY <1>u, <1>table, <1>new5 DEF IInv, ResumeGone
<1>21. LateOwn'
  BY <1>u, <1>waits, <1>g, TLate DEF IInv, LateOwn
<1>22. LateGone'
  BY <1>u, <1>table, <1>new6 DEF IInv, LateGone
<1>23. Held'
  BY <1>u, <1>waits, <1>m DEF IInv, Held
<1>24. Sole'
  BY <1>u, <1>new3, <1>table DEF IInv, Sole
<1>25. Whereabouts'
  BY <1>u, <1>c4, <1>c1, <1>c2 DEF IInv, Whereabouts
<1>26. CmdApart'
  BY <1>u, <1>c4, <1>c1 DEF IInv, CmdApart
<1>27. CmdOnce'
  BY <1>new4, <1>c4, <1>c1 DEF IInv, CmdOnce
<1>28. AloneId'
  <2> SUFFICES ASSUME NEW v \in Workers, Solo, add[v] # NIL
               PROVE  watch'[add'[v][1]].msgid = waits'[cur'[v]]
    BY <1>u DEF AloneId, Solo
  <2> QED
    BY <1>g, Alone
<1>29. Removing'
  BY <1>u, <1>new3, <1>c4, <1>c1, <1>c2 DEF IInv, Removing
<1>30. HearCmds'
  BY <1>u, <1>c4, <1>c1 DEF IInv, HearCmds
<1>31. HomeTasks'
  BY <1>u, <1>home, TFque, Nobody DEF IInv, HomeTasks, Tasks
<1>32. HomeEnds'
  BY <1>u, <1>home, <1>st, <1>g, TEndp DEF IInv, HomeEnds
<1>33. NoneDeleted'
  BY <1>u, <1>table, <1>waits, <1>g, TTable DEF IInv, NoneDeleted, TableIds,
     Solo
<1>34. Mode' /\ AloneAdd' /\ AloneNamed'
  BY <1>u DEF IInv, Solo, Mode, AloneAdd, AloneNamed
<1>35. /\ Inside' /\ Stages' /\ Tasks' /\ WatchOnce' /\ ResumeFree'
       /\ ResumeOnce' /\ Bound' /\ Entered' /\ Called' /\ Occupied'
  BY <1>u DEF IInv, Inside, Stages, Tasks, WatchOnce, ResumeFree, ResumeOnce,
     Bound, Entered, Called, Occupied
<1>36. /\ OneEntry' /\ ListApart' /\ CalledApart' /\ HeardBound'
       /\ HeardPlaces' /\ HearProc' /\ HearRest'
  BY <1>u DEF IInv, OneEntry, ListApart, CalledApart, HeardBound, HeardPlaces,
     HearProc, HearRest
<1> QED
  BY <1>0, <1>1, <1>2, <1>3, <1>4, <1>5, <1>6, <1>7, <1>8, <1>9, <1>10, <1>11,
     <1>12, <1>13, <1>14, <1>15, <1>16, <1>17, <1>18, <1>19, <1>20, <1>21,
     <1>22, <1>23, <1>24, <1>25, <1>26, <1>27, <1>28, <1>29, <1>30, <1>31,
     <1>32, <1>33, <1>34, <1>35, <1>36 DEF IInv

\* rpc::call: the request names the worker and the id.
LEMMA CallStep ==
  ASSUME IInv, NEW t \in Workers, NEW u \in Workers, Call(t, u)
  PROVE  IInv'
<1>u. UNCHANGED <<acting, m_w, m_endp, watch, ent, cmds, list, proc, add, late,
                  heard>>
  BY DEF Call, pvars
<1>f. PICK f \in Fibers : f = cur[t]
  BY DEF IInv, Types, InBody, Call
<1>n. PICK n \in Nat : n = seed + 1 /\ n # 0 /\ seed \in Nat
  BY DEF IInv, Types
<1>q. PICK q : q = <<n, f>>
  OBVIOUS
<1>x. PICK x \in Tsk : x = Task("request", t, n)
  BY <1>n DEF Tsk, Task
<1>new1. \A g \in Fibers : waits[g] # n
  BY <1>n, TWaits DEF IInv, WaitIds
<1>new2. \A p \in table : p[1] # n
  BY <1>n, TTable DEF IInv, TableIds
<1>new3. \A v \in Watchers : watch[v].used => watch[v].msgid # n
  BY <1>n, TWatch DEF IInv, WatchIds
<1>new5. \A v \in Workers : \A k \in 1 .. Len(fque[v]) : fque[v][k].type = "resume"
           => fque[v][k].id # n
  BY <1>new1 DEF IInv, ResumeOwn, Tasks
<1>new6. late # NIL => late[1] # n
  BY <1>new1, TLate DEF IInv, LateOwn
<1>g. /\ f \in Fibers /\ n \in Nat /\ n = seed + 1 /\ n # 0 /\ t \in acting
      /\ cur[t] = f /\ f # NIL /\ add[t] = NIL /\ Owner(f) = t /\ st[f] = "run"
      /\ waits[f] = 0
  BY <1>f, <1>n, Nobody DEF IInv, Types, Running, OnOwner, Adding, InCall, InBody,
     Call
<1>m. m_w[f] = NIL
  BY <1>g, <1>f, TWatch, TMw DEF IInv, WaitIds, WaitOnce, TableIds, TableOnce,
     WatchIds, WatchOnce, Held
<1>seed. seed' = n /\ n = seed + 1 /\ seed \in Nat
  BY <1>n DEF Call
<1>table. table' = table \union {q} /\ q[1] = n /\ q[2] = f
  BY <1>q, <1>n, <1>f DEF Call
<1>waits. /\ waits'[f] = n /\ (\A y \in Fibers : y # f => waits'[y] = waits[y])
          /\ n # 0
  BY <1>n, <1>f DEF IInv, Types, Call
<1>st. st'[f] = "wait" /\ (\A y \in Fibers : y # f => st'[y] = st[y])
  BY <1>f DEF IInv, Types, Call
<1>cur. cur'[t] = NIL /\ (\A y \in Workers : y # t => cur'[y] = cur[y])
  BY DEF IInv, Types, Call
<1>fque. /\ \A v \in Workers : \A k \in 1 .. Len(fque'[v]) :
              (k \in 1 .. Len(fque[v]) /\ fque'[v][k] = fque[v][k])
                \/ (v = u /\ k = Len(fque[u]) + 1 /\ fque'[v][k] = x)
         /\ \A v \in Workers : \A k \in 1 .. Len(fque[v]) :
              k \in 1 .. Len(fque'[v]) /\ fque'[v][k] = fque[v][k]
         /\ Len(fque[u]) + 1 \in 1 .. Len(fque'[u])
         /\ fque'[u][Len(fque[u]) + 1] = x /\ Len(fque[u]) \in Nat
         /\ fque' \in [Workers -> Seq(Tsk)]
         /\ x.type = "request" /\ x.f = t /\ x.id = n
  BY <1>x, <1>n, Pushed DEF IInv, Types, Call, Push, Task
<1>q1. \A v \in Workers : \A k \in 1 .. Len(fque'[v]) :
            (k \in 1 .. Len(fque[v]) /\ fque'[v][k] = fque[v][k])
              \/ (v = u /\ k = Len(fque[u]) + 1 /\ fque'[v][k] = x)
  BY <1>fque
<1>q2. \A v \in Workers : \A k \in 1 .. Len(fque[v]) :
         k \in 1 .. Len(fque'[v]) /\ fque'[v][k] = fque[v][k]
  BY <1>fque
<1>q3. Len(fque[u]) + 1 \in 1 .. Len(fque'[u]) /\ fque'[u][Len(fque[u]) + 1] = x
  BY <1>fque
<1>q4. x.type = "request" /\ x.f = t /\ x.id = n /\ Len(fque[u]) \in Nat
  BY <1>fque
<1>o. Own(n)'
  BY <1>g, <1>n, <1>u, <1>seed, <1>table, <1>waits DEF IInv, Types, WaitIds,
     WaitOnce, TableIds, TableOnce, WatchIds, WatchOnce, Own
<1>0. Types'
  <2>1. st' \in [Fibers -> {"free", "run", "wait"}]
    BY <1>f DEF IInv, Types, Call
  <2>2. table' \subseteq Nat \X Fibers
    BY <1>table, <1>q, <1>n, <1>f DEF IInv, Types
  <2>3. seed' \in Nat
    BY <1>seed, <1>n
  <2>4. cur' \in [Workers -> Fibers \union {NIL}]
    BY DEF IInv, Types, Call
  <2>5. fque' \in [Workers -> Seq(Tsk)]
    BY <1>fque
  <2>6. waits' \in [Fibers -> Nat]
    BY <1>n, <1>f DEF IInv, Types, Call
  <2> QED
    BY <2>1, <2>2, <2>3, <2>4, <2>5, <2>6, <1>u DEF IInv, Types
<1>own. \A i \in Nat : Own(i) => Own(i)'
  BY <1>u, TWaits, TTable, TWatch, TSeed, <1>g, <1>m, <1>new1, <1>waits, <1>new2,
     <1>table, <1>new3, <1>seed DEF IInv, WaitIds, WaitOnce, TableIds, WatchIds,
     TableOnce, Own
<1>home. \A v \in Workers, i \in Nat : Home(v, i) => Home(v, i)'
  BY <1>u, TTable, TSeed, <1>g, <1>m, <1>new2, <1>table, <1>seed DEF IInv, Home
<1>1. Tasks'
  <2> SUFFICES ASSUME NEW v \in Workers, NEW k \in 1 .. Len(fque'[v])
               PROVE  /\ fque'[v][k].type = "resume" => fque'[v][k].f \in Fibers
                      /\ fque'[v][k].type = "request" => fque'[v][k].f \in Workers
    BY DEF Tasks
  <2>1. CASE k \in 1 .. Len(fque[v]) /\ fque'[v][k] = fque[v][k]
    BY <2>1, <1>new5 DEF IInv, Tasks
  <2>2. CASE v = u /\ k = Len(fque[u]) + 1 /\ fque'[v][k] = x
    BY <2>2, <1>new5, <1>q4
  <2> QED
    BY <2>1, <2>2, <1>q1
<1>2. Running'
  BY <1>st, <1>cur, <1>g, Nobody DEF IInv, Running
<1>3. OnOwner'
  BY <1>u, <1>cur DEF IInv, OnOwner
<1>4. Adding'
  BY <1>u, <1>cur, <1>waits, <1>g, TCur DEF IInv, Adding, OnOwner
<1>5. InCall'
  BY <1>st, <1>waits DEF IInv, InCall
<1>6. WaitIds'
  BY <1>seed, <1>waits, TWaits DEF IInv, WaitIds
<1>7. WaitOnce'
  BY <1>new1, <1>waits DEF IInv, WaitOnce
<1>8. TableIds'
  BY <1>table, <1>seed DEF IInv, TableIds
<1>9. TableOnce'
  BY <1>new2, <1>table DEF IInv, TableOnce
<1>10. WatchIds'
  BY <1>u, <1>seed DEF IInv, WatchIds
<1>11. AskedProc'
  BY <1>u, <1>own, TResp DEF IInv, AskedProc
<1>12. AskedTasks'
  <2> SUFFICES ASSUME NEW v \in Workers, NEW k \in 1 .. Len(fque'[v])
               PROVE  fque'[v][k].type \in {"request", "response"} => Own(fque[v][k].id)'
    BY DEF AskedTasks
  <2>1. CASE k \in 1 .. Len(fque[v]) /\ fque'[v][k] = fque[v][k]
    BY <2>1, <1>own, <1>new2, <1>table, <1>seed, <1>o, TTable, TFque DEF IInv,
       AskedTasks
  <2>2. CASE v = u /\ k = Len(fque[u]) + 1 /\ fque'[v][k] = x
    BY <2>2, <1>own, <1>new2, <1>table, <1>seed, <1>q4, <1>o, TTable, TFque
  <2> QED
    BY <2>1, <2>2, <1>q1
<1>13. AskedEnds'
  BY <1>u, <1>own, <1>st, <1>g, TEndp DEF IInv, AskedEnds
<1>14. CmdIds'
  BY <1>u, <1>seed, TCmd, TSeed DEF IInv, CmdIds
<1>15. CmdTable'
  BY <1>u, <1>table, <1>waits, <1>g, TTable DEF IInv, CmdTable
<1>16. Owed'
  BY <1>u, <1>table, <1>waits, <1>g, TTable DEF IInv, Owed, TableIds
<1>17. Reached'
  BY <1>u, <1>new2, <1>table, <1>new5, <1>q4, <1>q2, <1>q3, <1>new6, <1>waits,
     <1>g, <1>m, TTable, TFque, TLate, TWaits, Nobody DEF IInv, Reached
<1>18. ResumeOwn'
  <2> SUFFICES ASSUME NEW v \in Workers, NEW k \in 1 .. Len(fque'[v]), fque'[v][k].type = "resume"
               PROVE  /\ v = Owner(fque'[v][k].f)
                      /\ waits'[fque'[v][k].f] = fque'[v][k].id
                      /\ fque'[v][k].id # 0
    BY DEF ResumeOwn
  <2>1. k \in 1 .. Len(fque[v]) /\ fque'[v][k] = fque[v][k]
    BY <1>u, <1>q1, <1>q4
  <2>2. /\ v = Owner(fque[v][k].f) /\ waits[fque[v][k].f] = fque[v][k].id
        /\ fque[v][k].id # 0 /\ fque[v][k].f \in Fibers
    BY <2>1 DEF IInv, ResumeOwn, Tasks
  <2> QED
    BY <2>1, <2>2, <1>g, <1>waits
<1>19. ResumeGone'
  <2> SUFFICES ASSUME NEW v \in Workers, NEW k \in 1 .. Len(fque'[v]),
                      fque'[v][k].type = "resume"
               PROVE  \A s \in table' : s[1] # fque'[v][k].id
    BY DEF ResumeGone
  <2>1. k \in 1 .. Len(fque[v]) /\ fque'[v][k] = fque[v][k]
    BY <1>q1, <1>q4
  <2> QED
    BY <2>1, <1>new2, <1>table, <1>new5 DEF IInv, ResumeGone
<1>20. ResumeFree'
  <2> SUFFICES ASSUME NEW v \in Workers, NEW k \in 1 .. Len(fque'[v]),
                      fque'[v][k].type = "resume"
               PROVE  /\ m_w'[fque'[v][k].f] = NIL
                      /\ (late' # NIL => late'[2] # fque'[v][k].f)
    BY DEF ResumeFree
  <2>1. k \in 1 .. Len(fque[v]) /\ fque'[v][k] = fque[v][k]
    BY <1>q1, <1>q4
  <2> QED
    BY <2>1, <1>u, <1>new5 DEF IInv, ResumeFree
<1>21. ResumeOnce'
  <2> SUFFICES ASSUME NEW v \in Workers, NEW j \in 1 .. Len(fque'[v]), NEW k \in 1 .. Len(fque'[v]),
                      fque'[v][j].type = "resume", fque'[v][k].type = "resume",
                      fque'[v][j].f = fque'[v][k].f
               PROVE  j = k
    BY DEF ResumeOnce
  <2>1. /\ j \in 1 .. Len(fque[v]) /\ fque'[v][j] = fque[v][j]
        /\ k \in 1 .. Len(fque[v]) /\ fque'[v][k] = fque[v][k]
    BY <1>q1, <1>q4
  <2> QED
    BY <2>1 DEF IInv, ResumeOnce
<1>22. LateOwn'
  BY <1>u, <1>waits, <1>g, TLate DEF IInv, LateOwn
<1>23. LateGone'
  BY <1>u, <1>table, <1>new6 DEF IInv, LateGone
<1>24. Held'
  BY <1>u, <1>waits, <1>m DEF IInv, Held
<1>25. Sole'
  BY <1>u, <1>new3, <1>table DEF IInv, Sole
<1>26. AloneId'
  <2> SUFFICES ASSUME NEW v \in Workers, Solo, add[v] # NIL
               PROVE  watch'[add'[v][1]].msgid = waits'[cur'[v]]
    BY <1>u DEF AloneId, Solo
  <2> QED
    BY <1>g, Alone
<1>27. HomeTasks'
  <2> SUFFICES ASSUME NEW v \in Workers, NEW k \in 1 .. Len(fque'[v])
               PROVE  /\ fque'[v][k].type = "request" => Home(fque[v][k].f, fque[v][k].id)'
                      /\ fque'[v][k].type = "response" => Home(v, fque[v][k].id)'
    BY DEF HomeTasks
  <2>1. n <= seed' /\ \A r \in table' : r[1] = n => Owner(r[2]) = t
    BY <1>g, <1>seed, <1>table, TTable DEF IInv, TableIds
  <2>2. CASE k \in 1 .. Len(fque[v]) /\ fque'[v][k] = fque[v][k]
    BY <2>2, TFque, <1>home DEF IInv, HomeTasks, Tasks
  <2>3. CASE ~(k \in 1 .. Len(fque[v]) /\ fque'[v][k] = fque[v][k])
    BY <2>1, <2>3, <1>q1, <1>q4 DEF Home
  <2> QED
    BY <2>2, <2>3
<1>28. HomeEnds'
  BY <1>u, <1>home, <1>st, <1>g, TEndp DEF IInv, HomeEnds
<1>29. NoneDeleted'
  BY <1>u, <1>table, <1>waits, <1>g, TTable DEF IInv, NoneDeleted, TableIds,
     Solo
<1>30. Mode' /\ AloneAdd' /\ AloneNamed'
  BY <1>u DEF IInv, Solo, Mode, AloneAdd, AloneNamed
<1>31. /\ Inside' /\ Stages' /\ Commands' /\ WatchOnce' /\ CmdWatch'
       /\ Bound' /\ Entered' /\ Called' /\ Whereabouts' /\ Occupied'
  BY <1>u DEF IInv, Inside, Stages, Commands, WatchOnce, CmdWatch, Bound,
     Entered, Called, Whereabouts, Occupied
<1>32. /\ OneEntry' /\ ListApart' /\ CalledApart' /\ CmdApart' /\ CmdOnce'
       /\ Removing' /\ HeardBound' /\ HeardPlaces' /\ HearCmds'
       /\ HearProc'
  BY <1>u DEF IInv, OneEntry, ListApart, CalledApart, CmdApart, CmdOnce,
     Removing, HeardBound, HeardPlaces, HearCmds, HearProc
<1>33. HearRest'
  BY <1>u DEF IInv, HearRest
<1> QED
  BY <1>0, <1>1, <1>2, <1>3, <1>4, <1>5, <1>6, <1>7, <1>8, <1>9, <1>10, <1>11,
     <1>12, <1>13, <1>14, <1>15, <1>16, <1>17, <1>18, <1>19, <1>20, <1>21,
     <1>22, <1>23, <1>24, <1>25, <1>26, <1>27, <1>28, <1>29, <1>30, <1>31,
     <1>32, <1>33 DEF IInv

\* fiber::respond without an endpoint, and with one.
LEMMA FinishQuietStep ==
  ASSUME IInv, NEW t \in Workers, Finish(t), m_endp[cur[t]] = NIL
  PROVE  IInv'
<1>f. PICK f \in Fibers : f = cur[t]
  BY DEF IInv, Types, InBody, Finish
<1>g. /\ f \in Fibers /\ t \in acting /\ cur[t] = f /\ f # NIL /\ add[t] = NIL
      /\ Owner(f) = t /\ st[f] = "run" /\ waits[f] = 0
  BY <1>f, Nobody DEF IInv, Types, Running, OnOwner, Adding, InBody, Finish
<1>m. m_w[f] = NIL
  BY <1>g, TWatch, TMw DEF IInv, WaitIds, WatchIds, Held
<1>k. UNCHANGED <<cmds, watch, m_w, waits>>
  BY <1>f, <1>g, <1>m DEF IInv, Types, Finish, Fin, Unwatch
<1>u. UNCHANGED <<acting, m_w, m_endp, watch, ent, cmds, list, proc, table, seed,
                  add, late, waits, heard, fque>>
  BY <1>k, <1>f DEF Finish, Send
<1>st. st'[f] = "free" /\ (\A y \in Fibers : y # f => st'[y] = st[y])
  BY <1>f DEF IInv, Types, Finish, Fin
<1>cur. cur'[t] = NIL /\ (\A y \in Workers : y # t => cur'[y] = cur[y])
  BY DEF IInv, Types, Finish
<1>0. Types'
  <2>1. st' \in [Fibers -> {"free", "run", "wait"}]
    BY <1>f DEF IInv, Types, Finish, Fin
  <2>2. cur' \in [Workers -> Fibers \union {NIL}]
    BY DEF IInv, Types, Finish
  <2> QED
    BY <2>1, <2>2, <1>u DEF IInv, Types
<1>own. \A i \in Nat : Own(i) => Own(i)'
  BY <1>u DEF Own
<1>home. \A v \in Workers, i \in Nat : Home(v, i) => Home(v, i)'
  BY <1>u DEF Home
<1>1. Running'
  BY <1>st, <1>cur, <1>g, Nobody DEF IInv, Running
<1>2. OnOwner'
  BY <1>u, <1>cur DEF IInv, OnOwner
<1>3. Adding'
  <2> SUFFICES ASSUME NEW v \in Workers
               PROVE  /\ add'[v] # NIL => cur'[v] # NIL
                      /\ cur'[v] # NIL => (add'[v] # NIL <=> waits'[cur'[v]] # 0)
    BY DEF Adding
  <2>1. CASE v = t
    BY <2>1, <1>u, <1>g, <1>cur
  <2>2. CASE v # t
    <3>1. cur[v] # f /\ (cur[v] # NIL => cur[v] \in Fibers)
      BY <2>2, <1>g, TCur DEF IInv, OnOwner
    <3> QED
      BY <2>2, <3>1, <1>u, <1>cur DEF IInv, Adding
  <2> QED
    BY <2>1, <2>2
<1>4. InCall'
  BY <1>u, <1>st, <1>g DEF IInv, InCall
<1>5. AskedEnds'
  BY <1>u, <1>own, <1>st, TEndp DEF IInv, AskedEnds
<1>6. AloneId'
  <2> SUFFICES ASSUME NEW v \in Workers, Solo, add[v] # NIL
               PROVE  watch'[add'[v][1]].msgid = waits'[cur'[v]]
    BY <1>u DEF AloneId, Solo
  <2> QED
    BY <1>g, Alone
<1>7. HomeEnds'
  BY <1>u, <1>home, <1>st, TEndp DEF IInv, HomeEnds
<1>8. Mode' /\ AloneAdd' /\ AloneNamed' /\ NoneDeleted'
  BY <1>u DEF IInv, Solo, Mode, AloneAdd, AloneNamed, NoneDeleted
<1>9. /\ Inside' /\ Stages' /\ Commands' /\ Tasks' /\ WaitIds' /\ WaitOnce'
      /\ TableIds' /\ TableOnce' /\ WatchIds' /\ WatchOnce'
  BY <1>u DEF IInv, Inside, Stages, Commands, Tasks, WaitIds, WaitOnce,
     TableIds, TableOnce, WatchIds, WatchOnce
<1>10. AskedProc' /\ AskedTasks'
  BY <1>u DEF IInv, Own, AskedProc, AskedTasks
<1>11. /\ CmdIds' /\ CmdTable' /\ CmdWatch' /\ Owed' /\ Reached'
       /\ ResumeOwn' /\ ResumeGone' /\ ResumeFree' /\ ResumeOnce'
       /\ LateOwn'
  <2>1. CmdIds' /\ CmdTable' /\ CmdWatch'
    BY <1>u DEF IInv, CmdIds, CmdTable, CmdWatch
  <2>2. Owed' /\ Reached'
    BY <1>u DEF IInv, Owed, Reached
  <2>3. ResumeOwn' /\ ResumeGone' /\ ResumeFree'
    BY <1>u DEF IInv, ResumeOwn, ResumeGone, ResumeFree
  <2>4. ResumeOnce' /\ LateOwn'
    BY <1>u DEF IInv, ResumeOnce, LateOwn
  <2> QED
    BY <2>1, <2>2, <2>3, <2>4
<1>12. /\ LateGone' /\ Held' /\ Bound' /\ Entered' /\ Sole' /\ Called'
       /\ Whereabouts' /\ Occupied' /\ OneEntry' /\ ListApart'
  BY <1>u DEF IInv, LateGone, Held, Bound, Entered, Sole, Called, Whereabouts,
     Occupied, OneEntry, ListApart
<1>13. /\ CalledApart' /\ CmdApart' /\ CmdOnce' /\ Removing' /\ HeardBound'
       /\ HeardPlaces' /\ HearCmds' /\ HearProc' /\ HearRest'
  BY <1>u DEF IInv, CalledApart, CmdApart, CmdOnce, Removing, HeardBound,
     HeardPlaces, HearCmds, HearProc, HearRest
<1>14. HomeTasks'
  BY <1>u DEF IInv, Home, HomeTasks
<1> QED
  BY <1>0, <1>1, <1>2, <1>3, <1>4, <1>5, <1>6, <1>7, <1>8, <1>9, <1>10, <1>11,
     <1>12, <1>13, <1>14 DEF IInv

\* The body ends and whoever asked for it is to be told.
LEMMA FinishStep ==
  ASSUME IInv, NEW t \in Workers, Finish(t), m_endp[cur[t]] # NIL
  PROVE  IInv'
<1>f. PICK f \in Fibers : f = cur[t]
  BY DEF IInv, Types, InBody, Finish
<1>g. /\ f \in Fibers /\ t \in acting /\ cur[t] = f /\ f # NIL /\ add[t] = NIL
      /\ Owner(f) = t /\ st[f] = "run" /\ waits[f] = 0
  BY <1>f, Nobody DEF IInv, Types, Running, OnOwner, Adding, InBody, Finish
<1>m. m_w[f] = NIL
  BY <1>g, TWatch, TMw DEF IInv, WaitIds, WatchIds, Held
<1>k. UNCHANGED <<cmds, watch, m_w, waits>>
  BY <1>f, <1>g, <1>m DEF IInv, Types, Finish, Fin, Unwatch
<1>u. UNCHANGED <<acting, m_w, m_endp, watch, ent, cmds, list, proc, table, seed,
                  add, late, waits, heard>>
  BY <1>k DEF Finish
<1>st. st'[f] = "free" /\ (\A y \in Fibers : y # f => st'[y] = st[y])
  BY <1>f DEF IInv, Types, Finish, Fin
<1>cur. cur'[t] = NIL /\ (\A y \in Workers : y # t => cur'[y] = cur[y])
  BY DEF IInv, Types, Finish
<1>r. m_endp[f] # NIL /\ m_endp[f][1] \in Workers /\ m_endp[f][2] \in Nat
  BY <1>f, TEndp
<1>x0. PICK x \in Tsk : x = Task("response", NIL, m_endp[f][2])
  BY <1>r DEF Tsk, Task
<1>d. PICK d \in Workers : d = m_endp[f][1]
  BY <1>r
<1>fque. /\ \A v \in Workers : \A k \in 1 .. Len(fque'[v]) :
              (k \in 1 .. Len(fque[v]) /\ fque'[v][k] = fque[v][k])
                \/ (v = d /\ k = Len(fque[d]) + 1 /\ fque'[v][k] = x)
         /\ \A v \in Workers : \A k \in 1 .. Len(fque[v]) :
              k \in 1 .. Len(fque'[v]) /\ fque'[v][k] = fque[v][k]
         /\ Len(fque[d]) + 1 \in 1 .. Len(fque'[d])
         /\ fque'[d][Len(fque[d]) + 1] = x /\ Len(fque[d]) \in Nat
         /\ fque' \in [Workers -> Seq(Tsk)]
         /\ x.type = "response" /\ x.id = m_endp[f][2] /\ d = m_endp[f][1]
  <2>1. fque' = [fque EXCEPT ![d] = Append(@, x)]
    BY <1>r, <1>x0, <1>d, <1>f DEF Finish, Send, Push
  <2> QED
    BY <2>1, <1>x0, <1>d, Pushed, SMTT(30) DEF IInv, Types, Task
<1>q1. \A v \in Workers : \A k \in 1 .. Len(fque'[v]) :
            (k \in 1 .. Len(fque[v]) /\ fque'[v][k] = fque[v][k])
              \/ (v = d /\ k = Len(fque[d]) + 1 /\ fque'[v][k] = x)
  BY <1>fque
<1>q2. \A v \in Workers : \A k \in 1 .. Len(fque[v]) :
         k \in 1 .. Len(fque'[v]) /\ fque'[v][k] = fque[v][k]
  BY <1>fque
<1>q4. /\ x.type = "response" /\ x.id = m_endp[f][2] /\ d = m_endp[f][1]
       /\ Len(fque[d]) \in Nat
  BY <1>fque
<1>o. Own(m_endp[f][2])
  BY <1>g, <1>r DEF IInv, AskedEnds
<1>o2. Home(m_endp[f][1], m_endp[f][2])
  BY <1>g, <1>r DEF IInv, HomeEnds
<1>0. Types'
  <2>1. st' \in [Fibers -> {"free", "run", "wait"}]
    BY <1>f DEF IInv, Types, Finish, Fin
  <2>2. cur' \in [Workers -> Fibers \union {NIL}]
    BY DEF IInv, Types, Finish
  <2>3. fque' \in [Workers -> Seq(Tsk)]
    BY <1>fque
  <2> QED
    BY <2>1, <2>2, <2>3, <1>u DEF IInv, Types
<1>own. \A i \in Nat : Own(i) => Own(i)'
  BY <1>u DEF Own
<1>home. \A v \in Workers, i \in Nat : Home(v, i) => Home(v, i)'
  BY <1>u DEF Home
<1>1. Tasks'
  <2> SUFFICES ASSUME NEW v \in Workers, NEW k \in 1 .. Len(fque'[v])
               PROVE  /\ fque'[v][k].type = "resume" => fque'[v][k].f \in Fibers
                      /\ fque'[v][k].type = "request" => fque'[v][k].f \in Workers
    BY DEF Tasks
  <2>1. CASE k \in 1 .. Len(fque[v]) /\ fque'[v][k] = fque[v][k]
    BY <2>1, <1>u DEF IInv, Tasks
  <2>2. CASE v = d /\ k = Len(fque[d]) + 1 /\ fque'[v][k] = x
    BY <2>2, <1>u, <1>q4
  <2> QED
    BY <2>1, <2>2, <1>q1
<1>2. Running'
  BY <1>st, <1>cur, <1>g, Nobody DEF IInv, Running
<1>3. OnOwner'
  BY <1>u, <1>cur DEF IInv, OnOwner
<1>4. Adding'
  <2> SUFFICES ASSUME NEW v \in Workers
               PROVE  /\ add'[v] # NIL => cur'[v] # NIL
                      /\ cur'[v] # NIL => (add'[v] # NIL <=> waits'[cur'[v]] # 0)
    BY DEF Adding
  <2>1. CASE v = t
    BY <2>1, <1>u, <1>g, <1>cur
  <2>2. CASE v # t
    <3>1. cur[v] # f /\ (cur[v] # NIL => cur[v] \in Fibers)
      BY <2>2, <1>g, TCur DEF IInv, OnOwner
    <3> QED
      BY <2>2, <3>1, <1>u, <1>cur DEF IInv, Adding
  <2> QED
    BY <2>1, <2>2
<1>5. InCall'
  BY <1>u, <1>st, <1>g DEF IInv, InCall
<1>6. AskedTasks'
  <2> SUFFICES ASSUME NEW v \in Workers, NEW k \in 1 .. Len(fque'[v])
               PROVE  fque'[v][k].type \in {"request", "response"} => Own(fque[v][k].id)'
    BY DEF AskedTasks
  <2>1. CASE k \in 1 .. Len(fque[v]) /\ fque'[v][k] = fque[v][k]
    BY <2>1, <1>u, <1>own, <1>o, <1>r, TTable, TFque, TWaits DEF IInv, AskedTasks
  <2>2. CASE v = d /\ k = Len(fque[d]) + 1 /\ fque'[v][k] = x
    BY <2>2, <1>u, <1>own, <1>q4, <1>o, <1>r, TTable, TFque, TWaits
  <2> QED
    BY <2>1, <2>2, <1>q1
<1>7. AskedEnds'
  BY <1>u, <1>own, <1>st, TEndp DEF IInv, AskedEnds
<1>8. Reached'
  <2> SUFFICES ASSUME NEW g \in Fibers, waits'[g] # 0
               PROVE  \/ \E r \in table' : r[1] = waits'[g] /\ r[2] = g
                      \/ \E k \in 1 .. Len(fque'[Owner(g)]) :
                           /\ fque'[Owner(g)][k].type = "resume"
                           /\ fque'[Owner(g)][k].f = g
                      \/ late' # NIL /\ late'[2] = g
    BY DEF Reached
  <2>0. waits[g] # 0 /\ waits'[g] = waits[g] /\ Owner(g) \in Workers
    BY Nobody, <1>u
  <2>1. CASE \E r \in table : r[1] = waits[g] /\ r[2] = g
    BY <2>0, <2>1, <1>u
  <2>2. ASSUME NEW k \in 1 .. Len(fque[Owner(g)]),
               fque[Owner(g)][k].type = "resume", fque[Owner(g)][k].f = g
        PROVE  \E j \in 1 .. Len(fque'[Owner(g)]) :
                 fque'[Owner(g)][j].type = "resume" /\ fque'[Owner(g)][j].f = g
    BY <2>0, <2>2, <1>q2
  <2>3. CASE late # NIL /\ late[2] = g
    BY <2>3, <1>u
  <2> QED
    BY <2>0, <2>1, <2>2, <2>3 DEF IInv, Reached
<1>9. ResumeOwn'
  <2> SUFFICES ASSUME NEW v \in Workers, NEW k \in 1 .. Len(fque'[v]),
                      fque'[v][k].type = "resume"
               PROVE  /\ v = Owner(fque'[v][k].f)
                      /\ waits'[fque'[v][k].f] = fque'[v][k].id
                      /\ fque'[v][k].id # 0
    BY DEF ResumeOwn
  <2>1. k \in 1 .. Len(fque[v]) /\ fque'[v][k] = fque[v][k]
    BY <1>q1, <1>q4
  <2> QED
    BY <2>1, <1>u DEF IInv, ResumeOwn
<1>10. ResumeGone'
  <2> SUFFICES ASSUME NEW v \in Workers, NEW k \in 1 .. Len(fque'[v]),
                      fque'[v][k].type = "resume"
               PROVE  \A s \in table' : s[1] # fque'[v][k].id
    BY DEF ResumeGone
  <2>1. k \in 1 .. Len(fque[v]) /\ fque'[v][k] = fque[v][k]
    BY <1>q1, <1>q4
  <2> QED
    BY <2>1, <1>u DEF IInv, ResumeGone
<1>11. ResumeFree'
  <2> SUFFICES ASSUME NEW v \in Workers, NEW k \in 1 .. Len(fque'[v]),
                      fque'[v][k].type = "resume"
               PROVE  /\ m_w'[fque'[v][k].f] = NIL
                      /\ (late' # NIL => late'[2] # fque'[v][k].f)
    BY DEF ResumeFree
  <2>1. k \in 1 .. Len(fque[v]) /\ fque'[v][k] = fque[v][k]
    BY <1>q1, <1>q4
  <2> QED
    BY <2>1, <1>u DEF IInv, ResumeFree
<1>12. ResumeOnce'
  <2> SUFFICES ASSUME NEW v \in Workers, NEW j \in 1 .. Len(fque'[v]), NEW k \in 1 .. Len(fque'[v]),
                      fque'[v][j].type = "resume", fque'[v][k].type = "resume",
                      fque'[v][j].f = fque'[v][k].f
               PROVE  j = k
    BY DEF ResumeOnce
  <2>1. /\ j \in 1 .. Len(fque[v]) /\ fque'[v][j] = fque[v][j]
        /\ k \in 1 .. Len(fque[v]) /\ fque'[v][k] = fque[v][k]
    BY <1>q1, <1>q4
  <2> QED
    BY <2>1 DEF IInv, ResumeOnce
<1>13. AloneId'
  <2> SUFFICES ASSUME NEW v \in Workers, Solo, add[v] # NIL
               PROVE  watch'[add'[v][1]].msgid = waits'[cur'[v]]
    BY <1>u DEF AloneId, Solo
  <2> QED
    BY <1>g, Alone
<1>14. HomeTasks'
  <2> SUFFICES ASSUME NEW v \in Workers, NEW k \in 1 .. Len(fque'[v])
               PROVE  /\ fque'[v][k].type = "request" => Home(fque[v][k].f, fque[v][k].id)'
                      /\ fque'[v][k].type = "response" => Home(v, fque[v][k].id)'
    BY DEF HomeTasks
  <2>1. CASE k \in 1 .. Len(fque[v]) /\ fque'[v][k] = fque[v][k]
    BY <2>1, TFque, <1>home DEF IInv, HomeTasks, Tasks
  <2>2. CASE ~(k \in 1 .. Len(fque[v]) /\ fque'[v][k] = fque[v][k])
    BY <2>2, <1>q1, <1>q4, <1>o2, <1>d, <1>r, <1>home
  <2> QED
    BY <2>1, <2>2
<1>15. HomeEnds'
  BY <1>u, <1>home, <1>st, TEndp DEF IInv, HomeEnds
<1>16. Mode' /\ AloneAdd' /\ AloneNamed' /\ NoneDeleted'
  BY <1>u DEF IInv, Solo, Mode, AloneAdd, AloneNamed, NoneDeleted
<1>17. /\ Inside' /\ Stages' /\ Commands' /\ WaitIds' /\ WaitOnce'
       /\ TableIds' /\ TableOnce' /\ WatchIds' /\ WatchOnce' /\ CmdIds'
  BY <1>u DEF IInv, Inside, Stages, Commands, WaitIds, WaitOnce, TableIds,
     TableOnce, WatchIds, WatchOnce, CmdIds
<1>18. AskedProc'
  BY <1>u DEF IInv, Own, AskedProc
<1>19. /\ CmdTable' /\ CmdWatch' /\ Owed' /\ LateOwn' /\ LateGone' /\ Held'
       /\ Bound' /\ Entered' /\ Sole' /\ Called'
  BY <1>u DEF IInv, CmdTable, CmdWatch, Owed, LateOwn, LateGone, Held, Bound,
     Entered, Sole, Called
<1>20. /\ Whereabouts' /\ Occupied' /\ OneEntry' /\ ListApart'
       /\ CalledApart' /\ CmdApart' /\ CmdOnce' /\ Removing' /\ HeardBound'
       /\ HeardPlaces'
  BY <1>u DEF IInv, Whereabouts, Occupied, OneEntry, ListApart, CalledApart,
     CmdApart, CmdOnce, Removing, HeardBound, HeardPlaces
<1>21. HearCmds' /\ HearProc' /\ HearRest'
  BY <1>u DEF IInv, HearCmds, HearProc, HearRest
<1> QED
  BY <1>0, <1>1, <1>2, <1>3, <1>4, <1>5, <1>6, <1>7, <1>8, <1>9, <1>10, <1>11,
     <1>12, <1>13, <1>14, <1>15, <1>16, <1>17, <1>18, <1>19, <1>20, <1>21 DEF
     IInv

\* yue_deletefiber: the entry of the table is left to the stopped watcher.
LEMMA DeleteStep ==
  ASSUME IInv, NEW t \in Workers, NEW f \in Fibers, Delete(t, f)
  PROVE  IInv'
<1>u. UNCHANGED <<acting, m_endp, ent, list, proc, table, seed, cur, add, fque,
                  late, heard>>
  BY DEF Delete, pvars
<1>w0. PICK w \in Watchers : w = m_w[f]
  BY TMw DEF Delete
<1>g. /\ Solo /\ st[f] = "wait" /\ m_w[f] = w /\ watch[w].used /\ watch[w].fb = f
      /\ watch[w].msgid = waits[f] /\ waits[f] # 0 /\ w # NIL /\ f # NIL
  BY <1>w0, Nobody DEF Delete, IInv, Held, InCall
<1>l. late = NIL
  BY <1>g DEF IInv, Mode
<1>a. \A v \in Workers : add[v] = NIL
  <2>1. t \in acting /\ add[t] = NIL
    BY DEF Delete, InBody, InLoop, IInv, Adding
  <2> QED
    BY <2>1, <1>g DEF IInv, Mode, OnOwner, Adding
<1>e0. watch[w].entry # NIL /\ ent[watch[w].entry] = w
  BY <1>g, <1>a DEF IInv, AloneNamed
<1>e1. PICK e \in Entry : e = watch[w].entry
  BY <1>e0 DEF IInv, Types, WatcherRec
<1>h. e \in Entry /\ e # NIL /\ ent[e] = w
  BY <1>e0, <1>e1, Nobody
<1>c. PICK c \in Cmd : c = Command("remove", e, 0, {})
  BY <1>h DEF Cmd, Command
<1>cmds. /\ \A k \in 1 .. Len(cmds') : (k \in 1 .. Len(cmds) /\ cmds'[k] = cmds[k])
              \/ (k = Len(cmds) + 1 /\ cmds'[k] = c)
         /\ \A k \in 1 .. Len(cmds) : k \in 1 .. Len(cmds') /\ cmds'[k] = cmds[k]
         /\ Len(cmds) + 1 \in 1 .. Len(cmds') /\ cmds'[Len(cmds) + 1] = c
         /\ Len(cmds) \in Nat
         /\ cmds' \in Seq(Cmd)
         /\ c.type = "remove" /\ c.e = e /\ c.respond = 0 /\ c.hear = {}
  BY <1>c, <1>e1, <1>e0, <1>w0, <1>g, Appended DEF IInv, Types, Delete, Fin,
     Unwatch, Command
<1>c1. \A k \in 1 .. Len(cmds') : (k \in 1 .. Len(cmds) /\ cmds'[k] = cmds[k])
         \/ (k = Len(cmds) + 1 /\ cmds'[k] = c)
  BY <1>cmds
<1>c2. \A k \in 1 .. Len(cmds) : k \in 1 .. Len(cmds') /\ cmds'[k] = cmds[k]
  BY <1>cmds
<1>c3. Len(cmds) + 1 \in 1 .. Len(cmds') /\ cmds'[Len(cmds) + 1] = c
  BY <1>cmds
<1>c4. /\ c.type = "remove" /\ c.e = e /\ c.respond = 0 /\ c.hear = {}
       /\ Len(cmds) \in Nat
  BY <1>cmds
<1>watch. \A v \in Watchers : /\ watch'[v].used = watch[v].used
                              /\ watch'[v].fb = watch[v].fb
                              /\ watch'[v].owner = watch[v].owner
                              /\ watch'[v].msgid = watch[v].msgid
                              /\ watch'[v].entry = watch[v].entry
                              /\ (v = w => watch'[v].stopped)
                              /\ (v # w => watch'[v].stopped = watch[v].stopped)
  <2>1. watch \in [Watchers -> WatcherRec] /\ w \in Watchers
    BY <1>w0, <1>g DEF IInv, Types
  <2>2. watch' = [watch EXCEPT ![w].stopped = TRUE]
    BY <1>w0, <1>g DEF Delete, Fin, Unwatch
  <2>3. \A v \in Watchers : v # w => watch'[v] = watch[v]
    BY <2>1, <2>2
  <2>4. watch[w] \in WatcherRec /\ watch'[w] = [watch[w] EXCEPT !.stopped = TRUE]
    BY <2>1, <2>2
  <2>5. /\ watch'[w].used = watch[w].used /\ watch'[w].fb = watch[w].fb
        /\ watch'[w].owner = watch[w].owner /\ watch'[w].msgid = watch[w].msgid
        /\ watch'[w].entry = watch[w].entry /\ watch'[w].stopped
    BY <2>4 DEF WatcherRec
  <2> QED
    BY <2>3, <2>5
<1>mw. m_w'[f] = NIL /\ (\A y \in Fibers : y # f => m_w'[y] = m_w[y])
  BY DEF IInv, Types, Delete, Fin
<1>st. st'[f] = "free" /\ (\A y \in Fibers : y # f => st'[y] = st[y])
  BY DEF IInv, Types, Delete, Fin
<1>waits. waits'[f] = 0 /\ (\A y \in Fibers : y # f => waits'[y] = waits[y])
  BY DEF IInv, Types, Delete, Fin
<1>r. \A v \in Workers : \A k \in 1 .. Len(fque[v]) : fque[v][k].type = "resume"
        => fque[v][k].f # f
  BY <1>g DEF IInv, ResumeFree
<1>m1. \A v \in Watchers : watch[v].used /\ watch[v].msgid = waits[f] => v = w
  BY <1>g DEF IInv, WatchOnce
<1>0. Types'
  <2>1. st' \in [Fibers -> {"free", "run", "wait"}]
    BY DEF IInv, Types, Delete, Fin
  <2>2. m_w' \in [Fibers -> Watchers \union {NIL}]
    BY DEF IInv, Types, Delete, Fin
  <2>3. watch' \in [Watchers -> WatcherRec]
    BY <1>w0, <1>g, SetStopped DEF IInv, Types, Delete, Fin, Unwatch
  <2>4. cmds' \in Seq(Cmd)
    BY <1>cmds
  <2>5. waits' \in [Fibers -> Nat]
    BY DEF IInv, Types, Delete, Fin
  <2> QED
    BY <2>1, <2>2, <2>3, <2>4, <2>5, <1>u DEF IInv, Types
<1>own. \A i \in Nat : Own(i) => Own(i)'
  BY <1>u, TWaits, TTable, <1>watch, <1>waits, <1>g DEF Own
<1>home. \A v \in Workers, i \in Nat : Home(v, i) => Home(v, i)'
  BY <1>u DEF Home
<1>1. Commands'
  BY <1>c4, <1>c1 DEF IInv, Commands
<1>2. Running'
  BY <1>u, <1>st, <1>g DEF IInv, Running
<1>3. Adding'
  BY <1>u, <1>waits, <1>a, TCur DEF IInv, Adding
<1>4. InCall'
  BY <1>st, <1>waits DEF IInv, InCall
<1>5. WaitIds'
  BY <1>u, <1>waits, TSeed DEF IInv, WaitIds
<1>6. WaitOnce'
  BY <1>waits DEF IInv, WaitOnce
<1>7. WatchIds'
  BY <1>u, <1>watch DEF IInv, WatchIds
<1>8. WatchOnce'
  BY <1>watch DEF IInv, WatchOnce
<1>9. AskedProc'
  BY <1>u, <1>own, TResp DEF IInv, AskedProc
<1>10. AskedTasks'
  BY <1>u, <1>own, TFque DEF IInv, AskedTasks
<1>11. AskedEnds'
  BY <1>u, <1>own, <1>st, TEndp DEF IInv, AskedEnds
<1>12. CmdIds'
  BY <1>u, <1>c4, <1>c1, TSeed DEF IInv, CmdIds
<1>13. CmdTable'
  BY <1>u, <1>c4, <1>c1, <1>waits, <1>g, TTable DEF IInv, CmdTable, CmdWatch
<1>14. CmdWatch'
  BY <1>u, <1>watch, <1>c4, <1>c1 DEF IInv, CmdWatch
<1>15. Owed'
  BY <1>u, <1>watch, <1>waits, <1>m1, TTable DEF IInv, Owed
<1>16. Reached'
  BY <1>u, <1>waits DEF IInv, Reached
<1>17. ResumeOwn'
  BY <1>u, <1>r, <1>waits DEF IInv, ResumeOwn, Tasks
<1>18. ResumeFree'
  BY <1>u, <1>mw DEF IInv, ResumeFree, Tasks
<1>19. LateOwn'
  BY <1>u, <1>l DEF IInv, LateOwn
<1>20. Held'
  BY <1>mw, <1>watch, <1>waits, <1>g, TMw DEF IInv, Held
<1>21. Bound'
  BY <1>watch, <1>g DEF IInv, Bound
<1>22. Entered'
  BY <1>u, <1>watch DEF IInv, Entered
<1>23. Sole'
  BY <1>u, <1>mw, <1>watch, <1>g, TTable DEF IInv, Sole
<1>24. Called'
  BY <1>u, <1>mw, <1>watch, TEnt, TProc DEF IInv, Called, Whereabouts
<1>25. Whereabouts'
  BY <1>u, <1>c4, <1>c1, <1>c3 DEF IInv, Whereabouts
<1>26. Occupied'
  BY <1>u, <1>watch, TEnt DEF IInv, Occupied
<1>27. CmdApart'
  BY <1>u, <1>c4, <1>c1 DEF IInv, CmdApart
<1>28. CmdOnce'
  BY <1>c4, <1>c1 DEF IInv, CmdOnce
<1>29. AloneNamed'
  BY <1>u, <1>watch DEF IInv, AloneNamed, Solo
<1>30. AloneId'
  <2> SUFFICES ASSUME NEW v \in Workers, Solo, add[v] # NIL
               PROVE  watch'[add'[v][1]].msgid = waits'[cur'[v]]
    BY <1>u DEF AloneId, Solo
  <2> QED
    BY <1>a
<1>31. Removing'
  <2> SUFFICES ASSUME NEW k \in 1 .. Len(cmds'), cmds'[k].type = "remove"
               PROVE  \/ ent'[cmds'[k].e] = NIL
                      \/ watch'[ent'[cmds'[k].e]].stopped
                      \/ \E j \in 1 .. Len(cmds') :
                           j > k /\ cmds'[j].type = "add" /\ cmds'[j].e = cmds'[k].e
    BY DEF Removing
  <2>1. CASE k \in 1 .. Len(cmds) /\ cmds'[k] = cmds[k]
    <3>1. PICK z \in Entry : z = cmds[k].e
      BY <2>1 DEF IInv, Commands
    <3>2. CASE ent[z] = NIL \/ watch[ent[z]].stopped
      <4>1. ent[z] # NIL => watch'[ent[z]].stopped
        BY <3>2, <1>watch, TEnt
      <4> QED
        BY <2>1, <3>1, <3>2, <4>1, <1>u
    <3>3. CASE \E j \in 1 .. Len(cmds) :
            j > k /\ cmds[j].type = "add" /\ cmds[j].e = z
      BY <2>1, <3>1, <3>3, <1>c2
    <3> QED
      BY <2>1, <3>1, <3>2, <3>3 DEF IInv, Removing
  <2>2. CASE cmds'[k] = c
    BY <2>2, <1>c4, <1>h, <1>u, <1>watch, <1>g, TEnt
  <2> QED
    BY <2>1, <2>2, <1>c1
<1>32. HeardBound'
  BY <1>u, <1>watch, THear DEF IInv, HeardBound
<1>33. HearCmds'
  BY <1>u, <1>c4, <1>c1 DEF IInv, HearCmds
<1>34. HomeEnds'
  BY <1>u, <1>home, <1>st, TEndp DEF IInv, HomeEnds
<1>35. NoneDeleted'
  BY <1>u, <1>g DEF IInv, NoneDeleted, Solo
<1>36. Mode' /\ AloneAdd'
  BY <1>u DEF IInv, Solo, Mode, AloneAdd
<1>37. /\ Inside' /\ Stages' /\ Tasks' /\ OnOwner' /\ TableIds'
       /\ TableOnce' /\ ResumeGone' /\ ResumeOnce' /\ LateGone'
       /\ OneEntry'
  BY <1>u DEF IInv, Inside, Stages, Tasks, OnOwner, TableIds, TableOnce,
     ResumeGone, ResumeOnce, LateGone, OneEntry
<1>38. /\ ListApart' /\ CalledApart' /\ HeardPlaces' /\ HearProc'
       /\ HearRest'
  BY <1>u DEF IInv, ListApart, CalledApart, HeardPlaces, HearProc, HearRest
<1>39. HomeTasks'
  BY <1>u DEF IInv, Home, HomeTasks
<1> QED
  BY <1>0, <1>1, <1>2, <1>3, <1>4, <1>5, <1>6, <1>7, <1>8, <1>9, <1>10, <1>11,
     <1>12, <1>13, <1>14, <1>15, <1>16, <1>17, <1>18, <1>19, <1>20, <1>21,
     <1>22, <1>23, <1>24, <1>25, <1>26, <1>27, <1>28, <1>29, <1>30, <1>31,
     <1>32, <1>33, <1>34, <1>35, <1>36, <1>37, <1>38, <1>39 DEF IInv

----------------------------------------------------------------------------
(* The main loop *)

\* fabric::create in the main loop.
LEMMA CreateStep ==
  ASSUME IInv, NEW t \in Workers, Create(t), NEW r, r = NIL, NEW f \in Fibers,
         st[f] = "free", Owner(f) = t, waits[f] = 0, st' = [st EXCEPT ![f] = "run"],
         cur' = [cur EXCEPT ![t] = f], m_endp' = [m_endp EXCEPT ![f] = r],
         m_w' = m_w, waits' = waits
  PROVE  IInv'
<1>u. UNCHANGED <<acting, m_w, watch, ent, cmds, list, proc, table, seed, add, fque,
                  late, waits, heard>>
  BY DEF Create, pvars
<1>g. /\ f # NIL /\ f \in Fibers /\ st[f] = "free" /\ Owner(f) = t /\ waits[f] = 0
      /\ t \in acting /\ cur[t] = NIL /\ add[t] = NIL
  BY Nobody DEF Create, InLoop, IInv, Adding
<1>st. st'[f] = "run" /\ (\A y \in Fibers : y # f => st'[y] = st[y])
  BY DEF IInv, Types
<1>cur. cur'[t] = f /\ (\A y \in Workers : y # t => cur'[y] = cur[y])
  BY DEF IInv, Types
<1>endp. m_endp'[f] = r /\ (\A y \in Fibers : y # f => m_endp'[y] = m_endp[y])
  BY DEF IInv, Types
<1>0. Types'
  <2>1. st' \in [Fibers -> {"free", "run", "wait"}]
    BY DEF IInv, Types
  <2>2. m_endp' \in [Fibers -> (Workers \X Nat) \union {NIL}]
    BY DEF IInv, Types
  <2>3. cur' \in [Workers -> Fibers \union {NIL}]
    BY DEF IInv, Types
  <2> QED
    BY <2>1, <2>2, <2>3, <1>u DEF IInv, Types
<1>own. \A i \in Nat : Own(i) => Own(i)'
  BY <1>u DEF Own
<1>home. \A v \in Workers, i \in Nat : Home(v, i) => Home(v, i)'
  BY <1>u DEF Home
<1>1. Running'
  BY <1>st, <1>cur, <1>g, Nobody DEF IInv, Running
<1>2. OnOwner'
  BY <1>u, <1>g DEF IInv, OnOwner
<1>3. Adding'
  <2> SUFFICES ASSUME NEW v \in Workers
               PROVE  /\ add'[v] # NIL => cur'[v] # NIL
                      /\ cur'[v] # NIL => (add'[v] # NIL <=> waits'[cur'[v]] # 0)
    BY DEF Adding
  <2>1. CASE v = t
    BY <2>1, <1>u, <1>g, <1>cur
  <2>2. CASE v # t
    <3>1. cur[v] # f /\ (cur[v] # NIL => cur[v] \in Fibers)
      BY <2>2, <1>g, TCur DEF IInv, OnOwner
    <3> QED
      BY <2>2, <3>1, <1>u, <1>cur DEF IInv, Adding
  <2> QED
    BY <2>1, <2>2
<1>4. InCall'
  BY DEF IInv, InCall
<1>5. AskedEnds'
  BY <1>own, <1>endp, TEndp DEF IInv, AskedEnds
<1>6. AloneId'
  <2> SUFFICES ASSUME NEW v \in Workers, Solo, add[v] # NIL
               PROVE  watch'[add'[v][1]].msgid = waits'[cur'[v]]
    BY <1>u DEF AloneId, Solo
  <2> QED
    BY <1>g, Alone
<1>7. HomeEnds'
  BY <1>home, <1>endp, TEndp DEF IInv, HomeEnds
<1>8. Mode' /\ AloneAdd' /\ AloneNamed' /\ NoneDeleted'
  BY <1>u DEF IInv, Solo, Mode, AloneAdd, AloneNamed, NoneDeleted
<1>9. /\ Inside' /\ Stages' /\ Commands' /\ Tasks' /\ WaitIds' /\ WaitOnce'
      /\ TableIds' /\ TableOnce' /\ WatchIds' /\ WatchOnce'
  BY <1>u DEF IInv, Inside, Stages, Commands, Tasks, WaitIds, WaitOnce,
     TableIds, TableOnce, WatchIds, WatchOnce
<1>10. AskedProc' /\ AskedTasks'
  BY <1>u DEF IInv, Own, AskedProc, AskedTasks
<1>11. /\ CmdIds' /\ CmdTable' /\ CmdWatch' /\ Owed' /\ Reached'
       /\ ResumeOwn' /\ ResumeGone' /\ ResumeFree' /\ ResumeOnce'
       /\ LateOwn'
  BY <1>u DEF IInv, CmdIds, CmdTable, CmdWatch, Owed, Reached, ResumeOwn,
     ResumeGone, ResumeFree, ResumeOnce, LateOwn
<1>12. /\ LateGone' /\ Held' /\ Bound' /\ Entered' /\ Sole' /\ Called'
       /\ Whereabouts' /\ Occupied' /\ OneEntry' /\ ListApart'
  BY <1>u DEF IInv, LateGone, Held, Bound, Entered, Sole, Called, Whereabouts,
     Occupied, OneEntry, ListApart
<1>13. /\ CalledApart' /\ CmdApart' /\ CmdOnce' /\ Removing' /\ HeardBound'
       /\ HeardPlaces' /\ HearCmds' /\ HearProc' /\ HearRest'
  BY <1>u DEF IInv, CalledApart, CmdApart, CmdOnce, Removing, HeardBound,
     HeardPlaces, HearCmds, HearProc, HearRest
<1>14. HomeTasks'
  BY <1>u DEF IInv, Home, HomeTasks
<1> QED
  BY <1>0, <1>1, <1>2, <1>3, <1>4, <1>5, <1>6, <1>7, <1>8, <1>9, <1>10, <1>11,
     <1>12, <1>13, <1>14 DEF IInv

\* A task for a new fiber, and the same without storage.
LEMMA TaskStartStep ==
  ASSUME IInv, NEW t \in Workers, TaskStart(t), NEW r,
         r = NIL \/ (Head(fque[t]).type = "request" /\ r = <<Head(fque[t]).f, Head(fque[t]).id>>),
         NEW f \in Fibers, st[f] = "free", Owner(f) = t, waits[f] = 0,
         st' = [st EXCEPT ![f] = "run"], cur' = [cur EXCEPT ![t] = f],
         m_endp' = [m_endp EXCEPT ![f] = r], m_w' = m_w, waits' = waits
  PROVE  IInv'
<1>u. UNCHANGED <<acting, m_w, watch, ent, cmds, list, proc, table, seed, add, late,
                  waits, heard>>
  BY DEF TaskStart, pvars
<1>g. /\ f # NIL /\ f \in Fibers /\ st[f] = "free" /\ Owner(f) = t /\ waits[f] = 0
      /\ t \in acting /\ cur[t] = NIL /\ add[t] = NIL
  BY Nobody DEF TaskStart, InLoop, IInv, Adding
<1>st. st'[f] = "run" /\ (\A y \in Fibers : y # f => st'[y] = st[y])
  BY DEF IInv, Types
<1>cur. cur'[t] = f /\ (\A y \in Workers : y # t => cur'[y] = cur[y])
  BY DEF IInv, Types
<1>endp. m_endp'[f] = r /\ (\A y \in Fibers : y # f => m_endp'[y] = m_endp[y])
  BY DEF IInv, Types
<1>fque. /\ 1 \in 1 .. Len(fque[t]) /\ Head(fque[t]) = fque[t][1]
         /\ Head(fque[t]) \in Tsk
         /\ \A v \in Workers : v # t => fque'[v] = fque[v]
         /\ \A k \in 1 .. Len(fque'[t]) :
              k + 1 \in 1 .. Len(fque[t]) /\ fque'[t][k] = fque[t][k + 1]
         /\ \A k \in 1 .. Len(fque[t]) : k = 1
              \/ (k - 1 \in 1 .. Len(fque'[t]) /\ fque'[t][k - 1] = fque[t][k])
         /\ fque' \in [Workers -> Seq(Tsk)]
  BY Popped DEF IInv, Types, TaskStart
<1>q0. /\ 1 \in 1 .. Len(fque[t]) /\ Head(fque[t]) = fque[t][1]
       /\ Head(fque[t]) \in Tsk
  BY <1>fque
<1>q1. \A v \in Workers : v # t => fque'[v] = fque[v]
  BY <1>fque
<1>q2. \A k \in 1 .. Len(fque'[t]) :
         k + 1 \in 1 .. Len(fque[t]) /\ fque'[t][k] = fque[t][k + 1]
  BY <1>fque
<1>q5. \A v \in Workers : \A k \in 1 .. Len(fque'[v]) : \E j \in 1 .. Len(fque[v]) :
         fque'[v][k] = fque[v][j]
  BY <1>q1, <1>q2
<1>q3. \A k \in 1 .. Len(fque[t]) : k = 1
         \/ (k - 1 \in 1 .. Len(fque'[t]) /\ fque'[t][k - 1] = fque[t][k])
  BY <1>fque
<1>r. r = NIL
        \/ (fque[t][1].type = "request" /\ r = <<fque[t][1].f, fque[t][1].id>>
            /\ fque[t][1].f \in Workers /\ fque[t][1].id \in Nat)
  BY <1>q0, TFque DEF IInv, Tasks
<1>o. r # NIL => Own(r[2])
  BY <1>r, <1>q0 DEF IInv, AskedTasks
<1>o2. r # NIL => Home(r[1], r[2])
  BY <1>r, <1>q0 DEF IInv, HomeTasks
<1>0. Types'
  <2>1. st' \in [Fibers -> {"free", "run", "wait"}]
    BY DEF IInv, Types
  <2>2. m_endp' \in [Fibers -> (Workers \X Nat) \union {NIL}]
    BY <1>r DEF IInv, Types
  <2>3. cur' \in [Workers -> Fibers \union {NIL}]
    BY DEF IInv, Types
  <2>4. fque' \in [Workers -> Seq(Tsk)]
    BY <1>fque
  <2> QED
    BY <2>1, <2>2, <2>3, <2>4, <1>u DEF IInv, Types
<1>own. \A i \in Nat : Own(i) => Own(i)'
  BY <1>u DEF Own
<1>home. \A v \in Workers, i \in Nat : Home(v, i) => Home(v, i)'
  BY <1>u DEF Home
<1>1. Tasks'
  BY <1>q0, <1>q1, <1>q2 DEF IInv, Tasks
<1>2. Running'
  BY <1>st, <1>cur, <1>g, Nobody DEF IInv, Running
<1>3. OnOwner'
  BY <1>u, <1>g DEF IInv, OnOwner
<1>4. Adding'
  <2> SUFFICES ASSUME NEW v \in Workers
               PROVE  /\ add'[v] # NIL => cur'[v] # NIL
                      /\ cur'[v] # NIL => (add'[v] # NIL <=> waits'[cur'[v]] # 0)
    BY DEF Adding
  <2>1. CASE v = t
    BY <2>1, <1>u, <1>g, <1>cur
  <2>2. CASE v # t
    <3>1. cur[v] # f /\ (cur[v] # NIL => cur[v] \in Fibers)
      BY <2>2, <1>g, TCur DEF IInv, OnOwner
    <3> QED
      BY <2>2, <3>1, <1>u, <1>cur DEF IInv, Adding
  <2> QED
    BY <2>1, <2>2
<1>5. InCall'
  BY DEF IInv, InCall
<1>6. AskedTasks'
  <2> SUFFICES ASSUME NEW v \in Workers, NEW k \in 1 .. Len(fque'[v]),
                      fque'[v][k].type \in {"request", "response"}
               PROVE  Own(fque[v][k].id)'
    BY DEF AskedTasks
  <2>1. PICK j \in 1 .. Len(fque[v]) : fque'[v][k] = fque[v][j]
    BY <1>q5
  <2>2. Own(fque[v][j].id) /\ fque[v][j].id \in Nat
    BY <2>1, TFque DEF IInv, AskedTasks
  <2> QED
    BY <2>1, <2>2, <1>own
<1>7. AskedEnds'
  BY <1>own, <1>endp, <1>r, <1>o, TEndp DEF IInv, AskedEnds
<1>8. Reached'
  <2> SUFFICES ASSUME NEW g \in Fibers, waits'[g] # 0
               PROVE  \/ \E n \in table' : n[1] = waits'[g] /\ n[2] = g
                      \/ \E k \in 1 .. Len(fque'[Owner(g)]) :
                           /\ fque'[Owner(g)][k].type = "resume"
                           /\ fque'[Owner(g)][k].f = g
                      \/ late' # NIL /\ late'[2] = g
    BY DEF Reached
  <2>0. waits[g] # 0 /\ waits'[g] = waits[g] /\ Owner(g) \in Workers
    BY Nobody, <1>u
  <2>1. CASE \E n \in table : n[1] = waits[g] /\ n[2] = g
    BY <2>0, <2>1, <1>u
  <2>2. ASSUME NEW k \in 1 .. Len(fque[Owner(g)]),
               fque[Owner(g)][k].type = "resume", fque[Owner(g)][k].f = g
        PROVE  \E j \in 1 .. Len(fque'[Owner(g)]) :
                 fque'[Owner(g)][j].type = "resume" /\ fque'[Owner(g)][j].f = g
    <3>1. CASE Owner(g) = t
      <4>1. k # 1
        BY <2>0, <2>2, <3>1, <1>q0 DEF TaskStart
      <4>2. k - 1 \in 1 .. Len(fque'[t]) /\ fque'[t][k - 1] = fque[t][k]
        BY <2>2, <3>1, <4>1, <1>q3
      <4> QED
        BY <2>2, <3>1, <4>2
    <3>2. CASE Owner(g) # t
      BY <2>0, <2>2, <3>2, <1>q1
    <3> QED
      BY <3>1, <3>2
  <2>3. CASE late # NIL /\ late[2] = g
    BY <2>3, <1>u
  <2> QED
    BY <2>0, <2>1, <2>2, <2>3 DEF IInv, Reached
<1>9. ResumeOwn'
  <2> SUFFICES ASSUME NEW v \in Workers, NEW k \in 1 .. Len(fque'[v]), fque'[v][k].type = "resume"
               PROVE  /\ v = Owner(fque'[v][k].f)
                      /\ waits'[fque'[v][k].f] = fque'[v][k].id
                      /\ fque'[v][k].id # 0
    BY DEF ResumeOwn
  <2>1. PICK j \in 1 .. Len(fque[v]) : fque'[v][k] = fque[v][j]
    BY <1>q5
  <2> QED
    BY <2>1, <1>u DEF IInv, ResumeOwn
<1>10. ResumeGone'
  <2> SUFFICES ASSUME NEW v \in Workers, NEW k \in 1 .. Len(fque'[v]), fque'[v][k].type = "resume"
               PROVE  \A s \in table' : s[1] # fque'[v][k].id
    BY DEF ResumeGone
  <2>1. PICK j \in 1 .. Len(fque[v]) : fque'[v][k] = fque[v][j]
    BY <1>q5
  <2> QED
    BY <2>1, <1>u DEF IInv, ResumeGone
<1>11. ResumeFree'
  <2> SUFFICES ASSUME NEW v \in Workers, NEW k \in 1 .. Len(fque'[v]), fque'[v][k].type = "resume"
               PROVE  /\ m_w'[fque'[v][k].f] = NIL
                      /\ (late' # NIL => late'[2] # fque'[v][k].f)
    BY DEF ResumeFree
  <2>1. PICK j \in 1 .. Len(fque[v]) : fque'[v][k] = fque[v][j]
    BY <1>q5
  <2> QED
    BY <2>1, <1>u DEF IInv, ResumeFree
<1>12. ResumeOnce'
  <2> SUFFICES ASSUME NEW v \in Workers, NEW j \in 1 .. Len(fque'[v]), NEW k \in 1 .. Len(fque'[v]),
                      fque'[v][j].type = "resume", fque'[v][k].type = "resume",
                      fque'[v][j].f = fque'[v][k].f
               PROVE  j = k
    BY DEF ResumeOnce
  <2>1. CASE v = t
    <3>1. /\ j + 1 \in 1 .. Len(fque[t]) /\ fque'[v][j] = fque[t][j + 1]
          /\ k + 1 \in 1 .. Len(fque[t]) /\ fque'[v][k] = fque[t][k + 1]
      BY <2>1, <1>q2
    <3>2. j + 1 = k + 1
      BY <3>1 DEF IInv, ResumeOnce
    <3> QED
      BY <3>2
  <2>2. CASE v # t
    BY <2>2, <1>q1 DEF IInv, ResumeOnce
  <2> QED
    BY <2>1, <2>2
<1>13. AloneId'
  <2> SUFFICES ASSUME NEW v \in Workers, Solo, add[v] # NIL
               PROVE  watch'[add'[v][1]].msgid = waits'[cur'[v]]
    BY <1>u DEF AloneId, Solo
  <2> QED
    BY <1>g, Alone
<1>14. HomeTasks'
  <2> SUFFICES ASSUME NEW v \in Workers, NEW k \in 1 .. Len(fque'[v])
               PROVE  /\ fque'[v][k].type = "request" => Home(fque[v][k].f, fque[v][k].id)'
                      /\ fque'[v][k].type = "response" => Home(v, fque[v][k].id)'
    BY DEF HomeTasks
  <2>1. PICK j \in 1 .. Len(fque[v]) : fque'[v][k] = fque[v][j]
    BY <1>q5
  <2>2. /\ fque[v][j].type = "request"
             => Home(fque[v][j].f, fque[v][j].id) /\ fque[v][j].f \in Workers
        /\ fque[v][j].type = "response" => Home(v, fque[v][j].id)
        /\ fque[v][j].id \in Nat
    BY TFque DEF IInv, HomeTasks, Tasks
  <2> QED
    BY <2>1, <2>2, <1>home
<1>15. HomeEnds'
  BY <1>home, <1>endp, <1>r, <1>o2, TEndp DEF IInv, HomeEnds
<1>16. Mode' /\ AloneAdd' /\ AloneNamed' /\ NoneDeleted'
  BY <1>u DEF IInv, Solo, Mode, AloneAdd, AloneNamed, NoneDeleted
<1>17. /\ Inside' /\ Stages' /\ Commands' /\ WaitIds' /\ WaitOnce'
       /\ TableIds' /\ TableOnce' /\ WatchIds' /\ WatchOnce' /\ CmdIds'
  BY <1>u DEF IInv, Inside, Stages, Commands, WaitIds, WaitOnce, TableIds,
     TableOnce, WatchIds, WatchOnce, CmdIds
<1>18. AskedProc'
  BY <1>u DEF IInv, Own, AskedProc
<1>19. /\ CmdTable' /\ CmdWatch' /\ Owed' /\ LateOwn' /\ LateGone' /\ Held'
       /\ Bound' /\ Entered' /\ Sole' /\ Called'
  BY <1>u DEF IInv, CmdTable, CmdWatch, Owed, LateOwn, LateGone, Held, Bound,
     Entered, Sole, Called
<1>20. /\ Whereabouts' /\ Occupied' /\ OneEntry' /\ ListApart'
       /\ CalledApart' /\ CmdApart' /\ CmdOnce' /\ Removing' /\ HeardBound'
       /\ HeardPlaces'
  BY <1>u DEF IInv, Whereabouts, Occupied, OneEntry, ListApart, CalledApart,
     CmdApart, CmdOnce, Removing, HeardBound, HeardPlaces
<1>21. HearCmds' /\ HearProc' /\ HearRest'
  BY <1>u DEF IInv, HearCmds, HearProc, HearRest
<1> QED
  BY <1>0, <1>1, <1>2, <1>3, <1>4, <1>5, <1>6, <1>7, <1>8, <1>9, <1>10, <1>11,
     <1>12, <1>13, <1>14, <1>15, <1>16, <1>17, <1>18, <1>19, <1>20, <1>21 DEF
     IInv

\* A task is to start a fiber and there is no storage left.
LEMMA TaskDropStep ==
  ASSUME IInv, NEW t \in Workers, TaskStart(t),
         UNCHANGED <<st, cur, m_endp, m_w, waits>>, Head(fque[t]).type # "resume"
  PROVE  IInv'
<1>u. UNCHANGED <<acting, st, m_w, m_endp, watch, ent, cmds, list, proc, table,
                  seed, cur, add, late, waits, heard>>
  BY DEF TaskStart, pvars
<1>fque. /\ 1 \in 1 .. Len(fque[t]) /\ Head(fque[t]) = fque[t][1]
         /\ Head(fque[t]) \in Tsk
         /\ \A v \in Workers : v # t => fque'[v] = fque[v]
         /\ \A k \in 1 .. Len(fque'[t]) :
              k + 1 \in 1 .. Len(fque[t]) /\ fque'[t][k] = fque[t][k + 1]
         /\ \A k \in 1 .. Len(fque[t]) : k = 1
              \/ (k - 1 \in 1 .. Len(fque'[t]) /\ fque'[t][k - 1] = fque[t][k])
         /\ fque' \in [Workers -> Seq(Tsk)]
  BY Popped DEF IInv, Types, TaskStart
<1>q0. /\ 1 \in 1 .. Len(fque[t]) /\ Head(fque[t]) = fque[t][1]
       /\ Head(fque[t]) \in Tsk
  BY <1>fque
<1>q1. \A v \in Workers : v # t => fque'[v] = fque[v]
  BY <1>fque
<1>q2. \A k \in 1 .. Len(fque'[t]) :
         k + 1 \in 1 .. Len(fque[t]) /\ fque'[t][k] = fque[t][k + 1]
  BY <1>fque
<1>q5. \A v \in Workers : \A k \in 1 .. Len(fque'[v]) : \E j \in 1 .. Len(fque[v]) :
         fque'[v][k] = fque[v][j]
  BY <1>q1, <1>q2
<1>q3. \A k \in 1 .. Len(fque[t]) : k = 1
         \/ (k - 1 \in 1 .. Len(fque'[t]) /\ fque'[t][k - 1] = fque[t][k])
  BY <1>fque
<1>0. Types'
  <2>1. fque' \in [Workers -> Seq(Tsk)]
    BY <1>fque
  <2> QED
    BY <2>1, <1>u DEF IInv, Types
<1>own. \A i \in Nat : Own(i) => Own(i)'
  BY <1>u DEF Own
<1>home. \A v \in Workers, i \in Nat : Home(v, i) => Home(v, i)'
  BY <1>u DEF Home
<1>1. Tasks'
  BY <1>u, <1>q0, <1>q1, <1>q2 DEF IInv, Tasks
<1>2. AskedTasks'
  BY <1>u, <1>own, <1>q0, <1>q1, <1>q2, TWatch, TTable, TSeed, TFque, TWaits,
     Nobody DEF IInv, AskedTasks
<1>3. Reached'
  BY <1>u, <1>q1, <1>q3, TTable, TFque, TLate, TWaits, Nobody DEF IInv,
     Reached, Tasks
<1>4. ResumeOwn'
  <2> SUFFICES ASSUME NEW v \in Workers, NEW k \in 1 .. Len(fque'[v]), fque'[v][k].type = "resume"
               PROVE  /\ v = Owner(fque'[v][k].f)
                      /\ waits'[fque'[v][k].f] = fque'[v][k].id
                      /\ fque'[v][k].id # 0
    BY DEF ResumeOwn
  <2>1. PICK j \in 1 .. Len(fque[v]) : fque'[v][k] = fque[v][j]
    BY <1>q5
  <2> QED
    BY <2>1, <1>u DEF IInv, ResumeOwn
<1>5. ResumeGone'
  <2> SUFFICES ASSUME NEW v \in Workers, NEW k \in 1 .. Len(fque'[v]), fque'[v][k].type = "resume"
               PROVE  \A s \in table' : s[1] # fque'[v][k].id
    BY DEF ResumeGone
  <2>1. PICK j \in 1 .. Len(fque[v]) : fque'[v][k] = fque[v][j]
    BY <1>q5
  <2> QED
    BY <2>1, <1>u DEF IInv, ResumeGone
<1>6. ResumeFree'
  <2> SUFFICES ASSUME NEW v \in Workers, NEW k \in 1 .. Len(fque'[v]), fque'[v][k].type = "resume"
               PROVE  /\ m_w'[fque'[v][k].f] = NIL
                      /\ (late' # NIL => late'[2] # fque'[v][k].f)
    BY DEF ResumeFree
  <2>1. PICK j \in 1 .. Len(fque[v]) : fque'[v][k] = fque[v][j]
    BY <1>q5
  <2> QED
    BY <2>1, <1>u DEF IInv, ResumeFree
<1>7. ResumeOnce'
  <2> SUFFICES ASSUME NEW v \in Workers, NEW j \in 1 .. Len(fque'[v]), NEW k \in 1 .. Len(fque'[v]),
                      fque'[v][j].type = "resume", fque'[v][k].type = "resume",
                      fque'[v][j].f = fque'[v][k].f
               PROVE  j = k
    BY DEF ResumeOnce
  <2>1. CASE v = t
    <3>1. /\ j + 1 \in 1 .. Len(fque[t]) /\ fque'[v][j] = fque[t][j + 1]
          /\ k + 1 \in 1 .. Len(fque[t]) /\ fque'[v][k] = fque[t][k + 1]
      BY <2>1, <1>q2
    <3>2. j + 1 = k + 1
      BY <3>1 DEF IInv, ResumeOnce
    <3> QED
      BY <3>2
  <2>2. CASE v # t
    BY <2>2, <1>q1 DEF IInv, ResumeOnce
  <2> QED
    BY <2>1, <2>2
<1>8. HomeTasks'
  <2> SUFFICES ASSUME NEW v \in Workers, NEW k \in 1 .. Len(fque'[v])
               PROVE  /\ fque'[v][k].type = "request" => Home(fque[v][k].f, fque[v][k].id)'
                      /\ fque'[v][k].type = "response" => Home(v, fque[v][k].id)'
    BY DEF HomeTasks
  <2>1. PICK j \in 1 .. Len(fque[v]) : fque'[v][k] = fque[v][j]
    BY <1>q5
  <2>2. /\ fque[v][j].type = "request"
             => Home(fque[v][j].f, fque[v][j].id) /\ fque[v][j].f \in Workers
        /\ fque[v][j].type = "response" => Home(v, fque[v][j].id)
        /\ fque[v][j].id \in Nat
    BY TFque DEF IInv, HomeTasks, Tasks
  <2> QED
    BY <2>1, <2>2, <1>home
<1>9. Mode' /\ AloneAdd' /\ AloneNamed' /\ AloneId' /\ NoneDeleted'
  BY <1>u DEF IInv, Solo, Mode, AloneAdd, AloneNamed, AloneId, NoneDeleted
<1>10. /\ Inside' /\ Stages' /\ Commands' /\ Running' /\ OnOwner'
       /\ Adding' /\ InCall' /\ WaitIds' /\ WaitOnce' /\ TableIds'
  BY <1>u DEF IInv, Inside, Stages, Commands, Running, OnOwner, Adding, InCall,
     WaitIds, WaitOnce, TableIds
<1>11. /\ TableOnce' /\ WatchIds' /\ WatchOnce' /\ CmdIds' /\ CmdTable'
       /\ CmdWatch' /\ Owed' /\ LateOwn' /\ LateGone' /\ Held'
  BY <1>u DEF IInv, TableOnce, WatchIds, WatchOnce, CmdIds, CmdTable, CmdWatch,
     Owed, LateOwn, LateGone, Held
<1>12. AskedProc' /\ AskedEnds'
  BY <1>u DEF IInv, Own, AskedProc, AskedEnds
<1>13. /\ Bound' /\ Entered' /\ Sole' /\ Called' /\ Whereabouts'
       /\ Occupied' /\ OneEntry' /\ ListApart' /\ CalledApart' /\ CmdApart'
  BY <1>u DEF IInv, Bound, Entered, Sole, Called, Whereabouts, Occupied,
     OneEntry, ListApart, CalledApart, CmdApart
<1>14. /\ CmdOnce' /\ Removing' /\ HeardBound' /\ HeardPlaces' /\ HearCmds'
       /\ HearProc' /\ HearRest'
  BY <1>u DEF IInv, CmdOnce, Removing, HeardBound, HeardPlaces, HearCmds,
     HearProc, HearRest
<1>15. HomeEnds'
  BY <1>u DEF IInv, Home, HomeEnds
<1> QED
  BY <1>0, <1>1, <1>2, <1>3, <1>4, <1>5, <1>6, <1>7, <1>8, <1>9, <1>10, <1>11,
     <1>12, <1>13, <1>14, <1>15 DEF IInv

\* A task for a fiber that was taken out of the table.
LEMMA TaskResumeStep ==
  ASSUME IInv, NEW t \in Workers, TaskResume(t)
  PROVE  IInv'
<1>u. UNCHANGED <<acting, m_w, m_endp, watch, ent, cmds, list, proc, table, seed,
                  add, late, heard>>
  BY DEF TaskResume, pvars
<1>fque. /\ 1 \in 1 .. Len(fque[t]) /\ Head(fque[t]) = fque[t][1]
         /\ Head(fque[t]) \in Tsk
         /\ \A v \in Workers : v # t => fque'[v] = fque[v]
         /\ \A k \in 1 .. Len(fque'[t]) :
              k + 1 \in 1 .. Len(fque[t]) /\ fque'[t][k] = fque[t][k + 1]
         /\ \A k \in 1 .. Len(fque[t]) : k = 1
              \/ (k - 1 \in 1 .. Len(fque'[t]) /\ fque'[t][k - 1] = fque[t][k])
         /\ fque' \in [Workers -> Seq(Tsk)]
  BY Popped DEF IInv, Types, TaskResume
<1>q0. /\ 1 \in 1 .. Len(fque[t]) /\ Head(fque[t]) = fque[t][1]
       /\ Head(fque[t]) \in Tsk
  BY <1>fque
<1>q1. \A v \in Workers : v # t => fque'[v] = fque[v]
  BY <1>fque
<1>q2. \A k \in 1 .. Len(fque'[t]) :
         k + 1 \in 1 .. Len(fque[t]) /\ fque'[t][k] = fque[t][k + 1]
  BY <1>fque
<1>q5. \A v \in Workers : \A k \in 1 .. Len(fque'[v]) : \E j \in 1 .. Len(fque[v]) :
         fque'[v][k] = fque[v][j]
  BY <1>q1, <1>q2
<1>q3. \A k \in 1 .. Len(fque[t]) : k = 1
         \/ (k - 1 \in 1 .. Len(fque'[t]) /\ fque'[t][k - 1] = fque[t][k])
  BY <1>fque
<1>f. PICK f \in Fibers : f = Head(fque[t]).f
  BY <1>q0 DEF IInv, Tasks, TaskResume
<1>i. PICK i \in Nat : i = waits[f]
  BY TWaits
<1>r0. fque[t][1].type = "resume" /\ fque[t][1].f = f
  BY <1>q0, <1>f DEF TaskResume
<1>r1. Owner(f) = t /\ fque[t][1].id = i /\ i # 0 /\ m_w[f] = NIL
  BY <1>r0, <1>q0, <1>i DEF IInv, ResumeOwn, ResumeFree
<1>g. /\ f \in Fibers /\ f # NIL /\ Owner(f) = t /\ waits[f] = i /\ i # 0
      /\ m_w[f] = NIL /\ t \in acting /\ cur[t] = NIL /\ add[t] = NIL
      /\ st[f] = "wait"
  BY <1>r1, <1>i, <1>f, Nobody DEF IInv, Types, TaskResume, InLoop, Adding, InCall,
     Running
<1>gone. \A p \in table : p[1] # i
  BY <1>r0, <1>r1, <1>q0 DEF IInv, ResumeGone
<1>nl. late # NIL => late[2] # f
  BY <1>r0, <1>q0 DEF IInv, ResumeFree
<1>nr. \A v \in Workers : \A k \in 1 .. Len(fque'[v]) : fque'[v][k].type = "resume"
         => fque'[v][k].f # f
  <2> SUFFICES ASSUME NEW v \in Workers, NEW k \in 1 .. Len(fque'[v]),
                      fque'[v][k].type = "resume", fque'[v][k].f = f
               PROVE  FALSE
    OBVIOUS
  <2>1. CASE v = t
    <3>1. k + 1 \in 1 .. Len(fque[t]) /\ fque[t][k + 1] = fque'[v][k] /\ k + 1 # 1
      BY <2>1, <1>q2
    <3> QED
      BY <3>1, <1>r0, <1>q0 DEF IInv, ResumeOnce
  <2>2. CASE v # t
    BY <2>2, <1>q1, <1>g DEF IInv, ResumeOwn
  <2> QED
    BY <2>1, <2>2
<1>st. st'[f] = "run" /\ (\A y \in Fibers : y # f => st'[y] = st[y])
  BY <1>f DEF IInv, Types, Continue, TaskResume
<1>cur. cur'[t] = f /\ (\A y \in Workers : y # t => cur'[y] = cur[y])
  BY <1>f, <1>g DEF IInv, Types, Continue, TaskResume
<1>waits. waits'[f] = 0 /\ (\A y \in Fibers : y # f => waits'[y] = waits[y])
  BY <1>f DEF IInv, Types, Continue, TaskResume
<1>0. Types'
  <2>1. st' \in [Fibers -> {"free", "run", "wait"}]
    BY <1>f DEF IInv, Types, Continue, TaskResume
  <2>2. cur' \in [Workers -> Fibers \union {NIL}]
    BY <1>f, <1>g DEF IInv, Types, Continue, TaskResume
  <2>3. fque' \in [Workers -> Seq(Tsk)]
    BY <1>fque
  <2>4. waits' \in [Fibers -> Nat]
    BY <1>f DEF IInv, Types, Continue, TaskResume
  <2> QED
    BY <2>1, <2>2, <2>3, <2>4, <1>u DEF IInv, Types
<1>own. \A n \in Nat : Own(n) => Own(n)'
  BY <1>u, TWaits, TTable, <1>waits, <1>gone, <1>g DEF Own
<1>home. \A v \in Workers, n \in Nat : Home(v, n) => Home(v, n)'
  BY <1>u DEF Home
<1>1. Tasks'
  <2> SUFFICES ASSUME NEW v \in Workers, NEW k \in 1 .. Len(fque'[v])
               PROVE  /\ fque'[v][k].type = "resume" => fque'[v][k].f \in Fibers
                      /\ fque'[v][k].type = "request" => fque'[v][k].f \in Workers
    BY DEF Tasks
  <2>1. PICK j \in 1 .. Len(fque[v]) : fque'[v][k] = fque[v][j]
    BY <1>q5
  <2> QED
    BY <2>1, <1>u DEF IInv, Tasks
<1>2. Running'
  BY <1>st, <1>cur, <1>g, Nobody DEF IInv, Running
<1>3. OnOwner'
  BY <1>u, <1>cur, <1>g DEF IInv, OnOwner
<1>4. Adding'
  <2> SUFFICES ASSUME NEW v \in Workers
               PROVE  /\ add'[v] # NIL => cur'[v] # NIL
                      /\ cur'[v] # NIL => (add'[v] # NIL <=> waits'[cur'[v]] # 0)
    BY DEF Adding
  <2>1. CASE v = t
    BY <2>1, <1>u, <1>g, <1>cur, <1>waits
  <2>2. CASE v # t
    <3>1. cur[v] # f /\ (cur[v] # NIL => cur[v] \in Fibers)
      BY <2>2, <1>g, TCur DEF IInv, OnOwner
    <3> QED
      BY <2>2, <3>1, <1>u, <1>cur, <1>waits DEF IInv, Adding
  <2> QED
    BY <2>1, <2>2
<1>5. InCall'
  BY <1>st, <1>waits DEF IInv, InCall
<1>6. WaitIds'
  BY <1>u, <1>waits, TSeed DEF IInv, WaitIds
<1>7. WaitOnce'
  BY <1>waits DEF IInv, WaitOnce
<1>8. AskedProc'
  BY <1>u, <1>own, TResp DEF IInv, AskedProc
<1>9. AskedTasks'
  <2> SUFFICES ASSUME NEW v \in Workers, NEW k \in 1 .. Len(fque'[v]),
                      fque'[v][k].type \in {"request", "response"}
               PROVE  Own(fque[v][k].id)'
    BY DEF AskedTasks
  <2>1. PICK j \in 1 .. Len(fque[v]) : fque'[v][k] = fque[v][j]
    BY <1>q5
  <2>2. Own(fque[v][j].id) /\ fque[v][j].id \in Nat
    BY <2>1, TFque DEF IInv, AskedTasks
  <2> QED
    BY <2>1, <2>2, <1>own
<1>10. AskedEnds'
  BY <1>u, <1>own, <1>st, <1>g, TEndp DEF IInv, AskedEnds
<1>11. CmdTable'
  BY <1>u, <1>gone, <1>waits, <1>g, TTable DEF IInv, CmdTable
<1>12. Owed'
  BY <1>u, <1>gone, <1>waits, <1>g, TTable DEF IInv, Owed
<1>13. Reached'
  <2> SUFFICES ASSUME NEW g \in Fibers, waits'[g] # 0
               PROVE  \/ \E r \in table' : r[1] = waits'[g] /\ r[2] = g
                      \/ \E k \in 1 .. Len(fque'[Owner(g)]) :
                           /\ fque'[Owner(g)][k].type = "resume"
                           /\ fque'[Owner(g)][k].f = g
                      \/ late' # NIL /\ late'[2] = g
    BY DEF Reached
  <2>0. waits[g] # 0 /\ waits'[g] = waits[g] /\ Owner(g) \in Workers
    BY Nobody, <1>waits
  <2>1. CASE \E r \in table : r[1] = waits[g] /\ r[2] = g
    BY <2>0, <2>1, <1>u
  <2>2. ASSUME NEW k \in 1 .. Len(fque[Owner(g)]),
               fque[Owner(g)][k].type = "resume", fque[Owner(g)][k].f = g
        PROVE  \E j \in 1 .. Len(fque'[Owner(g)]) :
                 fque'[Owner(g)][j].type = "resume" /\ fque'[Owner(g)][j].f = g
    <3>1. CASE Owner(g) = t
      <4>1. k # 1
        BY <2>0, <2>2, <3>1, <1>r0, <1>waits
      <4>2. k - 1 \in 1 .. Len(fque'[t]) /\ fque'[t][k - 1] = fque[t][k]
        BY <2>2, <3>1, <4>1, <1>q3
      <4> QED
        BY <2>2, <3>1, <4>2
    <3>2. CASE Owner(g) # t
      BY <2>0, <2>2, <3>2, <1>q1
    <3> QED
      BY <3>1, <3>2
  <2>3. CASE late # NIL /\ late[2] = g
    BY <2>3, <1>u
  <2> QED
    BY <2>0, <2>1, <2>2, <2>3 DEF IInv, Reached
<1>14. ResumeOwn'
  <2> SUFFICES ASSUME NEW v \in Workers, NEW k \in 1 .. Len(fque'[v]), fque'[v][k].type = "resume"
               PROVE  /\ v = Owner(fque'[v][k].f)
                      /\ waits'[fque'[v][k].f] = fque'[v][k].id
                      /\ fque'[v][k].id # 0
    BY DEF ResumeOwn
  <2>1. PICK j \in 1 .. Len(fque[v]) : fque'[v][k] = fque[v][j]
    BY <1>q5
  <2>2. /\ v = Owner(fque[v][j].f) /\ waits[fque[v][j].f] = fque[v][j].id
        /\ fque[v][j].id # 0 /\ fque[v][j].f \in Fibers /\ fque[v][j].f # f
    BY <2>1, <1>nr DEF IInv, ResumeOwn, Tasks
  <2> QED
    BY <2>1, <2>2, <1>waits
<1>15. ResumeGone'
  <2> SUFFICES ASSUME NEW v \in Workers, NEW k \in 1 .. Len(fque'[v]), fque'[v][k].type = "resume"
               PROVE  \A s \in table' : s[1] # fque'[v][k].id
    BY DEF ResumeGone
  <2>1. PICK j \in 1 .. Len(fque[v]) : fque'[v][k] = fque[v][j]
    BY <1>q5
  <2> QED
    BY <2>1, <1>u DEF IInv, ResumeGone
<1>16. ResumeFree'
  <2> SUFFICES ASSUME NEW v \in Workers, NEW k \in 1 .. Len(fque'[v]), fque'[v][k].type = "resume"
               PROVE  /\ m_w'[fque'[v][k].f] = NIL
                      /\ (late' # NIL => late'[2] # fque'[v][k].f)
    BY DEF ResumeFree
  <2>1. PICK j \in 1 .. Len(fque[v]) : fque'[v][k] = fque[v][j]
    BY <1>q5
  <2> QED
    BY <2>1, <1>u DEF IInv, ResumeFree
<1>17. ResumeOnce'
  <2> SUFFICES ASSUME NEW v \in Workers, NEW j \in 1 .. Len(fque'[v]), NEW k \in 1 .. Len(fque'[v]),
                      fque'[v][j].type = "resume", fque'[v][k].type = "resume",
                      fque'[v][j].f = fque'[v][k].f
               PROVE  j = k
    BY DEF ResumeOnce
  <2>1. CASE v = t
    <3>1. /\ j + 1 \in 1 .. Len(fque[t]) /\ fque'[v][j] = fque[t][j + 1]
          /\ k + 1 \in 1 .. Len(fque[t]) /\ fque'[v][k] = fque[t][k + 1]
      BY <2>1, <1>q2
    <3>2. j + 1 = k + 1
      BY <3>1 DEF IInv, ResumeOnce
    <3> QED
      BY <3>2
  <2>2. CASE v # t
    BY <2>2, <1>q1 DEF IInv, ResumeOnce
  <2> QED
    BY <2>1, <2>2
<1>18. LateOwn'
  BY <1>u, <1>nl, <1>waits, TLate DEF IInv, LateOwn
<1>19. Held'
  BY <1>u, <1>waits, <1>g DEF IInv, Held
<1>20. AloneId'
  <2> SUFFICES ASSUME NEW v \in Workers, Solo, add[v] # NIL
               PROVE  watch'[add'[v][1]].msgid = waits'[cur'[v]]
    BY <1>u DEF AloneId, Solo
  <2> QED
    BY <1>g, Alone
<1>21. HomeTasks'
  <2> SUFFICES ASSUME NEW v \in Workers, NEW k \in 1 .. Len(fque'[v])
               PROVE  /\ fque'[v][k].type = "request" => Home(fque[v][k].f, fque[v][k].id)'
                      /\ fque'[v][k].type = "response" => Home(v, fque[v][k].id)'
    BY DEF HomeTasks
  <2>1. PICK j \in 1 .. Len(fque[v]) : fque'[v][k] = fque[v][j]
    BY <1>q5
  <2>2. /\ fque[v][j].type = "request"
             => Home(fque[v][j].f, fque[v][j].id) /\ fque[v][j].f \in Workers
        /\ fque[v][j].type = "response" => Home(v, fque[v][j].id)
        /\ fque[v][j].id \in Nat
    BY TFque DEF IInv, HomeTasks, Tasks
  <2> QED
    BY <2>1, <2>2, <1>home
<1>22. HomeEnds'
  BY <1>u, <1>home, <1>st, <1>g, TEndp DEF IInv, HomeEnds
<1>23. NoneDeleted'
  BY <1>u, <1>gone, <1>waits, <1>g, TTable DEF IInv, NoneDeleted, Solo
<1>24. Mode' /\ AloneAdd' /\ AloneNamed'
  BY <1>u DEF IInv, Solo, Mode, AloneAdd, AloneNamed
<1>25. /\ Inside' /\ Stages' /\ Commands' /\ TableIds' /\ TableOnce'
       /\ WatchIds' /\ WatchOnce' /\ CmdIds' /\ CmdWatch' /\ LateGone'
  BY <1>u DEF IInv, Inside, Stages, Commands, TableIds, TableOnce, WatchIds,
     WatchOnce, CmdIds, CmdWatch, LateGone
<1>26. /\ Bound' /\ Entered' /\ Sole' /\ Called' /\ Whereabouts'
       /\ Occupied' /\ OneEntry' /\ ListApart' /\ CalledApart' /\ CmdApart'
  BY <1>u DEF IInv, Bound, Entered, Sole, Called, Whereabouts, Occupied,
     OneEntry, ListApart, CalledApart, CmdApart
<1>27. /\ CmdOnce' /\ Removing' /\ HeardBound' /\ HeardPlaces' /\ HearCmds'
       /\ HearProc' /\ HearRest'
  BY <1>u DEF IInv, CmdOnce, Removing, HeardBound, HeardPlaces, HearCmds,
     HearProc, HearRest
<1> QED
  BY <1>0, <1>1, <1>2, <1>3, <1>4, <1>5, <1>6, <1>7, <1>8, <1>9, <1>10, <1>11,
     <1>12, <1>13, <1>14, <1>15, <1>16, <1>17, <1>18, <1>19, <1>20, <1>21,
     <1>22, <1>23, <1>24, <1>25, <1>26, <1>27 DEF IInv

\* An answer that finds nobody, and one that finds the fiber.
LEMMA TaskLateStep ==
  ASSUME IInv, NEW t \in Workers, TaskResponse(t), InTable(Head(fque[t]).id) = {}
  PROVE  IInv'
<1>u. UNCHANGED <<acting, st, m_w, m_endp, watch, ent, cmds, list, proc, table,
                  seed, cur, add, late, waits, heard>>
  BY DEF TaskResponse, pvars
<1>fque. /\ 1 \in 1 .. Len(fque[t]) /\ Head(fque[t]) = fque[t][1]
         /\ Head(fque[t]) \in Tsk
         /\ \A v \in Workers : v # t => fque'[v] = fque[v]
         /\ \A k \in 1 .. Len(fque'[t]) :
              k + 1 \in 1 .. Len(fque[t]) /\ fque'[t][k] = fque[t][k + 1]
         /\ \A k \in 1 .. Len(fque[t]) : k = 1
              \/ (k - 1 \in 1 .. Len(fque'[t]) /\ fque'[t][k - 1] = fque[t][k])
         /\ fque' \in [Workers -> Seq(Tsk)]
  <2>1. fque' = [fque EXCEPT ![t] = Tail(@)] /\ fque[t] # <<>>
    BY DEF TaskResponse
  <2> QED
    BY <2>1, Popped DEF IInv, Types
<1>q0. /\ 1 \in 1 .. Len(fque[t]) /\ Head(fque[t]) = fque[t][1]
       /\ Head(fque[t]) \in Tsk
  BY <1>fque
<1>q1. \A v \in Workers : v # t => fque'[v] = fque[v]
  BY <1>fque
<1>q2. \A k \in 1 .. Len(fque'[t]) :
         k + 1 \in 1 .. Len(fque[t]) /\ fque'[t][k] = fque[t][k + 1]
  BY <1>fque
<1>q5. \A v \in Workers : \A k \in 1 .. Len(fque'[v]) : \E j \in 1 .. Len(fque[v]) :
         fque'[v][k] = fque[v][j]
  BY <1>q1, <1>q2
<1>q3. \A k \in 1 .. Len(fque[t]) : k = 1
         \/ (k - 1 \in 1 .. Len(fque'[t]) /\ fque'[t][k - 1] = fque[t][k])
  BY <1>fque
<1>0. Types'
  <2>1. fque' \in [Workers -> Seq(Tsk)]
    BY <1>fque
  <2> QED
    BY <2>1, <1>u DEF IInv, Types
<1>own. \A i \in Nat : Own(i) => Own(i)'
  BY <1>u DEF Own
<1>home. \A v \in Workers, i \in Nat : Home(v, i) => Home(v, i)'
  BY <1>u DEF Home
<1>1. Tasks'
  BY <1>u, <1>q0, <1>q1, <1>q2 DEF IInv, Tasks
<1>2. AskedTasks'
  BY <1>u, <1>own, <1>q0, <1>q1, <1>q2, TWatch, TTable, TSeed, TFque, TWaits
     DEF IInv, AskedTasks
<1>3. Reached'
  <2> SUFFICES ASSUME NEW g \in Fibers, waits'[g] # 0
               PROVE  \/ \E r \in table' : r[1] = waits'[g] /\ r[2] = g
                      \/ \E k \in 1 .. Len(fque'[Owner(g)]) :
                           /\ fque'[Owner(g)][k].type = "resume"
                           /\ fque'[Owner(g)][k].f = g
                      \/ late' # NIL /\ late'[2] = g
    BY DEF Reached
  <2>0. waits[g] # 0 /\ waits'[g] = waits[g] /\ Owner(g) \in Workers
    BY Nobody, <1>u
  <2>1. CASE \E r \in table : r[1] = waits[g] /\ r[2] = g
    BY <2>0, <2>1, <1>u
  <2>2. ASSUME NEW k \in 1 .. Len(fque[Owner(g)]),
               fque[Owner(g)][k].type = "resume", fque[Owner(g)][k].f = g
        PROVE  \E j \in 1 .. Len(fque'[Owner(g)]) :
                 fque'[Owner(g)][j].type = "resume" /\ fque'[Owner(g)][j].f = g
    <3>1. CASE Owner(g) = t
      <4>1. k # 1
        BY <2>0, <2>2, <3>1, <1>q0 DEF TaskResponse
      <4>2. k - 1 \in 1 .. Len(fque'[t]) /\ fque'[t][k - 1] = fque[t][k]
        BY <2>2, <3>1, <4>1, <1>q3
      <4> QED
        BY <2>2, <3>1, <4>2
    <3>2. CASE Owner(g) # t
      BY <2>0, <2>2, <3>2, <1>q1
    <3> QED
      BY <3>1, <3>2
  <2>3. CASE late # NIL /\ late[2] = g
    BY <2>3, <1>u
  <2> QED
    BY <2>0, <2>1, <2>2, <2>3 DEF IInv, Reached
<1>4. ResumeOwn'
  <2> SUFFICES ASSUME NEW v \in Workers, NEW k \in 1 .. Len(fque'[v]), fque'[v][k].type = "resume"
               PROVE  /\ v = Owner(fque'[v][k].f)
                      /\ waits'[fque'[v][k].f] = fque'[v][k].id
                      /\ fque'[v][k].id # 0
    BY DEF ResumeOwn
  <2>1. PICK j \in 1 .. Len(fque[v]) : fque'[v][k] = fque[v][j]
    BY <1>q5
  <2> QED
    BY <2>1, <1>u DEF IInv, ResumeOwn
<1>5. ResumeGone'
  <2> SUFFICES ASSUME NEW v \in Workers, NEW k \in 1 .. Len(fque'[v]), fque'[v][k].type = "resume"
               PROVE  \A s \in table' : s[1] # fque'[v][k].id
    BY DEF ResumeGone
  <2>1. PICK j \in 1 .. Len(fque[v]) : fque'[v][k] = fque[v][j]
    BY <1>q5
  <2> QED
    BY <2>1, <1>u DEF IInv, ResumeGone
<1>6. ResumeFree'
  <2> SUFFICES ASSUME NEW v \in Workers, NEW k \in 1 .. Len(fque'[v]), fque'[v][k].type = "resume"
               PROVE  /\ m_w'[fque'[v][k].f] = NIL
                      /\ (late' # NIL => late'[2] # fque'[v][k].f)
    BY DEF ResumeFree
  <2>1. PICK j \in 1 .. Len(fque[v]) : fque'[v][k] = fque[v][j]
    BY <1>q5
  <2> QED
    BY <2>1, <1>u DEF IInv, ResumeFree
<1>7. ResumeOnce'
  <2> SUFFICES ASSUME NEW v \in Workers, NEW j \in 1 .. Len(fque'[v]), NEW k \in 1 .. Len(fque'[v]),
                      fque'[v][j].type = "resume", fque'[v][k].type = "resume",
                      fque'[v][j].f = fque'[v][k].f
               PROVE  j = k
    BY DEF ResumeOnce
  <2>1. CASE v = t
    <3>1. /\ j + 1 \in 1 .. Len(fque[t]) /\ fque'[v][j] = fque[t][j + 1]
          /\ k + 1 \in 1 .. Len(fque[t]) /\ fque'[v][k] = fque[t][k + 1]
      BY <2>1, <1>q2
    <3>2. j + 1 = k + 1
      BY <3>1 DEF IInv, ResumeOnce
    <3> QED
      BY <3>2
  <2>2. CASE v # t
    BY <2>2, <1>q1 DEF IInv, ResumeOnce
  <2> QED
    BY <2>1, <2>2
<1>8. HomeTasks'
  <2> SUFFICES ASSUME NEW v \in Workers, NEW k \in 1 .. Len(fque'[v])
               PROVE  /\ fque'[v][k].type = "request" => Home(fque[v][k].f, fque[v][k].id)'
                      /\ fque'[v][k].type = "response" => Home(v, fque[v][k].id)'
    BY DEF HomeTasks
  <2>1. PICK j \in 1 .. Len(fque[v]) : fque'[v][k] = fque[v][j]
    BY <1>q5
  <2>2. /\ fque[v][j].type = "request"
             => Home(fque[v][j].f, fque[v][j].id) /\ fque[v][j].f \in Workers
        /\ fque[v][j].type = "response" => Home(v, fque[v][j].id)
        /\ fque[v][j].id \in Nat
    BY TFque DEF IInv, HomeTasks, Tasks
  <2> QED
    BY <2>1, <2>2, <1>home
<1>9. Mode' /\ AloneAdd' /\ AloneNamed' /\ AloneId' /\ NoneDeleted'
  BY <1>u DEF IInv, Solo, Mode, AloneAdd, AloneNamed, AloneId, NoneDeleted
<1>10. /\ Inside' /\ Stages' /\ Commands' /\ Running' /\ OnOwner'
       /\ Adding' /\ InCall' /\ WaitIds' /\ WaitOnce' /\ TableIds'
  BY <1>u DEF IInv, Inside, Stages, Commands, Running, OnOwner, Adding, InCall,
     WaitIds, WaitOnce, TableIds
<1>11. /\ TableOnce' /\ WatchIds' /\ WatchOnce' /\ CmdIds' /\ CmdTable'
       /\ CmdWatch' /\ Owed' /\ LateOwn' /\ LateGone' /\ Held'
  BY <1>u DEF IInv, TableOnce, WatchIds, WatchOnce, CmdIds, CmdTable, CmdWatch,
     Owed, LateOwn, LateGone, Held
<1>12. AskedProc' /\ AskedEnds'
  BY <1>u DEF IInv, Own, AskedProc, AskedEnds
<1>13. /\ Bound' /\ Entered' /\ Sole' /\ Called' /\ Whereabouts'
       /\ Occupied' /\ OneEntry' /\ ListApart' /\ CalledApart' /\ CmdApart'
  BY <1>u DEF IInv, Bound, Entered, Sole, Called, Whereabouts, Occupied,
     OneEntry, ListApart, CalledApart, CmdApart
<1>14. /\ CmdOnce' /\ Removing' /\ HeardBound' /\ HeardPlaces' /\ HearCmds'
       /\ HearProc' /\ HearRest'
  BY <1>u DEF IInv, CmdOnce, Removing, HeardBound, HeardPlaces, HearCmds,
     HearProc, HearRest
<1>15. HomeEnds'
  BY <1>u DEF IInv, Home, HomeEnds
<1> QED
  BY <1>0, <1>1, <1>2, <1>3, <1>4, <1>5, <1>6, <1>7, <1>8, <1>9, <1>10, <1>11,
     <1>12, <1>13, <1>14, <1>15 DEF IInv

\* A response finds its id in the table.
LEMMA TaskResponseStep ==
  ASSUME IInv, NEW t \in Workers, TaskResponse(t),
         NEW p \in InTable(Head(fque[t]).id),
         table' = table \ {p}, Continue(p[2])
  PROVE  IInv'
<1>u. UNCHANGED <<acting, m_w, m_endp, watch, ent, cmds, list, proc, seed, add,
                  late, heard>>
  BY DEF TaskResponse, pvars
<1>fque. /\ 1 \in 1 .. Len(fque[t]) /\ Head(fque[t]) = fque[t][1]
         /\ Head(fque[t]) \in Tsk
         /\ \A v \in Workers : v # t => fque'[v] = fque[v]
         /\ \A k \in 1 .. Len(fque'[t]) :
              k + 1 \in 1 .. Len(fque[t]) /\ fque'[t][k] = fque[t][k + 1]
         /\ \A k \in 1 .. Len(fque[t]) : k = 1
              \/ (k - 1 \in 1 .. Len(fque'[t]) /\ fque'[t][k - 1] = fque[t][k])
         /\ fque' \in [Workers -> Seq(Tsk)]
  <2>1. fque' = [fque EXCEPT ![t] = Tail(@)] /\ fque[t] # <<>>
    BY DEF TaskResponse
  <2> QED
    BY <2>1, Popped DEF IInv, Types
<1>q0. /\ 1 \in 1 .. Len(fque[t]) /\ Head(fque[t]) = fque[t][1]
       /\ Head(fque[t]) \in Tsk
  BY <1>fque
<1>q1. \A v \in Workers : v # t => fque'[v] = fque[v]
  BY <1>fque
<1>q2. \A k \in 1 .. Len(fque'[t]) :
         k + 1 \in 1 .. Len(fque[t]) /\ fque'[t][k] = fque[t][k + 1]
  BY <1>fque
<1>q5. \A v \in Workers : \A k \in 1 .. Len(fque'[v]) : \E j \in 1 .. Len(fque[v]) :
         fque'[v][k] = fque[v][j]
  BY <1>q1, <1>q2
<1>q3. \A k \in 1 .. Len(fque[t]) : k = 1
         \/ (k - 1 \in 1 .. Len(fque'[t]) /\ fque'[t][k - 1] = fque[t][k])
  BY <1>fque
<1>f. PICK f \in Fibers : f = p[2]
  BY TTable DEF InTable
<1>i. PICK i \in Nat : i = p[1] /\ p \in table /\ i = fque[t][1].id /\ i # 0
  <2>1. p \in table /\ p[1] = Head(fque[t]).id /\ p[1] \in 1 .. seed
    BY DEF InTable, IInv, TableIds
  <2> QED
    BY <2>1, <1>q0, TTable
<1>own1. Own(i) /\ Home(t, i)
  BY <1>q0, <1>i DEF TaskResponse, IInv, AskedTasks, HomeTasks
<1>own0. /\ waits[f] = i /\ Owner(f) = t
         /\ \A w \in Watchers : watch[w].used => watch[w].msgid # i
  BY <1>own1, <1>f, <1>i DEF Own, Home
<1>g. /\ f \in Fibers /\ f # NIL /\ Owner(f) = t /\ waits[f] = i /\ i # 0
      /\ i \in Nat /\ t \in acting /\ cur[t] = NIL /\ add[t] = NIL /\ st[f] = "wait"
      /\ p \in table /\ p[1] = i /\ p[2] = f
  BY <1>f, <1>i, <1>own0, Nobody DEF IInv, Types, TaskResponse, Adding, InCall,
     Running, InLoop
<1>m. m_w'[f] = NIL
  BY <1>own0, <1>g, TMw DEF IInv, Held, TaskResponse
<1>table. /\ (\A r \in table' : r \in table /\ r # p)
          /\ (\A r \in table : r # p => r \in table')
  BY DEF TaskResponse
<1>gone. \A r \in table' : r[1] # i
  BY <1>table, <1>g DEF IInv, TableOnce
<1>nl. late # NIL => late[2] # f
  BY <1>g DEF IInv, LateGone, LateOwn
<1>nr0. \A v \in Workers : \A k \in 1 .. Len(fque[v]) : fque[v][k].type = "resume"
          => fque[v][k].f # f
  BY <1>g DEF IInv, ResumeGone, ResumeOwn
<1>nr. \A v \in Workers : \A k \in 1 .. Len(fque'[v]) : fque'[v][k].type = "resume"
         => fque'[v][k].f # f
  BY <1>nr0, <1>q1, <1>q2
<1>st. st'[f] = "run" /\ (\A y \in Fibers : y # f => st'[y] = st[y])
  BY <1>f DEF IInv, Types, Continue
<1>cur. cur'[t] = f /\ (\A y \in Workers : y # t => cur'[y] = cur[y])
  BY <1>f, <1>g DEF IInv, Types, Continue
<1>waits. waits'[f] = 0 /\ (\A y \in Fibers : y # f => waits'[y] = waits[y])
  BY <1>f DEF IInv, Types, Continue
<1>0. Types'
  <2>1. st' \in [Fibers -> {"free", "run", "wait"}]
    BY <1>f DEF IInv, Types, Continue
  <2>2. table' \subseteq Nat \X Fibers
    BY DEF IInv, Types
  <2>3. cur' \in [Workers -> Fibers \union {NIL}]
    BY <1>f, <1>g DEF IInv, Types, Continue
  <2>4. fque' \in [Workers -> Seq(Tsk)]
    BY <1>fque
  <2>5. waits' \in [Fibers -> Nat]
    BY <1>f DEF IInv, Types, Continue
  <2> QED
    BY <2>1, <2>2, <2>3, <2>4, <2>5, <1>u DEF IInv, Types
<1>own. \A n \in Nat : Own(n) => Own(n)'
  BY <1>u, TWaits, TTable, <1>waits, <1>table, <1>gone, <1>g DEF Own
<1>home. \A v \in Workers, n \in Nat : Home(v, n) => Home(v, n)'
  BY <1>u, TTable, TSeed, <1>g, <1>m, <1>table, <1>gone DEF IInv, Home
<1>1. Tasks'
  <2> SUFFICES ASSUME NEW v \in Workers, NEW k \in 1 .. Len(fque'[v])
               PROVE  /\ fque'[v][k].type = "resume" => fque'[v][k].f \in Fibers
                      /\ fque'[v][k].type = "request" => fque'[v][k].f \in Workers
    BY DEF Tasks
  <2>1. PICK j \in 1 .. Len(fque[v]) : fque'[v][k] = fque[v][j]
    BY <1>q5
  <2> QED
    BY <2>1, <1>u DEF IInv, Tasks
<1>2. Running'
  BY <1>st, <1>cur, <1>g, Nobody DEF IInv, Running
<1>3. OnOwner'
  BY <1>u, <1>cur, <1>g DEF IInv, OnOwner
<1>4. Adding'
  <2> SUFFICES ASSUME NEW v \in Workers
               PROVE  /\ add'[v] # NIL => cur'[v] # NIL
                      /\ cur'[v] # NIL => (add'[v] # NIL <=> waits'[cur'[v]] # 0)
    BY DEF Adding
  <2>1. CASE v = t
    BY <2>1, <1>u, <1>g, <1>cur, <1>waits
  <2>2. CASE v # t
    <3>1. cur[v] # f /\ (cur[v] # NIL => cur[v] \in Fibers)
      BY <2>2, <1>g, TCur DEF IInv, OnOwner
    <3> QED
      BY <2>2, <3>1, <1>u, <1>cur, <1>waits DEF IInv, Adding
  <2> QED
    BY <2>1, <2>2
<1>5. InCall'
  BY <1>st, <1>waits DEF IInv, InCall
<1>6. WaitIds'
  BY <1>u, <1>waits, TSeed DEF IInv, WaitIds
<1>7. WaitOnce'
  BY <1>waits DEF IInv, WaitOnce
<1>8. TableIds'
  BY <1>u DEF IInv, TableIds
<1>9. TableOnce'
  BY DEF IInv, TableOnce
<1>10. AskedProc'
  BY <1>u, <1>own, TResp DEF IInv, AskedProc
<1>11. AskedTasks'
  <2> SUFFICES ASSUME NEW v \in Workers, NEW k \in 1 .. Len(fque'[v]),
                      fque'[v][k].type \in {"request", "response"}
               PROVE  Own(fque[v][k].id)'
    BY DEF AskedTasks
  <2>1. PICK j \in 1 .. Len(fque[v]) : fque'[v][k] = fque[v][j]
    BY <1>q5
  <2>2. Own(fque[v][j].id) /\ fque[v][j].id \in Nat
    BY <2>1, TFque DEF IInv, AskedTasks
  <2> QED
    BY <2>1, <2>2, <1>own
<1>12. AskedEnds'
  BY <1>u, <1>own, <1>st, <1>g, TEndp DEF IInv, AskedEnds
<1>13. CmdTable'
  BY <1>u, <1>waits, <1>g, TTable DEF IInv, CmdTable
<1>14. Owed'
  BY <1>u, <1>waits, <1>g, TTable DEF IInv, Owed
<1>15. Reached'
  <2> SUFFICES ASSUME NEW g \in Fibers, waits'[g] # 0
               PROVE  \/ \E r \in table' : r[1] = waits'[g] /\ r[2] = g
                      \/ \E k \in 1 .. Len(fque'[Owner(g)]) :
                           /\ fque'[Owner(g)][k].type = "resume"
                           /\ fque'[Owner(g)][k].f = g
                      \/ late' # NIL /\ late'[2] = g
    BY DEF Reached
  <2>0. waits[g] # 0 /\ waits'[g] = waits[g] /\ Owner(g) \in Workers
    BY Nobody, <1>waits
  <2>1. CASE \E r \in table : r[1] = waits[g] /\ r[2] = g
    BY <2>0, <2>1, <1>table, <1>g, <1>waits
  <2>2. ASSUME NEW k \in 1 .. Len(fque[Owner(g)]),
               fque[Owner(g)][k].type = "resume", fque[Owner(g)][k].f = g
        PROVE  \E j \in 1 .. Len(fque'[Owner(g)]) :
                 fque'[Owner(g)][j].type = "resume" /\ fque'[Owner(g)][j].f = g
    <3>1. CASE Owner(g) = t
      <4>1. k # 1
        BY <2>0, <2>2, <3>1, <1>q0 DEF TaskResponse
      <4>2. k - 1 \in 1 .. Len(fque'[t]) /\ fque'[t][k - 1] = fque[t][k]
        BY <2>2, <3>1, <4>1, <1>q3
      <4> QED
        BY <2>2, <3>1, <4>2
    <3>2. CASE Owner(g) # t
      BY <2>0, <2>2, <3>2, <1>q1
    <3> QED
      BY <3>1, <3>2
  <2>3. CASE late # NIL /\ late[2] = g
    BY <2>3, <1>u
  <2> QED
    BY <2>0, <2>1, <2>2, <2>3 DEF IInv, Reached
<1>16. ResumeOwn'
  <2> SUFFICES ASSUME NEW v \in Workers, NEW k \in 1 .. Len(fque'[v]), fque'[v][k].type = "resume"
               PROVE  /\ v = Owner(fque'[v][k].f)
                      /\ waits'[fque'[v][k].f] = fque'[v][k].id
                      /\ fque'[v][k].id # 0
    BY DEF ResumeOwn
  <2>1. PICK j \in 1 .. Len(fque[v]) : fque'[v][k] = fque[v][j]
    BY <1>q5
  <2>2. /\ v = Owner(fque[v][j].f) /\ waits[fque[v][j].f] = fque[v][j].id
        /\ fque[v][j].id # 0 /\ fque[v][j].f \in Fibers /\ fque[v][j].f # f
    BY <2>1, <1>nr DEF IInv, ResumeOwn, Tasks
  <2> QED
    BY <2>1, <2>2, <1>waits
<1>17. ResumeGone'
  <2> SUFFICES ASSUME NEW v \in Workers, NEW k \in 1 .. Len(fque'[v]), fque'[v][k].type = "resume"
               PROVE  \A s \in table' : s[1] # fque'[v][k].id
    BY DEF ResumeGone
  <2>1. PICK j \in 1 .. Len(fque[v]) : fque'[v][k] = fque[v][j]
    BY <1>q5
  <2> QED
    BY <2>1, <1>table DEF IInv, ResumeGone
<1>18. ResumeFree'
  <2> SUFFICES ASSUME NEW v \in Workers, NEW k \in 1 .. Len(fque'[v]), fque'[v][k].type = "resume"
               PROVE  /\ m_w'[fque'[v][k].f] = NIL
                      /\ (late' # NIL => late'[2] # fque'[v][k].f)
    BY DEF ResumeFree
  <2>1. PICK j \in 1 .. Len(fque[v]) : fque'[v][k] = fque[v][j]
    BY <1>q5
  <2> QED
    BY <2>1, <1>u DEF IInv, ResumeFree
<1>19. ResumeOnce'
  <2> SUFFICES ASSUME NEW v \in Workers, NEW j \in 1 .. Len(fque'[v]), NEW k \in 1 .. Len(fque'[v]),
                      fque'[v][j].type = "resume", fque'[v][k].type = "resume",
                      fque'[v][j].f = fque'[v][k].f
               PROVE  j = k
    BY DEF ResumeOnce
  <2>1. CASE v = t
    <3>1. /\ j + 1 \in 1 .. Len(fque[t]) /\ fque'[v][j] = fque[t][j + 1]
          /\ k + 1 \in 1 .. Len(fque[t]) /\ fque'[v][k] = fque[t][k + 1]
      BY <2>1, <1>q2
    <3>2. j + 1 = k + 1
      BY <3>1 DEF IInv, ResumeOnce
    <3> QED
      BY <3>2
  <2>2. CASE v # t
    BY <2>2, <1>q1 DEF IInv, ResumeOnce
  <2> QED
    BY <2>1, <2>2
<1>20. LateOwn'
  BY <1>u, <1>nl, <1>waits, TLate DEF IInv, LateOwn
<1>21. LateGone'
  BY <1>u DEF IInv, LateGone
<1>22. Held'
  BY <1>u, <1>waits, <1>m DEF IInv, Held
<1>23. Sole'
  BY <1>u DEF IInv, Sole
<1>24. AloneId'
  <2> SUFFICES ASSUME NEW v \in Workers, Solo, add[v] # NIL
               PROVE  watch'[add'[v][1]].msgid = waits'[cur'[v]]
    BY <1>u DEF AloneId, Solo
  <2> QED
    BY <1>g, Alone
<1>25. HomeTasks'
  <2> SUFFICES ASSUME NEW v \in Workers, NEW k \in 1 .. Len(fque'[v])
               PROVE  /\ fque'[v][k].type = "request" => Home(fque[v][k].f, fque[v][k].id)'
                      /\ fque'[v][k].type = "response" => Home(v, fque[v][k].id)'
    BY DEF HomeTasks
  <2>1. PICK j \in 1 .. Len(fque[v]) : fque'[v][k] = fque[v][j]
    BY <1>q5
  <2>2. /\ fque[v][j].type = "request"
             => Home(fque[v][j].f, fque[v][j].id) /\ fque[v][j].f \in Workers
        /\ fque[v][j].type = "response" => Home(v, fque[v][j].id)
        /\ fque[v][j].id \in Nat
    BY TFque DEF IInv, HomeTasks, Tasks
  <2> QED
    BY <2>1, <2>2, <1>home
<1>26. HomeEnds'
  BY <1>u, <1>home, <1>st, <1>g, TEndp DEF IInv, HomeEnds
<1>27. NoneDeleted'
  BY <1>u, <1>waits, <1>g, TTable DEF IInv, NoneDeleted, Solo
<1>28. Mode' /\ AloneAdd' /\ AloneNamed'
  BY <1>u DEF IInv, Solo, Mode, AloneAdd, AloneNamed
<1>29. /\ Inside' /\ Stages' /\ Commands' /\ WatchIds' /\ WatchOnce'
       /\ CmdIds' /\ CmdWatch' /\ Bound' /\ Entered' /\ Called'
  BY <1>u DEF IInv, Inside, Stages, Commands, WatchIds, WatchOnce, CmdIds,
     CmdWatch, Bound, Entered, Called
<1>30. /\ Whereabouts' /\ Occupied' /\ OneEntry' /\ ListApart'
       /\ CalledApart' /\ CmdApart' /\ CmdOnce' /\ Removing' /\ HeardBound'
       /\ HeardPlaces'
  BY <1>u DEF IInv, Whereabouts, Occupied, OneEntry, ListApart, CalledApart,
     CmdApart, CmdOnce, Removing, HeardBound, HeardPlaces
<1>31. HearCmds' /\ HearProc' /\ HearRest'
  BY <1>u DEF IInv, HearCmds, HearProc, HearRest
<1> QED
  BY <1>0, <1>1, <1>2, <1>3, <1>4, <1>5, <1>6, <1>7, <1>8, <1>9, <1>10, <1>11,
     <1>12, <1>13, <1>14, <1>15, <1>16, <1>17, <1>18, <1>19, <1>20, <1>21,
     <1>22, <1>23, <1>24, <1>25, <1>26, <1>27, <1>28, <1>29, <1>30, <1>31 DEF
     IInv

----------------------------------------------------------------------------
(* process_commands *)

\* process_commands begins and ends.
LEMMA StartProcessStep ==
  ASSUME IInv, NEW t \in Workers, StartProcess(t)
  PROVE  IInv'
<1>u. UNCHANGED <<acting, st, m_w, m_endp, watch, ent, cmds, list, table, seed, cur,
                  add, fque, late, waits, heard>>
  BY DEF StartProcess, pvars
<1>g. t \in acting /\ cur[t] = NIL /\ proc.by = NIL /\ proc.at = "next"
  BY DEF StartProcess, InLoop, IInv, Stages
<1>proc. /\ proc'.by = t /\ proc'.at = proc.at /\ proc'.rest = proc.rest
         /\ proc'.called = proc.called /\ proc'.respond = proc.respond
         /\ proc'.hear = proc.hear
  BY DEF IInv, Types, ProcRec, StartProcess
<1>0. Types'
  <2>1. proc' \in ProcRec
    BY DEF IInv, Types, ProcRec, StartProcess
  <2> QED
    BY <2>1, <1>u DEF IInv, Types
<1>own. \A i \in Nat : Own(i) => Own(i)'
  BY <1>u DEF Own
<1>1. Inside'
  BY <1>u, <1>proc, <1>g DEF IInv, Inside
<1>2. Stages'
  BY <1>proc, <1>g DEF IInv, Stages
<1>3. AskedProc'
  BY <1>own, <1>proc, TResp DEF IInv, AskedProc
<1>4. Called'
  BY <1>u, <1>proc DEF IInv, Called
<1>5. Whereabouts'
  BY <1>u, <1>proc DEF IInv, Whereabouts
<1>6. ListApart'
  BY <1>u, <1>proc DEF IInv, ListApart
<1>7. CalledApart'
  BY <1>proc DEF IInv, CalledApart
<1>8. CmdApart'
  BY <1>u, <1>proc DEF IInv, CmdApart
<1>9. HeardPlaces'
  BY <1>u, <1>proc DEF IInv, HeardPlaces
<1>10. HearProc'
  BY <1>u, <1>proc DEF IInv, HearProc
<1>11. HearRest'
  BY <1>u, <1>proc DEF IInv, HearRest
<1>12. Mode' /\ AloneAdd' /\ AloneNamed' /\ AloneId' /\ NoneDeleted'
  BY <1>u DEF IInv, Solo, Mode, AloneAdd, AloneNamed, AloneId, NoneDeleted
<1>13. /\ Commands' /\ Tasks' /\ Running' /\ OnOwner' /\ Adding' /\ InCall'
       /\ WaitIds' /\ WaitOnce' /\ TableIds' /\ TableOnce'
  BY <1>u DEF IInv, Commands, Tasks, Running, OnOwner, Adding, InCall, WaitIds,
     WaitOnce, TableIds, TableOnce
<1>14. /\ WatchIds' /\ WatchOnce' /\ CmdIds' /\ CmdTable' /\ CmdWatch'
       /\ Owed' /\ Reached' /\ ResumeOwn' /\ ResumeGone' /\ ResumeFree'
  BY <1>u DEF IInv, WatchIds, WatchOnce, CmdIds, CmdTable, CmdWatch, Owed,
     Reached, ResumeOwn, ResumeGone, ResumeFree
<1>15. AskedTasks' /\ AskedEnds'
  BY <1>u DEF IInv, Own, AskedTasks, AskedEnds
<1>16. /\ ResumeOnce' /\ LateOwn' /\ LateGone' /\ Held' /\ Bound'
       /\ Entered' /\ Sole' /\ Occupied' /\ OneEntry' /\ CmdOnce'
  BY <1>u DEF IInv, ResumeOnce, LateOwn, LateGone, Held, Bound, Entered, Sole,
     Occupied, OneEntry, CmdOnce
<1>17. Removing' /\ HeardBound' /\ HearCmds'
  BY <1>u DEF IInv, Removing, HeardBound, HearCmds
<1>18. HomeTasks' /\ HomeEnds'
  BY <1>u DEF IInv, Home, HomeTasks, HomeEnds
<1> QED
  BY <1>0, <1>1, <1>2, <1>3, <1>4, <1>5, <1>6, <1>7, <1>8, <1>9, <1>10, <1>11,
     <1>12, <1>13, <1>14, <1>15, <1>16, <1>17, <1>18 DEF IInv

\* The emitter is given back.
LEMMA EndProcessStep ==
  ASSUME IInv, NEW t \in Workers, EndProcess(t)
  PROVE  IInv'
<1>u. UNCHANGED <<acting, st, m_w, m_endp, watch, ent, cmds, list, table, seed, cur,
                  add, fque, late, waits, heard>>
  BY DEF EndProcess, pvars
<1>g. /\ t \in acting /\ cur[t] = NIL /\ add[t] = NIL /\ proc.by = t
      /\ proc.at = "next" /\ proc.rest = {} /\ proc.called = NIL /\ proc.respond = 0
      /\ proc.hear = {}
  BY DEF EndProcess, InEmitter, IInv, Adding, Stages
<1>proc. /\ proc'.by = NIL /\ proc'.at = "next" /\ proc'.rest = {}
         /\ proc'.called = NIL /\ proc'.respond = 0 /\ proc'.hear = {}
  BY DEF EndProcess, Idle
<1>0. Types'
  <2>1. proc' \in ProcRec
    BY DEF ProcRec, EndProcess, Idle
  <2> QED
    BY <2>1, <1>u DEF IInv, Types
<1>1. Inside'
  BY <1>proc DEF IInv, Inside
<1>2. Stages'
  BY <1>proc DEF IInv, Stages
<1>3. AskedProc'
  BY <1>proc DEF IInv, AskedProc
<1>4. Called'
  BY <1>proc DEF IInv, Called
<1>5. Whereabouts'
  BY <1>u, <1>proc, <1>g DEF IInv, Whereabouts
<1>6. ListApart'
  BY <1>u, <1>proc, <1>g DEF IInv, ListApart
<1>7. CalledApart'
  BY <1>proc DEF IInv, CalledApart
<1>8. CmdApart'
  BY <1>u, <1>proc, <1>g DEF IInv, CmdApart
<1>9. HeardPlaces'
  BY <1>u, <1>g DEF IInv, HeardPlaces
<1>10. HearProc'
  BY <1>proc DEF IInv, HearProc
<1>11. HearRest'
  BY <1>proc DEF IInv, HearRest
<1>12. Mode' /\ AloneAdd' /\ AloneNamed' /\ AloneId' /\ NoneDeleted'
  BY <1>u DEF IInv, Solo, Mode, AloneAdd, AloneNamed, AloneId, NoneDeleted
<1>13. /\ Commands' /\ Tasks' /\ Running' /\ OnOwner' /\ Adding' /\ InCall'
       /\ WaitIds' /\ WaitOnce' /\ TableIds' /\ TableOnce'
  BY <1>u DEF IInv, Commands, Tasks, Running, OnOwner, Adding, InCall, WaitIds,
     WaitOnce, TableIds, TableOnce
<1>14. /\ WatchIds' /\ WatchOnce' /\ CmdIds' /\ CmdTable' /\ CmdWatch'
       /\ Owed' /\ Reached' /\ ResumeOwn' /\ ResumeGone' /\ ResumeFree'
  BY <1>u DEF IInv, WatchIds, WatchOnce, CmdIds, CmdTable, CmdWatch, Owed,
     Reached, ResumeOwn, ResumeGone, ResumeFree
<1>15. AskedTasks' /\ AskedEnds'
  BY <1>u DEF IInv, Own, AskedTasks, AskedEnds
<1>16. /\ ResumeOnce' /\ LateOwn' /\ LateGone' /\ Held' /\ Bound'
       /\ Entered' /\ Sole' /\ Occupied' /\ OneEntry' /\ CmdOnce'
  BY <1>u DEF IInv, ResumeOnce, LateOwn, LateGone, Held, Bound, Entered, Sole,
     Occupied, OneEntry, CmdOnce
<1>17. Removing' /\ HeardBound' /\ HearCmds'
  BY <1>u DEF IInv, Removing, HeardBound, HearCmds
<1>18. HomeTasks' /\ HomeEnds'
  BY <1>u DEF IInv, Home, HomeTasks, HomeEnds
<1> QED
  BY <1>0, <1>1, <1>2, <1>3, <1>4, <1>5, <1>6, <1>7, <1>8, <1>9, <1>10, <1>11,
     <1>12, <1>13, <1>14, <1>15, <1>16, <1>17, <1>18 DEF IInv

\* add_watcher is executed: nobody is to be resumed, the fiber runs, or it is
\* sent a task.
LEMMA AddQuietStep ==
  ASSUME IInv, NEW t \in Workers, AddWatcher(t),
         UNCHANGED <<st, cur, waits, fque, table, heard>>
  PROVE  IInv'
<1>u. UNCHANGED <<acting, st, m_w, m_endp, watch, ent, proc, table, seed, cur, add,
                  fque, late, waits, heard>>
  BY DEF AddWatcher, pvars
<1>cmds. /\ 1 \in 1 .. Len(cmds) /\ Head(cmds) = cmds[1] /\ Head(cmds) \in Cmd
         /\ \A k \in 1 .. Len(cmds') :
              k + 1 \in 1 .. Len(cmds) /\ cmds'[k] = cmds[k + 1]
         /\ \A k \in 1 .. Len(cmds) : k = 1
              \/ (k - 1 \in 1 .. Len(cmds') /\ cmds'[k - 1] = cmds[k])
         /\ cmds' \in Seq(Cmd)
  <2>1. cmds' = Tail(cmds) /\ cmds # <<>>
    BY DEF AddWatcher
  <2> QED
    BY <2>1, Cut DEF IInv, Types
<1>c0. 1 \in 1 .. Len(cmds) /\ Head(cmds) = cmds[1]
  BY <1>cmds
<1>c1. \A k \in 1 .. Len(cmds') : k + 1 \in 1 .. Len(cmds) /\ cmds'[k] = cmds[k + 1]
  BY <1>cmds
<1>c2. \A k \in 1 .. Len(cmds) : k = 1
         \/ (k - 1 \in 1 .. Len(cmds') /\ cmds'[k - 1] = cmds[k])
  BY <1>cmds
<1>e. PICK e \in Entry : e = cmds[1].e
  BY <1>c0 DEF IInv, Commands, AddWatcher
<1>a. /\ e \in Entry /\ e # NIL /\ e = cmds[1].e /\ cmds[1].type = "add"
      /\ cmds[1].hear = {}
  BY <1>c0, <1>e, Nobody DEF IInv, Commands, AddWatcher
<1>g. /\ t \in acting /\ cur[t] = NIL /\ add[t] = NIL /\ proc.by = t
      /\ proc.at = "next" /\ proc.rest = {} /\ proc.called = NIL /\ proc.respond = 0
      /\ proc.hear = {}
  BY DEF AddWatcher, InEmitter, IInv, Adding, Stages
<1>b. e \notin list /\ ent[e] # NIL
  BY <1>a, <1>c0 DEF IInv, CmdApart, Whereabouts
<1>b2. \A k \in 1 .. Len(cmds) : cmds[k].type = "add" /\ k # 1 => cmds[k].e # e
  BY <1>a, <1>c0 DEF IInv, CmdOnce
<1>list. list' = list \union {e}
  BY <1>e, <1>c0 DEF AddWatcher
<1>0. Types'
  <2>1. cmds' \in Seq(Cmd)
    BY <1>cmds
  <2>2. list' \subseteq Entry
    BY WorkerAssumption, <1>a, <1>g, <1>b DEF IInv, Types, AddWatcher
  <2> QED
    BY <2>1, <2>2, <1>u DEF IInv, Types
<1>1. Commands'
  BY <1>c1 DEF IInv, Commands
<1>2. CmdIds'
  BY <1>u, <1>c1 DEF IInv, CmdIds
<1>3. CmdTable'
  BY <1>c1 DEF IInv, CmdTable
<1>4. CmdWatch'
  BY <1>u, <1>c0, <1>c1, <1>b2 DEF IInv, CmdWatch
<1>5. Whereabouts'
  <2> SUFFICES ASSUME NEW d \in Entry
               PROVE  ent'[d] # NIL <=>
                        \/ d \in list' \/ d \in proc'.rest \/ d = proc'.called
                        \/ \E k \in 1 .. Len(cmds') :
                             cmds'[k].type = "add" /\ cmds'[k].e = d
    BY DEF Whereabouts
  <2>1. \A k \in 1 .. Len(cmds') : cmds'[k].type = "add" /\ cmds'[k].e = d =>
          \E j \in 1 .. Len(cmds) : cmds[j].type = "add" /\ cmds[j].e = d
    BY <1>c1
  <2>2. \A k \in 1 .. Len(cmds) : cmds[k].type = "add" /\ cmds[k].e = d /\ d # e =>
          \E j \in 1 .. Len(cmds') : cmds'[j].type = "add" /\ cmds'[j].e = d
    BY <1>c2, <1>a
  <2>3. CASE d = e
    BY <2>3, <1>list, <1>u, <1>b
  <2>4. CASE d # e
    BY <2>1, <2>2, <2>4, <1>list, <1>u DEF IInv, Whereabouts
  <2> QED
    BY <2>3, <2>4
<1>6. ListApart'
  BY <1>u, <1>list, <1>a, <1>g DEF IInv, ListApart
<1>7. CmdApart'
  BY <1>u, <1>c1, <1>b2, <1>list DEF IInv, CmdApart
<1>8. CmdOnce'
  BY <1>u, <1>c1 DEF IInv, CmdOnce
<1>9. Removing'
  <2> SUFFICES ASSUME NEW k \in 1 .. Len(cmds'), cmds'[k].type = "remove"
               PROVE  \/ ent'[cmds'[k].e] = NIL
                      \/ watch'[ent'[cmds'[k].e]].stopped
                      \/ \E j \in 1 .. Len(cmds') :
                           j > k /\ cmds'[j].type = "add" /\ cmds'[j].e = cmds'[k].e
    BY DEF Removing
  <2>1. k + 1 \in 1 .. Len(cmds) /\ cmds'[k] = cmds[k + 1]
    BY <1>c1
  <2>2. PICK d \in Entry : d = cmds[k + 1].e
    BY <2>1 DEF IInv, Commands
  <2>3. CASE ent[d] = NIL \/ watch[ent[d]].stopped
    BY <2>1, <2>2, <2>3, <1>u
  <2>4. ASSUME NEW j \in 1 .. Len(cmds), j > k + 1, cmds[j].type = "add", cmds[j].e = d
        PROVE  \E l \in 1 .. Len(cmds') : l > k /\ cmds'[l].type = "add" /\ cmds'[l].e = cmds'[k].e
    <3>1. j # 1 /\ j - 1 > k
      BY <2>4
    <3>2. j - 1 \in 1 .. Len(cmds') /\ cmds'[j - 1] = cmds[j]
      BY <3>1, <1>c2
    <3> QED
      BY <2>1, <2>2, <2>4, <3>1, <3>2
  <2> QED
    BY <2>1, <2>2, <2>3, <2>4 DEF IInv, Removing
<1>10. HeardPlaces'
  BY <1>u, <1>list DEF IInv, HeardPlaces
<1>11. HearCmds'
  BY <1>c1 DEF IInv, HearCmds
<1>12. Mode' /\ AloneAdd' /\ AloneNamed' /\ AloneId' /\ NoneDeleted'
  BY <1>u DEF IInv, Solo, Mode, AloneAdd, AloneNamed, AloneId, NoneDeleted
<1>13. /\ Inside' /\ Stages' /\ Tasks' /\ Running' /\ OnOwner' /\ Adding'
       /\ InCall' /\ WaitIds' /\ WaitOnce' /\ TableIds'
  BY <1>u DEF IInv, Inside, Stages, Tasks, Running, OnOwner, Adding, InCall,
     WaitIds, WaitOnce, TableIds
<1>14. /\ TableOnce' /\ WatchIds' /\ WatchOnce' /\ Owed' /\ Reached'
       /\ ResumeOwn' /\ ResumeGone' /\ ResumeFree' /\ ResumeOnce'
       /\ LateOwn'
  BY <1>u DEF IInv, TableOnce, WatchIds, WatchOnce, Owed, Reached, ResumeOwn,
     ResumeGone, ResumeFree, ResumeOnce, LateOwn
<1>15. AskedProc' /\ AskedTasks' /\ AskedEnds'
  BY <1>u DEF IInv, Own, AskedProc, AskedTasks, AskedEnds
<1>16. /\ LateGone' /\ Held' /\ Bound' /\ Entered' /\ Sole' /\ Called'
       /\ Occupied' /\ OneEntry' /\ CalledApart' /\ HeardBound'
  BY <1>u DEF IInv, LateGone, Held, Bound, Entered, Sole, Called, Occupied,
     OneEntry, CalledApart, HeardBound
<1>17. HearProc' /\ HearRest'
  BY <1>u DEF IInv, HearProc, HearRest
<1>18. HomeTasks' /\ HomeEnds'
  BY <1>u DEF IInv, Home, HomeTasks, HomeEnds
<1> QED
  BY <1>0, <1>1, <1>2, <1>3, <1>4, <1>5, <1>6, <1>7, <1>8, <1>9, <1>10, <1>11,
     <1>12, <1>13, <1>14, <1>15, <1>16, <1>17, <1>18 DEF IInv

\* The fiber that waits for the end of add_watcher runs on.
LEMMA AddRunStep ==
  ASSUME IInv, NEW t \in Workers, AddWatcher(t),
         NEW p \in InTable(Head(cmds).respond), table' = table \ {p},
         heard' = heard \union {w \in Watchers : watch[w].used /\ watch[w].fb = NIL
                                                 /\ watch[w].msgid = Head(cmds).respond},
         Owner(p[2]) = t, Continue(p[2]), UNCHANGED fque
  PROVE  IInv'
<1>u. UNCHANGED <<acting, m_w, m_endp, watch, ent, proc, seed, add, late, fque>>
  BY DEF AddWatcher, pvars
<1>cmds. /\ 1 \in 1 .. Len(cmds) /\ Head(cmds) = cmds[1] /\ Head(cmds) \in Cmd
         /\ \A k \in 1 .. Len(cmds') :
              k + 1 \in 1 .. Len(cmds) /\ cmds'[k] = cmds[k + 1]
         /\ \A k \in 1 .. Len(cmds) : k = 1
              \/ (k - 1 \in 1 .. Len(cmds') /\ cmds'[k - 1] = cmds[k])
         /\ cmds' \in Seq(Cmd)
  <2>1. cmds' = Tail(cmds) /\ cmds # <<>>
    BY DEF AddWatcher
  <2> QED
    BY <2>1, Cut DEF IInv, Types
<1>c0. 1 \in 1 .. Len(cmds) /\ Head(cmds) = cmds[1]
  BY <1>cmds
<1>c1. \A k \in 1 .. Len(cmds') : k + 1 \in 1 .. Len(cmds) /\ cmds'[k] = cmds[k + 1]
  BY <1>cmds
<1>c2. \A k \in 1 .. Len(cmds) : k = 1
         \/ (k - 1 \in 1 .. Len(cmds') /\ cmds'[k - 1] = cmds[k])
  BY <1>cmds
<1>e. PICK e \in Entry : e = cmds[1].e
  BY <1>c0 DEF IInv, Commands, AddWatcher
<1>a. /\ e \in Entry /\ e # NIL /\ e = cmds[1].e /\ cmds[1].type = "add"
      /\ cmds[1].hear = {}
  BY <1>c0, <1>e, Nobody DEF IInv, Commands, AddWatcher
<1>g. /\ t \in acting /\ cur[t] = NIL /\ add[t] = NIL /\ proc.by = t
      /\ proc.at = "next" /\ proc.rest = {} /\ proc.called = NIL /\ proc.respond = 0
      /\ proc.hear = {}
  BY DEF AddWatcher, InEmitter, IInv, Adding, Stages
<1>b. e \notin list /\ ent[e] # NIL
  BY <1>a, <1>c0 DEF IInv, CmdApart, Whereabouts
<1>b2. \A k \in 1 .. Len(cmds) : cmds[k].type = "add" /\ k # 1 => cmds[k].e # e
  BY <1>a, <1>c0 DEF IInv, CmdOnce
<1>list. list' = list \union {e}
  BY <1>e, <1>c0 DEF AddWatcher
<1>f. PICK f \in Fibers : f = p[2]
  BY TTable DEF InTable
<1>i. PICK i \in Nat : i = p[1] /\ p \in table /\ i # 0 /\ i = cmds[1].respond
  <2>1. p \in table /\ p[1] = Head(cmds).respond /\ p[1] \in 1 .. seed
    BY DEF InTable, IInv, TableIds
  <2> QED
    BY <2>1, <1>c0, TTable
<1>own0. waits[f] = i
  BY <1>f, <1>i, <1>c0 DEF IInv, CmdTable
<1>j. /\ f \in Fibers /\ f # NIL /\ waits[f] = i /\ i # 0 /\ i \in Nat
      /\ p \in table /\ p[1] = i /\ p[2] = f
  BY <1>f, <1>i, <1>own0, Nobody
<1>m. m_w[f] = NIL
  BY <1>j, <1>i, <1>c0, TMw, Nobody DEF IInv, Held, CmdWatch
<1>table. /\ (\A r \in table' : r \in table /\ r # p)
          /\ (\A r \in table : r # p => r \in table')
  OBVIOUS
<1>gone. \A r \in table' : r[1] # i
  BY <1>table, <1>j DEF IInv, TableOnce
<1>nl. late # NIL => late[2] # f
  BY <1>j DEF IInv, LateGone, LateOwn
<1>nr. \A v \in Workers : \A k \in 1 .. Len(fque[v]) : fque[v][k].type = "resume"
         => fque[v][k].f # f
  BY <1>j DEF IInv, ResumeGone, ResumeOwn
<1>run. st[f] = "wait" /\ Owner(f) = t
  BY <1>f, <1>j, <1>g DEF IInv, Types, Running, InCall
<1>st. st'[f] = "run" /\ (\A y \in Fibers : y # f => st'[y] = st[y])
  BY <1>f DEF IInv, Types, Continue
<1>cur. cur'[t] = f /\ (\A y \in Workers : y # t => cur'[y] = cur[y])
  BY <1>f, <1>run DEF IInv, Types, Continue
<1>waits. waits'[f] = 0 /\ (\A y \in Fibers : y # f => waits'[y] = waits[y])
  BY <1>f DEF IInv, Types, Continue
<1>heard. \A w \in heard' : w \in heard
            \/ (w = ent[e] /\ watch[w].used /\ watch[w].fb = NIL /\ w \in Watchers)
  <2> SUFFICES ASSUME NEW w \in heard', w \notin heard
               PROVE  /\ w = ent[e] /\ watch[w].used /\ watch[w].fb = NIL
                      /\ w \in Watchers
    OBVIOUS
  <2>1. /\ w \in Watchers /\ watch[w].used /\ watch[w].fb = NIL
        /\ watch[w].msgid = cmds[1].respond
    BY <1>c0
  <2> QED
    BY <2>1, <1>i, <1>c0, <1>e DEF IInv, CmdWatch
<1>0. Types'
  <2>1. st' \in [Fibers -> {"free", "run", "wait"}]
    BY <1>f DEF IInv, Types, Continue
  <2>2. cmds' \in Seq(Cmd)
    BY <1>cmds
  <2>3. list' \subseteq Entry
    BY WorkerAssumption, <1>a, <1>g, <1>b, <1>j, <1>m, <1>run DEF IInv, Types,
       AddWatcher
  <2>4. table' \subseteq Nat \X Fibers
    BY DEF IInv, Types
  <2>5. cur' \in [Workers -> Fibers \union {NIL}]
    BY <1>f, <1>run DEF IInv, Types, Continue
  <2>6. waits' \in [Fibers -> Nat]
    BY <1>f DEF IInv, Types, Continue
  <2>7. heard' \subseteq Watchers
    BY DEF IInv, Types
  <2> QED
    BY <2>1, <2>2, <2>3, <2>4, <2>5, <2>6, <2>7, <1>u DEF IInv, Types
<1>own. \A n \in Nat : Own(n) => Own(n)'
  BY <1>u, TWaits, TTable, <1>waits, <1>table, <1>gone, <1>j DEF Own
<1>home. \A v \in Workers, n \in Nat : Home(v, n) => Home(v, n)'
  BY <1>u, TTable, TSeed, <1>a, <1>g, <1>b, <1>j, <1>m, <1>run, <1>table, <1>gone
     DEF IInv, Home
<1>1. Commands'
  BY <1>c1 DEF IInv, Commands
<1>2. Running'
  BY <1>st, <1>cur, <1>g, <1>j, Nobody DEF IInv, Running
<1>3. OnOwner'
  BY <1>u, <1>cur, <1>g, <1>j DEF IInv, OnOwner
<1>4. Adding'
  <2> SUFFICES ASSUME NEW v \in Workers
               PROVE  /\ add'[v] # NIL => cur'[v] # NIL
                      /\ cur'[v] # NIL => (add'[v] # NIL <=> waits'[cur'[v]] # 0)
    BY DEF Adding
  <2>1. CASE v = t
    BY <2>1, <1>u, <1>g, <1>j, <1>run, <1>cur, <1>waits
  <2>2. CASE v # t
    <3>1. cur[v] # f /\ (cur[v] # NIL => cur[v] \in Fibers)
      BY <2>2, <1>g, <1>j, <1>run, TCur DEF IInv, OnOwner
    <3> QED
      BY <2>2, <3>1, <1>u, <1>cur, <1>waits DEF IInv, Adding
  <2> QED
    BY <2>1, <2>2
<1>5. InCall'
  BY <1>st, <1>waits DEF IInv, InCall
<1>6. WaitIds'
  BY <1>u, <1>waits, TSeed DEF IInv, WaitIds
<1>7. WaitOnce'
  BY <1>waits DEF IInv, WaitOnce
<1>8. TableIds'
  BY <1>u DEF IInv, TableIds
<1>9. TableOnce'
  BY DEF IInv, TableOnce
<1>10. AskedProc'
  BY <1>u, <1>own, TResp DEF IInv, AskedProc
<1>11. AskedTasks'
  BY <1>own, TFque DEF IInv, AskedTasks
<1>12. AskedEnds'
  BY <1>u, <1>own, <1>st, <1>run, TEndp DEF IInv, AskedEnds
<1>13. CmdIds'
  BY <1>u, <1>c1 DEF IInv, CmdIds
<1>14. CmdTable'
  BY <1>u, <1>c0, <1>c1, <1>table, <1>gone, <1>waits, <1>a, <1>g, <1>b, <1>j,
     <1>m, <1>run, TCmd, TTable, TWaits, Nobody DEF IInv, CmdTable
<1>15. CmdWatch'
  BY <1>u, <1>c1 DEF IInv, CmdWatch
<1>16. Owed'
  BY <1>u, <1>waits, <1>j, TTable DEF IInv, Owed
<1>17. Reached'
  BY <1>u, <1>waits, <1>j DEF IInv, Reached
<1>18. ResumeOwn'
  BY <1>nr, <1>waits DEF IInv, ResumeOwn, Tasks
<1>19. ResumeGone'
  BY DEF IInv, ResumeGone
<1>20. LateOwn'
  BY <1>u, <1>nl, <1>waits, TLate DEF IInv, LateOwn
<1>21. LateGone'
  BY <1>u DEF IInv, LateGone
<1>22. Held'
  BY <1>u, <1>waits, <1>m DEF IInv, Held
<1>23. Sole'
  BY <1>u DEF IInv, Sole
<1>24. Whereabouts'
  <2> SUFFICES ASSUME NEW d \in Entry
               PROVE  ent'[d] # NIL <=>
                        \/ d \in list' \/ d \in proc'.rest \/ d = proc'.called
                        \/ \E k \in 1 .. Len(cmds') :
                             cmds'[k].type = "add" /\ cmds'[k].e = d
    BY DEF Whereabouts
  <2>1. \A k \in 1 .. Len(cmds') : cmds'[k].type = "add" /\ cmds'[k].e = d =>
          \E j \in 1 .. Len(cmds) : cmds[j].type = "add" /\ cmds[j].e = d
    BY <1>c1
  <2>2. \A k \in 1 .. Len(cmds) : cmds[k].type = "add" /\ cmds[k].e = d /\ d # e =>
          \E j \in 1 .. Len(cmds') : cmds'[j].type = "add" /\ cmds'[j].e = d
    BY <1>c2, <1>a
  <2>3. CASE d = e
    BY <2>3, <1>list, <1>u, <1>b
  <2>4. CASE d # e
    BY <2>1, <2>2, <2>4, <1>list, <1>u DEF IInv, Whereabouts
  <2> QED
    BY <2>3, <2>4
<1>25. ListApart'
  BY <1>u, <1>list, <1>a, <1>g DEF IInv, ListApart
<1>26. CmdApart'
  BY <1>u, <1>c1, <1>b2, <1>list DEF IInv, CmdApart
<1>27. CmdOnce'
  <2> SUFFICES ASSUME NEW j \in 1 .. Len(cmds'), NEW k \in 1 .. Len(cmds'),
                      cmds'[j].type = "add", cmds'[k].type = "add",
                      cmds'[j].e = cmds'[k].e
               PROVE  j = k
    BY DEF CmdOnce
  <2>1. /\ j + 1 \in 1 .. Len(cmds) /\ cmds'[j] = cmds[j + 1]
        /\ k + 1 \in 1 .. Len(cmds) /\ cmds'[k] = cmds[k + 1]
    BY <1>c1
  <2>2. j + 1 = k + 1
    BY <2>1 DEF IInv, CmdOnce
  <2> QED
    BY <2>2
<1>28. AloneId'
  <2> SUFFICES ASSUME NEW v \in Workers, Solo, add[v] # NIL
               PROVE  watch'[add'[v][1]].msgid = waits'[cur'[v]]
    BY <1>u DEF AloneId, Solo
  <2> QED
    BY <1>g, Alone
<1>29. Removing'
  <2> SUFFICES ASSUME NEW k \in 1 .. Len(cmds'), cmds'[k].type = "remove"
               PROVE  \/ ent'[cmds'[k].e] = NIL
                      \/ watch'[ent'[cmds'[k].e]].stopped
                      \/ \E j \in 1 .. Len(cmds') :
                           j > k /\ cmds'[j].type = "add" /\ cmds'[j].e = cmds'[k].e
    BY DEF Removing
  <2>1. k + 1 \in 1 .. Len(cmds) /\ cmds'[k] = cmds[k + 1]
    BY <1>c1
  <2>2. PICK d \in Entry : d = cmds[k + 1].e
    BY <2>1 DEF IInv, Commands
  <2>3. CASE ent[d] = NIL \/ watch[ent[d]].stopped
    BY <2>1, <2>2, <2>3, <1>u
  <2>4. ASSUME NEW j \in 1 .. Len(cmds), j > k + 1, cmds[j].type = "add", cmds[j].e = d
        PROVE  \E l \in 1 .. Len(cmds') : l > k /\ cmds'[l].type = "add" /\ cmds'[l].e = cmds'[k].e
    <3>1. j # 1 /\ j - 1 > k
      BY <2>4
    <3>2. j - 1 \in 1 .. Len(cmds') /\ cmds'[j - 1] = cmds[j]
      BY <3>1, <1>c2
    <3> QED
      BY <2>1, <2>2, <2>4, <3>1, <3>2
  <2> QED
    BY <2>1, <2>2, <2>3, <2>4 DEF IInv, Removing
<1>30. HeardBound'
  BY <1>u DEF IInv, HeardBound
<1>31. HeardPlaces'
  <2> SUFFICES ASSUME NEW d \in Entry, ent[d] \in heard'
               PROVE  d \in list \union {e} \/ d \in proc.rest
    BY <1>u, <1>list DEF HeardPlaces
  <2>1. CASE ent[d] \in heard
    BY <2>1 DEF IInv, HeardPlaces
  <2>2. CASE ent[d] = ent[e]
    BY <2>2, <1>a, <1>b DEF IInv, OneEntry
  <2> QED
    BY <2>1, <2>2, <1>heard
<1>32. HearCmds'
  BY <1>u, <1>c0, <1>c1 DEF IInv, HearCmds
<1>33. HearProc'
  BY <1>u DEF IInv, HearProc
<1>34. HomeTasks'
  BY <1>home, TFque DEF IInv, HomeTasks, Tasks
<1>35. HomeEnds'
  BY <1>u, <1>home, <1>st, <1>run, TEndp DEF IInv, HomeEnds
<1>36. NoneDeleted'
  BY <1>u, <1>waits, <1>j, TTable DEF IInv, NoneDeleted, Solo
<1>37. Mode' /\ AloneAdd' /\ AloneNamed'
  BY <1>u DEF IInv, Solo, Mode, AloneAdd, AloneNamed
<1>38. /\ Inside' /\ Stages' /\ Tasks' /\ WatchIds' /\ WatchOnce'
       /\ ResumeFree' /\ ResumeOnce' /\ Bound' /\ Entered' /\ Called'
  BY <1>u DEF IInv, Inside, Stages, Tasks, WatchIds, WatchOnce, ResumeFree,
     ResumeOnce, Bound, Entered, Called
<1>39. Occupied' /\ OneEntry' /\ CalledApart' /\ HearRest'
  BY <1>u DEF IInv, Occupied, OneEntry, CalledApart, HearRest
<1> QED
  BY <1>0, <1>1, <1>2, <1>3, <1>4, <1>5, <1>6, <1>7, <1>8, <1>9, <1>10, <1>11,
     <1>12, <1>13, <1>14, <1>15, <1>16, <1>17, <1>18, <1>19, <1>20, <1>21,
     <1>22, <1>23, <1>24, <1>25, <1>26, <1>27, <1>28, <1>29, <1>30, <1>31,
     <1>32, <1>33, <1>34, <1>35, <1>36, <1>37, <1>38, <1>39 DEF IInv

\* The fiber that waits for the end of add_watcher is sent a task.
LEMMA AddSendStep ==
  ASSUME IInv, NEW t \in Workers, AddWatcher(t),
         NEW p \in InTable(Head(cmds).respond), table' = table \ {p},
         heard' = heard \union {w \in Watchers : watch[w].used /\ watch[w].fb = NIL
                                                 /\ watch[w].msgid = Head(cmds).respond},
         Push(Owner(p[2]), Task("resume", p[2], Head(cmds).respond)),
         UNCHANGED <<st, cur, waits>>
  PROVE  IInv'
<1>u. UNCHANGED <<acting, m_w, m_endp, watch, ent, proc, seed, add, late, st, cur,
                  waits>>
  BY DEF AddWatcher, pvars
<1>cmds. /\ 1 \in 1 .. Len(cmds) /\ Head(cmds) = cmds[1] /\ Head(cmds) \in Cmd
         /\ \A k \in 1 .. Len(cmds') :
              k + 1 \in 1 .. Len(cmds) /\ cmds'[k] = cmds[k + 1]
         /\ \A k \in 1 .. Len(cmds) : k = 1
              \/ (k - 1 \in 1 .. Len(cmds') /\ cmds'[k - 1] = cmds[k])
         /\ cmds' \in Seq(Cmd)
  <2>1. cmds' = Tail(cmds) /\ cmds # <<>>
    BY DEF AddWatcher
  <2> QED
    BY <2>1, Cut DEF IInv, Types
<1>c0. 1 \in 1 .. Len(cmds) /\ Head(cmds) = cmds[1]
  BY <1>cmds
<1>c1. \A k \in 1 .. Len(cmds') : k + 1 \in 1 .. Len(cmds) /\ cmds'[k] = cmds[k + 1]
  BY <1>cmds
<1>c2. \A k \in 1 .. Len(cmds) : k = 1
         \/ (k - 1 \in 1 .. Len(cmds') /\ cmds'[k - 1] = cmds[k])
  BY <1>cmds
<1>e. PICK e \in Entry : e = cmds[1].e
  BY <1>c0 DEF IInv, Commands, AddWatcher
<1>a. /\ e \in Entry /\ e # NIL /\ e = cmds[1].e /\ cmds[1].type = "add"
      /\ cmds[1].hear = {}
  BY <1>c0, <1>e, Nobody DEF IInv, Commands, AddWatcher
<1>g. /\ t \in acting /\ cur[t] = NIL /\ add[t] = NIL /\ proc.by = t
      /\ proc.at = "next" /\ proc.rest = {} /\ proc.called = NIL /\ proc.respond = 0
      /\ proc.hear = {}
  BY DEF AddWatcher, InEmitter, IInv, Adding, Stages
<1>b. e \notin list /\ ent[e] # NIL
  BY <1>a, <1>c0 DEF IInv, CmdApart, Whereabouts
<1>b2. \A k \in 1 .. Len(cmds) : cmds[k].type = "add" /\ k # 1 => cmds[k].e # e
  BY <1>a, <1>c0 DEF IInv, CmdOnce
<1>list. list' = list \union {e}
  BY <1>e, <1>c0 DEF AddWatcher
<1>f. PICK f \in Fibers : f = p[2]
  BY TTable DEF InTable
<1>i. PICK i \in Nat : i = p[1] /\ p \in table /\ i # 0 /\ i = cmds[1].respond
  <2>1. p \in table /\ p[1] = Head(cmds).respond /\ p[1] \in 1 .. seed
    BY DEF InTable, IInv, TableIds
  <2> QED
    BY <2>1, <1>c0, TTable
<1>own0. waits[f] = i
  BY <1>f, <1>i, <1>c0 DEF IInv, CmdTable
<1>j. /\ f \in Fibers /\ f # NIL /\ waits[f] = i /\ i # 0 /\ i \in Nat
      /\ p \in table /\ p[1] = i /\ p[2] = f
  BY <1>f, <1>i, <1>own0, Nobody
<1>m. m_w[f] = NIL
  BY <1>j, <1>i, <1>c0, TMw, Nobody DEF IInv, Held, CmdWatch
<1>table. /\ (\A r \in table' : r \in table /\ r # p)
          /\ (\A r \in table : r # p => r \in table')
  OBVIOUS
<1>gone. \A r \in table' : r[1] # i
  BY <1>table, <1>j DEF IInv, TableOnce
<1>nl. late # NIL => late[2] # f
  BY <1>j DEF IInv, LateGone, LateOwn
<1>nr. \A v \in Workers : \A k \in 1 .. Len(fque[v]) : fque[v][k].type = "resume"
         => fque[v][k].f # f
  BY <1>j DEF IInv, ResumeGone, ResumeOwn
<1>x0. PICK x \in Tsk : x = Task("resume", f, i)
  BY <1>j DEF Tsk, Task
<1>d. PICK d \in Workers : d = Owner(f)
  BY Nobody
<1>fque. /\ \A v \in Workers : \A k \in 1 .. Len(fque'[v]) :
              (k \in 1 .. Len(fque[v]) /\ fque'[v][k] = fque[v][k])
                \/ (v = d /\ k = Len(fque[d]) + 1 /\ fque'[v][k] = x)
         /\ \A v \in Workers : \A k \in 1 .. Len(fque[v]) :
              k \in 1 .. Len(fque'[v]) /\ fque'[v][k] = fque[v][k]
         /\ Len(fque[d]) + 1 \in 1 .. Len(fque'[d])
         /\ fque'[d][Len(fque[d]) + 1] = x /\ Len(fque[d]) \in Nat
         /\ fque' \in [Workers -> Seq(Tsk)]
         /\ x.type = "resume" /\ x.f = f /\ x.id = i /\ d = Owner(f)
  <2>1. fque' = [fque EXCEPT ![d] = Append(@, x)]
    BY <1>x0, <1>d, <1>f, <1>i, <1>c0 DEF Push
  <2> QED
    BY <2>1, <1>x0, <1>d, Pushed DEF IInv, Types, Task
<1>q1. \A v \in Workers : \A k \in 1 .. Len(fque'[v]) :
            (k \in 1 .. Len(fque[v]) /\ fque'[v][k] = fque[v][k])
              \/ (v = d /\ k = Len(fque[d]) + 1 /\ fque'[v][k] = x)
  BY <1>fque
<1>q2. \A v \in Workers : \A k \in 1 .. Len(fque[v]) :
         k \in 1 .. Len(fque'[v]) /\ fque'[v][k] = fque[v][k]
  BY <1>fque
<1>q3. Len(fque[d]) + 1 \in 1 .. Len(fque'[d]) /\ fque'[d][Len(fque[d]) + 1] = x
  BY <1>fque
<1>q4. /\ x.type = "resume" /\ x.f = f /\ x.id = i /\ d = Owner(f)
       /\ Len(fque[d]) \in Nat
  BY <1>fque
<1>heard. \A w \in heard' : w \in heard
            \/ (w = ent[e] /\ watch[w].used /\ watch[w].fb = NIL /\ w \in Watchers)
  <2> SUFFICES ASSUME NEW w \in heard', w \notin heard
               PROVE  /\ w = ent[e] /\ watch[w].used /\ watch[w].fb = NIL
                      /\ w \in Watchers
    OBVIOUS
  <2>1. /\ w \in Watchers /\ watch[w].used /\ watch[w].fb = NIL
        /\ watch[w].msgid = cmds[1].respond
    BY <1>c0
  <2> QED
    BY <2>1, <1>i, <1>c0, <1>e DEF IInv, CmdWatch
<1>0. Types'
  <2>1. cmds' \in Seq(Cmd)
    BY <1>cmds
  <2>2. list' \subseteq Entry
    BY WorkerAssumption, <1>a, <1>g, <1>b, <1>j, <1>m DEF IInv, Types, AddWatcher
  <2>3. table' \subseteq Nat \X Fibers
    BY DEF IInv, Types
  <2>4. fque' \in [Workers -> Seq(Tsk)]
    BY <1>fque
  <2>5. heard' \subseteq Watchers
    BY DEF IInv, Types
  <2> QED
    BY <2>1, <2>2, <2>3, <2>4, <2>5, <1>u DEF IInv, Types
<1>own. \A n \in Nat : Own(n) => Own(n)'
  BY <1>u, <1>table DEF Own
<1>home. \A v \in Workers, n \in Nat : Home(v, n) => Home(v, n)'
  BY <1>u, TTable, TSeed, <1>a, <1>g, <1>b, <1>j, <1>m, <1>table, <1>gone DEF IInv,
     Home
<1>1. Commands'
  BY <1>c1 DEF IInv, Commands
<1>2. Tasks'
  <2> SUFFICES ASSUME NEW v \in Workers, NEW k \in 1 .. Len(fque'[v])
               PROVE  /\ fque'[v][k].type = "resume" => fque'[v][k].f \in Fibers
                      /\ fque'[v][k].type = "request" => fque'[v][k].f \in Workers
    BY DEF Tasks
  <2>1. CASE k \in 1 .. Len(fque[v]) /\ fque'[v][k] = fque[v][k]
    BY <2>1 DEF IInv, Tasks
  <2>2. CASE v = d /\ k = Len(fque[d]) + 1 /\ fque'[v][k] = x
    BY <2>2, <1>q4
  <2> QED
    BY <2>1, <2>2, <1>q1
<1>3. TableIds'
  BY <1>u DEF IInv, TableIds
<1>4. TableOnce'
  BY DEF IInv, TableOnce
<1>5. AskedProc'
  BY <1>u, <1>own, TResp DEF IInv, AskedProc
<1>6. AskedTasks'
  <2> SUFFICES ASSUME NEW v \in Workers, NEW k \in 1 .. Len(fque'[v])
               PROVE  fque'[v][k].type \in {"request", "response"} => Own(fque[v][k].id)'
    BY DEF AskedTasks
  <2>1. CASE k \in 1 .. Len(fque[v]) /\ fque'[v][k] = fque[v][k]
    BY <2>1, <1>own, <1>gone, TTable, TFque DEF IInv, AskedTasks
  <2>2. CASE v = d /\ k = Len(fque[d]) + 1 /\ fque'[v][k] = x
    BY <2>2, <1>own, <1>gone, <1>q4, TTable, TFque
  <2> QED
    BY <2>1, <2>2, <1>q1
<1>7. AskedEnds'
  BY <1>u, <1>own, TEndp DEF IInv, AskedEnds
<1>8. CmdIds'
  BY <1>u, <1>c1 DEF IInv, CmdIds
<1>9. CmdTable'
  BY <1>c1 DEF IInv, CmdTable
<1>10. CmdWatch'
  BY <1>u, <1>c1 DEF IInv, CmdWatch
<1>11. Owed'
  BY <1>u DEF IInv, Owed
<1>12. Reached'
  <2> SUFFICES ASSUME NEW g \in Fibers, waits[g] # 0
               PROVE  \/ \E r \in table' : r[1] = waits[g] /\ r[2] = g
                      \/ \E k \in 1 .. Len(fque'[Owner(g)]) :
                           /\ fque'[Owner(g)][k].type = "resume"
                           /\ fque'[Owner(g)][k].f = g
                      \/ late # NIL /\ late[2] = g
    BY <1>u DEF Reached
  <2>1. CASE g = f
    BY <2>1, <1>q3, <1>q4
  <2>2. CASE g # f
    <3>1. CASE \E r \in table : r[1] = waits[g] /\ r[2] = g
      BY <2>2, <3>1, <1>table, <1>j
    <3>2. ASSUME NEW k \in 1 .. Len(fque[Owner(g)]),
                 fque[Owner(g)][k].type = "resume", fque[Owner(g)][k].f = g
          PROVE  \E j \in 1 .. Len(fque'[Owner(g)]) :
                   fque'[Owner(g)][j].type = "resume" /\ fque'[Owner(g)][j].f = g
      BY <3>2, <1>q2, Nobody
    <3> QED
      BY <3>1, <3>2 DEF IInv, Reached
  <2> QED
    BY <2>1, <2>2
<1>13. ResumeOwn'
  <2> SUFFICES ASSUME NEW v \in Workers, NEW k \in 1 .. Len(fque'[v]),
                      fque'[v][k].type = "resume"
               PROVE  /\ v = Owner(fque'[v][k].f)
                      /\ waits'[fque'[v][k].f] = fque'[v][k].id
                      /\ fque'[v][k].id # 0
    BY DEF ResumeOwn
  <2>1. CASE k \in 1 .. Len(fque[v]) /\ fque'[v][k] = fque[v][k]
    BY <2>1, <1>a, <1>b, <1>j DEF IInv, ResumeOwn
  <2>2. CASE v = d /\ k = Len(fque[d]) + 1 /\ fque'[v][k] = x
    BY <2>2, <1>q4, <1>a, <1>b, <1>j
  <2> QED
    BY <2>1, <2>2, <1>q1
<1>14. ResumeGone'
  <2> SUFFICES ASSUME NEW v \in Workers, NEW k \in 1 .. Len(fque'[v]),
                      fque'[v][k].type = "resume", NEW s \in table'
               PROVE  s[1] # fque'[v][k].id
    BY DEF ResumeGone
  <2>1. CASE k \in 1 .. Len(fque[v]) /\ fque'[v][k] = fque[v][k]
    BY <2>1, <1>table DEF IInv, ResumeGone
  <2>2. CASE v = d /\ k = Len(fque[d]) + 1 /\ fque'[v][k] = x
    BY <2>2, <1>gone, <1>q4
  <2> QED
    BY <2>1, <2>2, <1>q1
<1>15. ResumeFree'
  <2> SUFFICES ASSUME NEW v \in Workers, NEW k \in 1 .. Len(fque'[v]),
                      fque'[v][k].type = "resume"
               PROVE  /\ m_w'[fque'[v][k].f] = NIL
                      /\ (late' # NIL => late'[2] # fque'[v][k].f)
    BY DEF ResumeFree
  <2>0. late' = late
    BY <1>u
  <2>1. CASE k \in 1 .. Len(fque[v]) /\ fque'[v][k] = fque[v][k]
    <3>1. /\ m_w[fque[v][k].f] = NIL /\ fque[v][k].f \in Fibers
          /\ late # NIL => late[2] # fque[v][k].f
      BY <2>1 DEF IInv, ResumeFree, Tasks
    <3>2. m_w'[fque[v][k].f] = NIL
      BY <3>1, <1>u
    <3> QED
      BY <2>0, <2>1, <3>1, <3>2
  <2>2. CASE v = d /\ k = Len(fque[d]) + 1 /\ fque'[v][k] = x
    <3>1. m_w'[f] = NIL
      BY <1>m, <1>u
    <3> QED
      BY <2>0, <2>2, <3>1, <1>nl, <1>q4
  <2> QED
    BY <2>1, <2>2, <1>q1
<1>16. ResumeOnce'
  <2> SUFFICES ASSUME NEW v \in Workers, NEW j \in 1 .. Len(fque'[v]), NEW k \in 1 .. Len(fque'[v]),
                      fque'[v][j].type = "resume", fque'[v][k].type = "resume",
                      fque'[v][j].f = fque'[v][k].f
               PROVE  j = k
    BY DEF ResumeOnce
  <2>1. CASE fque'[v][k].f = f
    <3>1. j = Len(fque[d]) + 1
      BY <2>1, <1>q1, <1>nr
    <3>2. k = Len(fque[d]) + 1
      BY <2>1, <1>q1, <1>nr
    <3> QED
      BY <3>1, <3>2
  <2>2. CASE fque'[v][k].f # f
    <3>1. j \in 1 .. Len(fque[v]) /\ fque'[v][j] = fque[v][j]
      BY <2>2, <1>q1, <1>q4
    <3>2. k \in 1 .. Len(fque[v]) /\ fque'[v][k] = fque[v][k]
      BY <2>2, <1>q1, <1>q4
    <3> QED
      BY <3>1, <3>2 DEF IInv, ResumeOnce
  <2> QED
    BY <2>1, <2>2
<1>17. LateGone'
  BY <1>u DEF IInv, LateGone
<1>18. Sole'
  BY <1>u DEF IInv, Sole
<1>19. Whereabouts'
  <2> SUFFICES ASSUME NEW n \in Entry
               PROVE  ent'[n] # NIL <=>
                        \/ n \in list' \/ n \in proc'.rest \/ n = proc'.called
                        \/ \E k \in 1 .. Len(cmds') :
                             cmds'[k].type = "add" /\ cmds'[k].e = n
    BY DEF Whereabouts
  <2>1. \A k \in 1 .. Len(cmds') : cmds'[k].type = "add" /\ cmds'[k].e = n =>
          \E j \in 1 .. Len(cmds) : cmds[j].type = "add" /\ cmds[j].e = n
    BY <1>c1
  <2>2. \A k \in 1 .. Len(cmds) : cmds[k].type = "add" /\ cmds[k].e = n /\ n # e =>
          \E j \in 1 .. Len(cmds') : cmds'[j].type = "add" /\ cmds'[j].e = n
    BY <1>c2, <1>a
  <2>3. CASE n = e
    BY <2>3, <1>list, <1>u, <1>b
  <2>4. CASE n # e
    BY <2>1, <2>2, <2>4, <1>list, <1>u DEF IInv, Whereabouts
  <2> QED
    BY <2>3, <2>4
<1>20. ListApart'
  BY <1>u, <1>list, <1>a, <1>g DEF IInv, ListApart
<1>21. CmdApart'
  BY <1>u, <1>c1, <1>b2, <1>list DEF IInv, CmdApart
<1>22. CmdOnce'
  <2> SUFFICES ASSUME NEW j \in 1 .. Len(cmds'), NEW k \in 1 .. Len(cmds'),
                      cmds'[j].type = "add", cmds'[k].type = "add",
                      cmds'[j].e = cmds'[k].e
               PROVE  j = k
    BY DEF CmdOnce
  <2>1. /\ j + 1 \in 1 .. Len(cmds) /\ cmds'[j] = cmds[j + 1]
        /\ k + 1 \in 1 .. Len(cmds) /\ cmds'[k] = cmds[k + 1]
    BY <1>c1
  <2>2. j + 1 = k + 1
    BY <2>1 DEF IInv, CmdOnce
  <2> QED
    BY <2>2
<1>23. Removing'
  <2> SUFFICES ASSUME NEW k \in 1 .. Len(cmds'), cmds'[k].type = "remove"
               PROVE  \/ ent'[cmds'[k].e] = NIL
                      \/ watch'[ent'[cmds'[k].e]].stopped
                      \/ \E j \in 1 .. Len(cmds') :
                           j > k /\ cmds'[j].type = "add" /\ cmds'[j].e = cmds'[k].e
    BY DEF Removing
  <2>1. k + 1 \in 1 .. Len(cmds) /\ cmds'[k] = cmds[k + 1]
    BY <1>c1
  <2>2. PICK n \in Entry : n = cmds[k + 1].e
    BY <2>1 DEF IInv, Commands
  <2>3. CASE ent[n] = NIL \/ watch[ent[n]].stopped
    BY <2>1, <2>2, <2>3, <1>u
  <2>4. ASSUME NEW j \in 1 .. Len(cmds), j > k + 1, cmds[j].type = "add", cmds[j].e = n
        PROVE  \E l \in 1 .. Len(cmds') : l > k /\ cmds'[l].type = "add" /\ cmds'[l].e = cmds'[k].e
    <3>1. j # 1 /\ j - 1 > k
      BY <2>4
    <3>2. j - 1 \in 1 .. Len(cmds') /\ cmds'[j - 1] = cmds[j]
      BY <3>1, <1>c2
    <3> QED
      BY <2>1, <2>2, <2>4, <3>1, <3>2
  <2> QED
    BY <2>1, <2>2, <2>3, <2>4 DEF IInv, Removing
<1>24. HeardBound'
  BY <1>u DEF IInv, HeardBound
<1>25. HeardPlaces'
  <2> SUFFICES ASSUME NEW n \in Entry, ent[n] \in heard'
               PROVE  n \in list \union {e} \/ n \in proc.rest
    BY <1>u, <1>list DEF HeardPlaces
  <2>1. CASE ent[n] \in heard
    BY <2>1 DEF IInv, HeardPlaces
  <2>2. CASE ent[n] = ent[e]
    BY <2>2, <1>a, <1>b DEF IInv, OneEntry
  <2> QED
    BY <2>1, <2>2, <1>heard
<1>26. HearCmds'
  BY <1>c0, <1>c1 DEF IInv, HearCmds
<1>27. HearProc'
  BY <1>u DEF IInv, HearProc
<1>28. HomeTasks'
  <2> SUFFICES ASSUME NEW v \in Workers, NEW k \in 1 .. Len(fque'[v])
               PROVE  /\ fque'[v][k].type = "request" => Home(fque[v][k].f, fque[v][k].id)'
                      /\ fque'[v][k].type = "response" => Home(v, fque[v][k].id)'
    BY DEF HomeTasks
  <2>1. CASE k \in 1 .. Len(fque[v]) /\ fque'[v][k] = fque[v][k]
    BY <2>1, TFque, <1>home DEF IInv, HomeTasks, Tasks
  <2>2. CASE ~(k \in 1 .. Len(fque[v]) /\ fque'[v][k] = fque[v][k])
    BY <2>2, <1>q1, <1>q4, <1>q4
  <2> QED
    BY <2>1, <2>2
<1>29. HomeEnds'
  BY <1>u, <1>home, TEndp DEF IInv, HomeEnds
<1>30. NoneDeleted'
  BY <1>u DEF IInv, NoneDeleted, Solo
<1>31. Mode' /\ AloneAdd' /\ AloneNamed' /\ AloneId'
  BY <1>u DEF IInv, Solo, Mode, AloneAdd, AloneNamed, AloneId
<1>32. /\ Inside' /\ Stages' /\ Running' /\ OnOwner' /\ Adding' /\ InCall'
       /\ WaitIds' /\ WaitOnce' /\ WatchIds' /\ WatchOnce'
  BY <1>u DEF IInv, Inside, Stages, Running, OnOwner, Adding, InCall, WaitIds,
     WaitOnce, WatchIds, WatchOnce
<1>33. /\ LateOwn' /\ Held' /\ Bound' /\ Entered' /\ Called' /\ Occupied'
       /\ OneEntry' /\ CalledApart' /\ HearRest'
  BY <1>u DEF IInv, LateOwn, Held, Bound, Entered, Called, Occupied, OneEntry,
     CalledApart, HearRest
<1> QED
  BY <1>0, <1>1, <1>2, <1>3, <1>4, <1>5, <1>6, <1>7, <1>8, <1>9, <1>10, <1>11,
     <1>12, <1>13, <1>14, <1>15, <1>16, <1>17, <1>18, <1>19, <1>20, <1>21,
     <1>22, <1>23, <1>24, <1>25, <1>26, <1>27, <1>28, <1>29, <1>30, <1>31,
     <1>32, <1>33 DEF IInv

\* remove_watcher of an entry that is gone, and of one in the list.
LEMMA RemoveGoneStep ==
  ASSUME IInv, NEW t \in Workers, RemoveWatcher(t), Head(cmds).e \notin list
  PROVE  IInv'
<1>u. UNCHANGED <<acting, st, m_w, m_endp, watch, ent, list, proc, table, seed, cur,
                  add, fque, late, waits, heard>>
  BY DEF RemoveWatcher
<1>cmds. /\ 1 \in 1 .. Len(cmds) /\ Head(cmds) = cmds[1] /\ Head(cmds) \in Cmd
         /\ \A k \in 1 .. Len(cmds') :
              k + 1 \in 1 .. Len(cmds) /\ cmds'[k] = cmds[k + 1]
         /\ \A k \in 1 .. Len(cmds) : k = 1
              \/ (k - 1 \in 1 .. Len(cmds') /\ cmds'[k - 1] = cmds[k])
         /\ cmds' \in Seq(Cmd)
  <2>1. cmds' = Tail(cmds) /\ cmds # <<>>
    BY DEF RemoveWatcher
  <2> QED
    BY <2>1, Cut DEF IInv, Types
<1>c0. 1 \in 1 .. Len(cmds) /\ Head(cmds) = cmds[1]
  BY <1>cmds
<1>c1. \A k \in 1 .. Len(cmds') : k + 1 \in 1 .. Len(cmds) /\ cmds'[k] = cmds[k + 1]
  BY <1>cmds
<1>c2. \A k \in 1 .. Len(cmds) : k = 1
         \/ (k - 1 \in 1 .. Len(cmds') /\ cmds'[k - 1] = cmds[k])
  BY <1>cmds
<1>e. PICK e \in Entry : e = cmds[1].e
  BY <1>c0 DEF IInv, Commands, RemoveWatcher
<1>a. /\ e \in Entry /\ e # NIL /\ e = cmds[1].e /\ cmds[1].type = "remove"
      /\ cmds[1].hear = {} /\ cmds[1].respond = 0
  BY <1>c0, <1>e, Nobody DEF IInv, Commands, RemoveWatcher
<1>0. Types'
  <2>1. cmds' \in Seq(Cmd)
    BY <1>cmds
  <2> QED
    BY <2>1, <1>u DEF IInv, Types
<1>1. Commands'
  BY <1>c1 DEF IInv, Commands
<1>2. CmdIds'
  BY <1>u, <1>c1 DEF IInv, CmdIds
<1>3. CmdTable'
  BY <1>u, <1>c1 DEF IInv, CmdTable
<1>4. CmdWatch'
  BY <1>u, <1>c0, <1>c1 DEF IInv, CmdWatch
<1>5. Whereabouts'
  <2> SUFFICES ASSUME NEW d \in Entry
               PROVE  ent'[d] # NIL <=>
                        \/ d \in list' \/ d \in proc'.rest \/ d = proc'.called
                        \/ \E k \in 1 .. Len(cmds') :
                             cmds'[k].type = "add" /\ cmds'[k].e = d
    BY DEF Whereabouts
  <2>1. (\E k \in 1 .. Len(cmds') : cmds'[k].type = "add" /\ cmds'[k].e = d) <=>
          \E k \in 1 .. Len(cmds) : cmds[k].type = "add" /\ cmds[k].e = d
    <3>1. ASSUME NEW k \in 1 .. Len(cmds'), cmds'[k].type = "add", cmds'[k].e = d
          PROVE  \E j \in 1 .. Len(cmds) : cmds[j].type = "add" /\ cmds[j].e = d
      BY <3>1, <1>c1
    <3>2. ASSUME NEW k \in 1 .. Len(cmds), cmds[k].type = "add", cmds[k].e = d
          PROVE  \E j \in 1 .. Len(cmds') : cmds'[j].type = "add" /\ cmds'[j].e = d
      BY <3>2, <1>c2, <1>a
    <3> QED
      BY <3>1, <3>2
  <2> QED
    BY <2>1, <1>u DEF IInv, Whereabouts
<1>6. CmdApart'
  BY <1>u, <1>c1 DEF IInv, CmdApart
<1>7. CmdOnce'
  <2> SUFFICES ASSUME NEW j \in 1 .. Len(cmds'), NEW k \in 1 .. Len(cmds'),
                      cmds'[j].type = "add", cmds'[k].type = "add",
                      cmds'[j].e = cmds'[k].e
               PROVE  j = k
    BY DEF CmdOnce
  <2>1. /\ j + 1 \in 1 .. Len(cmds) /\ cmds'[j] = cmds[j + 1]
        /\ k + 1 \in 1 .. Len(cmds) /\ cmds'[k] = cmds[k + 1]
    BY <1>c1
  <2>2. j + 1 = k + 1
    BY <2>1 DEF IInv, CmdOnce
  <2> QED
    BY <2>2
<1>8. Removing'
  <2> SUFFICES ASSUME NEW k \in 1 .. Len(cmds'), cmds'[k].type = "remove"
               PROVE  \/ ent'[cmds'[k].e] = NIL
                      \/ watch'[ent'[cmds'[k].e]].stopped
                      \/ \E j \in 1 .. Len(cmds') :
                           j > k /\ cmds'[j].type = "add" /\ cmds'[j].e = cmds'[k].e
    BY DEF Removing
  <2>1. k + 1 \in 1 .. Len(cmds) /\ cmds'[k] = cmds[k + 1]
    BY <1>c1
  <2>2. PICK d \in Entry : d = cmds[k + 1].e
    BY <2>1 DEF IInv, Commands
  <2>3. CASE ent[d] = NIL \/ watch[ent[d]].stopped
    BY <2>1, <2>2, <2>3, <1>u
  <2>4. ASSUME NEW j \in 1 .. Len(cmds), j > k + 1, cmds[j].type = "add", cmds[j].e = d
        PROVE  \E l \in 1 .. Len(cmds') : l > k /\ cmds'[l].type = "add" /\ cmds'[l].e = cmds'[k].e
    <3>1. j # 1 /\ j - 1 > k
      BY <2>4
    <3>2. j - 1 \in 1 .. Len(cmds') /\ cmds'[j - 1] = cmds[j]
      BY <3>1, <1>c2
    <3> QED
      BY <2>1, <2>2, <2>4, <3>1, <3>2
  <2> QED
    BY <2>1, <2>2, <2>3, <2>4 DEF IInv, Removing
<1>9. HearCmds'
  BY <1>u, <1>c1 DEF IInv, HearCmds
<1>10. Mode' /\ AloneAdd' /\ AloneNamed' /\ AloneId' /\ NoneDeleted'
  BY <1>u DEF IInv, Solo, Mode, AloneAdd, AloneNamed, AloneId, NoneDeleted
<1>11. /\ Inside' /\ Stages' /\ Tasks' /\ Running' /\ OnOwner' /\ Adding'
       /\ InCall' /\ WaitIds' /\ WaitOnce' /\ TableIds'
  BY <1>u DEF IInv, Inside, Stages, Tasks, Running, OnOwner, Adding, InCall,
     WaitIds, WaitOnce, TableIds
<1>12. /\ TableOnce' /\ WatchIds' /\ WatchOnce' /\ Owed' /\ Reached'
       /\ ResumeOwn' /\ ResumeGone' /\ ResumeFree' /\ ResumeOnce'
       /\ LateOwn'
  BY <1>u DEF IInv, TableOnce, WatchIds, WatchOnce, Owed, Reached, ResumeOwn,
     ResumeGone, ResumeFree, ResumeOnce, LateOwn
<1>13. AskedProc' /\ AskedTasks' /\ AskedEnds'
  BY <1>u DEF IInv, Own, AskedProc, AskedTasks, AskedEnds
<1>14. /\ LateGone' /\ Held' /\ Bound' /\ Entered' /\ Sole' /\ Called'
       /\ Occupied' /\ OneEntry' /\ ListApart' /\ CalledApart'
  BY <1>u DEF IInv, LateGone, Held, Bound, Entered, Sole, Called, Occupied,
     OneEntry, ListApart, CalledApart
<1>15. HeardBound' /\ HeardPlaces' /\ HearProc' /\ HearRest'
  BY <1>u DEF IInv, HeardBound, HeardPlaces, HearProc, HearRest
<1>16. HomeTasks' /\ HomeEnds'
  BY <1>u DEF IInv, Home, HomeTasks, HomeEnds
<1> QED
  BY <1>0, <1>1, <1>2, <1>3, <1>4, <1>5, <1>6, <1>7, <1>8, <1>9, <1>10, <1>11,
     <1>12, <1>13, <1>14, <1>15, <1>16 DEF IInv

\* remove_watcher finds the entry in the list and frees its watcher.
LEMMA RemoveFreeStep ==
  ASSUME IInv, NEW t \in Workers, RemoveWatcher(t), Head(cmds).e \in list
  PROVE  IInv'
<1>cmds. /\ 1 \in 1 .. Len(cmds) /\ Head(cmds) = cmds[1] /\ Head(cmds) \in Cmd
         /\ \A k \in 1 .. Len(cmds') :
              k + 1 \in 1 .. Len(cmds) /\ cmds'[k] = cmds[k + 1]
         /\ \A k \in 1 .. Len(cmds) : k = 1
              \/ (k - 1 \in 1 .. Len(cmds') /\ cmds'[k - 1] = cmds[k])
         /\ cmds' \in Seq(Cmd)
  <2>1. cmds' = Tail(cmds) /\ cmds # <<>>
    BY DEF RemoveWatcher
  <2> QED
    BY <2>1, Cut DEF IInv, Types
<1>c0. 1 \in 1 .. Len(cmds) /\ Head(cmds) = cmds[1]
  BY <1>cmds
<1>c1. \A k \in 1 .. Len(cmds') : k + 1 \in 1 .. Len(cmds) /\ cmds'[k] = cmds[k + 1]
  BY <1>cmds
<1>c2. \A k \in 1 .. Len(cmds) : k = 1
         \/ (k - 1 \in 1 .. Len(cmds') /\ cmds'[k - 1] = cmds[k])
  BY <1>cmds
<1>e. PICK e \in Entry : e = cmds[1].e
  BY <1>c0 DEF IInv, Commands, RemoveWatcher
<1>a. /\ e \in Entry /\ e # NIL /\ e = cmds[1].e /\ cmds[1].type = "remove"
      /\ cmds[1].hear = {} /\ cmds[1].respond = 0
  BY <1>c0, <1>e, Nobody DEF IInv, Commands, RemoveWatcher
<1>g. /\ t \in acting /\ cur[t] = NIL /\ add[t] = NIL /\ proc.by = t
      /\ proc.at = "next" /\ proc.rest = {} /\ proc.called = NIL /\ proc.respond = 0
      /\ proc.hear = {}
  BY DEF RemoveWatcher, InEmitter, IInv, Adding, Stages
<1>b. e \in list /\ ent[e] # NIL
  BY <1>e, <1>c0 DEF IInv, Whereabouts, RemoveWatcher
<1>s. watch[ent[e]].stopped
  <2>1. \A j \in 1 .. Len(cmds) : cmds[j].type = "add" => cmds[j].e # e
    BY <1>b DEF IInv, CmdApart
  <2> QED
    BY <2>1, <1>a, <1>b, <1>c0 DEF IInv, Removing
<1>w. PICK w \in Watchers : w = ent[e]
  BY <1>b, TEnt
<1>h. /\ w = ent[e] /\ w # NIL /\ watch[w].used /\ w \in Watchers
      /\ \A d \in Entry : ent[d] = w => d = e
  BY <1>w, <1>b DEF IInv, Occupied, OneEntry
<1>fb. watch[w].fb # NIL /\ w \notin heard
  BY <1>s, <1>h DEF IInv, Bound, HeardBound
<1>n. \A f \in Fibers : m_w[f] # w
  BY <1>s, <1>w, <1>h DEF IInv, Held
<1>k. /\ UNCHANGED m_w /\ watch' = [watch EXCEPT ![w] = NoWatcher]
      /\ ent' = [ent EXCEPT ![e] = NIL]
  <2>1. FreeEntry(e) /\ watch[w].fb \in Fibers \union {NIL}
    BY <1>w, TWatch, <1>e, <1>c0, <1>b DEF RemoveWatcher
  <2> QED
    BY <2>1, <1>w, <1>n DEF FreeEntry, FinishWait
<1>watch. /\ ~watch'[w].used /\ watch'[w].fb = NIL /\ watch'[w].msgid = 0
          /\ ~watch'[w].stopped /\ watch'[w].owner = NIL /\ watch'[w].entry = NIL
          /\ \A v \in Watchers : v # w => watch'[v] = watch[v]
  BY <1>k DEF IInv, Types, NoWatcher
<1>u. UNCHANGED <<acting, st, m_w, m_endp, proc, table, seed, cur, add, fque, late,
                  waits, heard>>
  BY <1>k DEF RemoveWatcher
<1>ent. ent'[e] = NIL /\ (\A y \in Entry : y # e => ent'[y] = ent[y])
  BY <1>k DEF IInv, Types
<1>sa. Solo => \A v \in Workers : add[v] = NIL
  <2> SUFFICES ASSUME Solo, NEW v \in Workers, add[v] # NIL PROVE FALSE
    OBVIOUS
  <2>1. v \in acting /\ cur[v] # NIL
    BY DEF IInv, Adding, OnOwner
  <2> QED
    BY <2>1, <1>g DEF IInv, Mode
<1>list. list' = list \ {e}
  BY <1>e, <1>c0 DEF RemoveWatcher
<1>0. Types'
  <2>1. watch' \in [Watchers -> WatcherRec]
    BY <1>k DEF IInv, Types, NoWatcher, WatcherRec
  <2>2. ent' \in [Entry -> Watchers \union {NIL}]
    BY <1>k DEF IInv, Types
  <2>3. cmds' \in Seq(Cmd)
    BY <1>cmds
  <2>4. list' \subseteq Entry
    BY WorkerAssumption, <1>a, <1>g, <1>b, <1>h, <1>fb, <1>n, <1>sa DEF IInv, Types,
       RemoveWatcher
  <2> QED
    BY <2>1, <2>2, <2>3, <2>4, <1>u DEF IInv, Types
<1>own. \A i \in Nat : Own(i) => Own(i)'
  BY <1>u, TWatch, <1>watch, <1>h DEF Own
<1>1. Commands'
  BY <1>c1 DEF IInv, Commands
<1>2. WatchIds'
  BY <1>u, <1>watch DEF IInv, WatchIds
<1>3. WatchOnce'
  BY <1>watch DEF IInv, WatchOnce
<1>4. AskedProc'
  BY <1>u, <1>own, TResp DEF IInv, AskedProc
<1>5. AskedTasks'
  BY <1>u, <1>own, TFque DEF IInv, AskedTasks
<1>6. AskedEnds'
  BY <1>u, <1>own, TEndp DEF IInv, AskedEnds
<1>7. CmdIds'
  BY <1>u, <1>c1 DEF IInv, CmdIds
<1>8. CmdTable'
  BY <1>u, <1>c1 DEF IInv, CmdTable
<1>9. CmdWatch'
  BY <1>u, <1>watch, <1>ent, <1>c1, <1>a, <1>g, <1>b, <1>h, <1>fb, <1>n DEF
     IInv, CmdWatch, CmdIds, Commands
<1>10. Owed'
  BY <1>u, <1>watch DEF IInv, Owed
<1>11. Held'
  BY <1>u, <1>watch, <1>n, TMw DEF IInv, Held
<1>12. Bound'
  BY <1>watch DEF IInv, Bound
<1>13. Entered'
  BY <1>watch, <1>ent, <1>h DEF IInv, Entered
<1>14. Sole'
  BY <1>u, <1>watch DEF IInv, Sole
<1>15. Called'
  BY <1>u, <1>g DEF IInv, Called
<1>16. Whereabouts'
  <2> SUFFICES ASSUME NEW d \in Entry
               PROVE  ent'[d] # NIL <=>
                        \/ d \in list' \/ d \in proc'.rest \/ d = proc'.called
                        \/ \E k \in 1 .. Len(cmds') :
                             cmds'[k].type = "add" /\ cmds'[k].e = d
    BY DEF Whereabouts
  <2>1. (\E k \in 1 .. Len(cmds') : cmds'[k].type = "add" /\ cmds'[k].e = d) <=>
          \E k \in 1 .. Len(cmds) : cmds[k].type = "add" /\ cmds[k].e = d
    <3>1. ASSUME NEW k \in 1 .. Len(cmds'), cmds'[k].type = "add", cmds'[k].e = d
          PROVE  \E j \in 1 .. Len(cmds) : cmds[j].type = "add" /\ cmds[j].e = d
      BY <3>1, <1>c1
    <3>2. ASSUME NEW k \in 1 .. Len(cmds), cmds[k].type = "add", cmds[k].e = d
          PROVE  \E j \in 1 .. Len(cmds') : cmds'[j].type = "add" /\ cmds'[j].e = d
      BY <3>2, <1>c2, <1>a
    <3> QED
      BY <3>1, <3>2
  <2>2. CASE d = e
    BY <2>1, <2>2, <1>b, <1>u, <1>list, <1>ent DEF IInv, ListApart, CmdApart
  <2>3. CASE d # e
    BY <2>1, <2>3, <1>u, <1>list, <1>ent DEF IInv, Whereabouts
  <2> QED
    BY <2>2, <2>3
<1>17. Occupied'
  BY <1>watch, <1>ent, <1>h, TEnt DEF IInv, Occupied
<1>18. OneEntry'
  BY <1>ent DEF IInv, OneEntry
<1>19. ListApart'
  BY <1>u, <1>list DEF IInv, ListApart
<1>20. CmdApart'
  BY <1>u, <1>c1, <1>list DEF IInv, CmdApart
<1>21. CmdOnce'
  <2> SUFFICES ASSUME NEW j \in 1 .. Len(cmds'), NEW k \in 1 .. Len(cmds'),
                      cmds'[j].type = "add", cmds'[k].type = "add",
                      cmds'[j].e = cmds'[k].e
               PROVE  j = k
    BY DEF CmdOnce
  <2>1. /\ j + 1 \in 1 .. Len(cmds) /\ cmds'[j] = cmds[j + 1]
        /\ k + 1 \in 1 .. Len(cmds) /\ cmds'[k] = cmds[k + 1]
    BY <1>c1
  <2>2. j + 1 = k + 1
    BY <2>1 DEF IInv, CmdOnce
  <2> QED
    BY <2>2
<1>22. AloneAdd'
  BY <1>u, <1>sa DEF IInv, AloneAdd, Solo
<1>23. AloneNamed'
  <2> SUFFICES ASSUME NEW v \in Watchers, Solo, watch'[v].used
               PROVE  watch'[v].entry # NIL /\ ent'[watch'[v].entry] = v
    BY <1>u DEF AloneNamed, Solo
  <2>1. v # w /\ watch[v].used /\ watch'[v] = watch[v]
    BY <1>watch
  <2>2. watch[v].entry # NIL /\ ent[watch[v].entry] = v
    BY <2>1, <1>sa DEF IInv, AloneNamed
  <2>3. watch[v].entry \in Entry
    BY <2>2 DEF IInv, Types, WatcherRec
  <2> QED
    BY <2>1, <2>2, <2>3, <1>ent, <1>h
<1>24. AloneId'
  <2> SUFFICES ASSUME NEW v \in Workers, Solo, add[v] # NIL
               PROVE  watch'[add'[v][1]].msgid = waits'[cur'[v]]
    BY <1>u DEF AloneId, Solo
  <2> QED
    BY <1>g, Alone
<1>25. Removing'
  <2> SUFFICES ASSUME NEW k \in 1 .. Len(cmds'), cmds'[k].type = "remove"
               PROVE  \/ ent'[cmds'[k].e] = NIL
                      \/ watch'[ent'[cmds'[k].e]].stopped
                      \/ \E j \in 1 .. Len(cmds') :
                           j > k /\ cmds'[j].type = "add" /\ cmds'[j].e = cmds'[k].e
    BY DEF Removing
  <2>1. k + 1 \in 1 .. Len(cmds) /\ cmds'[k] = cmds[k + 1]
    BY <1>c1
  <2>2. PICK d \in Entry : d = cmds[k + 1].e
    BY <2>1 DEF IInv, Commands
  <2>3. CASE ent[d] = NIL \/ watch[ent[d]].stopped
    BY <2>1, <2>2, <2>3, <1>ent, <1>watch, <1>h, TEnt
  <2>4. ASSUME NEW j \in 1 .. Len(cmds), j > k + 1, cmds[j].type = "add", cmds[j].e = d
        PROVE  \E l \in 1 .. Len(cmds') : l > k /\ cmds'[l].type = "add" /\ cmds'[l].e = cmds'[k].e
    <3>1. j # 1 /\ j - 1 > k
      BY <2>4
    <3>2. j - 1 \in 1 .. Len(cmds') /\ cmds'[j - 1] = cmds[j]
      BY <3>1, <1>c2
    <3> QED
      BY <2>1, <2>2, <2>4, <3>1, <3>2
  <2> QED
    BY <2>1, <2>2, <2>3, <2>4 DEF IInv, Removing
<1>26. HeardBound'
  BY <1>u, <1>watch, <1>fb, THear DEF IInv, HeardBound
<1>27. HeardPlaces'
  BY <1>u, <1>ent, <1>list, THear, Nobody DEF IInv, HeardPlaces
<1>28. HearCmds'
  BY <1>u, <1>c1 DEF IInv, HearCmds
<1>29. HearRest'
  BY <1>u, <1>g DEF IInv, HearRest
<1>30. Mode' /\ NoneDeleted'
  BY <1>u DEF IInv, Solo, Mode, NoneDeleted
<1>31. /\ Inside' /\ Stages' /\ Tasks' /\ Running' /\ OnOwner' /\ Adding'
       /\ InCall' /\ WaitIds' /\ WaitOnce' /\ TableIds'
  BY <1>u DEF IInv, Inside, Stages, Tasks, Running, OnOwner, Adding, InCall,
     WaitIds, WaitOnce, TableIds
<1>32. /\ TableOnce' /\ Reached' /\ ResumeOwn' /\ ResumeGone'
       /\ ResumeFree' /\ ResumeOnce' /\ LateOwn' /\ LateGone'
       /\ CalledApart' /\ HearProc'
  BY <1>u DEF IInv, TableOnce, Reached, ResumeOwn, ResumeGone, ResumeFree,
     ResumeOnce, LateOwn, LateGone, CalledApart, HearProc
<1>33. HomeTasks' /\ HomeEnds'
  BY <1>u DEF IInv, Home, HomeTasks, HomeEnds
<1> QED
  BY <1>0, <1>1, <1>2, <1>3, <1>4, <1>5, <1>6, <1>7, <1>8, <1>9, <1>10, <1>11,
     <1>12, <1>13, <1>14, <1>15, <1>16, <1>17, <1>18, <1>19, <1>20, <1>21,
     <1>22, <1>23, <1>24, <1>25, <1>26, <1>27, <1>28, <1>29, <1>30, <1>31,
     <1>32, <1>33 DEF IInv

\* An emit takes the list.
LEMMA StartEmitStep ==
  ASSUME IInv, NEW t \in Workers, StartEmit(t)
  PROVE  IInv'
<1>u. UNCHANGED <<acting, st, m_w, m_endp, watch, ent, table, seed, cur, add, fque,
                  late, waits, heard>>
  BY DEF StartEmit, pvars
<1>cmds. /\ 1 \in 1 .. Len(cmds) /\ Head(cmds) = cmds[1] /\ Head(cmds) \in Cmd
         /\ \A k \in 1 .. Len(cmds') :
              k + 1 \in 1 .. Len(cmds) /\ cmds'[k] = cmds[k + 1]
         /\ \A k \in 1 .. Len(cmds) : k = 1
              \/ (k - 1 \in 1 .. Len(cmds') /\ cmds'[k - 1] = cmds[k])
         /\ cmds' \in Seq(Cmd)
  <2>1. cmds' = Tail(cmds) /\ cmds # <<>>
    BY DEF StartEmit
  <2> QED
    BY <2>1, Cut DEF IInv, Types
<1>c0. 1 \in 1 .. Len(cmds) /\ Head(cmds) = cmds[1]
  BY <1>cmds
<1>c1. \A k \in 1 .. Len(cmds') : k + 1 \in 1 .. Len(cmds) /\ cmds'[k] = cmds[k + 1]
  BY <1>cmds
<1>c2. \A k \in 1 .. Len(cmds) : k = 1
         \/ (k - 1 \in 1 .. Len(cmds') /\ cmds'[k - 1] = cmds[k])
  BY <1>cmds
<1>g. /\ t \in acting /\ cur[t] = NIL /\ add[t] = NIL /\ proc.by = t
      /\ proc.at = "next" /\ proc.rest = {} /\ proc.called = NIL /\ proc.respond = 0
      /\ proc.hear = {}
  BY DEF StartEmit, InEmitter, IInv, Adding, Stages
<1>a. cmds[1].type = "emit" /\ cmds[1].hear \subseteq heard
  BY <1>c0 DEF StartEmit, IInv, HearCmds
<1>proc. /\ proc'.by = proc.by /\ proc'.at = "emit" /\ proc'.rest = list
         /\ proc'.called = proc.called /\ proc'.respond = cmds[1].respond
         /\ proc'.hear = cmds[1].hear
  BY <1>c0 DEF IInv, Types, ProcRec, StartEmit
<1>list. list' = {}
  BY DEF StartEmit
<1>o. cmds[1].respond # 0 => Own(cmds[1].respond)
  BY <1>a, <1>c0, TWatch DEF IInv, CmdIds, CmdTable, CmdWatch, Own
<1>0. Types'
  <2>1. cmds' \in Seq(Cmd)
    BY <1>cmds
  <2>2. list' \subseteq Entry
    BY <1>list
  <2>3. proc' \in ProcRec
    BY <1>c0, <1>cmds DEF IInv, Types, ProcRec, StartEmit, Cmd
  <2> QED
    BY <2>1, <2>2, <2>3, <1>u DEF IInv, Types
<1>own. \A i \in Nat : Own(i) => Own(i)'
  BY <1>u DEF Own
<1>1. Inside'
  BY <1>u, <1>proc DEF IInv, Inside
<1>2. Stages'
  BY <1>proc, <1>g, Nobody DEF IInv, Stages
<1>3. Commands'
  BY <1>c1 DEF IInv, Commands
<1>4. AskedProc'
  <2>1. PICK i \in Nat : i = cmds[1].respond
    BY <1>c0, TCmd
  <2>2. i # 0 => Own(i)'
    BY <2>1, <1>o, <1>own
  <2>3. proc'.respond = i
    BY <2>1, <1>proc
  <2> QED
    BY <2>2, <2>3 DEF AskedProc, Own
<1>5. CmdIds'
  BY <1>u, <1>c1 DEF IInv, CmdIds
<1>6. CmdTable'
  BY <1>u, <1>c1 DEF IInv, CmdTable
<1>7. CmdWatch'
  BY <1>u, <1>c1 DEF IInv, CmdWatch
<1>8. Called'
  BY <1>u, <1>proc DEF IInv, Called
<1>9. Whereabouts'
  <2> SUFFICES ASSUME NEW d \in Entry
               PROVE  ent'[d] # NIL <=>
                        \/ d \in list' \/ d \in proc'.rest \/ d = proc'.called
                        \/ \E k \in 1 .. Len(cmds') :
                             cmds'[k].type = "add" /\ cmds'[k].e = d
    BY DEF Whereabouts
  <2>1. (\E k \in 1 .. Len(cmds') : cmds'[k].type = "add" /\ cmds'[k].e = d) <=>
          \E k \in 1 .. Len(cmds) : cmds[k].type = "add" /\ cmds[k].e = d
    <3>1. ASSUME NEW k \in 1 .. Len(cmds'), cmds'[k].type = "add", cmds'[k].e = d
          PROVE  \E j \in 1 .. Len(cmds) : cmds[j].type = "add" /\ cmds[j].e = d
      BY <3>1, <1>c1
    <3>2. ASSUME NEW k \in 1 .. Len(cmds), cmds[k].type = "add", cmds[k].e = d
          PROVE  \E j \in 1 .. Len(cmds') : cmds'[j].type = "add" /\ cmds'[j].e = d
      BY <3>2, <1>c2, <1>a
    <3> QED
      BY <3>1, <3>2
  <2> QED
    BY <2>1, <1>u, <1>list, <1>proc, <1>g DEF IInv, Whereabouts
<1>10. ListApart'
  BY <1>list DEF IInv, ListApart
<1>11. CalledApart'
  BY <1>proc, <1>g, TProc, Nobody DEF IInv, CalledApart
<1>12. CmdApart'
  BY <1>c1, <1>list, <1>proc DEF IInv, CmdApart
<1>13. CmdOnce'
  <2> SUFFICES ASSUME NEW j \in 1 .. Len(cmds'), NEW k \in 1 .. Len(cmds'),
                      cmds'[j].type = "add", cmds'[k].type = "add",
                      cmds'[j].e = cmds'[k].e
               PROVE  j = k
    BY DEF CmdOnce
  <2>1. /\ j + 1 \in 1 .. Len(cmds) /\ cmds'[j] = cmds[j + 1]
        /\ k + 1 \in 1 .. Len(cmds) /\ cmds'[k] = cmds[k + 1]
    BY <1>c1
  <2>2. j + 1 = k + 1
    BY <2>1 DEF IInv, CmdOnce
  <2> QED
    BY <2>2
<1>14. Removing'
  <2> SUFFICES ASSUME NEW k \in 1 .. Len(cmds'), cmds'[k].type = "remove"
               PROVE  \/ ent'[cmds'[k].e] = NIL
                      \/ watch'[ent'[cmds'[k].e]].stopped
                      \/ \E j \in 1 .. Len(cmds') :
                           j > k /\ cmds'[j].type = "add" /\ cmds'[j].e = cmds'[k].e
    BY DEF Removing
  <2>1. k + 1 \in 1 .. Len(cmds) /\ cmds'[k] = cmds[k + 1]
    BY <1>c1
  <2>2. PICK d \in Entry : d = cmds[k + 1].e
    BY <2>1 DEF IInv, Commands
  <2>3. CASE ent[d] = NIL \/ watch[ent[d]].stopped
    BY <2>1, <2>2, <2>3, <1>u
  <2>4. ASSUME NEW j \in 1 .. Len(cmds), j > k + 1, cmds[j].type = "add", cmds[j].e = d
        PROVE  \E l \in 1 .. Len(cmds') : l > k /\ cmds'[l].type = "add" /\ cmds'[l].e = cmds'[k].e
    <3>1. j # 1 /\ j - 1 > k
      BY <2>4
    <3>2. j - 1 \in 1 .. Len(cmds') /\ cmds'[j - 1] = cmds[j]
      BY <3>1, <1>c2
    <3> QED
      BY <2>1, <2>2, <2>4, <3>1, <3>2
  <2> QED
    BY <2>1, <2>2, <2>3, <2>4 DEF IInv, Removing
<1>15. HeardPlaces'
  BY <1>u, <1>proc, <1>g DEF IInv, HeardPlaces
<1>16. HearCmds'
  BY <1>u, <1>c1 DEF IInv, HearCmds
<1>17. HearProc'
  BY <1>u, <1>proc, <1>a DEF IInv, HearProc
<1>18. HearRest'
  <2> SUFFICES ASSUME NEW d \in Entry, ent[d] \in proc'.hear
               PROVE  d \in proc'.rest
    BY <1>u DEF HearRest
  <2>1. ent[d] \in heard
    BY <1>a, <1>proc
  <2> QED
    BY <2>1, <1>g, <1>proc DEF IInv, HeardPlaces
<1>19. Mode' /\ AloneAdd' /\ AloneNamed' /\ AloneId' /\ NoneDeleted'
  BY <1>u DEF IInv, Solo, Mode, AloneAdd, AloneNamed, AloneId, NoneDeleted
<1>20. /\ Tasks' /\ Running' /\ OnOwner' /\ Adding' /\ InCall' /\ WaitIds'
       /\ WaitOnce' /\ TableIds' /\ TableOnce' /\ WatchIds'
  BY <1>u DEF IInv, Tasks, Running, OnOwner, Adding, InCall, WaitIds, WaitOnce,
     TableIds, TableOnce, WatchIds
<1>21. /\ WatchOnce' /\ Owed' /\ Reached' /\ ResumeOwn' /\ ResumeGone'
       /\ ResumeFree' /\ ResumeOnce' /\ LateOwn' /\ LateGone' /\ Held'
  BY <1>u DEF IInv, WatchOnce, Owed, Reached, ResumeOwn, ResumeGone,
     ResumeFree, ResumeOnce, LateOwn, LateGone, Held
<1>22. AskedTasks' /\ AskedEnds'
  BY <1>u DEF IInv, Own, AskedTasks, AskedEnds
<1>23. /\ Bound' /\ Entered' /\ Sole' /\ Occupied' /\ OneEntry'
       /\ HeardBound'
  BY <1>u DEF IInv, Bound, Entered, Sole, Occupied, OneEntry, HeardBound
<1>24. HomeTasks' /\ HomeEnds'
  BY <1>u DEF IInv, Home, HomeTasks, HomeEnds
<1> QED
  BY <1>0, <1>1, <1>2, <1>3, <1>4, <1>5, <1>6, <1>7, <1>8, <1>9, <1>10, <1>11,
     <1>12, <1>13, <1>14, <1>15, <1>16, <1>17, <1>18, <1>19, <1>20, <1>21,
     <1>22, <1>23, <1>24 DEF IInv

\* The next watcher was stopped.
LEMMA CallStoppedStep ==
  ASSUME IInv, NEW t \in Workers, NEW e \in Entry, CallStopped(t, e)
  PROVE  IInv'
<1>g. /\ t \in acting /\ cur[t] = NIL /\ add[t] = NIL /\ proc.by = t
      /\ proc.at = "emit" /\ proc.called = NIL /\ e \in proc.rest /\ e # NIL
  BY Nobody DEF CallStopped, Calling, InEmitter, IInv, Adding, Stages
<1>b. ent[e] # NIL
  BY <1>g DEF IInv, Whereabouts
<1>s. watch[ent[e]].stopped
  BY DEF CallStopped
<1>w. PICK w \in Watchers : w = ent[e]
  BY <1>b, TEnt
<1>h. /\ w = ent[e] /\ w # NIL /\ watch[w].used /\ w \in Watchers
      /\ \A d \in Entry : ent[d] = w => d = e
  BY <1>w, <1>b DEF IInv, Occupied, OneEntry
<1>fb. watch[w].fb # NIL /\ w \notin heard
  BY <1>s, <1>h DEF IInv, Bound, HeardBound
<1>n. \A f \in Fibers : m_w[f] # w
  BY <1>s, <1>w, <1>h DEF IInv, Held
<1>k. /\ UNCHANGED m_w /\ watch' = [watch EXCEPT ![w] = NoWatcher]
      /\ ent' = [ent EXCEPT ![e] = NIL]
  <2>1. FreeEntry(e) /\ watch[w].fb \in Fibers \union {NIL}
    BY <1>w, TWatch DEF CallStopped
  <2> QED
    BY <2>1, <1>w, <1>n DEF FreeEntry, FinishWait
<1>u. UNCHANGED <<acting, st, m_w, m_endp, cmds, list, table, seed, cur, add, fque,
                  late, waits, heard>>
  BY <1>k DEF CallStopped
<1>watch. /\ ~watch'[w].used /\ watch'[w].fb = NIL /\ watch'[w].msgid = 0
          /\ ~watch'[w].stopped /\ watch'[w].owner = NIL /\ watch'[w].entry = NIL
          /\ \A v \in Watchers : v # w => watch'[v] = watch[v]
  BY <1>k DEF IInv, Types, NoWatcher
<1>ent. ent'[e] = NIL /\ (\A y \in Entry : y # e => ent'[y] = ent[y])
  BY <1>k DEF IInv, Types
<1>sa. Solo => \A v \in Workers : add[v] = NIL
  <2> SUFFICES ASSUME Solo, NEW v \in Workers, add[v] # NIL PROVE FALSE
    OBVIOUS
  <2>1. v \in acting /\ cur[v] # NIL
    BY DEF IInv, Adding, OnOwner
  <2> QED
    BY <2>1, <1>g DEF IInv, Mode
<1>proc. /\ proc'.by = proc.by /\ proc'.at = proc.at /\ proc'.rest = proc.rest \ {e}
         /\ proc'.called = proc.called /\ proc'.respond = proc.respond
         /\ proc'.hear = proc.hear
  BY DEF IInv, Types, ProcRec, CallStopped
<1>0. Types'
  <2>1. watch' \in [Watchers -> WatcherRec]
    BY <1>k DEF IInv, Types, NoWatcher, WatcherRec
  <2>2. ent' \in [Entry -> Watchers \union {NIL}]
    BY <1>k DEF IInv, Types
  <2>3. proc' \in ProcRec
    BY DEF IInv, Types, ProcRec, CallStopped
  <2> QED
    BY <2>1, <2>2, <2>3, <1>u DEF IInv, Types
<1>own. \A i \in Nat : Own(i) => Own(i)'
  BY <1>u, TWatch, <1>watch, <1>h DEF Own
<1>1. Inside'
  BY <1>u, <1>proc DEF IInv, Inside
<1>2. Stages'
  BY <1>proc DEF IInv, Stages
<1>3. WatchIds'
  BY <1>u, <1>watch DEF IInv, WatchIds
<1>4. WatchOnce'
  BY <1>watch DEF IInv, WatchOnce
<1>5. AskedProc'
  BY <1>own, <1>proc, TResp DEF IInv, AskedProc
<1>6. AskedTasks'
  BY <1>u, <1>own, TFque DEF IInv, AskedTasks
<1>7. AskedEnds'
  BY <1>u, <1>own, TEndp DEF IInv, AskedEnds
<1>8. CmdWatch'
  BY <1>u, <1>watch, <1>ent, <1>h DEF IInv, CmdWatch, Commands
<1>9. Owed'
  BY <1>u, <1>watch DEF IInv, Owed
<1>10. Held'
  BY <1>u, <1>watch, <1>n, TMw DEF IInv, Held
<1>11. Bound'
  BY <1>watch DEF IInv, Bound
<1>12. Entered'
  BY <1>watch, <1>ent, <1>h DEF IInv, Entered
<1>13. Sole'
  BY <1>u, <1>watch DEF IInv, Sole
<1>14. Called'
  BY <1>proc, <1>g DEF IInv, Called
<1>15. Whereabouts'
  <2> SUFFICES ASSUME NEW d \in Entry
               PROVE  ent'[d] # NIL <=>
                        \/ d \in list' \/ d \in proc'.rest \/ d = proc'.called
                        \/ \E k \in 1 .. Len(cmds') :
                             cmds'[k].type = "add" /\ cmds'[k].e = d
    BY DEF Whereabouts
  <2>1. CASE d = e
    BY <2>1, <1>g, <1>u, <1>proc, <1>ent DEF IInv, ListApart, CalledApart, CmdApart
  <2>2. CASE d # e
    BY <2>2, <1>g, <1>u, <1>proc, <1>ent DEF IInv, Whereabouts
  <2> QED
    BY <2>1, <2>2
<1>16. Occupied'
  BY <1>watch, <1>ent, <1>h, TEnt DEF IInv, Occupied
<1>17. OneEntry'
  BY <1>ent DEF IInv, OneEntry
<1>18. ListApart'
  BY <1>u, <1>proc DEF IInv, ListApart
<1>19. CalledApart'
  BY <1>proc DEF IInv, CalledApart
<1>20. CmdApart'
  BY <1>u, <1>proc DEF IInv, CmdApart
<1>21. AloneAdd'
  BY <1>u, <1>sa DEF IInv, AloneAdd, Solo
<1>22. AloneNamed'
  <2> SUFFICES ASSUME NEW v \in Watchers, Solo, watch'[v].used
               PROVE  watch'[v].entry # NIL /\ ent'[watch'[v].entry] = v
    BY <1>u DEF AloneNamed, Solo
  <2>1. v # w /\ watch[v].used /\ watch'[v] = watch[v]
    BY <1>watch
  <2>2. watch[v].entry # NIL /\ ent[watch[v].entry] = v
    BY <2>1, <1>sa DEF IInv, AloneNamed
  <2>3. watch[v].entry \in Entry
    BY <2>2 DEF IInv, Types, WatcherRec
  <2> QED
    BY <2>1, <2>2, <2>3, <1>ent, <1>h
<1>23. AloneId'
  <2> SUFFICES ASSUME NEW v \in Workers, Solo, add[v] # NIL
               PROVE  watch'[add'[v][1]].msgid = waits'[cur'[v]]
    BY <1>u DEF AloneId, Solo
  <2> QED
    BY <1>g, Alone
<1>24. Removing'
  BY <1>u, <1>watch, <1>ent, <1>h, TEnt DEF IInv, Removing, Commands
<1>25. HeardBound'
  BY <1>u, <1>watch, <1>fb, THear DEF IInv, HeardBound
<1>26. HeardPlaces'
  BY <1>u, <1>ent, <1>proc, THear, Nobody DEF IInv, HeardPlaces
<1>27. HearProc'
  BY <1>u, <1>proc DEF IInv, HearProc
<1>28. HearRest'
  <2> SUFFICES ASSUME NEW d \in Entry, ent'[d] \in proc'.hear
               PROVE  d \in proc'.rest
    BY DEF HearRest
  <2>1. d # e /\ ent[d] \in proc.hear
    BY <1>ent, <1>proc, THear, Nobody
  <2> QED
    BY <2>1, <1>proc DEF IInv, HearRest
<1>29. Mode' /\ NoneDeleted'
  BY <1>u DEF IInv, Solo, Mode, NoneDeleted
<1>30. /\ Commands' /\ Tasks' /\ Running' /\ OnOwner' /\ Adding' /\ InCall'
       /\ WaitIds' /\ WaitOnce' /\ TableIds' /\ TableOnce'
  BY <1>u DEF IInv, Commands, Tasks, Running, OnOwner, Adding, InCall, WaitIds,
     WaitOnce, TableIds, TableOnce
<1>31. /\ CmdIds' /\ CmdTable' /\ Reached' /\ ResumeOwn' /\ ResumeGone'
       /\ ResumeFree' /\ ResumeOnce' /\ LateOwn' /\ LateGone' /\ CmdOnce'
  BY <1>u DEF IInv, CmdIds, CmdTable, Reached, ResumeOwn, ResumeGone,
     ResumeFree, ResumeOnce, LateOwn, LateGone, CmdOnce
<1>32. HearCmds'
  BY <1>u DEF IInv, HearCmds
<1>33. HomeTasks' /\ HomeEnds'
  BY <1>u DEF IInv, Home, HomeTasks, HomeEnds
<1> QED
  BY <1>0, <1>1, <1>2, <1>3, <1>4, <1>5, <1>6, <1>7, <1>8, <1>9, <1>10, <1>11,
     <1>12, <1>13, <1>14, <1>15, <1>16, <1>17, <1>18, <1>19, <1>20, <1>21,
     <1>22, <1>23, <1>24, <1>25, <1>26, <1>27, <1>28, <1>29, <1>30, <1>31,
     <1>32, <1>33 DEF IInv

\* A watcher that was called is given back.
LEMMA ReturnStep ==
  ASSUME IInv, NEW t \in Workers, Return(t)
  PROVE  IInv'
<1>e. PICK e \in Entry : e = proc.called
  BY TProc DEF IInv, Stages, Return
<1>g. /\ t \in acting /\ cur[t] = NIL /\ add[t] = NIL /\ proc.by = t
      /\ proc.at = "called" /\ proc.called = e /\ e # NIL
  BY <1>e, Nobody DEF Return, InEmitter, IInv, Adding, Stages
<1>b. ent[e] # NIL
  BY <1>g, <1>e DEF IInv, Whereabouts
<1>w. PICK w \in Watchers : w = ent[e]
  BY <1>b, TEnt
<1>h. /\ w = ent[e] /\ w # NIL /\ watch[w].used /\ w \in Watchers
      /\ \A d \in Entry : ent[d] = w => d = e
  BY <1>w, <1>b DEF IInv, Occupied, OneEntry
<1>fb. watch[w].fb # NIL /\ w \notin heard
  BY <1>g, <1>h DEF IInv, Called, HeardBound
<1>n. \A f \in Fibers : m_w[f] # w
  BY <1>g, <1>w DEF IInv, Called
<1>k. /\ UNCHANGED m_w /\ watch' = [watch EXCEPT ![w] = NoWatcher]
      /\ ent' = [ent EXCEPT ![e] = NIL]
  <2>1. FreeEntry(e) /\ watch[w].fb \in Fibers \union {NIL}
    BY <1>w, TWatch, <1>e DEF Return
  <2> QED
    BY <2>1, <1>w, <1>n DEF FreeEntry, FinishWait
<1>u. UNCHANGED <<acting, st, m_w, m_endp, cmds, list, table, seed, cur, add, fque,
                  late, waits, heard>>
  BY <1>k DEF Return
<1>watch. /\ ~watch'[w].used /\ watch'[w].fb = NIL /\ watch'[w].msgid = 0
          /\ ~watch'[w].stopped /\ watch'[w].owner = NIL /\ watch'[w].entry = NIL
          /\ \A v \in Watchers : v # w => watch'[v] = watch[v]
  BY <1>k DEF IInv, Types, NoWatcher
<1>ent. ent'[e] = NIL /\ (\A y \in Entry : y # e => ent'[y] = ent[y])
  BY <1>k DEF IInv, Types
<1>sa. Solo => \A v \in Workers : add[v] = NIL
  <2> SUFFICES ASSUME Solo, NEW v \in Workers, add[v] # NIL PROVE FALSE
    OBVIOUS
  <2>1. v \in acting /\ cur[v] # NIL
    BY DEF IInv, Adding, OnOwner
  <2> QED
    BY <2>1, <1>g DEF IInv, Mode
<1>proc. /\ proc'.by = proc.by /\ proc'.at = "emit" /\ proc'.rest = proc.rest
         /\ proc'.called = NIL /\ proc'.respond = proc.respond
         /\ proc'.hear = proc.hear
  BY DEF IInv, Types, ProcRec, Return
<1>0. Types'
  <2>1. watch' \in [Watchers -> WatcherRec]
    BY <1>k DEF IInv, Types, NoWatcher, WatcherRec
  <2>2. ent' \in [Entry -> Watchers \union {NIL}]
    BY <1>k DEF IInv, Types
  <2>3. proc' \in ProcRec
    BY DEF IInv, Types, ProcRec, Return
  <2> QED
    BY <2>1, <2>2, <2>3, <1>u DEF IInv, Types
<1>own. \A i \in Nat : Own(i) => Own(i)'
  BY <1>u, TWatch, <1>watch, <1>h DEF Own
<1>1. Inside'
  BY <1>u, <1>proc DEF IInv, Inside
<1>2. Stages'
  BY <1>proc, <1>g DEF IInv, Stages
<1>3. WatchIds'
  BY <1>u, <1>watch DEF IInv, WatchIds
<1>4. WatchOnce'
  BY <1>watch DEF IInv, WatchOnce
<1>5. AskedProc'
  BY <1>own, <1>proc, TResp DEF IInv, AskedProc
<1>6. AskedTasks'
  BY <1>u, <1>own, TFque DEF IInv, AskedTasks
<1>7. AskedEnds'
  BY <1>u, <1>own, TEndp DEF IInv, AskedEnds
<1>8. CmdWatch'
  BY <1>u, <1>watch, <1>ent, <1>h DEF IInv, CmdWatch, Commands
<1>9. Owed'
  BY <1>u, <1>watch DEF IInv, Owed
<1>10. Held'
  BY <1>u, <1>watch, <1>n, TMw DEF IInv, Held
<1>11. Bound'
  BY <1>watch DEF IInv, Bound
<1>12. Entered'
  BY <1>watch, <1>ent, <1>h DEF IInv, Entered
<1>13. Sole'
  BY <1>u, <1>watch DEF IInv, Sole
<1>14. Called'
  BY <1>proc DEF IInv, Called
<1>15. Whereabouts'
  <2> SUFFICES ASSUME NEW d \in Entry
               PROVE  ent'[d] # NIL <=>
                        \/ d \in list' \/ d \in proc'.rest \/ d = proc'.called
                        \/ \E k \in 1 .. Len(cmds') :
                             cmds'[k].type = "add" /\ cmds'[k].e = d
    BY DEF Whereabouts
  <2>1. CASE d = e
    BY <2>1, <1>g, <1>u, <1>proc, <1>ent DEF IInv, ListApart, CalledApart, CmdApart
  <2>2. CASE d # e
    BY Nobody, <2>2, <1>g, <1>u, <1>proc, <1>ent DEF IInv, Whereabouts
  <2> QED
    BY <2>1, <2>2
<1>16. Occupied'
  BY <1>watch, <1>ent, <1>h, TEnt DEF IInv, Occupied
<1>17. OneEntry'
  BY <1>ent DEF IInv, OneEntry
<1>18. ListApart'
  BY <1>u, <1>proc, TProc, Nobody DEF IInv, ListApart
<1>19. CalledApart'
  BY <1>proc, TProc, Nobody DEF IInv, CalledApart
<1>20. CmdApart'
  BY <1>u, <1>proc, Nobody DEF IInv, CmdApart, Commands
<1>21. AloneAdd'
  BY <1>u, <1>sa DEF IInv, AloneAdd, Solo
<1>22. AloneNamed'
  <2> SUFFICES ASSUME NEW v \in Watchers, Solo, watch'[v].used
               PROVE  watch'[v].entry # NIL /\ ent'[watch'[v].entry] = v
    BY <1>u DEF AloneNamed, Solo
  <2>1. v # w /\ watch[v].used /\ watch'[v] = watch[v]
    BY <1>watch
  <2>2. watch[v].entry # NIL /\ ent[watch[v].entry] = v
    BY <2>1, <1>sa DEF IInv, AloneNamed
  <2>3. watch[v].entry \in Entry
    BY <2>2 DEF IInv, Types, WatcherRec
  <2> QED
    BY <2>1, <2>2, <2>3, <1>ent, <1>h
<1>23. AloneId'
  <2> SUFFICES ASSUME NEW v \in Workers, Solo, add[v] # NIL
               PROVE  watch'[add'[v][1]].msgid = waits'[cur'[v]]
    BY <1>u DEF AloneId, Solo
  <2> QED
    BY <1>g, Alone
<1>24. Removing'
  <2> SUFFICES ASSUME NEW k \in 1 .. Len(cmds), cmds[k].type = "remove"
               PROVE  \/ ent'[cmds[k].e] = NIL
                      \/ watch'[ent'[cmds[k].e]].stopped
                      \/ \E j \in 1 .. Len(cmds) :
                           j > k /\ cmds[j].type = "add" /\ cmds[j].e = cmds[k].e
    BY <1>u DEF Removing
  <2>1. PICK d \in Entry : d = cmds[k].e
    BY DEF IInv, Commands
  <2>2. CASE ent[d] = NIL \/ watch[ent[d]].stopped
    BY <2>1, <2>2, <1>ent, <1>watch, <1>h, TEnt
  <2> QED
    BY <2>1, <2>2 DEF IInv, Removing
<1>25. HeardBound'
  BY <1>u, <1>watch, <1>fb, THear DEF IInv, HeardBound
<1>26. HeardPlaces'
  BY <1>u, <1>ent, <1>proc, THear, Nobody DEF IInv, HeardPlaces
<1>27. HearProc'
  BY <1>u, <1>proc DEF IInv, HearProc
<1>28. HearRest'
  <2> SUFFICES ASSUME NEW d \in Entry, ent'[d] \in proc'.hear
               PROVE  d \in proc'.rest
    BY DEF HearRest
  <2>1. d # e /\ ent[d] \in proc.hear
    BY <1>ent, <1>proc, THear, Nobody
  <2> QED
    BY <2>1, <1>proc DEF IInv, HearRest
<1>29. Mode' /\ NoneDeleted'
  BY <1>u DEF IInv, Solo, Mode, NoneDeleted
<1>30. /\ Commands' /\ Tasks' /\ Running' /\ OnOwner' /\ Adding' /\ InCall'
       /\ WaitIds' /\ WaitOnce' /\ TableIds' /\ TableOnce'
  BY <1>u DEF IInv, Commands, Tasks, Running, OnOwner, Adding, InCall, WaitIds,
     WaitOnce, TableIds, TableOnce
<1>31. /\ CmdIds' /\ CmdTable' /\ Reached' /\ ResumeOwn' /\ ResumeGone'
       /\ ResumeFree' /\ ResumeOnce' /\ LateOwn' /\ LateGone' /\ CmdOnce'
  BY <1>u DEF IInv, CmdIds, CmdTable, Reached, ResumeOwn, ResumeGone,
     ResumeFree, ResumeOnce, LateOwn, LateGone, CmdOnce
<1>32. HearCmds'
  BY <1>u DEF IInv, HearCmds
<1>33. HomeTasks' /\ HomeEnds'
  BY <1>u DEF IInv, Home, HomeTasks, HomeEnds
<1> QED
  BY <1>0, <1>1, <1>2, <1>3, <1>4, <1>5, <1>6, <1>7, <1>8, <1>9, <1>10, <1>11,
     <1>12, <1>13, <1>14, <1>15, <1>16, <1>17, <1>18, <1>19, <1>20, <1>21,
     <1>22, <1>23, <1>24, <1>25, <1>26, <1>27, <1>28, <1>29, <1>30, <1>31,
     <1>32, <1>33 DEF IInv

\* A watcher stays in the list: nothing is started, a fiber is, or a task is
\* sent.
LEMMA KeptQuietStep ==
  ASSUME IInv, NEW t \in Workers, NEW e \in Entry, CallKept(t, e),
         UNCHANGED <<st, cur, m_w, m_endp, waits, fque>>
  PROVE  IInv'
<1>u. UNCHANGED <<acting, watch, ent, cmds, table, seed, add, late, heard, st, cur,
                  m_w, m_endp, waits, fque>>
  BY DEF CallKept
<1>g. /\ t \in acting /\ cur[t] = NIL /\ add[t] = NIL /\ proc.by = t
      /\ proc.at = "emit" /\ proc.called = NIL /\ e \in proc.rest /\ e # NIL
  BY Nobody DEF CallKept, Calling, InEmitter, IInv, Adding, Stages
<1>b. ent[e] # NIL /\ e \notin list
  BY <1>g DEF IInv, Whereabouts, ListApart
<1>w. PICK w \in Watchers : w = ent[e]
  BY <1>b, TEnt
<1>h. /\ w = ent[e] /\ w # NIL /\ watch[w].used /\ ~watch[w].stopped
      /\ \A d \in Entry : ent[d] = w => d = e
  BY <1>w, <1>b DEF IInv, Occupied, OneEntry, CallKept
<1>proc. /\ proc'.by = proc.by /\ proc'.at = proc.at /\ proc'.rest = proc.rest \ {e}
         /\ proc'.called = proc.called /\ proc'.respond = proc.respond
         /\ proc'.hear = proc.hear \ {w}
  BY <1>w DEF IInv, Types, ProcRec, CallKept
<1>list. list' = list \union {e}
  BY DEF CallKept
<1>0. Types'
  <2>1. list' \subseteq Entry
    BY <1>list DEF IInv, Types
  <2>2. proc' \in ProcRec
    BY <1>w DEF IInv, Types, ProcRec, CallKept
  <2> QED
    BY <2>1, <2>2, <1>u DEF IInv, Types
<1>own. \A i \in Nat : Own(i) => Own(i)'
  BY <1>u DEF Own
<1>1. Inside'
  BY <1>u, <1>proc DEF IInv, Inside
<1>2. Stages'
  BY <1>proc DEF IInv, Stages
<1>3. AskedProc'
  BY <1>own, <1>proc, TResp DEF IInv, AskedProc
<1>4. Called'
  BY <1>u, <1>proc DEF IInv, Called
<1>5. Whereabouts'
  BY <1>u, <1>list, <1>proc, <1>g DEF IInv, Whereabouts
<1>6. ListApart'
  BY <1>list, <1>proc, <1>g DEF IInv, ListApart
<1>7. CalledApart'
  BY <1>proc DEF IInv, CalledApart
<1>8. CmdApart'
  BY <1>u, <1>list, <1>proc, <1>g DEF IInv, CmdApart
<1>9. HeardPlaces'
  BY <1>u, <1>list, <1>proc DEF IInv, HeardPlaces
<1>10. HearProc'
  BY <1>u, <1>proc DEF IInv, HearProc
<1>11. HearRest'
  BY <1>u, <1>proc, <1>h DEF IInv, HearRest
<1>12. Mode' /\ AloneAdd' /\ AloneNamed' /\ AloneId' /\ NoneDeleted'
  BY <1>u DEF IInv, Solo, Mode, AloneAdd, AloneNamed, AloneId, NoneDeleted
<1>13. /\ Commands' /\ Tasks' /\ Running' /\ OnOwner' /\ Adding' /\ InCall'
       /\ WaitIds' /\ WaitOnce' /\ TableIds' /\ TableOnce'
  BY <1>u DEF IInv, Commands, Tasks, Running, OnOwner, Adding, InCall, WaitIds,
     WaitOnce, TableIds, TableOnce
<1>14. /\ WatchIds' /\ WatchOnce' /\ CmdIds' /\ CmdTable' /\ CmdWatch'
       /\ Owed' /\ Reached' /\ ResumeOwn' /\ ResumeGone' /\ ResumeFree'
  BY <1>u DEF IInv, WatchIds, WatchOnce, CmdIds, CmdTable, CmdWatch, Owed,
     Reached, ResumeOwn, ResumeGone, ResumeFree
<1>15. AskedTasks' /\ AskedEnds'
  BY <1>u DEF IInv, Own, AskedTasks, AskedEnds
<1>16. /\ ResumeOnce' /\ LateOwn' /\ LateGone' /\ Held' /\ Bound'
       /\ Entered' /\ Sole' /\ Occupied' /\ OneEntry' /\ CmdOnce'
  BY <1>u DEF IInv, ResumeOnce, LateOwn, LateGone, Held, Bound, Entered, Sole,
     Occupied, OneEntry, CmdOnce
<1>17. Removing' /\ HeardBound' /\ HearCmds'
  BY <1>u DEF IInv, Removing, HeardBound, HearCmds
<1>18. HomeTasks' /\ HomeEnds'
  BY <1>u DEF IInv, Home, HomeTasks, HomeEnds
<1> QED
  BY <1>0, <1>1, <1>2, <1>3, <1>4, <1>5, <1>6, <1>7, <1>8, <1>9, <1>10, <1>11,
     <1>12, <1>13, <1>14, <1>15, <1>16, <1>17, <1>18 DEF IInv

\* A bound function is called: a fiber of this worker starts.
LEMMA KeptRunStep ==
  ASSUME IInv, NEW t \in Workers, NEW e \in Entry, CallKept(t, e), UNCHANGED fque,
         NEW r, r = NIL,
         NEW f \in Fibers, st[f] = "free", Owner(f) = t, waits[f] = 0,
         st' = [st EXCEPT ![f] = "run"], cur' = [cur EXCEPT ![t] = f],
         m_endp' = [m_endp EXCEPT ![f] = r], m_w' = m_w, waits' = waits
  PROVE  IInv'
<1>u. UNCHANGED <<acting, watch, ent, cmds, table, seed, add, late, heard, m_w,
                  waits, fque>>
  BY DEF CallKept
<1>g. /\ f # NIL /\ f \in Fibers /\ st[f] = "free" /\ Owner(f) = t /\ waits[f] = 0
      /\ t \in acting /\ cur[t] = NIL /\ add[t] = NIL /\ proc.by = t
      /\ proc.at = "emit" /\ proc.called = NIL /\ e \in proc.rest /\ e # NIL
  BY Nobody DEF CallKept, Calling, InEmitter, IInv, Adding, Stages
<1>b. ent[e] # NIL /\ e \notin list
  BY <1>g DEF IInv, Whereabouts, ListApart
<1>w. PICK w \in Watchers : w = ent[e]
  BY <1>b, TEnt
<1>h. /\ w = ent[e] /\ w # NIL /\ watch[w].used /\ ~watch[w].stopped
      /\ \A d \in Entry : ent[d] = w => d = e
  BY <1>w, <1>b DEF IInv, Occupied, OneEntry, CallKept
<1>proc. /\ proc'.by = proc.by /\ proc'.at = proc.at /\ proc'.rest = proc.rest \ {e}
         /\ proc'.called = proc.called /\ proc'.respond = proc.respond
         /\ proc'.hear = proc.hear \ {w}
  BY <1>w DEF IInv, Types, ProcRec, CallKept
<1>list. list' = list \union {e}
  BY DEF CallKept
<1>st. st'[f] = "run" /\ (\A y \in Fibers : y # f => st'[y] = st[y])
  BY DEF IInv, Types
<1>cur. cur'[t] = f /\ (\A y \in Workers : y # t => cur'[y] = cur[y])
  BY DEF IInv, Types
<1>endp. m_endp'[f] = r /\ (\A y \in Fibers : y # f => m_endp'[y] = m_endp[y])
  BY DEF IInv, Types
<1>0. Types'
  <2>1. st' \in [Fibers -> {"free", "run", "wait"}]
    BY DEF IInv, Types
  <2>2. m_endp' \in [Fibers -> (Workers \X Nat) \union {NIL}]
    BY DEF IInv, Types
  <2>3. list' \subseteq Entry
    BY <1>list DEF IInv, Types
  <2>4. proc' \in ProcRec
    BY <1>w DEF IInv, Types, ProcRec, CallKept
  <2>5. cur' \in [Workers -> Fibers \union {NIL}]
    BY DEF IInv, Types
  <2> QED
    BY <2>1, <2>2, <2>3, <2>4, <2>5, <1>u DEF IInv, Types
<1>own. \A i \in Nat : Own(i) => Own(i)'
  BY <1>u DEF Own
<1>home. \A v \in Workers, i \in Nat : Home(v, i) => Home(v, i)'
  BY <1>u DEF Home
<1>1. Inside'
  BY <1>u, <1>proc DEF IInv, Inside
<1>2. Stages'
  BY <1>proc DEF IInv, Stages
<1>3. Running'
  BY <1>st, <1>cur, <1>g, Nobody DEF IInv, Running
<1>4. OnOwner'
  BY <1>u, <1>g DEF IInv, OnOwner
<1>5. Adding'
  <2> SUFFICES ASSUME NEW v \in Workers
               PROVE  /\ add'[v] # NIL => cur'[v] # NIL
                      /\ cur'[v] # NIL => (add'[v] # NIL <=> waits'[cur'[v]] # 0)
    BY DEF Adding
  <2>1. CASE v = t
    BY <2>1, <1>u, <1>g, <1>cur
  <2>2. CASE v # t
    <3>1. cur[v] # f /\ (cur[v] # NIL => cur[v] \in Fibers)
      BY <2>2, <1>g, TCur DEF IInv, OnOwner
    <3> QED
      BY <2>2, <3>1, <1>u, <1>cur DEF IInv, Adding
  <2> QED
    BY <2>1, <2>2
<1>6. InCall'
  BY DEF IInv, InCall
<1>7. AskedProc'
  BY <1>own, <1>proc, TResp DEF IInv, AskedProc
<1>8. AskedEnds'
  BY <1>own, <1>endp, TEndp DEF IInv, AskedEnds
<1>9. Called'
  BY <1>u, <1>proc DEF IInv, Called
<1>10. Whereabouts'
  BY <1>u, <1>list, <1>proc, <1>g DEF IInv, Whereabouts
<1>11. ListApart'
  BY <1>list, <1>proc, <1>g DEF IInv, ListApart
<1>12. CalledApart'
  BY <1>proc DEF IInv, CalledApart
<1>13. CmdApart'
  BY <1>u, <1>list, <1>proc, <1>g DEF IInv, CmdApart
<1>14. AloneId'
  <2> SUFFICES ASSUME NEW v \in Workers, Solo, add[v] # NIL
               PROVE  watch'[add'[v][1]].msgid = waits'[cur'[v]]
    BY <1>u DEF AloneId, Solo
  <2> QED
    BY <1>g, Alone
<1>15. HeardPlaces'
  BY <1>u, <1>list, <1>proc DEF IInv, HeardPlaces
<1>16. HearProc'
  BY <1>u, <1>proc DEF IInv, HearProc
<1>17. HearRest'
  BY <1>u, <1>proc, <1>h DEF IInv, HearRest
<1>18. HomeEnds'
  BY <1>home, <1>endp, TEndp DEF IInv, HomeEnds
<1>19. Mode' /\ AloneAdd' /\ AloneNamed' /\ NoneDeleted'
  BY <1>u DEF IInv, Solo, Mode, AloneAdd, AloneNamed, NoneDeleted
<1>20. /\ Commands' /\ Tasks' /\ WaitIds' /\ WaitOnce' /\ TableIds'
       /\ TableOnce' /\ WatchIds' /\ WatchOnce' /\ CmdIds' /\ CmdTable'
  BY <1>u DEF IInv, Commands, Tasks, WaitIds, WaitOnce, TableIds, TableOnce,
     WatchIds, WatchOnce, CmdIds, CmdTable
<1>21. AskedTasks'
  BY <1>u DEF IInv, Own, AskedTasks
<1>22. /\ CmdWatch' /\ Owed' /\ Reached' /\ ResumeOwn' /\ ResumeGone'
       /\ ResumeFree' /\ ResumeOnce' /\ LateOwn' /\ LateGone' /\ Held'
  BY <1>u DEF IInv, CmdWatch, Owed, Reached, ResumeOwn, ResumeGone, ResumeFree,
     ResumeOnce, LateOwn, LateGone, Held
<1>23. /\ Bound' /\ Entered' /\ Sole' /\ Occupied' /\ OneEntry' /\ CmdOnce'
       /\ Removing' /\ HeardBound' /\ HearCmds'
  BY <1>u DEF IInv, Bound, Entered, Sole, Occupied, OneEntry, CmdOnce,
     Removing, HeardBound, HearCmds
<1>24. HomeTasks'
  BY <1>u DEF IInv, Home, HomeTasks
<1> QED
  BY <1>0, <1>1, <1>2, <1>3, <1>4, <1>5, <1>6, <1>7, <1>8, <1>9, <1>10, <1>11,
     <1>12, <1>13, <1>14, <1>15, <1>16, <1>17, <1>18, <1>19, <1>20, <1>21,
     <1>22, <1>23, <1>24 DEF IInv

\* A bound function is called: another worker is sent a task.
LEMMA KeptSendStep ==
  ASSUME IInv, NEW t \in Workers, NEW e \in Entry, CallKept(t, e),
         NEW d \in Workers, Push(d, Task("start", NIL, 0)),
         UNCHANGED <<st, cur, m_w, m_endp, waits>>
  PROVE  IInv'
<1>u. UNCHANGED <<acting, watch, ent, cmds, table, seed, add, late, heard, st, cur,
                  m_w, m_endp, waits>>
  BY DEF CallKept
<1>g. /\ t \in acting /\ cur[t] = NIL /\ add[t] = NIL /\ proc.by = t
      /\ proc.at = "emit" /\ proc.called = NIL /\ e \in proc.rest /\ e # NIL
  BY Nobody DEF CallKept, Calling, InEmitter, IInv, Adding, Stages
<1>b. ent[e] # NIL /\ e \notin list
  BY <1>g DEF IInv, Whereabouts, ListApart
<1>w. PICK w \in Watchers : w = ent[e]
  BY <1>b, TEnt
<1>h. /\ w = ent[e] /\ w # NIL /\ watch[w].used /\ ~watch[w].stopped
      /\ \A n \in Entry : ent[n] = w => n = e
  BY <1>w, <1>b DEF IInv, Occupied, OneEntry, CallKept
<1>proc. /\ proc'.by = proc.by /\ proc'.at = proc.at /\ proc'.rest = proc.rest \ {e}
         /\ proc'.called = proc.called /\ proc'.respond = proc.respond
         /\ proc'.hear = proc.hear \ {w}
  BY <1>w DEF IInv, Types, ProcRec, CallKept
<1>list. list' = list \union {e}
  BY DEF CallKept
<1>x0. PICK x \in Tsk : x = Task("start", NIL, 0)
  BY DEF Tsk, Task
<1>fque. /\ \A v \in Workers : \A k \in 1 .. Len(fque'[v]) :
              (k \in 1 .. Len(fque[v]) /\ fque'[v][k] = fque[v][k])
                \/ (v = d /\ k = Len(fque[d]) + 1 /\ fque'[v][k] = x)
         /\ \A v \in Workers : \A k \in 1 .. Len(fque[v]) :
              k \in 1 .. Len(fque'[v]) /\ fque'[v][k] = fque[v][k]
         /\ Len(fque[d]) + 1 \in 1 .. Len(fque'[d])
         /\ fque'[d][Len(fque[d]) + 1] = x /\ Len(fque[d]) \in Nat
         /\ fque' \in [Workers -> Seq(Tsk)]
         /\ x.type = "start"
  <2>1. fque' = [fque EXCEPT ![d] = Append(@, x)]
    BY <1>x0 DEF Push
  <2> QED
    BY <2>1, <1>x0, Pushed DEF IInv, Types, Task
<1>q1. \A v \in Workers : \A k \in 1 .. Len(fque'[v]) :
            (k \in 1 .. Len(fque[v]) /\ fque'[v][k] = fque[v][k])
              \/ (v = d /\ k = Len(fque[d]) + 1 /\ fque'[v][k] = x)
  BY <1>fque
<1>q2. \A v \in Workers : \A k \in 1 .. Len(fque[v]) :
         k \in 1 .. Len(fque'[v]) /\ fque'[v][k] = fque[v][k]
  BY <1>fque
<1>q4. x.type = "start" /\ Len(fque[d]) \in Nat
  BY <1>fque
<1>0. Types'
  <2>1. list' \subseteq Entry
    BY <1>list DEF IInv, Types
  <2>2. proc' \in ProcRec
    BY <1>w DEF IInv, Types, ProcRec, CallKept
  <2>3. fque' \in [Workers -> Seq(Tsk)]
    BY <1>fque
  <2> QED
    BY <2>1, <2>2, <2>3, <1>u DEF IInv, Types
<1>own. \A i \in Nat : Own(i) => Own(i)'
  BY <1>u DEF Own
<1>home. \A v \in Workers, i \in Nat : Home(v, i) => Home(v, i)'
  BY <1>u DEF Home
<1>1. Inside'
  BY <1>u, <1>proc DEF IInv, Inside
<1>2. Stages'
  BY <1>proc DEF IInv, Stages
<1>3. Tasks'
  <2> SUFFICES ASSUME NEW v \in Workers, NEW k \in 1 .. Len(fque'[v])
               PROVE  /\ fque'[v][k].type = "resume" => fque'[v][k].f \in Fibers
                      /\ fque'[v][k].type = "request" => fque'[v][k].f \in Workers
    BY DEF Tasks
  <2>1. CASE k \in 1 .. Len(fque[v]) /\ fque'[v][k] = fque[v][k]
    BY <2>1 DEF IInv, Tasks
  <2>2. CASE v = d /\ k = Len(fque[d]) + 1 /\ fque'[v][k] = x
    BY <2>2, <1>q4
  <2> QED
    BY <2>1, <2>2, <1>q1
<1>4. AskedProc'
  BY <1>own, <1>proc, TResp DEF IInv, AskedProc
<1>5. AskedTasks'
  <2> SUFFICES ASSUME NEW v \in Workers, NEW k \in 1 .. Len(fque'[v])
               PROVE  fque'[v][k].type \in {"request", "response"} => Own(fque[v][k].id)'
    BY DEF AskedTasks
  <2>1. CASE k \in 1 .. Len(fque[v]) /\ fque'[v][k] = fque[v][k]
    BY <2>1, <1>own, TFque DEF IInv, AskedTasks
  <2>2. CASE v = d /\ k = Len(fque[d]) + 1 /\ fque'[v][k] = x
    BY <2>2, <1>own, <1>q4, TFque
  <2> QED
    BY <2>1, <2>2, <1>q1
<1>6. Reached'
  BY <1>u, <1>q2, <1>h, TTable, Nobody DEF IInv, Reached
<1>7. ResumeOwn'
  <2> SUFFICES ASSUME NEW v \in Workers, NEW k \in 1 .. Len(fque'[v]),
                      fque'[v][k].type = "resume"
               PROVE  /\ v = Owner(fque'[v][k].f)
                      /\ waits'[fque'[v][k].f] = fque'[v][k].id
                      /\ fque'[v][k].id # 0
    BY DEF ResumeOwn
  <2>1. k \in 1 .. Len(fque[v]) /\ fque'[v][k] = fque[v][k]
    BY <1>q1, <1>q4
  <2> QED
    BY <2>1 DEF IInv, ResumeOwn
<1>8. ResumeGone'
  <2> SUFFICES ASSUME NEW v \in Workers, NEW k \in 1 .. Len(fque'[v]),
                      fque'[v][k].type = "resume"
               PROVE  \A s \in table' : s[1] # fque'[v][k].id
    BY DEF ResumeGone
  <2>1. k \in 1 .. Len(fque[v]) /\ fque'[v][k] = fque[v][k]
    BY <1>q1, <1>q4
  <2> QED
    BY <2>1, <1>u DEF IInv, ResumeGone
<1>9. ResumeFree'
  <2> SUFFICES ASSUME NEW v \in Workers, NEW k \in 1 .. Len(fque'[v]),
                      fque'[v][k].type = "resume"
               PROVE  /\ m_w'[fque'[v][k].f] = NIL
                      /\ (late' # NIL => late'[2] # fque'[v][k].f)
    BY DEF ResumeFree
  <2>1. k \in 1 .. Len(fque[v]) /\ fque'[v][k] = fque[v][k]
    BY <1>q1, <1>q4
  <2> QED
    BY <2>1, <1>u DEF IInv, ResumeFree
<1>10. ResumeOnce'
  <2> SUFFICES ASSUME NEW v \in Workers, NEW j \in 1 .. Len(fque'[v]), NEW k \in 1 .. Len(fque'[v]),
                      fque'[v][j].type = "resume", fque'[v][k].type = "resume",
                      fque'[v][j].f = fque'[v][k].f
               PROVE  j = k
    BY DEF ResumeOnce
  <2>1. /\ j \in 1 .. Len(fque[v]) /\ fque'[v][j] = fque[v][j]
        /\ k \in 1 .. Len(fque[v]) /\ fque'[v][k] = fque[v][k]
    BY <1>q1, <1>q4
  <2> QED
    BY <2>1 DEF IInv, ResumeOnce
<1>11. Called'
  BY <1>u, <1>proc DEF IInv, Called
<1>12. Whereabouts'
  BY <1>u, <1>list, <1>proc, <1>g DEF IInv, Whereabouts
<1>13. ListApart'
  BY <1>list, <1>proc, <1>g DEF IInv, ListApart
<1>14. CalledApart'
  BY <1>proc DEF IInv, CalledApart
<1>15. CmdApart'
  BY <1>u, <1>list, <1>proc, <1>g DEF IInv, CmdApart
<1>16. HeardPlaces'
  BY <1>u, <1>list, <1>proc DEF IInv, HeardPlaces
<1>17. HearProc'
  BY <1>u, <1>proc DEF IInv, HearProc
<1>18. HearRest'
  BY <1>u, <1>proc, <1>h DEF IInv, HearRest
<1>19. HomeTasks'
  <2> SUFFICES ASSUME NEW v \in Workers, NEW k \in 1 .. Len(fque'[v])
               PROVE  /\ fque'[v][k].type = "request" => Home(fque[v][k].f, fque[v][k].id)'
                      /\ fque'[v][k].type = "response" => Home(v, fque[v][k].id)'
    BY DEF HomeTasks
  <2>1. CASE k \in 1 .. Len(fque[v]) /\ fque'[v][k] = fque[v][k]
    BY <2>1, <1>home, <1>g, <1>b, <1>h, TFque DEF IInv, HomeTasks, Tasks
  <2>2. CASE v = d /\ k = Len(fque[d]) + 1 /\ fque'[v][k] = x
    BY <2>2, <1>home, <1>q4, <1>g, <1>b, <1>h, TFque DEF Tasks
  <2> QED
    BY <2>1, <2>2, <1>q1
<1>20. Mode' /\ AloneAdd' /\ AloneNamed' /\ AloneId' /\ NoneDeleted'
  BY <1>u DEF IInv, Solo, Mode, AloneAdd, AloneNamed, AloneId, NoneDeleted
<1>21. /\ Commands' /\ Running' /\ OnOwner' /\ Adding' /\ InCall'
       /\ WaitIds' /\ WaitOnce' /\ TableIds' /\ TableOnce' /\ WatchIds'
  BY <1>u DEF IInv, Commands, Running, OnOwner, Adding, InCall, WaitIds,
     WaitOnce, TableIds, TableOnce, WatchIds
<1>22. /\ WatchOnce' /\ CmdIds' /\ CmdTable' /\ CmdWatch' /\ Owed'
       /\ LateOwn' /\ LateGone' /\ Held' /\ Bound' /\ Entered'
  BY <1>u DEF IInv, WatchOnce, CmdIds, CmdTable, CmdWatch, Owed, LateOwn,
     LateGone, Held, Bound, Entered
<1>23. AskedEnds'
  BY <1>u DEF IInv, Own, AskedEnds
<1>24. /\ Sole' /\ Occupied' /\ OneEntry' /\ CmdOnce' /\ Removing'
       /\ HeardBound' /\ HearCmds'
  BY <1>u DEF IInv, Sole, Occupied, OneEntry, CmdOnce, Removing, HeardBound,
     HearCmds
<1>25. HomeEnds'
  BY <1>u DEF IInv, Home, HomeEnds
<1> QED
  BY <1>0, <1>1, <1>2, <1>3, <1>4, <1>5, <1>6, <1>7, <1>8, <1>9, <1>10, <1>11,
     <1>12, <1>13, <1>14, <1>15, <1>16, <1>17, <1>18, <1>19, <1>20, <1>21,
     <1>22, <1>23, <1>24, <1>25 DEF IInv

\* A watcher of a fiber is called: the entry of the table is gone, the fiber
\* runs, or it is sent a task.
LEMMA CallGoneStep ==
  ASSUME IInv, NEW t \in Workers, NEW e \in Entry, CallWaiting(t, e),
         InTable(watch[ent[e]].msgid) = {},
         UNCHANGED <<st, cur, waits, fque, table, heard>>
  PROVE  IInv'
<1>u. UNCHANGED <<acting, m_endp, watch, ent, cmds, list, seed, add, late, st, cur,
                  waits, fque, table, heard>>
  BY DEF CallWaiting
<1>e0. /\ t \in acting /\ cur[t] = NIL /\ add[t] = NIL /\ proc.by = t
       /\ proc.at = "emit" /\ proc.called = NIL /\ e \in proc.rest /\ e # NIL
  BY Nobody DEF CallWaiting, Calling, InEmitter, IInv, Adding, Stages
<1>b. ent[e] # NIL /\ e \notin list
  BY <1>e0 DEF IInv, Whereabouts, ListApart
<1>w. PICK w \in Watchers : w = ent[e]
  BY <1>b, TEnt
<1>h. /\ w = ent[e] /\ w # NIL /\ watch[w].used /\ ~watch[w].stopped
      /\ watch[w].fb # NIL /\ \A d \in Entry : ent[d] = w => d = e
  BY <1>w, <1>b DEF IInv, Occupied, OneEntry, CallWaiting
<1>proc. /\ proc'.by = proc.by /\ proc'.at = "called"
         /\ proc'.rest = proc.rest \ {e} /\ proc'.called = e
         /\ proc'.respond = proc.respond /\ proc'.hear = proc.hear
  BY <1>w DEF IInv, Types, ProcRec, CallWaiting
<1>k. PICK g \in Fibers : g = watch[w].fb
  BY <1>h, TWatch
<1>k2. m_w' = IF m_w[g] = w THEN [m_w EXCEPT ![g] = NIL] ELSE m_w
  BY <1>k, <1>w, Nobody DEF CallWaiting, FinishWait
<1>mw. \A y \in Fibers : m_w'[y] = IF m_w[y] = w THEN NIL ELSE m_w[y]
  BY <1>k, <1>k2, <1>h DEF IInv, Types, Held
<1>no. \A p \in table : p[1] # watch[w].msgid
  BY <1>w DEF InTable
<1>0. Types'
  <2>1. m_w' \in [Fibers -> Watchers \union {NIL}]
    BY <1>k2, <1>k DEF IInv, Types
  <2>2. proc' \in ProcRec
    BY DEF IInv, Types, ProcRec, CallWaiting
  <2> QED
    BY <2>1, <2>2, <1>u DEF IInv, Types
<1>own. \A i \in Nat : Own(i) => Own(i)'
  BY <1>u DEF Own
<1>1. Inside'
  BY <1>u, <1>proc DEF IInv, Inside
<1>2. Stages'
  BY <1>proc, <1>e0 DEF IInv, Stages
<1>3. AskedProc'
  BY <1>own, <1>proc, TResp DEF IInv, AskedProc
<1>4. ResumeFree'
  BY <1>u, <1>mw DEF IInv, ResumeFree, Tasks
<1>5. Held'
  BY <1>u, <1>mw DEF IInv, Held
<1>6. Sole'
  BY <1>u, <1>mw, <1>no, TTable DEF IInv, Sole
<1>7. Called'
  BY <1>u, <1>mw, <1>proc, <1>h DEF IInv, Called
<1>8. Whereabouts'
  BY <1>u, <1>proc, <1>e0, Nobody DEF IInv, Whereabouts
<1>9. ListApart'
  BY <1>u, <1>proc, <1>e0 DEF IInv, ListApart
<1>10. CalledApart'
  BY <1>proc DEF IInv, CalledApart
<1>11. CmdApart'
  BY <1>u, <1>proc, <1>e0 DEF IInv, CmdApart
<1>12. HeardPlaces'
  BY <1>u, <1>proc, <1>h DEF IInv, HeardPlaces, HeardBound
<1>13. HearProc'
  BY <1>proc DEF IInv, HearProc
<1>14. HearRest'
  BY <1>u, <1>proc, <1>h DEF IInv, HearRest, HearProc, HeardBound
<1>15. Mode' /\ AloneAdd' /\ AloneNamed' /\ AloneId' /\ NoneDeleted'
  BY <1>u DEF IInv, Solo, Mode, AloneAdd, AloneNamed, AloneId, NoneDeleted
<1>16. /\ Commands' /\ Tasks' /\ Running' /\ OnOwner' /\ Adding' /\ InCall'
       /\ WaitIds' /\ WaitOnce' /\ TableIds' /\ TableOnce'
  BY <1>u DEF IInv, Commands, Tasks, Running, OnOwner, Adding, InCall, WaitIds,
     WaitOnce, TableIds, TableOnce
<1>17. /\ WatchIds' /\ WatchOnce' /\ CmdIds' /\ CmdTable' /\ CmdWatch'
       /\ Owed' /\ Reached' /\ ResumeOwn' /\ ResumeGone' /\ ResumeOnce'
  BY <1>u DEF IInv, WatchIds, WatchOnce, CmdIds, CmdTable, CmdWatch, Owed,
     Reached, ResumeOwn, ResumeGone, ResumeOnce
<1>18. AskedTasks' /\ AskedEnds'
  BY <1>u DEF IInv, Own, AskedTasks, AskedEnds
<1>19. /\ LateOwn' /\ LateGone' /\ Bound' /\ Entered' /\ Occupied'
       /\ OneEntry' /\ CmdOnce' /\ Removing' /\ HeardBound' /\ HearCmds'
  BY <1>u DEF IInv, LateOwn, LateGone, Bound, Entered, Occupied, OneEntry,
     CmdOnce, Removing, HeardBound, HearCmds
<1>20. HomeTasks' /\ HomeEnds'
  BY <1>u DEF IInv, Home, HomeTasks, HomeEnds
<1> QED
  BY <1>0, <1>1, <1>2, <1>3, <1>4, <1>5, <1>6, <1>7, <1>8, <1>9, <1>10, <1>11,
     <1>12, <1>13, <1>14, <1>15, <1>16, <1>17, <1>18, <1>19, <1>20 DEF IInv

\* The watcher of a fiber is called: the fiber runs on.
LEMMA CallRunStep ==
  ASSUME IInv, NEW t \in Workers, NEW e \in Entry, CallWaiting(t, e),
         NEW p \in InTable(watch[ent[e]].msgid), table' = table \ {p},
         heard' = heard \union {w \in Watchers : watch[w].used /\ watch[w].fb = NIL
                                                 /\ watch[w].msgid = watch[ent[e]].msgid},
         Owner(p[2]) = t, Continue(p[2]), UNCHANGED fque
  PROVE  IInv'
<1>g. /\ t \in acting /\ cur[t] = NIL /\ add[t] = NIL /\ proc.by = t
      /\ proc.at = "emit" /\ proc.called = NIL /\ e \in proc.rest /\ e # NIL
  BY Nobody DEF CallWaiting, Calling, InEmitter, IInv, Adding, Stages
<1>b. ent[e] # NIL /\ e \notin list
  BY <1>g DEF IInv, Whereabouts, ListApart
<1>w. PICK w \in Watchers : w = ent[e]
  BY <1>b, TEnt
<1>h. /\ w = ent[e] /\ w # NIL /\ watch[w].used /\ ~watch[w].stopped
      /\ watch[w].fb # NIL /\ \A d \in Entry : ent[d] = w => d = e
  BY <1>w, <1>b DEF IInv, Occupied, OneEntry, CallWaiting
<1>proc. /\ proc'.by = proc.by /\ proc'.at = "called"
         /\ proc'.rest = proc.rest \ {e} /\ proc'.called = e
         /\ proc'.respond = proc.respond /\ proc'.hear = proc.hear
  BY <1>w DEF IInv, Types, ProcRec, CallWaiting
<1>k. PICK g \in Fibers : g = watch[w].fb
  BY <1>h, TWatch
<1>k2. m_w' = IF m_w[g] = w THEN [m_w EXCEPT ![g] = NIL] ELSE m_w
  BY <1>k, <1>w, Nobody DEF CallWaiting, FinishWait
<1>mw. \A y \in Fibers : m_w'[y] = IF m_w[y] = w THEN NIL ELSE m_w[y]
  BY <1>k, <1>k2, <1>h DEF IInv, Types, Held
<1>f. PICK f \in Fibers : f = p[2]
  BY TTable DEF InTable
<1>i. PICK i \in Nat : i = p[1] /\ p \in table /\ i # 0 /\ i = watch[w].msgid
  BY <1>w, <1>h, TWatch DEF InTable, IInv, WatchIds
<1>own0. waits[f] = i
  BY <1>f, <1>i, <1>h DEF IInv, Owed
<1>j. /\ f \in Fibers /\ f # NIL /\ waits[f] = i /\ i # 0 /\ i \in Nat
      /\ p \in table /\ p[1] = i /\ p[2] = f
  BY <1>f, <1>i, <1>own0, Nobody
<1>m. m_w'[f] = NIL
  BY <1>mw, <1>j, <1>i, <1>h, <1>w, TMw DEF IInv, Held, WatchOnce
<1>table. /\ (\A r \in table' : r \in table /\ r # p)
          /\ (\A r \in table : r # p => r \in table')
  OBVIOUS
<1>gone. \A r \in table' : r[1] # i
  BY <1>table, <1>j DEF IInv, TableOnce
<1>nl. late # NIL => late[2] # f
  BY <1>j DEF IInv, LateGone, LateOwn
<1>nr. \A v \in Workers : \A k \in 1 .. Len(fque[v]) : fque[v][k].type = "resume"
         => fque[v][k].f # f
  BY <1>j DEF IInv, ResumeGone, ResumeOwn
<1>hs. heard' = heard
  <2>1. \A v \in Watchers : watch[v].used /\ watch[v].msgid = i => v = w
    BY <1>i, <1>h, <1>w DEF IInv, WatchOnce
  <2> QED
    BY <2>1, <1>i, <1>h, <1>w
<1>u. UNCHANGED <<acting, m_endp, watch, ent, cmds, list, seed, add, late, fque,
                  heard>>
  BY <1>hs DEF CallWaiting
<1>run. st[f] = "wait" /\ Owner(f) = t
  BY <1>f, <1>j, <1>g DEF IInv, Types, Running, InCall
<1>st. st'[f] = "run" /\ (\A y \in Fibers : y # f => st'[y] = st[y])
  BY <1>f DEF IInv, Types, Continue
<1>cur. cur'[t] = f /\ (\A y \in Workers : y # t => cur'[y] = cur[y])
  BY <1>f, <1>run DEF IInv, Types, Continue
<1>waits. waits'[f] = 0 /\ (\A y \in Fibers : y # f => waits'[y] = waits[y])
  BY <1>f DEF IInv, Types, Continue
<1>0. Types'
  <2>1. st' \in [Fibers -> {"free", "run", "wait"}]
    BY <1>f DEF IInv, Types, Continue
  <2>2. m_w' \in [Fibers -> Watchers \union {NIL}]
    BY <1>k2, <1>k DEF IInv, Types
  <2>3. proc' \in ProcRec
    BY DEF IInv, Types, ProcRec, CallWaiting
  <2>4. table' \subseteq Nat \X Fibers
    BY DEF IInv, Types
  <2>5. cur' \in [Workers -> Fibers \union {NIL}]
    BY <1>f, <1>run DEF IInv, Types, Continue
  <2>6. waits' \in [Fibers -> Nat]
    BY <1>f DEF IInv, Types, Continue
  <2> QED
    BY <2>1, <2>2, <2>3, <2>4, <2>5, <2>6, <1>u DEF IInv, Types
<1>own. \A n \in Nat : Own(n) => Own(n)'
  BY <1>u, TWaits, TTable, <1>waits, <1>table, <1>gone, <1>j DEF Own
<1>home. \A v \in Workers, n \in Nat : Home(v, n) => Home(v, n)'
  BY <1>u, TTable, TSeed, <1>g, <1>b, <1>h, <1>j, <1>m, <1>run, <1>table, <1>gone
     DEF IInv, Home
<1>1. Inside'
  BY <1>u, <1>proc DEF IInv, Inside
<1>2. Stages'
  BY <1>proc, <1>g DEF IInv, Stages
<1>3. Running'
  BY <1>st, <1>cur, <1>g, <1>j, Nobody DEF IInv, Running
<1>4. OnOwner'
  BY <1>u, <1>cur, <1>g, <1>j DEF IInv, OnOwner
<1>5. Adding'
  <2> SUFFICES ASSUME NEW v \in Workers
               PROVE  /\ add'[v] # NIL => cur'[v] # NIL
                      /\ cur'[v] # NIL => (add'[v] # NIL <=> waits'[cur'[v]] # 0)
    BY DEF Adding
  <2>1. CASE v = t
    BY <2>1, <1>u, <1>g, <1>j, <1>run, <1>cur, <1>waits
  <2>2. CASE v # t
    <3>1. cur[v] # f /\ (cur[v] # NIL => cur[v] \in Fibers)
      BY <2>2, <1>g, <1>j, <1>run, TCur DEF IInv, OnOwner
    <3> QED
      BY <2>2, <3>1, <1>u, <1>cur, <1>waits DEF IInv, Adding
  <2> QED
    BY <2>1, <2>2
<1>6. InCall'
  BY <1>st, <1>waits DEF IInv, InCall
<1>7. WaitIds'
  BY <1>u, <1>waits, TSeed DEF IInv, WaitIds
<1>8. WaitOnce'
  BY <1>waits DEF IInv, WaitOnce
<1>9. TableIds'
  BY <1>u DEF IInv, TableIds
<1>10. TableOnce'
  BY DEF IInv, TableOnce
<1>11. AskedProc'
  BY <1>own, <1>proc, TResp DEF IInv, AskedProc
<1>12. AskedTasks'
  BY <1>own, TFque DEF IInv, AskedTasks
<1>13. AskedEnds'
  BY <1>u, <1>own, <1>st, <1>run, TEndp DEF IInv, AskedEnds
<1>14. CmdTable'
  BY <1>u, <1>waits, <1>j, TTable DEF IInv, CmdTable
<1>15. Owed'
  BY <1>u, <1>waits, <1>j, TTable DEF IInv, Owed
<1>16. Reached'
  BY <1>u, <1>waits, <1>j DEF IInv, Reached
<1>17. ResumeOwn'
  BY <1>nr, <1>waits DEF IInv, ResumeOwn, Tasks
<1>18. ResumeGone'
  BY DEF IInv, ResumeGone
<1>19. ResumeFree'
  BY <1>u, <1>mw DEF IInv, ResumeFree, Tasks
<1>20. LateOwn'
  BY <1>u, <1>nl, <1>waits, TLate DEF IInv, LateOwn
<1>21. LateGone'
  BY <1>u DEF IInv, LateGone
<1>22. Held'
  BY <1>u, <1>mw, <1>waits, <1>m DEF IInv, Held
<1>23. Sole'
  <2> SUFFICES ASSUME NEW v \in Watchers, watch[v].used, ~watch[v].stopped, NEW r \in table',
                      r[1] = watch[v].msgid, r[2] = watch[v].fb
               PROVE  m_w'[r[2]] = v
    BY <1>u DEF Sole
  <2>1. v # w
    BY <1>gone, <1>i
  <2>2. r \in table /\ r[2] \in Fibers
    BY <1>table, TTable
  <2>3. m_w[r[2]] = v
    BY <2>2 DEF IInv, Sole
  <2> QED
    BY <2>1, <2>2, <2>3, <1>mw
<1>24. Called'
  BY <1>u, <1>mw, <1>proc, <1>h DEF IInv, Called
<1>25. Whereabouts'
  BY <1>u, <1>proc, <1>g, Nobody DEF IInv, Whereabouts
<1>26. ListApart'
  BY <1>u, <1>proc, <1>g DEF IInv, ListApart
<1>27. CalledApart'
  BY <1>proc DEF IInv, CalledApart
<1>28. CmdApart'
  BY <1>u, <1>proc, <1>g DEF IInv, CmdApart
<1>29. AloneId'
  <2> SUFFICES ASSUME NEW v \in Workers, Solo, add[v] # NIL
               PROVE  watch'[add'[v][1]].msgid = waits'[cur'[v]]
    BY <1>u DEF AloneId, Solo
  <2> QED
    BY <1>g, Alone
<1>30. HeardPlaces'
  BY <1>u, <1>proc, <1>h DEF IInv, HeardPlaces, HeardBound
<1>31. HearProc'
  BY <1>proc DEF IInv, HearProc
<1>32. HearRest'
  BY <1>u, <1>proc, <1>h DEF IInv, HearRest, HearProc, HeardBound
<1>33. HomeTasks'
  BY <1>home, TFque DEF IInv, HomeTasks, Tasks
<1>34. HomeEnds'
  BY <1>u, <1>home, <1>st, <1>run, TEndp DEF IInv, HomeEnds
<1>35. NoneDeleted'
  BY <1>u, <1>waits, <1>j, TTable DEF IInv, NoneDeleted, Solo
<1>36. Mode' /\ AloneAdd' /\ AloneNamed'
  BY <1>u DEF IInv, Solo, Mode, AloneAdd, AloneNamed
<1>37. /\ Commands' /\ Tasks' /\ WatchIds' /\ WatchOnce' /\ CmdIds'
       /\ CmdWatch' /\ ResumeOnce' /\ Bound' /\ Entered' /\ Occupied'
  BY <1>u DEF IInv, Commands, Tasks, WatchIds, WatchOnce, CmdIds, CmdWatch,
     ResumeOnce, Bound, Entered, Occupied
<1>38. OneEntry' /\ CmdOnce' /\ Removing' /\ HeardBound' /\ HearCmds'
  BY <1>u DEF IInv, OneEntry, CmdOnce, Removing, HeardBound, HearCmds
<1> QED
  BY <1>0, <1>1, <1>2, <1>3, <1>4, <1>5, <1>6, <1>7, <1>8, <1>9, <1>10, <1>11,
     <1>12, <1>13, <1>14, <1>15, <1>16, <1>17, <1>18, <1>19, <1>20, <1>21,
     <1>22, <1>23, <1>24, <1>25, <1>26, <1>27, <1>28, <1>29, <1>30, <1>31,
     <1>32, <1>33, <1>34, <1>35, <1>36, <1>37, <1>38 DEF IInv

\* The watcher of a fiber is called: the fiber is sent a task.
LEMMA CallSendStep ==
  ASSUME IInv, NEW t \in Workers, NEW e \in Entry, CallWaiting(t, e),
         NEW p \in InTable(watch[ent[e]].msgid), table' = table \ {p},
         heard' = heard \union {w \in Watchers : watch[w].used /\ watch[w].fb = NIL
                                                 /\ watch[w].msgid = watch[ent[e]].msgid},
         Push(Owner(p[2]), Task("resume", p[2], watch[ent[e]].msgid)),
         UNCHANGED <<st, cur, waits>>
  PROVE  IInv'
<1>g. /\ t \in acting /\ cur[t] = NIL /\ add[t] = NIL /\ proc.by = t
      /\ proc.at = "emit" /\ proc.called = NIL /\ e \in proc.rest /\ e # NIL
  BY Nobody DEF CallWaiting, Calling, InEmitter, IInv, Adding, Stages
<1>b. ent[e] # NIL /\ e \notin list
  BY <1>g DEF IInv, Whereabouts, ListApart
<1>w. PICK w \in Watchers : w = ent[e]
  BY <1>b, TEnt
<1>h. /\ w = ent[e] /\ w # NIL /\ watch[w].used /\ ~watch[w].stopped
      /\ watch[w].fb # NIL /\ \A d \in Entry : ent[d] = w => d = e
  BY <1>w, <1>b DEF IInv, Occupied, OneEntry, CallWaiting
<1>proc. /\ proc'.by = proc.by /\ proc'.at = "called"
         /\ proc'.rest = proc.rest \ {e} /\ proc'.called = e
         /\ proc'.respond = proc.respond /\ proc'.hear = proc.hear
  BY <1>w DEF IInv, Types, ProcRec, CallWaiting
<1>k. PICK g \in Fibers : g = watch[w].fb
  BY <1>h, TWatch
<1>k2. m_w' = IF m_w[g] = w THEN [m_w EXCEPT ![g] = NIL] ELSE m_w
  BY <1>k, <1>w, Nobody DEF CallWaiting, FinishWait
<1>mw. \A y \in Fibers : m_w'[y] = IF m_w[y] = w THEN NIL ELSE m_w[y]
  BY <1>k, <1>k2, <1>h DEF IInv, Types, Held
<1>f. PICK f \in Fibers : f = p[2]
  BY TTable DEF InTable
<1>i. PICK i \in Nat : i = p[1] /\ p \in table /\ i # 0 /\ i = watch[w].msgid
  BY <1>w, <1>h, TWatch DEF InTable, IInv, WatchIds
<1>own0. waits[f] = i
  BY <1>f, <1>i, <1>h DEF IInv, Owed
<1>j. /\ f \in Fibers /\ f # NIL /\ waits[f] = i /\ i # 0 /\ i \in Nat
      /\ p \in table /\ p[1] = i /\ p[2] = f
  BY <1>f, <1>i, <1>own0, Nobody
<1>m. m_w'[f] = NIL
  BY <1>mw, <1>j, <1>i, <1>h, <1>w, TMw DEF IInv, Held, WatchOnce
<1>table. /\ (\A r \in table' : r \in table /\ r # p)
          /\ (\A r \in table : r # p => r \in table')
  OBVIOUS
<1>gone. \A r \in table' : r[1] # i
  BY <1>table, <1>j DEF IInv, TableOnce
<1>nl. late # NIL => late[2] # f
  BY <1>j DEF IInv, LateGone, LateOwn
<1>nr. \A v \in Workers : \A k \in 1 .. Len(fque[v]) : fque[v][k].type = "resume"
         => fque[v][k].f # f
  BY <1>j DEF IInv, ResumeGone, ResumeOwn
<1>hs. heard' = heard
  <2>1. \A v \in Watchers : watch[v].used /\ watch[v].msgid = i => v = w
    BY <1>i, <1>h, <1>w DEF IInv, WatchOnce
  <2> QED
    BY <2>1, <1>i, <1>h, <1>w
<1>u. UNCHANGED <<acting, m_endp, watch, ent, cmds, list, seed, add, late, heard,
                  st, cur, waits>>
  BY <1>hs DEF CallWaiting
<1>x0. PICK x \in Tsk : x = Task("resume", f, i)
  BY <1>j DEF Tsk, Task
<1>d. PICK d \in Workers : d = Owner(f)
  BY Nobody
<1>fque. /\ \A v \in Workers : \A k \in 1 .. Len(fque'[v]) :
              (k \in 1 .. Len(fque[v]) /\ fque'[v][k] = fque[v][k])
                \/ (v = d /\ k = Len(fque[d]) + 1 /\ fque'[v][k] = x)
         /\ \A v \in Workers : \A k \in 1 .. Len(fque[v]) :
              k \in 1 .. Len(fque'[v]) /\ fque'[v][k] = fque[v][k]
         /\ Len(fque[d]) + 1 \in 1 .. Len(fque'[d])
         /\ fque'[d][Len(fque[d]) + 1] = x /\ Len(fque[d]) \in Nat
         /\ fque' \in [Workers -> Seq(Tsk)]
         /\ x.type = "resume" /\ x.f = f /\ x.id = i /\ d = Owner(f)
  <2>1. fque' = [fque EXCEPT ![d] = Append(@, x)]
    BY <1>x0, <1>d, <1>f, <1>i, <1>w DEF Push
  <2> QED
    BY <2>1, <1>x0, <1>d, Pushed DEF IInv, Types, Task
<1>q1. \A v \in Workers : \A k \in 1 .. Len(fque'[v]) :
            (k \in 1 .. Len(fque[v]) /\ fque'[v][k] = fque[v][k])
              \/ (v = d /\ k = Len(fque[d]) + 1 /\ fque'[v][k] = x)
  BY <1>fque
<1>q2. \A v \in Workers : \A k \in 1 .. Len(fque[v]) :
         k \in 1 .. Len(fque'[v]) /\ fque'[v][k] = fque[v][k]
  BY <1>fque
<1>q3. Len(fque[d]) + 1 \in 1 .. Len(fque'[d]) /\ fque'[d][Len(fque[d]) + 1] = x
  BY <1>fque
<1>q4. /\ x.type = "resume" /\ x.f = f /\ x.id = i /\ d = Owner(f)
       /\ Len(fque[d]) \in Nat
  BY <1>fque
<1>0. Types'
  <2>1. m_w' \in [Fibers -> Watchers \union {NIL}]
    BY <1>k2, <1>k DEF IInv, Types
  <2>2. proc' \in ProcRec
    BY DEF IInv, Types, ProcRec, CallWaiting
  <2>3. table' \subseteq Nat \X Fibers
    BY DEF IInv, Types
  <2>4. fque' \in [Workers -> Seq(Tsk)]
    BY <1>fque
  <2> QED
    BY <2>1, <2>2, <2>3, <2>4, <1>u DEF IInv, Types
<1>own. \A n \in Nat : Own(n) => Own(n)'
  BY <1>u, <1>table DEF Own
<1>home. \A v \in Workers, n \in Nat : Home(v, n) => Home(v, n)'
  BY <1>u, TTable, TSeed, <1>g, <1>b, <1>h, <1>j, <1>m, <1>table, <1>gone DEF IInv,
     Home
<1>1. Inside'
  BY <1>u, <1>proc DEF IInv, Inside
<1>2. Stages'
  BY <1>proc, <1>g DEF IInv, Stages
<1>3. Tasks'
  <2> SUFFICES ASSUME NEW v \in Workers, NEW k \in 1 .. Len(fque'[v])
               PROVE  /\ fque'[v][k].type = "resume" => fque'[v][k].f \in Fibers
                      /\ fque'[v][k].type = "request" => fque'[v][k].f \in Workers
    BY DEF Tasks
  <2>1. CASE k \in 1 .. Len(fque[v]) /\ fque'[v][k] = fque[v][k]
    BY <2>1, <1>nr DEF IInv, Tasks
  <2>2. CASE v = d /\ k = Len(fque[d]) + 1 /\ fque'[v][k] = x
    BY <2>2, <1>q4, <1>nr
  <2> QED
    BY <2>1, <2>2, <1>q1
<1>4. TableIds'
  BY <1>u DEF IInv, TableIds
<1>5. TableOnce'
  BY DEF IInv, TableOnce
<1>6. AskedProc'
  BY <1>own, <1>proc, TResp DEF IInv, AskedProc
<1>7. AskedTasks'
  <2> SUFFICES ASSUME NEW v \in Workers, NEW k \in 1 .. Len(fque'[v])
               PROVE  fque'[v][k].type \in {"request", "response"} => Own(fque[v][k].id)'
    BY DEF AskedTasks
  <2>1. CASE k \in 1 .. Len(fque[v]) /\ fque'[v][k] = fque[v][k]
    BY <2>1, <1>own, <1>gone, <1>nr, TWatch, TTable, TFque DEF IInv, AskedTasks
  <2>2. CASE v = d /\ k = Len(fque[d]) + 1 /\ fque'[v][k] = x
    BY <2>2, <1>own, <1>gone, <1>q4, <1>nr, TWatch, TTable, TFque
  <2> QED
    BY <2>1, <2>2, <1>q1
<1>8. AskedEnds'
  BY <1>u, <1>own, TEndp DEF IInv, AskedEnds
<1>9. CmdTable'
  BY <1>u DEF IInv, CmdTable
<1>10. Owed'
  BY <1>u DEF IInv, Owed
<1>11. Reached'
  <2> SUFFICES ASSUME NEW n \in Fibers, waits[n] # 0
               PROVE  \/ \E r \in table' : r[1] = waits[n] /\ r[2] = n
                      \/ \E k \in 1 .. Len(fque'[Owner(n)]) :
                           /\ fque'[Owner(n)][k].type = "resume"
                           /\ fque'[Owner(n)][k].f = n
                      \/ late # NIL /\ late[2] = n
    BY <1>u DEF Reached
  <2>1. CASE n = f
    BY <2>1, <1>q3, <1>q4
  <2>2. CASE n # f
    <3>1. CASE \E r \in table : r[1] = waits[n] /\ r[2] = n
      BY <2>2, <3>1, <1>table, <1>j
    <3>2. ASSUME NEW k \in 1 .. Len(fque[Owner(n)]),
                 fque[Owner(n)][k].type = "resume", fque[Owner(n)][k].f = n
          PROVE  \E j \in 1 .. Len(fque'[Owner(n)]) :
                   fque'[Owner(n)][j].type = "resume" /\ fque'[Owner(n)][j].f = n
      BY <3>2, <1>q2, Nobody
    <3> QED
      BY <3>1, <3>2 DEF IInv, Reached
  <2> QED
    BY <2>1, <2>2
<1>12. ResumeOwn'
  <2> SUFFICES ASSUME NEW v \in Workers, NEW k \in 1 .. Len(fque'[v]),
                      fque'[v][k].type = "resume"
               PROVE  /\ v = Owner(fque'[v][k].f)
                      /\ waits'[fque'[v][k].f] = fque'[v][k].id
                      /\ fque'[v][k].id # 0
    BY DEF ResumeOwn
  <2>1. CASE k \in 1 .. Len(fque[v]) /\ fque'[v][k] = fque[v][k]
    BY <2>1, <1>b, <1>j, <1>m DEF IInv, ResumeOwn
  <2>2. CASE v = d /\ k = Len(fque[d]) + 1 /\ fque'[v][k] = x
    BY <2>2, <1>q4, <1>b, <1>j, <1>m
  <2> QED
    BY <2>1, <2>2, <1>q1
<1>13. ResumeGone'
  <2> SUFFICES ASSUME NEW v \in Workers, NEW k \in 1 .. Len(fque'[v]),
                      fque'[v][k].type = "resume", NEW s \in table'
               PROVE  s[1] # fque'[v][k].id
    BY DEF ResumeGone
  <2>1. CASE k \in 1 .. Len(fque[v]) /\ fque'[v][k] = fque[v][k]
    BY <2>1, <1>table DEF IInv, ResumeGone
  <2>2. CASE v = d /\ k = Len(fque[d]) + 1 /\ fque'[v][k] = x
    BY <2>2, <1>gone, <1>q4
  <2> QED
    BY <2>1, <2>2, <1>q1
<1>14. ResumeFree'
  <2> SUFFICES ASSUME NEW v \in Workers, NEW k \in 1 .. Len(fque'[v]),
                      fque'[v][k].type = "resume"
               PROVE  /\ m_w'[fque'[v][k].f] = NIL
                      /\ (late' # NIL => late'[2] # fque'[v][k].f)
    BY DEF ResumeFree
  <2>0. late' = late
    BY <1>u
  <2>1. CASE k \in 1 .. Len(fque[v]) /\ fque'[v][k] = fque[v][k]
    <3>1. /\ m_w[fque[v][k].f] = NIL /\ fque[v][k].f \in Fibers
          /\ late # NIL => late[2] # fque[v][k].f
      BY <2>1 DEF IInv, ResumeFree, Tasks
    <3>2. m_w'[fque[v][k].f] = NIL
      BY <3>1, <1>mw
    <3> QED
      BY <2>0, <2>1, <3>1, <3>2
  <2>2. CASE v = d /\ k = Len(fque[d]) + 1 /\ fque'[v][k] = x
    <3>1. m_w'[f] = NIL
      BY <1>m, <1>u
    <3> QED
      BY <2>0, <2>2, <3>1, <1>nl, <1>q4
  <2> QED
    BY <2>1, <2>2, <1>q1
<1>15. ResumeOnce'
  <2> SUFFICES ASSUME NEW v \in Workers, NEW j \in 1 .. Len(fque'[v]), NEW k \in 1 .. Len(fque'[v]),
                      fque'[v][j].type = "resume", fque'[v][k].type = "resume",
                      fque'[v][j].f = fque'[v][k].f
               PROVE  j = k
    BY DEF ResumeOnce
  <2>1. CASE fque'[v][k].f = f
    <3>1. j = Len(fque[d]) + 1
      BY <2>1, <1>q1, <1>nr
    <3>2. k = Len(fque[d]) + 1
      BY <2>1, <1>q1, <1>nr
    <3> QED
      BY <3>1, <3>2
  <2>2. CASE fque'[v][k].f # f
    <3>1. j \in 1 .. Len(fque[v]) /\ fque'[v][j] = fque[v][j]
      BY <2>2, <1>q1, <1>q4
    <3>2. k \in 1 .. Len(fque[v]) /\ fque'[v][k] = fque[v][k]
      BY <2>2, <1>q1, <1>q4
    <3> QED
      BY <3>1, <3>2 DEF IInv, ResumeOnce
  <2> QED
    BY <2>1, <2>2
<1>16. LateGone'
  BY <1>u DEF IInv, LateGone
<1>17. Held'
  BY <1>u, <1>mw DEF IInv, Held
<1>18. Sole'
  <2> SUFFICES ASSUME NEW v \in Watchers, watch[v].used, ~watch[v].stopped, NEW r \in table',
                      r[1] = watch[v].msgid, r[2] = watch[v].fb
               PROVE  m_w'[r[2]] = v
    BY <1>u DEF Sole
  <2>1. v # w
    BY <1>gone, <1>i
  <2>2. r \in table /\ r[2] \in Fibers
    BY <1>table, TTable
  <2>3. m_w[r[2]] = v
    BY <2>2 DEF IInv, Sole
  <2> QED
    BY <2>1, <2>2, <2>3, <1>mw
<1>19. Called'
  BY <1>u, <1>mw, <1>proc, <1>h DEF IInv, Called
<1>20. Whereabouts'
  BY <1>u, <1>proc, <1>g, Nobody DEF IInv, Whereabouts
<1>21. ListApart'
  BY <1>u, <1>proc, <1>g DEF IInv, ListApart
<1>22. CalledApart'
  BY <1>proc DEF IInv, CalledApart
<1>23. CmdApart'
  BY <1>u, <1>proc, <1>g DEF IInv, CmdApart
<1>24. HeardPlaces'
  BY <1>u, <1>proc, <1>h DEF IInv, HeardPlaces, HeardBound
<1>25. HearProc'
  BY <1>proc DEF IInv, HearProc
<1>26. HearRest'
  BY <1>u, <1>proc, <1>h DEF IInv, HearRest, HearProc, HeardBound
<1>27. HomeTasks'
  <2> SUFFICES ASSUME NEW v \in Workers, NEW k \in 1 .. Len(fque'[v])
               PROVE  /\ fque'[v][k].type = "request" => Home(fque[v][k].f, fque[v][k].id)'
                      /\ fque'[v][k].type = "response" => Home(v, fque[v][k].id)'
    BY DEF HomeTasks
  <2>1. CASE k \in 1 .. Len(fque[v]) /\ fque'[v][k] = fque[v][k]
    BY <2>1, TFque, <1>home DEF IInv, HomeTasks, Tasks
  <2>2. CASE ~(k \in 1 .. Len(fque[v]) /\ fque'[v][k] = fque[v][k])
    BY <2>2, <1>q1, <1>q4, <1>q4
  <2> QED
    BY <2>1, <2>2
<1>28. HomeEnds'
  BY <1>u, <1>home, TEndp DEF IInv, HomeEnds
<1>29. NoneDeleted'
  BY <1>u DEF IInv, NoneDeleted, Solo
<1>30. Mode' /\ AloneAdd' /\ AloneNamed' /\ AloneId'
  BY <1>u DEF IInv, Solo, Mode, AloneAdd, AloneNamed, AloneId
<1>31. /\ Commands' /\ Running' /\ OnOwner' /\ Adding' /\ InCall'
       /\ WaitIds' /\ WaitOnce' /\ WatchIds' /\ WatchOnce' /\ CmdIds'
  BY <1>u DEF IInv, Commands, Running, OnOwner, Adding, InCall, WaitIds,
     WaitOnce, WatchIds, WatchOnce, CmdIds
<1>32. /\ CmdWatch' /\ LateOwn' /\ Bound' /\ Entered' /\ Occupied'
       /\ OneEntry' /\ CmdOnce' /\ Removing' /\ HeardBound' /\ HearCmds'
  BY <1>u DEF IInv, CmdWatch, LateOwn, Bound, Entered, Occupied, OneEntry,
     CmdOnce, Removing, HeardBound, HearCmds
<1> QED
  BY <1>0, <1>1, <1>2, <1>3, <1>4, <1>5, <1>6, <1>7, <1>8, <1>9, <1>10, <1>11,
     <1>12, <1>13, <1>14, <1>15, <1>16, <1>17, <1>18, <1>19, <1>20, <1>21,
     <1>22, <1>23, <1>24, <1>25, <1>26, <1>27, <1>28, <1>29, <1>30, <1>31,
     <1>32 DEF IInv

\* The emit is over: the same three cases.
LEMMA EndQuietStep ==
  ASSUME IInv, NEW t \in Workers, EndEmit(t),
         UNCHANGED <<st, cur, waits, fque, table, heard>>
  PROVE  IInv'
<1>u. UNCHANGED <<acting, m_w, m_endp, watch, ent, cmds, list, seed, add, late, st,
                  cur, waits, fque, table, heard>>
  BY DEF EndEmit, pvars
<1>g. /\ t \in acting /\ cur[t] = NIL /\ add[t] = NIL /\ proc.by = t
      /\ proc.at = "emit" /\ proc.called = NIL /\ proc.rest = {}
  BY DEF EndEmit, InEmitter, IInv, Adding, Stages
<1>proc. /\ proc'.by = t /\ proc'.at = "next" /\ proc'.rest = {}
         /\ proc'.called = NIL /\ proc'.respond = 0 /\ proc'.hear = {}
  BY DEF Idle, EndEmit
<1>0. Types'
  <2>1. proc' \in ProcRec
    BY DEF ProcRec, Idle, EndEmit
  <2> QED
    BY <2>1, <1>u DEF IInv, Types
<1>1. Inside'
  BY <1>u, <1>proc, <1>g DEF IInv, Inside
<1>2. Stages'
  BY <1>proc DEF IInv, Stages
<1>3. AskedProc'
  BY <1>proc DEF IInv, AskedProc
<1>4. Called'
  BY <1>proc DEF IInv, Called
<1>5. Whereabouts'
  BY <1>u, <1>proc, <1>g DEF IInv, Whereabouts
<1>6. ListApart'
  BY <1>u, <1>proc, <1>g DEF IInv, ListApart
<1>7. CalledApart'
  BY <1>proc DEF IInv, CalledApart
<1>8. CmdApart'
  BY <1>u, <1>proc, <1>g DEF IInv, CmdApart
<1>9. HeardPlaces'
  BY <1>u, <1>g DEF IInv, HeardPlaces
<1>10. HearProc'
  BY <1>proc DEF IInv, HearProc
<1>11. HearRest'
  BY <1>proc DEF IInv, HearRest
<1>12. Mode' /\ AloneAdd' /\ AloneNamed' /\ AloneId' /\ NoneDeleted'
  BY <1>u DEF IInv, Solo, Mode, AloneAdd, AloneNamed, AloneId, NoneDeleted
<1>13. /\ Commands' /\ Tasks' /\ Running' /\ OnOwner' /\ Adding' /\ InCall'
       /\ WaitIds' /\ WaitOnce' /\ TableIds' /\ TableOnce'
  BY <1>u DEF IInv, Commands, Tasks, Running, OnOwner, Adding, InCall, WaitIds,
     WaitOnce, TableIds, TableOnce
<1>14. /\ WatchIds' /\ WatchOnce' /\ CmdIds' /\ CmdTable' /\ CmdWatch'
       /\ Owed' /\ Reached' /\ ResumeOwn' /\ ResumeGone' /\ ResumeFree'
  BY <1>u DEF IInv, WatchIds, WatchOnce, CmdIds, CmdTable, CmdWatch, Owed,
     Reached, ResumeOwn, ResumeGone, ResumeFree
<1>15. AskedTasks' /\ AskedEnds'
  BY <1>u DEF IInv, Own, AskedTasks, AskedEnds
<1>16. /\ ResumeOnce' /\ LateOwn' /\ LateGone' /\ Held' /\ Bound'
       /\ Entered' /\ Sole' /\ Occupied' /\ OneEntry' /\ CmdOnce'
  BY <1>u DEF IInv, ResumeOnce, LateOwn, LateGone, Held, Bound, Entered, Sole,
     Occupied, OneEntry, CmdOnce
<1>17. Removing' /\ HeardBound' /\ HearCmds'
  BY <1>u DEF IInv, Removing, HeardBound, HearCmds
<1>18. HomeTasks' /\ HomeEnds'
  BY <1>u DEF IInv, Home, HomeTasks, HomeEnds
<1> QED
  BY <1>0, <1>1, <1>2, <1>3, <1>4, <1>5, <1>6, <1>7, <1>8, <1>9, <1>10, <1>11,
     <1>12, <1>13, <1>14, <1>15, <1>16, <1>17, <1>18 DEF IInv

\* The emit is over and the fiber that waits for it runs on.
LEMMA EndRunStep ==
  ASSUME IInv, NEW t \in Workers, EndEmit(t), NEW p \in InTable(proc.respond),
         table' = table \ {p},
         heard' = heard \union {w \in Watchers : watch[w].used /\ watch[w].fb = NIL
                                                 /\ watch[w].msgid = proc.respond},
         Owner(p[2]) = t, Continue(p[2]), UNCHANGED fque
  PROVE  IInv'
<1>g. /\ t \in acting /\ cur[t] = NIL /\ add[t] = NIL /\ proc.by = t
      /\ proc.at = "emit" /\ proc.called = NIL /\ proc.rest = {}
  BY DEF EndEmit, InEmitter, IInv, Adding, Stages
<1>proc. /\ proc'.by = t /\ proc'.at = "next" /\ proc'.rest = {}
         /\ proc'.called = NIL /\ proc'.respond = 0 /\ proc'.hear = {}
  BY DEF Idle, EndEmit
<1>f. PICK f \in Fibers : f = p[2]
  BY TTable DEF InTable
<1>i. PICK i \in Nat : i = p[1] /\ p \in table /\ i # 0 /\ i = proc.respond
  BY TTable DEF InTable, IInv, TableIds
<1>own0. waits[f] = i
  BY <1>f, <1>i, TTable DEF IInv, AskedProc, Own
<1>en. \A w \in Watchers : watch[w].used => watch[w].msgid # i
  BY <1>i DEF IInv, AskedProc, Own
<1>j. /\ f \in Fibers /\ f # NIL /\ waits[f] = i /\ i # 0 /\ i \in Nat
      /\ p \in table /\ p[1] = i /\ p[2] = f
  BY <1>f, <1>i, <1>own0, Nobody
<1>m. m_w[f] = NIL
  BY <1>j, <1>en, TMw DEF IInv, Held
<1>table. /\ (\A r \in table' : r \in table /\ r # p)
          /\ (\A r \in table : r # p => r \in table')
  OBVIOUS
<1>gone. \A r \in table' : r[1] # i
  BY <1>table, <1>j DEF IInv, TableOnce
<1>nl. late # NIL => late[2] # f
  BY <1>j DEF IInv, LateGone, LateOwn
<1>nr. \A v \in Workers : \A k \in 1 .. Len(fque[v]) : fque[v][k].type = "resume"
         => fque[v][k].f # f
  BY <1>j DEF IInv, ResumeGone, ResumeOwn
<1>hs. heard' = heard
  BY <1>en, <1>i
<1>u. UNCHANGED <<acting, m_w, m_endp, watch, ent, cmds, list, seed, add, late,
                  fque, heard>>
  BY <1>hs DEF EndEmit, pvars
<1>run. st[f] = "wait" /\ Owner(f) = t
  BY <1>f, <1>j, <1>g DEF IInv, Types, Running, InCall
<1>st. st'[f] = "run" /\ (\A y \in Fibers : y # f => st'[y] = st[y])
  BY <1>f DEF IInv, Types, Continue
<1>cur. cur'[t] = f /\ (\A y \in Workers : y # t => cur'[y] = cur[y])
  BY <1>f, <1>run DEF IInv, Types, Continue
<1>waits. waits'[f] = 0 /\ (\A y \in Fibers : y # f => waits'[y] = waits[y])
  BY <1>f DEF IInv, Types, Continue
<1>0. Types'
  <2>1. st' \in [Fibers -> {"free", "run", "wait"}]
    BY <1>f DEF IInv, Types, Continue
  <2>2. proc' \in ProcRec
    BY DEF ProcRec, Idle, EndEmit
  <2>3. table' \subseteq Nat \X Fibers
    BY DEF IInv, Types
  <2>4. cur' \in [Workers -> Fibers \union {NIL}]
    BY <1>f, <1>run DEF IInv, Types, Continue
  <2>5. waits' \in [Fibers -> Nat]
    BY <1>f DEF IInv, Types, Continue
  <2> QED
    BY <2>1, <2>2, <2>3, <2>4, <2>5, <1>u DEF IInv, Types
<1>own. \A n \in Nat : Own(n) => Own(n)'
  BY <1>u, TWaits, TTable, <1>waits, <1>table, <1>gone, <1>j DEF Own
<1>home. \A v \in Workers, n \in Nat : Home(v, n) => Home(v, n)'
  BY <1>u, TTable, TSeed, <1>g, <1>en, <1>j, <1>m, <1>run, <1>table, <1>gone DEF
     IInv, Home
<1>1. Inside'
  BY <1>u, <1>proc, <1>g DEF IInv, Inside
<1>2. Stages'
  BY <1>proc DEF IInv, Stages
<1>3. Running'
  BY <1>st, <1>cur, <1>g, <1>j, Nobody DEF IInv, Running
<1>4. OnOwner'
  BY <1>u, <1>cur, <1>g, <1>j DEF IInv, OnOwner
<1>5. Adding'
  <2> SUFFICES ASSUME NEW v \in Workers
               PROVE  /\ add'[v] # NIL => cur'[v] # NIL
                      /\ cur'[v] # NIL => (add'[v] # NIL <=> waits'[cur'[v]] # 0)
    BY DEF Adding
  <2>1. CASE v = t
    BY <2>1, <1>u, <1>g, <1>j, <1>run, <1>cur, <1>waits
  <2>2. CASE v # t
    <3>1. cur[v] # f /\ (cur[v] # NIL => cur[v] \in Fibers)
      BY <2>2, <1>g, <1>j, <1>run, TCur DEF IInv, OnOwner
    <3> QED
      BY <2>2, <3>1, <1>u, <1>cur, <1>waits DEF IInv, Adding
  <2> QED
    BY <2>1, <2>2
<1>6. InCall'
  BY <1>st, <1>waits DEF IInv, InCall
<1>7. WaitIds'
  BY <1>u, <1>waits, TSeed DEF IInv, WaitIds
<1>8. WaitOnce'
  BY <1>waits DEF IInv, WaitOnce
<1>9. TableIds'
  BY <1>u DEF IInv, TableIds
<1>10. TableOnce'
  BY DEF IInv, TableOnce
<1>11. AskedProc'
  BY <1>proc DEF IInv, AskedProc
<1>12. AskedTasks'
  BY <1>own, TFque DEF IInv, AskedTasks
<1>13. AskedEnds'
  BY <1>u, <1>own, <1>st, <1>run, TEndp DEF IInv, AskedEnds
<1>14. CmdTable'
  BY <1>u, <1>waits, <1>j, TTable DEF IInv, CmdTable
<1>15. Owed'
  BY <1>u, <1>waits, <1>j, TTable DEF IInv, Owed
<1>16. Reached'
  BY <1>u, <1>waits, <1>j DEF IInv, Reached
<1>17. ResumeOwn'
  BY <1>nr, <1>waits DEF IInv, ResumeOwn, Tasks
<1>18. ResumeGone'
  BY DEF IInv, ResumeGone
<1>19. LateOwn'
  BY <1>u, <1>nl, <1>waits, TLate DEF IInv, LateOwn
<1>20. LateGone'
  BY <1>u DEF IInv, LateGone
<1>21. Held'
  BY <1>u, <1>waits, <1>m DEF IInv, Held
<1>22. Sole'
  BY <1>u DEF IInv, Sole
<1>23. Called'
  BY <1>proc DEF IInv, Called
<1>24. Whereabouts'
  BY <1>u, <1>proc, <1>g DEF IInv, Whereabouts
<1>25. ListApart'
  BY <1>u, <1>proc, <1>g DEF IInv, ListApart
<1>26. CalledApart'
  BY <1>proc DEF IInv, CalledApart
<1>27. CmdApart'
  BY <1>u, <1>proc, <1>g DEF IInv, CmdApart
<1>28. AloneId'
  <2> SUFFICES ASSUME NEW v \in Workers, Solo, add[v] # NIL
               PROVE  watch'[add'[v][1]].msgid = waits'[cur'[v]]
    BY <1>u DEF AloneId, Solo
  <2> QED
    BY <1>g, Alone
<1>29. HeardPlaces'
  BY <1>u, <1>g DEF IInv, HeardPlaces
<1>30. HearProc'
  BY <1>proc DEF IInv, HearProc
<1>31. HearRest'
  BY <1>proc DEF IInv, HearRest
<1>32. HomeTasks'
  BY <1>home, TFque DEF IInv, HomeTasks, Tasks
<1>33. HomeEnds'
  BY <1>u, <1>home, <1>st, <1>run, TEndp DEF IInv, HomeEnds
<1>34. NoneDeleted'
  BY <1>u, <1>waits, <1>j, TTable DEF IInv, NoneDeleted, Solo
<1>35. Mode' /\ AloneAdd' /\ AloneNamed'
  BY <1>u DEF IInv, Solo, Mode, AloneAdd, AloneNamed
<1>36. /\ Commands' /\ Tasks' /\ WatchIds' /\ WatchOnce' /\ CmdIds'
       /\ CmdWatch' /\ ResumeFree' /\ ResumeOnce' /\ Bound' /\ Entered'
  BY <1>u DEF IInv, Commands, Tasks, WatchIds, WatchOnce, CmdIds, CmdWatch,
     ResumeFree, ResumeOnce, Bound, Entered
<1>37. /\ Occupied' /\ OneEntry' /\ CmdOnce' /\ Removing' /\ HeardBound'
       /\ HearCmds'
  BY <1>u DEF IInv, Occupied, OneEntry, CmdOnce, Removing, HeardBound, HearCmds
<1> QED
  BY <1>0, <1>1, <1>2, <1>3, <1>4, <1>5, <1>6, <1>7, <1>8, <1>9, <1>10, <1>11,
     <1>12, <1>13, <1>14, <1>15, <1>16, <1>17, <1>18, <1>19, <1>20, <1>21,
     <1>22, <1>23, <1>24, <1>25, <1>26, <1>27, <1>28, <1>29, <1>30, <1>31,
     <1>32, <1>33, <1>34, <1>35, <1>36, <1>37 DEF IInv

\* The emit is over and the fiber that waits for it is sent a task.
LEMMA EndSendStep ==
  ASSUME IInv, NEW t \in Workers, EndEmit(t), NEW p \in InTable(proc.respond),
         table' = table \ {p},
         heard' = heard \union {w \in Watchers : watch[w].used /\ watch[w].fb = NIL
                                                 /\ watch[w].msgid = proc.respond},
         Push(Owner(p[2]), Task("resume", p[2], proc.respond)),
         UNCHANGED <<st, cur, waits>>
  PROVE  IInv'
<1>g. /\ t \in acting /\ cur[t] = NIL /\ add[t] = NIL /\ proc.by = t
      /\ proc.at = "emit" /\ proc.called = NIL /\ proc.rest = {}
  BY DEF EndEmit, InEmitter, IInv, Adding, Stages
<1>proc. /\ proc'.by = t /\ proc'.at = "next" /\ proc'.rest = {}
         /\ proc'.called = NIL /\ proc'.respond = 0 /\ proc'.hear = {}
  BY DEF Idle, EndEmit
<1>f. PICK f \in Fibers : f = p[2]
  BY TTable DEF InTable
<1>i. PICK i \in Nat : i = p[1] /\ p \in table /\ i # 0 /\ i = proc.respond
  BY TTable DEF InTable, IInv, TableIds
<1>own0. waits[f] = i
  BY <1>f, <1>i, TTable DEF IInv, AskedProc, Own
<1>en. \A w \in Watchers : watch[w].used => watch[w].msgid # i
  BY <1>i DEF IInv, AskedProc, Own
<1>j. /\ f \in Fibers /\ f # NIL /\ waits[f] = i /\ i # 0 /\ i \in Nat
      /\ p \in table /\ p[1] = i /\ p[2] = f
  BY <1>f, <1>i, <1>own0, Nobody
<1>m. m_w[f] = NIL
  BY <1>j, <1>en, TMw DEF IInv, Held
<1>table. /\ (\A r \in table' : r \in table /\ r # p)
          /\ (\A r \in table : r # p => r \in table')
  OBVIOUS
<1>gone. \A r \in table' : r[1] # i
  BY <1>table, <1>j DEF IInv, TableOnce
<1>nl. late # NIL => late[2] # f
  BY <1>j DEF IInv, LateGone, LateOwn
<1>nr. \A v \in Workers : \A k \in 1 .. Len(fque[v]) : fque[v][k].type = "resume"
         => fque[v][k].f # f
  BY <1>j DEF IInv, ResumeGone, ResumeOwn
<1>hs. heard' = heard
  BY <1>en, <1>i
<1>u. UNCHANGED <<acting, m_w, m_endp, watch, ent, cmds, list, seed, add, late,
                  heard, st, cur, waits>>
  BY <1>hs DEF EndEmit, pvars
<1>x0. PICK x \in Tsk : x = Task("resume", f, i)
  BY <1>j DEF Tsk, Task
<1>d. PICK d \in Workers : d = Owner(f)
  BY Nobody
<1>fque. /\ \A v \in Workers : \A k \in 1 .. Len(fque'[v]) :
              (k \in 1 .. Len(fque[v]) /\ fque'[v][k] = fque[v][k])
                \/ (v = d /\ k = Len(fque[d]) + 1 /\ fque'[v][k] = x)
         /\ \A v \in Workers : \A k \in 1 .. Len(fque[v]) :
              k \in 1 .. Len(fque'[v]) /\ fque'[v][k] = fque[v][k]
         /\ Len(fque[d]) + 1 \in 1 .. Len(fque'[d])
         /\ fque'[d][Len(fque[d]) + 1] = x /\ Len(fque[d]) \in Nat
         /\ fque' \in [Workers -> Seq(Tsk)]
         /\ x.type = "resume" /\ x.f = f /\ x.id = i /\ d = Owner(f)
  <2>1. fque' = [fque EXCEPT ![d] = Append(@, x)]
    BY <1>x0, <1>d, <1>f, <1>i DEF Push
  <2> QED
    BY <2>1, <1>x0, <1>d, Pushed DEF IInv, Types, Task
<1>q1. \A v \in Workers : \A k \in 1 .. Len(fque'[v]) :
            (k \in 1 .. Len(fque[v]) /\ fque'[v][k] = fque[v][k])
              \/ (v = d /\ k = Len(fque[d]) + 1 /\ fque'[v][k] = x)
  BY <1>fque
<1>q2. \A v \in Workers : \A k \in 1 .. Len(fque[v]) :
         k \in 1 .. Len(fque'[v]) /\ fque'[v][k] = fque[v][k]
  BY <1>fque
<1>q3. Len(fque[d]) + 1 \in 1 .. Len(fque'[d]) /\ fque'[d][Len(fque[d]) + 1] = x
  BY <1>fque
<1>q4. /\ x.type = "resume" /\ x.f = f /\ x.id = i /\ d = Owner(f)
       /\ Len(fque[d]) \in Nat
  BY <1>fque
<1>0. Types'
  <2>1. proc' \in ProcRec
    BY DEF ProcRec, Idle, EndEmit
  <2>2. table' \subseteq Nat \X Fibers
    BY DEF IInv, Types
  <2>3. fque' \in [Workers -> Seq(Tsk)]
    BY <1>fque
  <2> QED
    BY <2>1, <2>2, <2>3, <1>u DEF IInv, Types
<1>own. \A n \in Nat : Own(n) => Own(n)'
  BY <1>u, <1>table DEF Own
<1>home. \A v \in Workers, n \in Nat : Home(v, n) => Home(v, n)'
  BY <1>u, TTable, TSeed, <1>g, <1>en, <1>j, <1>m, <1>table, <1>gone DEF IInv, Home
<1>1. Inside'
  BY <1>u, <1>proc, <1>g DEF IInv, Inside
<1>2. Stages'
  BY <1>proc DEF IInv, Stages
<1>3. Tasks'
  <2> SUFFICES ASSUME NEW v \in Workers, NEW k \in 1 .. Len(fque'[v])
               PROVE  /\ fque'[v][k].type = "resume" => fque'[v][k].f \in Fibers
                      /\ fque'[v][k].type = "request" => fque'[v][k].f \in Workers
    BY DEF Tasks
  <2>1. CASE k \in 1 .. Len(fque[v]) /\ fque'[v][k] = fque[v][k]
    BY <2>1, <1>nr DEF IInv, Tasks
  <2>2. CASE v = d /\ k = Len(fque[d]) + 1 /\ fque'[v][k] = x
    BY <2>2, <1>q4, <1>nr
  <2> QED
    BY <2>1, <2>2, <1>q1
<1>4. TableIds'
  BY <1>u DEF IInv, TableIds
<1>5. TableOnce'
  BY DEF IInv, TableOnce
<1>6. AskedProc'
  BY <1>proc DEF IInv, AskedProc
<1>7. AskedTasks'
  <2> SUFFICES ASSUME NEW v \in Workers, NEW k \in 1 .. Len(fque'[v])
               PROVE  fque'[v][k].type \in {"request", "response"} => Own(fque[v][k].id)'
    BY DEF AskedTasks
  <2>1. CASE k \in 1 .. Len(fque[v]) /\ fque'[v][k] = fque[v][k]
    BY <2>1, <1>own, <1>table, <1>gone, <1>nr, TWatch, TTable, TFque DEF IInv,
       AskedTasks
  <2>2. CASE v = d /\ k = Len(fque[d]) + 1 /\ fque'[v][k] = x
    BY <2>2, <1>own, <1>table, <1>gone, <1>q4, <1>nr, TWatch, TTable, TFque
  <2> QED
    BY <2>1, <2>2, <1>q1
<1>8. AskedEnds'
  BY <1>u, <1>own, TEndp DEF IInv, AskedEnds
<1>9. CmdTable'
  BY <1>u DEF IInv, CmdTable
<1>10. Owed'
  BY <1>u DEF IInv, Owed
<1>11. Reached'
  <2> SUFFICES ASSUME NEW g \in Fibers, waits[g] # 0
               PROVE  \/ \E r \in table' : r[1] = waits[g] /\ r[2] = g
                      \/ \E k \in 1 .. Len(fque'[Owner(g)]) :
                           /\ fque'[Owner(g)][k].type = "resume"
                           /\ fque'[Owner(g)][k].f = g
                      \/ late # NIL /\ late[2] = g
    BY <1>u DEF Reached
  <2>1. CASE g = f
    BY <2>1, <1>q3, <1>q4
  <2>2. CASE g # f
    <3>1. CASE \E r \in table : r[1] = waits[g] /\ r[2] = g
      BY <2>2, <3>1, <1>table, <1>j
    <3>2. ASSUME NEW k \in 1 .. Len(fque[Owner(g)]),
                 fque[Owner(g)][k].type = "resume", fque[Owner(g)][k].f = g
          PROVE  \E j \in 1 .. Len(fque'[Owner(g)]) :
                   fque'[Owner(g)][j].type = "resume" /\ fque'[Owner(g)][j].f = g
      BY <3>2, <1>q2, Nobody
    <3> QED
      BY <3>1, <3>2 DEF IInv, Reached
  <2> QED
    BY <2>1, <2>2
<1>12. ResumeOwn'
  <2> SUFFICES ASSUME NEW v \in Workers, NEW k \in 1 .. Len(fque'[v]),
                      fque'[v][k].type = "resume"
               PROVE  /\ v = Owner(fque'[v][k].f)
                      /\ waits'[fque'[v][k].f] = fque'[v][k].id
                      /\ fque'[v][k].id # 0
    BY DEF ResumeOwn
  <2>1. CASE k \in 1 .. Len(fque[v]) /\ fque'[v][k] = fque[v][k]
    BY <2>1, <1>j, <1>m DEF IInv, ResumeOwn
  <2>2. CASE v = d /\ k = Len(fque[d]) + 1 /\ fque'[v][k] = x
    BY <2>2, <1>q4, <1>j, <1>m
  <2> QED
    BY <2>1, <2>2, <1>q1
<1>13. ResumeGone'
  <2> SUFFICES ASSUME NEW v \in Workers, NEW k \in 1 .. Len(fque'[v]),
                      fque'[v][k].type = "resume", NEW s \in table'
               PROVE  s[1] # fque'[v][k].id
    BY DEF ResumeGone
  <2>1. CASE k \in 1 .. Len(fque[v]) /\ fque'[v][k] = fque[v][k]
    BY <2>1, <1>table DEF IInv, ResumeGone
  <2>2. CASE v = d /\ k = Len(fque[d]) + 1 /\ fque'[v][k] = x
    BY <2>2, <1>gone, <1>q4
  <2> QED
    BY <2>1, <2>2, <1>q1
<1>14. ResumeFree'
  <2> SUFFICES ASSUME NEW v \in Workers, NEW k \in 1 .. Len(fque'[v]),
                      fque'[v][k].type = "resume"
               PROVE  /\ m_w'[fque'[v][k].f] = NIL
                      /\ (late' # NIL => late'[2] # fque'[v][k].f)
    BY DEF ResumeFree
  <2>0. late' = late
    BY <1>u
  <2>1. CASE k \in 1 .. Len(fque[v]) /\ fque'[v][k] = fque[v][k]
    <3>1. /\ m_w[fque[v][k].f] = NIL /\ fque[v][k].f \in Fibers
          /\ late # NIL => late[2] # fque[v][k].f
      BY <2>1 DEF IInv, ResumeFree, Tasks
    <3>2. m_w'[fque[v][k].f] = NIL
      BY <3>1, <1>u
    <3> QED
      BY <2>0, <2>1, <3>1, <3>2
  <2>2. CASE v = d /\ k = Len(fque[d]) + 1 /\ fque'[v][k] = x
    <3>1. m_w'[f] = NIL
      BY <1>m, <1>u
    <3> QED
      BY <2>0, <2>2, <3>1, <1>nl, <1>q4
  <2> QED
    BY <2>1, <2>2, <1>q1
<1>15. ResumeOnce'
  <2> SUFFICES ASSUME NEW v \in Workers, NEW j \in 1 .. Len(fque'[v]), NEW k \in 1 .. Len(fque'[v]),
                      fque'[v][j].type = "resume", fque'[v][k].type = "resume",
                      fque'[v][j].f = fque'[v][k].f
               PROVE  j = k
    BY DEF ResumeOnce
  <2>1. CASE fque'[v][k].f = f
    <3>1. j = Len(fque[d]) + 1
      BY <2>1, <1>q1, <1>nr
    <3>2. k = Len(fque[d]) + 1
      BY <2>1, <1>q1, <1>nr
    <3> QED
      BY <3>1, <3>2
  <2>2. CASE fque'[v][k].f # f
    <3>1. j \in 1 .. Len(fque[v]) /\ fque'[v][j] = fque[v][j]
      BY <2>2, <1>q1, <1>q4
    <3>2. k \in 1 .. Len(fque[v]) /\ fque'[v][k] = fque[v][k]
      BY <2>2, <1>q1, <1>q4
    <3> QED
      BY <3>1, <3>2 DEF IInv, ResumeOnce
  <2> QED
    BY <2>1, <2>2
<1>16. LateGone'
  BY <1>u DEF IInv, LateGone
<1>17. Sole'
  BY <1>u DEF IInv, Sole
<1>18. Called'
  BY <1>proc DEF IInv, Called
<1>19. Whereabouts'
  BY <1>u, <1>proc, <1>g DEF IInv, Whereabouts
<1>20. ListApart'
  BY <1>u, <1>proc, <1>g DEF IInv, ListApart
<1>21. CalledApart'
  BY <1>proc DEF IInv, CalledApart
<1>22. CmdApart'
  BY <1>u, <1>proc, <1>g DEF IInv, CmdApart
<1>23. HeardPlaces'
  BY <1>u, <1>g DEF IInv, HeardPlaces
<1>24. HearProc'
  BY <1>proc DEF IInv, HearProc
<1>25. HearRest'
  BY <1>proc DEF IInv, HearRest
<1>26. HomeTasks'
  <2> SUFFICES ASSUME NEW v \in Workers, NEW k \in 1 .. Len(fque'[v])
               PROVE  /\ fque'[v][k].type = "request" => Home(fque[v][k].f, fque[v][k].id)'
                      /\ fque'[v][k].type = "response" => Home(v, fque[v][k].id)'
    BY DEF HomeTasks
  <2>1. CASE k \in 1 .. Len(fque[v]) /\ fque'[v][k] = fque[v][k]
    BY <2>1, TFque, <1>home DEF IInv, HomeTasks, Tasks
  <2>2. CASE ~(k \in 1 .. Len(fque[v]) /\ fque'[v][k] = fque[v][k])
    BY <2>2, <1>q1, <1>q4, <1>q4
  <2> QED
    BY <2>1, <2>2
<1>27. HomeEnds'
  BY <1>u, <1>home, TEndp DEF IInv, HomeEnds
<1>28. NoneDeleted'
  BY <1>u DEF IInv, NoneDeleted, Solo
<1>29. Mode' /\ AloneAdd' /\ AloneNamed' /\ AloneId'
  BY <1>u DEF IInv, Solo, Mode, AloneAdd, AloneNamed, AloneId
<1>30. /\ Commands' /\ Running' /\ OnOwner' /\ Adding' /\ InCall'
       /\ WaitIds' /\ WaitOnce' /\ WatchIds' /\ WatchOnce' /\ CmdIds'
  BY <1>u DEF IInv, Commands, Running, OnOwner, Adding, InCall, WaitIds,
     WaitOnce, WatchIds, WatchOnce, CmdIds
<1>31. /\ CmdWatch' /\ LateOwn' /\ Held' /\ Bound' /\ Entered' /\ Occupied'
       /\ OneEntry' /\ CmdOnce' /\ Removing' /\ HeardBound'
  BY <1>u DEF IInv, CmdWatch, LateOwn, Held, Bound, Entered, Occupied,
     OneEntry, CmdOnce, Removing, HeardBound
<1>32. HearCmds'
  BY <1>u DEF IInv, HearCmds
<1> QED
  BY <1>0, <1>1, <1>2, <1>3, <1>4, <1>5, <1>6, <1>7, <1>8, <1>9, <1>10, <1>11,
     <1>12, <1>13, <1>14, <1>15, <1>16, <1>17, <1>18, <1>19, <1>20, <1>21,
     <1>22, <1>23, <1>24, <1>25, <1>26, <1>27, <1>28, <1>29, <1>30, <1>31,
     <1>32 DEF IInv

----------------------------------------------------------------------------
(* check_timeout *)

\* The checker takes an entry out of the table, and raises the error.
LEMMA ExpireStep ==
  ASSUME IInv, Expire
  PROVE  IInv'
<1>u. UNCHANGED <<acting, st, m_w, m_endp, watch, ent, cmds, list, proc, seed, cur,
                  add, fque, waits, heard>>
  BY DEF Expire, pvars
<1>p. PICK p \in table : table' = table \ {p} /\ late' = p
  BY DEF Expire
<1>g. /\ ~Solo /\ late = NIL /\ p \in table /\ p = <<p[1], p[2]>> /\ p[1] \in Nat
      /\ p[1] # 0 /\ p[2] \in Fibers /\ p # NIL /\ waits[p[2]] = p[1]
  BY <1>p, TTable, Nobody DEF Expire, IInv, NoneDeleted, TableIds
<1>table. /\ (\A r \in table' : r \in table /\ r # p)
          /\ (\A r \in table : r # p => r \in table')
  BY <1>p
<1>late. late' = p
  BY <1>p
<1>gone. \A r \in table' : r[1] # p[1]
  BY <1>table, <1>g DEF IInv, TableOnce
<1>nr. \A v \in Workers : \A k \in 1 .. Len(fque[v]) : fque[v][k].type = "resume"
         => fque[v][k].f # p[2]
  BY <1>g DEF IInv, ResumeGone, ResumeOwn
<1>0. Types'
  <2>1. table' \subseteq Nat \X Fibers
    BY <1>p DEF IInv, Types
  <2>2. late' \in (Nat \X Fibers) \union {NIL}
    BY <1>p DEF IInv, Types
  <2> QED
    BY <2>1, <2>2, <1>u DEF IInv, Types
<1>own. \A i \in Nat : Own(i) => Own(i)'
  BY <1>u, <1>table DEF Own
<1>home. \A v \in Workers, i \in Nat : Home(v, i) => Home(v, i)'
  BY <1>u, TTable, TSeed, <1>g, <1>table, <1>gone DEF IInv, Home
<1>1. Mode'
  BY <1>u, <1>g DEF IInv, Mode, Solo
<1>2. TableIds'
  BY <1>u, <1>table DEF IInv, TableIds
<1>3. TableOnce'
  BY <1>table DEF IInv, TableOnce
<1>4. AskedProc'
  BY <1>u, <1>own, TResp DEF IInv, AskedProc
<1>5. AskedTasks'
  BY <1>u, <1>own, TFque DEF IInv, AskedTasks
<1>6. AskedEnds'
  BY <1>u, <1>own, TEndp DEF IInv, AskedEnds
<1>7. CmdTable'
  BY <1>u, <1>table DEF IInv, CmdTable
<1>8. Owed'
  BY <1>u, <1>table DEF IInv, Owed
<1>9. Reached'
  BY <1>u, <1>table, <1>late, <1>g DEF IInv, Reached
<1>10. ResumeGone'
  BY <1>u, <1>table DEF IInv, ResumeGone
<1>11. ResumeFree'
  BY <1>u, <1>late, <1>nr DEF IInv, ResumeFree
<1>12. LateOwn'
  BY <1>u, <1>late, <1>g DEF IInv, LateOwn
<1>13. LateGone'
  BY <1>gone, <1>late DEF IInv, LateGone
<1>14. Sole'
  BY <1>u, <1>table DEF IInv, Sole
<1>15. HomeTasks'
  BY <1>u, <1>home, TFque DEF IInv, HomeTasks, Tasks
<1>16. HomeEnds'
  BY <1>u, <1>home, TEndp DEF IInv, HomeEnds
<1>17. NoneDeleted'
  BY <1>u, <1>table DEF IInv, NoneDeleted, Solo
<1>18. /\ Inside' /\ Stages' /\ Commands' /\ Tasks' /\ Running' /\ OnOwner'
       /\ Adding' /\ InCall' /\ WaitIds' /\ WaitOnce'
  BY <1>u DEF IInv, Inside, Stages, Commands, Tasks, Running, OnOwner, Adding,
     InCall, WaitIds, WaitOnce
<1>19. /\ WatchIds' /\ WatchOnce' /\ CmdIds' /\ CmdWatch' /\ ResumeOwn'
       /\ ResumeOnce' /\ Held' /\ Bound' /\ Entered' /\ Called'
  BY <1>u DEF IInv, WatchIds, WatchOnce, CmdIds, CmdWatch, ResumeOwn,
     ResumeOnce, Held, Bound, Entered, Called
<1>20. /\ Whereabouts' /\ Occupied' /\ OneEntry' /\ ListApart'
       /\ CalledApart' /\ CmdApart' /\ CmdOnce' /\ Removing' /\ HeardBound'
       /\ HeardPlaces'
  BY <1>u DEF IInv, Whereabouts, Occupied, OneEntry, ListApart, CalledApart,
     CmdApart, CmdOnce, Removing, HeardBound, HeardPlaces
<1>21. AloneAdd' /\ AloneNamed' /\ AloneId'
  BY <1>u DEF IInv, Solo, AloneAdd, AloneNamed, AloneId
<1>22. HearCmds' /\ HearProc' /\ HearRest'
  BY <1>u DEF IInv, HearCmds, HearProc, HearRest
<1> QED
  BY <1>0, <1>1, <1>2, <1>3, <1>4, <1>5, <1>6, <1>7, <1>8, <1>9, <1>10, <1>11,
     <1>12, <1>13, <1>14, <1>15, <1>16, <1>17, <1>18, <1>19, <1>20, <1>21,
     <1>22 DEF IInv

\* The checker resumes the fiber whose call has timed out.
LEMMA RaiseStep ==
  ASSUME IInv, Raise
  PROVE  IInv'
<1>u. UNCHANGED <<acting, st, m_endp, watch, ent, cmds, list, proc, table, seed,
                  cur, add, waits, heard>>
  BY DEF Raise, pvars
<1>f. PICK f \in Fibers : f = late[2]
  BY TLate DEF Raise
<1>i. PICK i \in Nat : i = late[1]
  BY TLate DEF Raise
<1>g. /\ late # NIL /\ late[2] = f /\ late[1] = i /\ waits[f] = i /\ i # 0
      /\ f \in Fibers /\ f # NIL
  BY <1>f, <1>i, Nobody DEF Raise, IInv, LateOwn
<1>gone. \A r \in table : r[1] # i
  BY <1>g DEF IInv, LateGone
<1>nr. \A v \in Workers : \A k \in 1 .. Len(fque[v]) : fque[v][k].type = "resume"
         => fque[v][k].f # f
  BY <1>g DEF IInv, ResumeFree
<1>late. late' = NIL
  BY DEF Raise
<1>mw. m_w'[f] = NIL /\ (\A y \in Fibers : y # f => m_w'[y] = m_w[y])
  BY <1>f, <1>g DEF IInv, Types, Raise, FinishWait
<1>x0. PICK x \in Tsk : x = Task("resume", f, i)
  BY <1>g DEF Tsk, Task
<1>d. PICK d \in Workers : d = Owner(f)
  BY Nobody
<1>fque. /\ \A v \in Workers : \A k \in 1 .. Len(fque'[v]) :
              (k \in 1 .. Len(fque[v]) /\ fque'[v][k] = fque[v][k])
                \/ (v = d /\ k = Len(fque[d]) + 1 /\ fque'[v][k] = x)
         /\ \A v \in Workers : \A k \in 1 .. Len(fque[v]) :
              k \in 1 .. Len(fque'[v]) /\ fque'[v][k] = fque[v][k]
         /\ Len(fque[d]) + 1 \in 1 .. Len(fque'[d])
         /\ fque'[d][Len(fque[d]) + 1] = x /\ Len(fque[d]) \in Nat
         /\ fque' \in [Workers -> Seq(Tsk)]
         /\ x.type = "resume" /\ x.f = f /\ x.id = i /\ d = Owner(f)
  <2>1. fque' = [fque EXCEPT ![d] = Append(@, x)]
    BY <1>x0, <1>d, <1>f, <1>i DEF Push, Raise
  <2> QED
    BY <2>1, <1>x0, <1>d, Pushed DEF IInv, Types, Task
<1>q1. \A v \in Workers : \A k \in 1 .. Len(fque'[v]) :
            (k \in 1 .. Len(fque[v]) /\ fque'[v][k] = fque[v][k])
              \/ (v = d /\ k = Len(fque[d]) + 1 /\ fque'[v][k] = x)
  BY <1>fque
<1>q2. \A v \in Workers : \A k \in 1 .. Len(fque[v]) :
         k \in 1 .. Len(fque'[v]) /\ fque'[v][k] = fque[v][k]
  BY <1>fque
<1>q3. Len(fque[d]) + 1 \in 1 .. Len(fque'[d]) /\ fque'[d][Len(fque[d]) + 1] = x
  BY <1>fque
<1>q4. /\ x.type = "resume" /\ x.f = f /\ x.id = i /\ d = Owner(f)
       /\ Len(fque[d]) \in Nat
  BY <1>fque
<1>0. Types'
  <2>1. m_w' \in [Fibers -> Watchers \union {NIL}]
    BY <1>f, <1>g DEF IInv, Types, Raise, FinishWait
  <2>2. fque' \in [Workers -> Seq(Tsk)]
    BY <1>fque
  <2>3. late' \in (Nat \X Fibers) \union {NIL}
    BY <1>late
  <2> QED
    BY <2>1, <2>2, <2>3, <1>u DEF IInv, Types
<1>own. \A n \in Nat : Own(n) => Own(n)'
  BY <1>u DEF Own
<1>home. \A v \in Workers, n \in Nat : Home(v, n) => Home(v, n)'
  BY <1>u DEF Home
<1>1. Mode'
  BY <1>u, <1>late DEF IInv, Mode, Solo
<1>2. Tasks'
  <2> SUFFICES ASSUME NEW v \in Workers, NEW k \in 1 .. Len(fque'[v])
               PROVE  /\ fque'[v][k].type = "resume" => fque'[v][k].f \in Fibers
                      /\ fque'[v][k].type = "request" => fque'[v][k].f \in Workers
    BY DEF Tasks
  <2>1. CASE k \in 1 .. Len(fque[v]) /\ fque'[v][k] = fque[v][k]
    BY <2>1 DEF IInv, Tasks
  <2>2. CASE v = d /\ k = Len(fque[d]) + 1 /\ fque'[v][k] = x
    BY <2>2, <1>q4
  <2> QED
    BY <2>1, <2>2, <1>q1
<1>3. AskedTasks'
  <2> SUFFICES ASSUME NEW v \in Workers, NEW k \in 1 .. Len(fque'[v])
               PROVE  fque'[v][k].type \in {"request", "response"} => Own(fque[v][k].id)'
    BY DEF AskedTasks
  <2>1. CASE k \in 1 .. Len(fque[v]) /\ fque'[v][k] = fque[v][k]
    BY <2>1, <1>u, <1>own, TFque DEF IInv, AskedTasks
  <2>2. CASE v = d /\ k = Len(fque[d]) + 1 /\ fque'[v][k] = x
    BY <2>2, <1>u, <1>own, <1>q4, TFque
  <2> QED
    BY <2>1, <2>2, <1>q1
<1>4. Reached'
  BY <1>u, <1>q4, <1>q2, <1>q3, <1>late, <1>g, TTable, TFque, TLate, TWaits,
     Nobody, SMTT(30) DEF IInv, Reached, Tasks
<1>5. ResumeOwn'
  <2> SUFFICES ASSUME NEW v \in Workers, NEW k \in 1 .. Len(fque'[v]),
                      fque'[v][k].type = "resume"
               PROVE  /\ v = Owner(fque'[v][k].f)
                      /\ waits'[fque'[v][k].f] = fque'[v][k].id
                      /\ fque'[v][k].id # 0
    BY DEF ResumeOwn
  <2>1. CASE k \in 1 .. Len(fque[v]) /\ fque'[v][k] = fque[v][k]
    BY <2>1, <1>u, <1>nr, <1>g DEF IInv, ResumeOwn
  <2>2. CASE v = d /\ k = Len(fque[d]) + 1 /\ fque'[v][k] = x
    BY <2>2, <1>u, <1>q4, <1>nr, <1>g
  <2> QED
    BY <2>1, <2>2, <1>q1
<1>6. ResumeGone'
  <2> SUFFICES ASSUME NEW v \in Workers, NEW k \in 1 .. Len(fque'[v]),
                      fque'[v][k].type = "resume"
               PROVE  \A s \in table' : s[1] # fque'[v][k].id
    BY DEF ResumeGone
  <2>1. CASE k \in 1 .. Len(fque[v]) /\ fque'[v][k] = fque[v][k]
    BY <2>1, <1>u, <1>gone DEF IInv, ResumeGone
  <2>2. CASE v = d /\ k = Len(fque[d]) + 1 /\ fque'[v][k] = x
    BY <2>2, <1>u, <1>gone, <1>q4
  <2> QED
    BY <2>1, <2>2, <1>q1
<1>7. ResumeFree'
  <2> SUFFICES ASSUME NEW v \in Workers, NEW k \in 1 .. Len(fque'[v]),
                      fque'[v][k].type = "resume"
               PROVE  /\ m_w'[fque'[v][k].f] = NIL
                      /\ (late' # NIL => late'[2] # fque'[v][k].f)
    BY DEF ResumeFree
  <2>1. CASE k \in 1 .. Len(fque[v]) /\ fque'[v][k] = fque[v][k]
    BY <2>1, <1>mw, <1>late DEF IInv, ResumeFree, Tasks
  <2>2. CASE v = d /\ k = Len(fque[d]) + 1 /\ fque'[v][k] = x
    BY <2>2, <1>mw, <1>q4, <1>late DEF Tasks
  <2> QED
    BY <2>1, <2>2, <1>q1
<1>8. ResumeOnce'
  <2> SUFFICES ASSUME NEW v \in Workers, NEW j \in 1 .. Len(fque'[v]), NEW k \in 1 .. Len(fque'[v]),
                      fque'[v][j].type = "resume", fque'[v][k].type = "resume",
                      fque'[v][j].f = fque'[v][k].f
               PROVE  j = k
    BY DEF ResumeOnce
  <2>1. CASE fque'[v][k].f = f
    <3>1. j = Len(fque[d]) + 1
      BY <2>1, <1>q1, <1>nr
    <3>2. k = Len(fque[d]) + 1
      BY <2>1, <1>q1, <1>nr
    <3> QED
      BY <3>1, <3>2
  <2>2. CASE fque'[v][k].f # f
    <3>1. j \in 1 .. Len(fque[v]) /\ fque'[v][j] = fque[v][j]
      BY <2>2, <1>q1, <1>q4
    <3>2. k \in 1 .. Len(fque[v]) /\ fque'[v][k] = fque[v][k]
      BY <2>2, <1>q1, <1>q4
    <3> QED
      BY <3>1, <3>2 DEF IInv, ResumeOnce
  <2> QED
    BY <2>1, <2>2
<1>9. LateOwn'
  BY <1>late DEF IInv, LateOwn
<1>10. LateGone'
  BY <1>late DEF IInv, LateGone
<1>11. Held'
  BY <1>u, <1>mw DEF IInv, Held
<1>12. Sole'
  BY <1>u, <1>mw, <1>gone, <1>g, TTable DEF IInv, Sole, Held
<1>13. Called'
  BY <1>u, <1>mw, TProc DEF IInv, Called, Whereabouts
<1>14. HomeTasks'
  <2> SUFFICES ASSUME NEW v \in Workers, NEW k \in 1 .. Len(fque'[v])
               PROVE  /\ fque'[v][k].type = "request" => Home(fque[v][k].f, fque[v][k].id)'
                      /\ fque'[v][k].type = "response" => Home(v, fque[v][k].id)'
    BY DEF HomeTasks
  <2>1. CASE k \in 1 .. Len(fque[v]) /\ fque'[v][k] = fque[v][k]
    BY <2>1, <1>home, <1>gone, TTable, TFque, Nobody DEF IInv, HomeTasks, Tasks
  <2>2. CASE v = d /\ k = Len(fque[d]) + 1 /\ fque'[v][k] = x
    BY <2>2, <1>home, <1>gone, <1>q4, TTable, TFque, Nobody DEF Tasks
  <2> QED
    BY <2>1, <2>2, <1>q1
<1>15. /\ Inside' /\ Stages' /\ Commands' /\ Running' /\ OnOwner'
       /\ Adding' /\ InCall' /\ WaitIds' /\ WaitOnce' /\ TableIds'
  BY <1>u DEF IInv, Inside, Stages, Commands, Running, OnOwner, Adding, InCall,
     WaitIds, WaitOnce, TableIds
<1>16. /\ TableOnce' /\ WatchIds' /\ WatchOnce' /\ CmdIds' /\ CmdTable'
       /\ CmdWatch' /\ Owed' /\ Bound' /\ Entered' /\ Whereabouts'
  BY <1>u DEF IInv, TableOnce, WatchIds, WatchOnce, CmdIds, CmdTable, CmdWatch,
     Owed, Bound, Entered, Whereabouts
<1>17. AskedProc' /\ AskedEnds'
  BY <1>u DEF IInv, Own, AskedProc, AskedEnds
<1>18. /\ Occupied' /\ OneEntry' /\ ListApart' /\ CalledApart' /\ CmdApart'
       /\ CmdOnce' /\ Removing' /\ HeardBound' /\ HeardPlaces' /\ HearCmds'
  BY <1>u DEF IInv, Occupied, OneEntry, ListApart, CalledApart, CmdApart,
     CmdOnce, Removing, HeardBound, HeardPlaces, HearCmds
<1>19. AloneAdd' /\ AloneNamed' /\ AloneId' /\ NoneDeleted'
  BY <1>u DEF IInv, Solo, AloneAdd, AloneNamed, AloneId, NoneDeleted
<1>20. HearProc' /\ HearRest'
  BY <1>u DEF IInv, HearProc, HearRest
<1>21. HomeEnds'
  BY <1>u DEF IInv, Home, HomeEnds
<1> QED
  BY <1>0, <1>1, <1>2, <1>3, <1>4, <1>5, <1>6, <1>7, <1>8, <1>9, <1>10, <1>11,
     <1>12, <1>13, <1>14, <1>15, <1>16, <1>17, <1>18, <1>19, <1>20, <1>21 DEF
     IInv

----------------------------------------------------------------------------
(* How the handlers come to these cases *)

\* A set of natural numbers has a least element.
LEMMA Least ==
  ASSUME NEW T, T \subseteq Nat, T # {}
  PROVE \E m \in T : \A k \in T : m <= k
<1> DEFINE R == OpToRel(<, Nat)
<1>1. IsWellFoundedOn(R, Nat)
  BY NatLessThanWellFounded
<1>2. \A x, y \in Nat : x < y => <<x, y>> \in R
  BY DEF OpToRel
<1> HIDE DEF R
<1>3. PICK m \in T : \A y \in T : ~ (<<y, m>> \in R)
  BY <1>1, WFMin
<1>4. ASSUME NEW k \in T PROVE m <= k
  <2>1. ~ (k < m)
    BY <1>2, <1>3
  <2> QED BY <2>1
<1> QED BY <1>4

\* Among free storage there is one with the least number.
LEMMA Begins ==
  ASSUME IInv, NEW t \in Workers, NEW r, Begin(t, r), FreeSlots(t) # {}
  PROVE  \E f \in Fibers :
           /\ st[f] = "free" /\ Owner(f) = t /\ waits[f] = 0
           /\ st' = [st EXCEPT ![f] = "run"] /\ cur' = [cur EXCEPT ![t] = f]
           /\ m_endp' = [m_endp EXCEPT ![f] = r] /\ m_w' = m_w /\ waits' = waits
<1> DEFINE S == FreeSlots(t)
           N == {x[2] : x \in S}
           g == CHOOSE x \in S : \A y \in S : x[2] <= y[2]
<1>1. S \subseteq Fibers /\ \A x \in S : x[2] \in Nat /\ x[1] = t /\ st[x] = "free"
  BY FiberBounds DEF FreeSlots, Slot, Fibers
<1>2. g \in S
  <2>1. N \subseteq Nat /\ N # {}
    BY <1>1
  <2>2. \E m \in N : \A k \in N : m <= k
    BY <2>1, Least
  <2> QED
    BY <2>2
<1>3. g \in Fibers /\ st[g] = "free" /\ Owner(g) = t
  BY <1>1, <1>2 DEF Owner
<1> HIDE DEF g
<1>4. waits[g] = 0
  BY <1>3 DEF IInv, InCall
<1>5. m_w[g] = NIL
  BY <1>3, <1>4, TMw DEF IInv, Held, WatchIds
<1>6. /\ st' = [st EXCEPT ![g] = "run"] /\ cur' = [cur EXCEPT ![t] = g]
      /\ m_endp' = [m_endp EXCEPT ![g] = r]
      /\ m_w' = [m_w EXCEPT ![g] = NIL] /\ waits' = [waits EXCEPT ![g] = 0]
  BY DEF Begin, g
<1>7. m_w' = m_w /\ waits' = waits
  BY <1>3, <1>4, <1>5, <1>6 DEF IInv, Types
<1> QED
  BY <1>3, <1>4, <1>6, <1>7

\* Without free storage nothing begins.
LEMMA Dropped ==
  ASSUME NEW t, NEW r, Begin(t, r), FreeSlots(t) = {}
  PROVE  UNCHANGED <<st, cur, m_endp, m_w, waits>>
  BY DEF Begin

\* resume_fiber finds nothing, or takes an entry out; the fiber runs, or a task
\* is sent.
LEMMA Resumes ==
  ASSUME NEW t \in Workers, NEW i, ResumeFiber(t, i)
  PROVE  \/ InTable(i) = {} /\ UNCHANGED <<st, cur, waits, fque, table, heard>>
         \/ \E p \in InTable(i) :
              /\ table' = table \ {p}
              /\ heard' = heard \union {w \in Watchers : watch[w].used /\ watch[w].fb = NIL
                                                         /\ watch[w].msgid = i}
              /\ \/ Owner(p[2]) = t /\ Continue(p[2]) /\ UNCHANGED fque
                 \/ /\ Push(Owner(p[2]), Task("resume", p[2], i))
                    /\ UNCHANGED <<st, cur, waits>>
  BY DEF ResumeFiber, Resume

\* Everything a worker does in its loop preserves the invariant,
LEMMA LoopSteps ==
  ASSUME IInv, NEW t \in Workers, Loop(t)
  PROVE  IInv'
<1>1. CASE Create(t)
  <2>1. Begin(t, NIL) /\ FreeSlots(t) # {}
    BY <1>1 DEF Create
  <2> QED
    BY <1>1, <2>1, Begins, CreateStep
<1>2. CASE TaskStart(t)
  <2>1. PICK r : /\ Begin(t, r) /\ Head(fque[t]).type # "resume"
                 /\ r = NIL
                      \/ (Head(fque[t]).type = "request"
                          /\ r = <<Head(fque[t]).f, Head(fque[t]).id>>)
    BY <1>2 DEF TaskStart
  <2>2. CASE FreeSlots(t) = {}
    BY <1>2, <2>1, <2>2, Dropped, TaskDropStep
  <2>3. CASE FreeSlots(t) # {}
    BY <1>2, <2>1, <2>3, Begins, TaskStartStep
  <2> QED
    BY <2>2, <2>3
<1>3. CASE TaskResponse(t)
  <2>1. CASE InTable(Head(fque[t]).id) = {}
    BY <1>3, <2>1, TaskLateStep
  <2>2. CASE InTable(Head(fque[t]).id) # {}
    <3>1. PICK p \in InTable(Head(fque[t]).id) : /\ table' = table \ {p}
                                                 /\ Continue(p[2])
      BY <1>3, <2>2 DEF TaskResponse
    <3> QED
      BY <1>3, <3>1, TaskResponseStep
  <2> QED
    BY <2>1, <2>2
<1> QED
  BY <1>1, <1>2, <1>3, TaskResumeStep DEF Loop

\* so do the ends of the commands,
LEMMA CommandSteps ==
  ASSUME IInv, NEW t \in Workers, AddWatcher(t) \/ RemoveWatcher(t) \/ EndEmit(t)
  PROVE  IInv'
<1>1. CASE AddWatcher(t)
  <2>1. ResumeFiber(t, Head(cmds).respond)
    BY <1>1 DEF AddWatcher
  <2> QED
    BY <1>1, <2>1, Resumes, AddQuietStep, AddRunStep, AddSendStep
<1>2. CASE RemoveWatcher(t)
  BY <1>2, RemoveGoneStep, RemoveFreeStep
<1>3. CASE EndEmit(t)
  <2>1. ResumeFiber(t, proc.respond)
    BY <1>3 DEF EndEmit
  <2> QED
    BY <1>3, <2>1, Resumes, EndQuietStep, EndRunStep, EndSendStep
<1> QED
  BY <1>1, <1>2, <1>3

\* the calls of the watchers,
LEMMA CallSteps ==
  ASSUME IInv, NEW t \in Workers, NEW e \in Entry,
         CallKept(t, e) \/ CallWaiting(t, e)
  PROVE  IInv'
<1>1. CASE CallKept(t, e)
  <2>1. CASE UNCHANGED <<st, cur, m_w, m_endp, waits, fque>>
    BY <1>1, <2>1, KeptQuietStep
  <2>2. CASE watch[ent[e]].fb = NIL /\ StartFiber(t, watch[ent[e]].owner)
    <3>1. PICK u \in Workers : u = watch[ent[e]].owner
      <4>1. ent[e] \in Watchers /\ watch[ent[e]].used
        BY <1>1, TEnt DEF CallKept, Calling, IInv, Whereabouts, Occupied
      <4> QED
        BY <2>2, <4>1 DEF IInv, Bound
    <3>2. CASE u = t
      <4>1. Begin(t, NIL) /\ UNCHANGED fque
        BY <2>2, <3>1, <3>2 DEF StartFiber
      <4>2. CASE FreeSlots(t) = {}
        BY <1>1, <4>1, <4>2, Dropped, KeptQuietStep
      <4>3. CASE FreeSlots(t) # {}
        BY <1>1, <4>1, <4>3, Begins, KeptRunStep
      <4> QED
        BY <4>2, <4>3
    <3>3. CASE u # t
      <4>1. /\ Push(u, Task("start", NIL, 0))
            /\ UNCHANGED <<st, cur, m_w, m_endp, waits>>
        BY <2>2, <3>1, <3>3 DEF StartFiber
      <4> QED
        BY <1>1, <4>1, KeptSendStep
    <3> QED
      BY <3>2, <3>3
  <2> QED
    BY <1>1, <2>1, <2>2 DEF CallKept
<1>2. CASE CallWaiting(t, e)
  <2>1. ResumeFiber(t, watch[ent[e]].msgid)
    BY <1>2 DEF CallWaiting
  <2> QED
    BY <1>2, <2>1, Resumes, CallGoneStep, CallRunStep, CallSendStep
<1> QED
  BY <1>1, <1>2

\* and a step that changes nothing.
LEMMA Stutter ==
  ASSUME IInv, UNCHANGED vars
  PROVE  IInv'
<1>1. UNCHANGED <<acting, st, m_w, m_endp, watch, ent, cmds, list, proc>>
  BY DEF vars
<1>2. UNCHANGED <<table, seed, cur, add, fque, late, waits, heard>>
  BY DEF vars
<1>3. \A i : Own(i)' = Own(i)
  BY <1>1, <1>2 DEF Own
<1>4. \A u, i : Home(u, i)' = Home(u, i)
  BY <1>2 DEF Home
<1>t. Types'
  BY <1>1, <1>2 DEF IInv, Types
<1>a1. Mode'
  BY <1>1, <1>2 DEF IInv, Mode, Solo
<1>a2. Inside'
  BY <1>1, <1>2 DEF IInv, Inside
<1>a3. Stages'
  BY <1>1, <1>2 DEF IInv, Stages
<1>a4. Commands'
  BY <1>1, <1>2 DEF IInv, Commands
<1>a5. Tasks'
  BY <1>1, <1>2 DEF IInv, Tasks
<1>a6. Running'
  BY <1>1, <1>2 DEF IInv, Running
<1>a7. OnOwner'
  BY <1>1, <1>2 DEF IInv, OnOwner
<1>a8. Adding'
  BY <1>1, <1>2 DEF IInv, Adding
<1>a9. InCall'
  BY <1>1, <1>2 DEF IInv, InCall
<1>a10. WaitIds'
  BY <1>1, <1>2 DEF IInv, WaitIds
<1>a11. WaitOnce'
  BY <1>1, <1>2 DEF IInv, WaitOnce
<1>a12. TableIds'
  BY <1>1, <1>2 DEF IInv, TableIds
<1>a13. TableOnce'
  BY <1>1, <1>2 DEF IInv, TableOnce
<1>a14. WatchIds'
  BY <1>1, <1>2 DEF IInv, WatchIds
<1>a15. WatchOnce'
  BY <1>1, <1>2 DEF IInv, WatchOnce
<1>a16. AskedProc'
  BY <1>1, <1>2, <1>3 DEF IInv, AskedProc
<1>a17. AskedTasks'
  BY <1>1, <1>2, <1>3 DEF IInv, AskedTasks
<1>a18. AskedEnds'
  BY <1>1, <1>2, <1>3 DEF IInv, AskedEnds
<1>a19. CmdIds'
  BY <1>1, <1>2 DEF IInv, CmdIds
<1>a20. CmdTable'
  BY <1>1, <1>2 DEF IInv, CmdTable
<1>a21. CmdWatch'
  BY <1>1, <1>2 DEF IInv, CmdWatch
<1>a22. Owed'
  BY <1>1, <1>2 DEF IInv, Owed
<1>a23. Reached'
  BY <1>1, <1>2 DEF IInv, Reached
<1>a24. ResumeOwn'
  BY <1>1, <1>2 DEF IInv, ResumeOwn
<1>a25. ResumeGone'
  BY <1>1, <1>2 DEF IInv, ResumeGone
<1>a26. ResumeFree'
  BY <1>1, <1>2 DEF IInv, ResumeFree
<1>a27. ResumeOnce'
  BY <1>1, <1>2 DEF IInv, ResumeOnce
<1>a28. LateOwn'
  BY <1>1, <1>2 DEF IInv, LateOwn
<1>a29. LateGone'
  BY <1>1, <1>2 DEF IInv, LateGone
<1>a30. Held'
  BY <1>1, <1>2 DEF IInv, Held
<1>a31. Bound'
  BY <1>1, <1>2 DEF IInv, Bound
<1>a32. Entered'
  BY <1>1, <1>2 DEF IInv, Entered
<1>a33. Sole'
  BY <1>1, <1>2 DEF IInv, Sole
<1>a34. Called'
  BY <1>1, <1>2 DEF IInv, Called
<1>a35. Whereabouts'
  BY <1>1, <1>2 DEF IInv, Whereabouts
<1>a36. Occupied'
  BY <1>1, <1>2 DEF IInv, Occupied
<1>a37. OneEntry'
  BY <1>1, <1>2 DEF IInv, OneEntry
<1>a38. ListApart'
  BY <1>1, <1>2 DEF IInv, ListApart
<1>a39. CalledApart'
  BY <1>1, <1>2 DEF IInv, CalledApart
<1>a40. CmdApart'
  BY <1>1, <1>2 DEF IInv, CmdApart
<1>a41. CmdOnce'
  BY <1>1, <1>2 DEF IInv, CmdOnce
<1>a42. AloneAdd'
  BY <1>1, <1>2 DEF IInv, AloneAdd, Solo
<1>a43. AloneNamed'
  BY <1>1, <1>2 DEF IInv, AloneNamed, Solo
<1>a44. AloneId'
  BY <1>1, <1>2 DEF IInv, AloneId, Solo
<1>a45. Removing'
  BY <1>1, <1>2 DEF IInv, Removing
<1>a46. HeardBound'
  BY <1>1, <1>2 DEF IInv, HeardBound
<1>a47. HeardPlaces'
  BY <1>1, <1>2 DEF IInv, HeardPlaces
<1>a48. HearCmds'
  BY <1>1, <1>2 DEF IInv, HearCmds
<1>a49. HearProc'
  BY <1>1, <1>2 DEF IInv, HearProc
<1>a50. HearRest'
  BY <1>1, <1>2 DEF IInv, HearRest
<1>a51. HomeTasks'
  BY <1>1, <1>2, <1>4 DEF IInv, HomeTasks
<1>a52. HomeEnds'
  BY <1>1, <1>2, <1>4 DEF IInv, HomeEnds
<1>a53. NoneDeleted'
  BY <1>1, <1>2 DEF IInv, NoneDeleted, Solo
<1> QED
  BY <1>t, <1>a1, <1>a2, <1>a3, <1>a4, <1>a5, <1>a6, <1>a7, <1>a8, <1>a9,
     <1>a10, <1>a11, <1>a12, <1>a13, <1>a14, <1>a15, <1>a16, <1>a17, <1>a18,
     <1>a19, <1>a20, <1>a21, <1>a22, <1>a23, <1>a24, <1>a25, <1>a26, <1>a27,
     <1>a28, <1>a29, <1>a30, <1>a31, <1>a32, <1>a33, <1>a34, <1>a35, <1>a36,
     <1>a37, <1>a38, <1>a39, <1>a40, <1>a41, <1>a42, <1>a43, <1>a44, <1>a45,
     <1>a46, <1>a47, <1>a48, <1>a49, <1>a50, <1>a51, <1>a52, <1>a53 DEF IInv

----------------------------------------------------------------------------
(* The invariant holds *)

\* The invariant holds at the start,
LEMMA Initial == ASSUME Init PROVE IInv
<1>1. Types
  <2>1. acting \subseteq Workers
    BY DEF Init
  <2>2. /\ st \in [Fibers -> {"free", "run", "wait"}]
        /\ m_w \in [Fibers -> Watchers \union {NIL}]
        /\ m_endp \in [Fibers -> (Workers \X Nat) \union {NIL}]
        /\ ent \in [Entry -> Watchers \union {NIL}]
    BY DEF Init
  <2>3. watch \in [Watchers -> WatcherRec]
    BY DEF Init, NoWatcher, WatcherRec
  <2>4. /\ cmds \in Seq(Cmd) /\ list \subseteq Entry
        /\ table \subseteq Nat \X Fibers /\ seed \in Nat
    BY DEF Init
  <2>5. proc \in ProcRec
    BY DEF Init, Idle, ProcRec
  <2>6. /\ cur \in [Workers -> Fibers \union {NIL}]
        /\ add \in [Workers -> (Watchers \X Entry) \union {NIL}]
        /\ fque \in [Workers -> Seq(Tsk)]
    BY DEF Init
  <2>7. /\ late \in (Nat \X Fibers) \union {NIL} /\ waits \in [Fibers -> Nat]
        /\ heard \subseteq Watchers
    BY DEF Init
  <2> QED
    BY <2>1, <2>2, <2>3, <2>4, <2>5, <2>6, <2>7 DEF Types
<1>2. Mode
  <2>1. Solo => \E t : acting = {t}
    <3>1. IsFiniteSet(acting)
      <4>1. ASSUME NEW t, acting = {t} PROVE IsFiniteSet(acting)
        BY <4>1, FS_Singleton
      <4> QED
        BY <4>1, WorkerAssumption DEF Init
    <3> QED
      BY <3>1, FS_Singleton DEF Solo
  <2> QED
    BY <2>1, <1>1 DEF Mode, Init, Types
<1>3. /\ \A f \in Fibers :
           st[f] = "free" /\ m_w[f] = NIL /\ m_endp[f] = NIL /\ waits[f] = 0 /\ f # NIL
      /\ \A w \in Watchers : ~watch[w].used
      /\ \A e \in Entry : ent[e] = NIL
      /\ Len(cmds) = 0 /\ list = {} /\ table = {} /\ seed = 0 /\ late = NIL
      /\ heard = {}
      /\ \A t \in Workers : cur[t] = NIL /\ add[t] = NIL /\ Len(fque[t]) = 0
  BY Nobody DEF Init, NoWatcher
<1>4. /\ proc.by = NIL /\ proc.at = "next" /\ proc.rest = {} /\ proc.called = NIL
      /\ proc.respond = 0 /\ proc.hear = {}
  BY DEF Init, Idle
<1>b1. Inside
  BY <1>3, <1>4 DEF Inside
<1>b2. Stages
  BY <1>3, <1>4 DEF Stages
<1>b3. Commands
  BY <1>3, <1>4 DEF Commands
<1>b4. Tasks
  BY <1>3, <1>4 DEF Tasks
<1>b5. Running
  BY <1>3, <1>4, Nobody DEF Running
<1>b6. OnOwner
  BY <1>3, <1>4 DEF OnOwner
<1>b7. Adding
  BY <1>3, <1>4 DEF Adding
<1>b8. InCall
  BY <1>3, <1>4 DEF InCall
<1>b9. WaitIds
  BY <1>3, <1>4 DEF WaitIds
<1>b10. WaitOnce
  BY <1>3, <1>4 DEF WaitOnce
<1>b11. TableIds
  BY <1>3, <1>4 DEF TableIds
<1>b12. TableOnce
  BY <1>3, <1>4 DEF TableOnce
<1>b13. WatchIds
  BY <1>3, <1>4 DEF WatchIds
<1>b14. WatchOnce
  BY <1>3, <1>4 DEF WatchOnce
<1>b15. AskedProc
  BY <1>3, <1>4 DEF AskedProc
<1>b16. AskedTasks
  BY <1>3, <1>4 DEF AskedTasks
<1>b17. AskedEnds
  BY <1>3, <1>4 DEF AskedEnds
<1>b18. CmdIds
  BY <1>3, <1>4 DEF CmdIds
<1>b19. CmdTable
  BY <1>3, <1>4 DEF CmdTable
<1>b20. CmdWatch
  BY <1>3, <1>4 DEF CmdWatch
<1>b21. Owed
  BY <1>3, <1>4 DEF Owed
<1>b22. Reached
  BY <1>3, <1>4 DEF Reached
<1>b23. ResumeOwn
  BY <1>3, <1>4 DEF ResumeOwn
<1>b24. ResumeGone
  BY <1>3, <1>4 DEF ResumeGone
<1>b25. ResumeFree
  BY <1>3, <1>4 DEF ResumeFree
<1>b26. ResumeOnce
  BY <1>3, <1>4 DEF ResumeOnce
<1>b27. LateOwn
  BY <1>3, <1>4 DEF LateOwn
<1>b28. LateGone
  BY <1>3, <1>4 DEF LateGone
<1>b29. Held
  BY <1>3, <1>4 DEF Held
<1>b30. Bound
  BY <1>3, <1>4 DEF Bound
<1>b31. Entered
  BY <1>3, <1>4 DEF Entered
<1>b32. Sole
  BY <1>3, <1>4 DEF Sole
<1>b33. Called
  BY <1>3, <1>4 DEF Called
<1>b34. Whereabouts
  BY <1>3, <1>4, Nobody DEF Whereabouts
<1>b35. Occupied
  BY <1>3, <1>4 DEF Occupied
<1>b36. OneEntry
  BY <1>3, <1>4 DEF OneEntry
<1>b37. ListApart
  BY <1>3, <1>4 DEF ListApart
<1>b38. CalledApart
  BY <1>3, <1>4 DEF CalledApart
<1>b39. CmdApart
  BY <1>3, <1>4 DEF CmdApart
<1>b40. CmdOnce
  BY <1>3, <1>4 DEF CmdOnce
<1>b41. AloneAdd
  BY <1>3, <1>4 DEF AloneAdd
<1>b42. AloneNamed
  BY <1>3, <1>4 DEF AloneNamed
<1>b43. AloneId
  BY <1>3, <1>4 DEF AloneId
<1>b44. Removing
  BY <1>3, <1>4 DEF Removing
<1>b45. HeardBound
  BY <1>3, <1>4 DEF HeardBound
<1>b46. HeardPlaces
  BY <1>3, <1>4 DEF HeardPlaces
<1>b47. HearCmds
  BY <1>3, <1>4 DEF HearCmds
<1>b48. HearProc
  BY <1>3, <1>4 DEF HearProc
<1>b49. HearRest
  BY <1>3, <1>4 DEF HearRest
<1>b50. HomeTasks
  BY <1>3, <1>4 DEF HomeTasks
<1>b51. HomeEnds
  BY <1>3, <1>4 DEF HomeEnds
<1>b52. NoneDeleted
  BY <1>3, <1>4 DEF NoneDeleted
<1> QED
  BY <1>1, <1>2, <1>b1, <1>b2, <1>b3, <1>b4, <1>b5, <1>b6, <1>b7, <1>b8, <1>b9,
     <1>b10, <1>b11, <1>b12, <1>b13, <1>b14, <1>b15, <1>b16, <1>b17, <1>b18,
     <1>b19, <1>b20, <1>b21, <1>b22, <1>b23, <1>b24, <1>b25, <1>b26, <1>b27,
     <1>b28, <1>b29, <1>b30, <1>b31, <1>b32, <1>b33, <1>b34, <1>b35, <1>b36,
     <1>b37, <1>b38, <1>b39, <1>b40, <1>b41, <1>b42, <1>b43, <1>b44, <1>b45,
     <1>b46, <1>b47, <1>b48, <1>b49, <1>b50, <1>b51, <1>b52 DEF IInv

\* and every step preserves it.
LEMMA Inductive == ASSUME IInv, [Next]_vars PROVE IInv'
<1>1. ASSUME NEW t \in Workers, Body(t) PROVE IInv'
  <2>1. CASE Finish(t)
    BY <2>1, FinishQuietStep, FinishStep
  <2> QED
    BY <1>1, <2>1, WaitStep, BindStep, AddedStep, EmitStep, SyncEmitStep DEF Body
<1>2. ASSUME NEW t \in Workers, Loop(t) PROVE IInv'
  BY <1>2, LoopSteps
<1>3. ASSUME NEW t \in Workers, Process(t) PROVE IInv'
  <2>1. ASSUME NEW e \in Entry, CallStopped(t, e) \/ CallKept(t, e)
          \/ CallWaiting(t, e) PROVE IInv'
    BY <2>1, CallStoppedStep, CallSteps
  <2>2. CASE AddWatcher(t) \/ RemoveWatcher(t) \/ EndEmit(t)
    BY <2>2, CommandSteps
  <2>3. CASE StartProcess(t) \/ EndProcess(t) \/ StartEmit(t) \/ Return(t)
    BY <2>3, StartProcessStep, EndProcessStep, StartEmitStep, ReturnStep
  <2> QED
    BY <1>3, <2>1, <2>2, <2>3 DEF Process
<1>4. ASSUME NEW t \in Workers, NEW u \in Workers, Call(t, u) PROVE IInv'
  BY <1>4, CallStep
<1>5. ASSUME NEW t \in Workers, NEW f \in Fibers, Delete(t, f) PROVE IInv'
  BY <1>5, DeleteStep
<1> QED
  BY <1>1, <1>2, <1>3, <1>4, <1>5, ExpireStep, RaiseStep, Stutter DEF Next

\* The invariant, for every number of workers, fibers, watchers and entries,
\* in both modes.
THEOREM Invariant == Spec => []IInv
<1>1. Init => IInv
  BY Initial
<1>2. IInv /\ [Next]_vars => IInv'
  BY Inductive
<1> QED
  BY <1>1, <1>2, PTL DEF Spec

----------------------------------------------------------------------------
(* The properties *)

\* The entries in use are the ones somebody has.
LEMMA Everywhere == ASSUME IInv PROVE {e \in Entry : ent[e] # NIL} = InFlight
<1>1. \A e : e \in InCommand <=> \E k \in 1 .. Len(cmds) :
        cmds[k].type = "add" /\ cmds[k].e = e
  <2>1. cmds \in Seq(Cmd)
    BY DEF IInv, Types
  <2> QED
    BY <2>1 DEF InCommand, ToSet
<1>2. InFlight \subseteq Entry
  BY <1>1, TProc DEF InFlight, IInv, Commands
<1>3. \A e \in Entry : e \in InFlight <=> ent[e] # NIL
  BY <1>1, Nobody DEF InFlight, IInv, Whereabouts
<1> QED
  BY <1>2, <1>3

\* Nobody who could still find an id in the table finds a fiber that waits
\* for another: fiber.h and fabric.h, resume_fiber and recv.
LEMMA FindsTheWait ==
  ASSUME IInv, NEW p \in table, Answerable(p[1])
  PROVE  waits[p[2]] = p[1]
<1>0. p[1] \in Nat /\ p[1] # 0
  BY TTable DEF IInv, TableIds
<1>1. ASSUME NEW e \in InFlight, ent[e] # NIL, watch[ent[e]].fb # NIL,
             watch[ent[e]].msgid = p[1], ~watch[ent[e]].stopped
      PROVE  waits[p[2]] = p[1]
  <2>1. e \in Entry
    BY Everywhere
  <2>2. ent[e] \in Watchers /\ watch[ent[e]].used
    BY <1>1, <2>1, TEnt DEF IInv, Occupied
  <2> QED
    BY <1>1, <2>2 DEF IInv, Owed
<1>2. ASSUME NEW c \in ToSet(cmds), c.respond = p[1] PROVE waits[p[2]] = p[1]
  <2>1. PICK k \in 1 .. Len(cmds) : cmds[k].respond = p[1]
    BY <1>2, TCmd DEF ToSet
  <2> QED
    BY <2>1, <1>0 DEF IInv, CmdTable
<1>3. CASE proc.respond = p[1]
  BY <1>0, <1>3 DEF IInv, AskedProc, Own
<1>4. ASSUME NEW t \in Workers, NEW k \in ToSet(fque[t]),
             k.type \in {"request", "response"}, k.id = p[1]
      PROVE  waits[p[2]] = p[1]
  <2>1. PICK j \in 1 .. Len(fque[t]) : fque[t][j] = k
    BY <1>4, TFque DEF ToSet
  <2> QED
    BY <2>1, <1>4 DEF IInv, AskedTasks, Own
<1>5. ASSUME NEW f \in Fibers, st[f] # "free", m_endp[f] # NIL, m_endp[f][2] = p[1]
      PROVE  waits[p[2]] = p[1]
  BY <1>5 DEF IInv, AskedEnds, Own
<1> QED
  BY <1>1, <1>2, <1>3, <1>4, <1>5 DEF Answerable

\* The indexes of a queue are the domain of the sequence.
LEMMA Queued ==
  ASSUME IInv, NEW t \in Workers, NEW x \in ToSet(fque[t])
  PROVE  \E k \in 1 .. Len(fque[t]) : fque[t][k] = x
<1>1. fque[t] \in Seq(Tsk)
  BY DEF IInv, Types
<1> QED
  BY <1>1 DEF ToSet

\* Whatever is on its way to a fiber is for the call it is in, and the only one.
LEMMA WokenOnce ==
  ASSUME IInv, NEW f \in Fibers
  PROVE  /\ Cardinality(Wakes(f)) <= 1
         /\ \A k \in Wakes(f) : waits[f] = k[2] /\ InTable(k[2]) = {}
<1>o. Owner(f) \in Workers
  BY Nobody
<1>1. ASSUME NEW x \in ToSet(fque[Owner(f)]), x.type = "resume", x.f = f
      PROVE  /\ waits[f] = x.id /\ InTable(x.id) = {} /\ (late # NIL => late[2] # f)
             /\ \A y \in ToSet(fque[Owner(f)]) : y.type = "resume" /\ y.f = f
                  => y = x
  <2>1. PICK k \in 1 .. Len(fque[Owner(f)]) : fque[Owner(f)][k] = x
    BY <1>o, Queued
  <2>2. waits[f] = x.id /\ InTable(x.id) = {} /\ (late # NIL => late[2] # f)
    BY <1>o, <1>1, <2>1 DEF IInv, ResumeOwn, ResumeGone, ResumeFree, InTable
  <2>3. ASSUME NEW y \in ToSet(fque[Owner(f)]), y.type = "resume", y.f = f PROVE y = x
    <3>1. PICK j \in 1 .. Len(fque[Owner(f)]) : fque[Owner(f)][j] = y
      BY <1>o, Queued
    <3>2. j = k
      BY <1>o, <1>1, <2>1, <2>3, <3>1 DEF IInv, ResumeOnce
    <3> QED
      BY <2>1, <3>1, <3>2
  <2> QED
    BY <2>2, <2>3
<1>2. late # NIL /\ late[2] = f => waits[f] = late[1] /\ InTable(late[1]) = {}
  BY DEF IInv, LateOwn, LateGone, InTable
<1>3. \A a, b \in Wakes(f) : a = b
  BY <1>1 DEF Wakes
<1>4. Cardinality(Wakes(f)) <= 1
  <2>1. CASE Wakes(f) = {}
    BY <2>1, FS_EmptySet
  <2>2. CASE Wakes(f) # {}
    <3>1. PICK a : Wakes(f) = {a}
      BY <2>2, <1>3
    <3>2. Cardinality({a}) = 1
      BY FS_Singleton
    <3> QED
      BY <3>1, <3>2
  <2> QED
    BY <2>1, <2>2
<1>5. \A k \in Wakes(f) : waits[f] = k[2] /\ InTable(k[2]) = {}
  BY <1>1, <1>2 DEF Wakes
<1> QED
  BY <1>4, <1>5

\* A fiber in a call is in the table, with somebody left to find it there, or
\* about to be resumed.
LEMMA Remembered == ASSUME IInv PROVE NotForgotten
<1> SUFFICES ASSUME NEW f \in Fibers, st[f] = "wait"
             PROVE  \/ Wakes(f) # {}
                    \/ /\ <<waits[f], f>> \in table
                       /\ m_w[f] # NIL => Answerable(waits[f])
  BY DEF NotForgotten
<1>o. Owner(f) \in Workers
  BY Nobody
<1>1. waits[f] # 0
  BY DEF IInv, InCall
<1>2. ASSUME NEW p \in table, p[1] = waits[f], p[2] = f
      PROVE  <<waits[f], f>> \in table /\ (m_w[f] # NIL => Answerable(waits[f]))
  <2>1. <<waits[f], f>> \in table
    BY <1>2, TTable
  <2>2. ASSUME m_w[f] # NIL PROVE Answerable(waits[f])
    <3>1. PICK w \in Watchers : w = m_w[f]
      BY <2>2, TMw
    <3>2. /\ watch[w].used /\ watch[w].fb # NIL /\ watch[w].msgid = waits[f]
          /\ ~watch[w].stopped
      BY <2>2, <3>1, Nobody DEF IInv, Held
    <3>3. PICK e \in Entry : ent[e] = w
      BY <3>2 DEF IInv, Entered
    <3>4. e \in InFlight
      BY <3>1, <3>3, Everywhere, Nobody
    <3> QED
      BY <3>2, <3>3, <3>4, Nobody DEF Answerable
  <2> QED
    BY <2>1, <2>2
<1>3. ASSUME NEW k \in 1 .. Len(fque[Owner(f)]),
             fque[Owner(f)][k].type = "resume", fque[Owner(f)][k].f = f
      PROVE  Wakes(f) # {}
  <2>1. fque[Owner(f)][k] \in ToSet(fque[Owner(f)])
    <3>1. fque[Owner(f)] \in Seq(Tsk)
      BY <1>o DEF IInv, Types
    <3> QED
      BY <3>1 DEF ToSet
  <2> QED
    BY <1>3, <2>1 DEF Wakes
<1>4. CASE late # NIL /\ late[2] = f
  BY <1>4 DEF Wakes
<1> QED
  BY <1>1, <1>2, <1>3, <1>4 DEF IInv, Reached

\* fiber.h, fabric.h: a fiber is resumed for the call it is in, and once, and
\* no fiber is left without somebody to resume it, whoever answers, times out
\* or deletes, in whatever order.
THEOREM ResumedForItsCall == Spec => []WakesItsWait
<1>1. IInv => WakesItsWait
  BY FindsTheWait, WokenOnce, Remembered DEF WakesItsWait
<1> QED
  BY <1>1, Invariant, PTL

\* fiber.hpp and ll/lua/emitter/base.hpp: the watcher a fiber holds is its own,
\* in use, of this call; a watcher in use has one entry, which is in one place.
THEOREM HoldsOne == Spec => []HoldsItsWatcher
<1>1. ASSUME IInv PROVE HoldsItsWatcher
  <2>1. TypeOK
    <3>1. table \subseteq (1 .. seed) \X Fibers
      BY <1>1, TTable DEF IInv, TableIds
    <3>2. \A t \in Workers : cur[t] # NIL => Owner(cur[t]) = t /\ st[cur[t]] = "run"
      BY <1>1, TCur DEF IInv, OnOwner, Running
    <3> QED
      BY <1>1, <3>1, <3>2 DEF TypeOK, IInv, Types
  <2>2. ASSUME NEW f \in Fibers, m_w[f] # NIL
        PROVE  /\ watch[m_w[f]].used /\ watch[m_w[f]].fb = f
               /\ watch[m_w[f]].msgid = waits[f]
               /\ Solo /\ st[f] = "wait" => ent[watch[m_w[f]].entry] = m_w[f]
    <3>1. m_w[f] \in Watchers
      BY <1>1, <2>2, TMw
    <3>2. /\ watch[m_w[f]].used /\ watch[m_w[f]].fb = f
          /\ watch[m_w[f]].msgid = waits[f]
      BY <1>1, <2>2 DEF IInv, Held
    <3>3. ASSUME Solo, st[f] = "wait", NEW t \in Workers, add[t] # NIL, add[t][1] = m_w[f]
          PROVE  FALSE
      <4>1. cur[t] # NIL /\ waits[cur[t]] = waits[f]
        BY <1>1, <3>2, <3>3 DEF IInv, Adding, AloneId
      <4>2. cur[t] \in Fibers /\ st[cur[t]] = "run"
        BY <1>1, <4>1, TCur DEF IInv, OnOwner, Running
      <4>3. waits[f] # 0
        BY <1>1, <3>3 DEF IInv, InCall
      <4> QED
        BY <1>1, <3>3, <4>1, <4>2, <4>3 DEF IInv, WaitOnce
    <3> QED
      BY <1>1, <3>1, <3>2, <3>3 DEF IInv, AloneNamed
  <2>3. ASSUME NEW w \in Watchers, watch[w].used
        PROVE  /\ Cardinality({e \in Entry : ent[e] = w}) = 1
               /\ <<watch[w].msgid, watch[w].fb>> \in table /\ ~watch[w].stopped
                    => m_w[watch[w].fb] = w
    <3>1. PICK e \in Entry : {d \in Entry : ent[d] = w} = {e}
      <4>1. PICK e \in Entry : ent[e] = w
        BY <1>1, <2>3 DEF IInv, Entered
      <4>2. \A d \in Entry : ent[d] = w => d = e
        BY <1>1, <4>1, Nobody DEF IInv, OneEntry
      <4> QED
        BY <4>1, <4>2
    <3>2. Cardinality({e}) = 1
      BY FS_Singleton
    <3>3. ASSUME <<watch[w].msgid, watch[w].fb>> \in table, ~watch[w].stopped
          PROVE  m_w[watch[w].fb] = w
      <4>1. PICK p \in table : p = <<watch[w].msgid, watch[w].fb>>
        BY <3>3
      <4>2. p[1] = watch[w].msgid /\ p[2] = watch[w].fb
        BY <4>1
      <4> QED
        BY <1>1, <2>3, <3>3, <4>2 DEF IInv, Sole
    <3> QED
      BY <3>1, <3>2, <3>3
  <2>4. {e \in Entry : ent[e] # NIL} = InFlight
    BY <1>1, Everywhere
  <2> QED
    BY <2>1, <2>2, <2>3, <2>4 DEF HoldsItsWatcher
<1> QED
  BY <1>1, Invariant, PTL

\* ll/lua/emitter/base.hpp, yue.lua: an event that is emitted after bind
\* returned is offered to the bound function before the emit is over.
THEOREM BoundIsHeard == Spec => []BoundHears
<1>1. ASSUME IInv, proc.rest = {}, NEW w \in proc.hear PROVE FALSE
  <2>1. w \in heard /\ w \in Watchers
    BY <1>1, THear DEF IInv, HearProc
  <2>2. PICK e \in Entry : ent[e] = w
    BY <1>1, <2>1 DEF IInv, HeardBound, Entered
  <2> QED
    BY <1>1, <2>2 DEF IInv, HearRest
<1>2. IInv => BoundHears
  BY <1>1 DEF BoundHears
<1> QED
  BY <1>2, Invariant, PTL

\* emittable.h:395: a remove_watcher that finds its entry in use again takes
\* off a watcher that was stopped, never one whose fiber waits.
THEOREM RemovesNoOther == Spec => RemovesOwn
<1> DEFINE Removed == \A e \in Entry :
      (cmds # <<>> /\ Head(cmds) = Command("remove", e, 0, {}) /\ cmds' = Tail(cmds) /\ e \in list)
        => watch[ent[e]].stopped /\ \A f \in Fibers : m_w[f] # ent[e]
<1>1. ASSUME IInv, NEW e \in Entry, cmds # <<>>,
             Head(cmds) = Command("remove", e, 0, {}), e \in list
      PROVE  watch[ent[e]].stopped /\ \A f \in Fibers : m_w[f] # ent[e]
  <2>1. 1 \in 1 .. Len(cmds) /\ cmds[1] = Head(cmds)
    BY <1>1 DEF IInv, Types
  <2>2. cmds[1].type = "remove" /\ cmds[1].e = e
    BY <1>1, <2>1 DEF Command
  <2>3. /\ ent[e] # NIL
        /\ \A j \in 1 .. Len(cmds) : cmds[j].type = "add" => cmds[j].e # e
    BY <1>1 DEF IInv, Whereabouts, CmdApart
  <2>4. watch[ent[e]].stopped
    BY <1>1, <2>1, <2>2, <2>3 DEF IInv, Removing
  <2> QED
    BY <1>1, <2>3, <2>4 DEF IInv, Held
<1>2. IInv => Removed
  BY <1>1
<1> QED
  BY <1>2, Invariant, PTL DEF RemovesOwn
==============================================================================
