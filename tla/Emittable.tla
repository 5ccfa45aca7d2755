----------------------------- MODULE Emittable -----------------------------
(***************************************************************************)
(* The command queue of one emitter (src/emittable.h, src/emittable.hpp)   *)
(* and the hand-over of the emitter between the worker threads.            *)
(*                                                                         *)
(* Any thread may call emit, emit_one, add_watcher or remove_watcher: each *)
(* of them links a command under m_mtx and then tries to claim m_owner with*)
(* a compare-and-swap.  The thread that wins pushes a type_emit task on the*)
(* fabric queue of its own server; when that task runs, the thread takes   *)
(* the whole list, executes it, gives m_owner back and looks at m_head once*)
(* more without the mutex.  A task holds a reference on the emitter, and so*)
(* does every Lua VM that uses it; dropping the last one finalizes it.     *)
(*                                                                         *)
(* A command is its submission number: what a command does to the list of  *)
(* watchers is the subject of module WatchList.                            *)
(*                                                                         *)
(* Definitions marked "Slip" are wrong variants of the definition that     *)
(* follows them; the properties are required to notice each of them.       *)
(***************************************************************************)
EXTENDS Integers, Sequences, FiniteSets, FiniteSetTheorems, TLAPS

CONSTANTS
  Threads,       \* worker threads, each with a server and its fabric queue
  NULL,          \* no thread: m_owner == NULL
  MaxCommands    \* bound on the commands submitted

ASSUME ThreadsAssumption ==
  NULL \notin Threads /\ IsFiniteSet(Threads) /\ Threads # {}
ASSUME MaxAssumption == MaxCommands \in Nat

VARIABLES
  cmds,       \* the list m_head .. m_tail
  owner,      \* m_owner
  refc,       \* m_refc
  dying,      \* F_DYING: the finalizer ran
  held,       \* held[t]: the VM of t refers the emitter
  fque,       \* fque[t]: type_emit tasks of this emitter in the fabric queue of t
  add,        \* add[t]: where t is in add_command
  proc,       \* proc[t]: where t is in the type_emit task
  batch,      \* batch[t]: what is left of the list t took in process_commands
  submitted,  \* commands linked so far
  executed    \* history: the commands executed, in order

vars == <<cmds, owner, refc, dying, held, fque, add, proc, batch, submitted, executed>>

\* "cas" and "push" are the two halves of add_command after the list is unlocked.
AddStep == {"idle", "cas", "push"}

\* "call" is a watcher or a resumed fiber running inside process_commands.
ProcStep == {"idle", "enter", "run", "call", "check", "claim", "push", "unref"}

Init ==
  /\ cmds = <<>>
  /\ owner = NULL
  /\ refc = Cardinality(Threads)
  /\ dying = FALSE
  /\ held = [t \in Threads |-> TRUE]
  /\ fque = [t \in Threads |-> 0]
  /\ add = [t \in Threads |-> "idle"]
  /\ proc = [t \in Threads |-> "idle"]
  /\ batch = [t \in Threads |-> <<>>]
  /\ submitted = 0
  /\ executed = <<>>

\* Program code of t outside this module runs: a handler or a fiber of the
\* event loop, or a callback called by process_commands.
InUserCode(t) == add[t] = "idle" /\ proc[t] \in {"idle", "call"}

\* Such code reaches the emitter through the reference of its VM, or through
\* the one the running task holds.
MayCall(t) == InUserCode(t) /\ (held[t] \/ proc[t] = "call")

----------------------------------------------------------------------------
(* add_command, called by emit, emit_one, add_watcher and remove_watcher.   *)

\* m_mtx is held while the command is linked at m_tail.
Submit(t) ==
  /\ MayCall(t)
  /\ ~dying
  /\ submitted < MaxCommands
  /\ submitted' = submitted + 1
  /\ cmds' = Append(cmds, submitted + 1)
  /\ add' = [add EXCEPT ![t] = "cas"]
  /\ UNCHANGED <<owner, refc, dying, held, fque, proc, batch, executed>>

\* The compare-and-swap of m_owner.
Claim(t) ==
  /\ add[t] = "cas"
  /\ \/ /\ owner = NULL
        /\ owner' = t
        /\ add' = [add EXCEPT ![t] = "push"]
     \/ /\ owner # NULL
        /\ add' = [add EXCEPT ![t] = "idle"]
        /\ UNCHANGED owner
  /\ UNCHANGED <<cmds, refc, dying, held, fque, proc, batch, submitted, executed>>

\* push: a task is built, which refers the emitter, and queued on the
\* calling thread's own server.
QueueTask(t) ==
  /\ refc' = refc + 1
  /\ fque' = [fque EXCEPT ![t] = @ + 1]

Push(t) ==
  /\ add[t] = "push"
  /\ QueueTask(t)
  /\ add' = [add EXCEPT ![t] = "idle"]
  /\ UNCHANGED <<cmds, owner, dying, held, proc, batch, submitted, executed>>

----------------------------------------------------------------------------
(* The type_emit task: process_commands, then the task's reference is        *)
(* dropped.  While a callback is inside add_command the task stands still.  *)

\* server::poll pops the task.
StartTask(t) ==
  /\ proc[t] = "idle" /\ add[t] = "idle"
  /\ fque[t] > 0
  /\ fque' = [fque EXCEPT ![t] = @ - 1]
  /\ proc' = [proc EXCEPT ![t] = "enter"]
  /\ UNCHANGED <<cmds, owner, refc, dying, held, add, batch, submitted, executed>>

\* Slip: the list is read but m_head and m_tail are not reset.
TakeAndKeep(t) ==
  /\ proc[t] = "enter"
  /\ batch' = [batch EXCEPT ![t] = cmds]
  /\ proc' = [proc EXCEPT ![t] = "run"]
  /\ UNCHANGED <<cmds, owner, refc, dying, held, fque, add, submitted, executed>>

\* Slip: m_owner is given back as soon as the list was taken.
TakeAndRelease(t) ==
  /\ proc[t] = "enter"
  /\ batch' = [batch EXCEPT ![t] = cmds]
  /\ cmds' = <<>>
  /\ owner' = NULL
  /\ proc' = [proc EXCEPT ![t] = "run"]
  /\ UNCHANGED <<refc, dying, held, fque, add, submitted, executed>>

\* The whole list is taken under m_mtx.
Take(t) ==
  /\ proc[t] = "enter"
  /\ batch' = [batch EXCEPT ![t] = cmds]
  /\ cmds' = <<>>
  /\ proc' = [proc EXCEPT ![t] = "run"]
  /\ UNCHANGED <<owner, refc, dying, held, fque, add, submitted, executed>>

\* One command: its watchers are called, the fiber waiting for it is resumed.
Execute(t) ==
  /\ proc[t] = "run"
  /\ batch[t] # <<>>
  /\ executed' = Append(executed, Head(batch[t]))
  /\ batch' = [batch EXCEPT ![t] = Tail(@)]
  /\ proc' = [proc EXCEPT ![t] = "call"]
  /\ UNCHANGED <<cmds, owner, refc, dying, held, fque, add, submitted>>

Return(t) ==
  /\ proc[t] = "call" /\ add[t] = "idle"
  /\ proc' = [proc EXCEPT ![t] = "run"]
  /\ UNCHANGED <<cmds, owner, refc, dying, held, fque, add, batch, submitted, executed>>

\* m_owner = NULL: from here another thread may claim the emitter.
Release(t) ==
  /\ proc[t] = "run"
  /\ batch[t] = <<>>
  /\ owner' = NULL
  /\ proc' = [proc EXCEPT ![t] = "check"]
  /\ UNCHANGED <<cmds, refc, dying, held, fque, add, batch, submitted, executed>>

\* Slip: the emitter is left without a second look at m_head.
RecheckNever(t) ==
  /\ proc[t] = "check"
  /\ proc' = [proc EXCEPT ![t] = "unref"]
  /\ UNCHANGED <<cmds, owner, refc, dying, held, fque, add, batch, submitted, executed>>

\* m_head is read after the release, without the mutex.
Recheck(t) ==
  /\ proc[t] = "check"
  /\ proc' = [proc EXCEPT ![t] = IF cmds # <<>> THEN "claim" ELSE "unref"]
  /\ UNCHANGED <<cmds, owner, refc, dying, held, fque, add, batch, submitted, executed>>

Reclaim(t) ==
  /\ proc[t] = "claim"
  /\ \/ /\ owner = NULL
        /\ owner' = t
        /\ proc' = [proc EXCEPT ![t] = "push"]
     \/ /\ owner # NULL
        /\ proc' = [proc EXCEPT ![t] = "unref"]
        /\ UNCHANGED owner
  /\ UNCHANGED <<cmds, refc, dying, held, fque, add, batch, submitted, executed>>

Repush(t) ==
  /\ proc[t] = "push"
  /\ QueueTask(t)
  /\ proc' = [proc EXCEPT ![t] = "unref"]
  /\ UNCHANGED <<cmds, owner, dying, held, add, batch, submitted, executed>>

\* emittable::unref: whoever drops the last reference runs the finalizer.
DropRef ==
  /\ refc' = refc - 1
  /\ dying' = (dying \/ refc <= 1)

\* Slip: process_commands returns early and the task's reference leaks.
FinishTaskReferred(t) ==
  /\ proc[t] = "unref"
  /\ proc' = [proc EXCEPT ![t] = "idle"]
  /\ UNCHANGED <<cmds, owner, refc, dying, held, fque, add, batch, submitted, executed>>

FinishTask(t) ==
  /\ proc[t] = "unref"
  /\ DropRef
  /\ proc' = [proc EXCEPT ![t] = "idle"]
  /\ UNCHANGED <<cmds, owner, held, fque, add, batch, submitted, executed>>

----------------------------------------------------------------------------
(* The reference of a VM (yue_emitter_refer, yue_emitter_unref): taken when *)
(* a callback hands the emitter to a VM that did not have it, dropped by    *)
(* the collector or a close at any time that VM runs.                       *)

\* Slip: a VM refers the emitter through a bare pointer it kept.
VmReferStale(t) ==
  /\ InUserCode(t)
  /\ ~held[t]
  /\ held' = [held EXCEPT ![t] = TRUE]
  /\ refc' = refc + 1
  /\ UNCHANGED <<cmds, owner, dying, fque, add, proc, batch, submitted, executed>>

VmRefer(t) ==
  /\ proc[t] = "call" /\ add[t] = "idle"
  /\ ~held[t]
  /\ held' = [held EXCEPT ![t] = TRUE]
  /\ refc' = refc + 1
  /\ UNCHANGED <<cmds, owner, dying, fque, add, proc, batch, submitted, executed>>

VmUnref(t) ==
  /\ InUserCode(t)
  /\ held[t]
  /\ held' = [held EXCEPT ![t] = FALSE]
  /\ DropRef
  /\ UNCHANGED <<cmds, owner, fque, add, proc, batch, submitted, executed>>

----------------------------------------------------------------------------

\* What a thread does by itself once it has started it.
Step(t) ==
  \/ Claim(t) \/ Push(t)
  \/ StartTask(t) \/ Take(t) \/ Execute(t) \/ Return(t)
  \/ Release(t) \/ Recheck(t) \/ Reclaim(t) \/ Repush(t) \/ FinishTask(t)

Next ==
  \E t \in Threads : Step(t) \/ Submit(t) \/ VmRefer(t) \/ VmUnref(t)

SafeSpec == Init /\ [][Next]_vars

\* A worker thread runs its loop for ever: it finishes the call it is in and
\* drains its fabric queue before it polls again.
Spec == SafeSpec /\ \A t \in Threads : WF_vars(Step(t))

----------------------------------------------------------------------------
(* What must hold of the command queue of an emitter *)

\* Types of the variables; the steps and the counters stay in range.
TypeOK ==
  /\ cmds \in Seq(Nat)
  /\ owner \in Threads \cup {NULL}
  /\ refc \in Int
  /\ dying \in BOOLEAN
  /\ held \in [Threads -> BOOLEAN]
  /\ fque \in [Threads -> Nat]
  /\ add \in [Threads -> AddStep]
  /\ proc \in [Threads -> ProcStep]
  /\ batch \in [Threads -> Seq(Nat)]
  /\ submitted \in Nat
  /\ executed \in Seq(Nat)

\* t is between the entry of process_commands and "m_owner = NULL".
Processing(t) == proc[t] \in {"enter", "run", "call"}

\* t won the compare-and-swap and has not queued its task yet.
Claimed(t) == add[t] = "push" \/ proc[t] = "push"

\* The watcher list has no lock of its own: process_commands runs on one
\* thread at a time, and "ASSERT(m_owner == util::thread::current())" holds
\* in it from the first line to the release (emittable.hpp:44).
OwnerProcesses == \A t \in Threads : Processing(t) => owner = t

\* The claim is neither lost nor doubled: an owned emitter has exactly one
\* thread that queues, carries or runs its task, and it is m_owner; a free
\* one has none (push is called by the winner of the compare-and-swap only).
OneTaskPerClaim ==
  \A t \in Threads :
    /\ (owner = t) <=> (Claimed(t) \/ fque[t] > 0 \/ Processing(t))
    /\ fque[t] <= 1
    /\ fque[t] = 1 => ~Claimed(t) /\ ~Processing(t)
    /\ Claimed(t) => ~Processing(t)
    /\ add[t] = "push" => proc[t] # "push"

\* The two together: whoever may touch the watchers is the one thread that
\* took the claim, whatever threads add commands meanwhile.
OneProcessor == OwnerProcesses /\ OneTaskPerClaim

\* No command is stranded: while the list is not empty, somebody owns the
\* emitter or is about to try, whatever the order of "m_owner = NULL", the
\* read of m_head and the compare-and-swap of a thread that just linked one.
NotStranded ==
  cmds # <<>> =>
    \/ owner # NULL
    \/ \E t \in Threads : add[t] = "cas" \/ proc[t] \in {"check", "claim"}

\* Commands are executed in the order in which add_command linked them, each
\* at most once, whichever threads executed them.
InOrder == \A i \in 1 .. Len(executed) : executed[i] = i

\* Every reference is accounted for: one for each VM that holds the emitter,
\* one for each queued task and one for each task being run, from the
\* construction of the task to its UNREF_EMWRAP (fiber.hpp:393).
RefsAccounted ==
  refc =
    Cardinality({t \in Threads : held[t]})
    + Cardinality({t \in Threads : fque[t] > 0})
    + Cardinality({t \in Threads : proc[t] # "idle"})

\* The finalizer never runs under anybody's feet: once it ran, no task of the
\* emitter is queued or running, nobody is in add_command, no VM refers it
\* and no command was dropped with it (unref, emittable.h:227).
FinalizedUnused ==
  dying =>
    /\ refc = 0
    /\ cmds = <<>>
    /\ \A t \in Threads :
         ~held[t] /\ fque[t] = 0 /\ add[t] = "idle" /\ proc[t] = "idle"

\* The two together: the count is right, so the finalizer comes last.
References == RefsAccounted /\ FinalizedUnused

\* The finalizer runs once and nobody refers the emitter again after it
\* (refer, unref: "ASSERT(!dying())", emittable.h:183 and 197).
NoResurrection == [][dying => UNCHANGED <<refc, dying>>]_vars

\* The emitter implements the abstract command stream.
Stream ==
  INSTANCE CommandStream WITH executed <- Len(executed), gone <- dying
ImplementsStream == Stream!Spec

----------------------------------------------------------------------------
(* Theorems, for any finite set of threads and any number of commands.     *)
(*                                                                         *)
(* The inductive invariant is Ind: types, the nesting of add_command in a  *)
(* callback, and the accounting of the claim.  Everything about who runs   *)
(* process_commands follows from it.  Order adds the numbering of the      *)
(* commands that are on their way, Refs the accounting of the references.  *)

\* add_command is entered from user code only: outside the task or in a callback.
Nesting == \A t \in Threads : add[t] # "idle" => proc[t] \in {"idle", "call"}

Ind == TypeOK /\ Nesting /\ OneTaskPerClaim

\* The fields of emittable, the queues and the places of the threads keep their
\* types; the type_emit tasks of a queue are never fewer than none.
THEOREM TypeCorrect == SafeSpec => []TypeOK
<1> USE ThreadsAssumption, MaxAssumption DEF TypeOK, AddStep, ProcStep
<1>1. Init => TypeOK
  <2> SUFFICES ASSUME Init PROVE TypeOK
    OBVIOUS
  <2>1. Cardinality(Threads) \in Nat
    <3>1. IsFiniteSet(Threads)
      OBVIOUS
    <3> QED
      BY <3>1, FS_CardinalityType
  <2>2. cmds \in Seq(Nat) /\ executed \in Seq(Nat)
    BY DEF Init
  <2>3. batch \in [Threads -> Seq(Nat)]
    BY DEF Init
  <2>4. held \in [Threads -> BOOLEAN] /\ dying \in BOOLEAN
    BY DEF Init
  <2>5. fque \in [Threads -> Nat] /\ submitted \in Nat /\ refc \in Int
    BY <2>1 DEF Init
  <2>6. add \in [Threads -> AddStep] /\ proc \in [Threads -> ProcStep]
    BY DEF Init
  <2> QED
    BY <2>2, <2>3, <2>4, <2>5, <2>6 DEF Init
<1>2. TypeOK /\ [Next]_vars => TypeOK'
  <2> SUFFICES ASSUME TypeOK, [Next]_vars PROVE TypeOK'
    OBVIOUS
  <2>1. CASE UNCHANGED vars
    BY <2>1 DEF vars
  <2>2. ASSUME NEW t \in Threads, Submit(t) PROVE TypeOK'
    BY <2>2 DEF Submit, MayCall, InUserCode
  <2>3. ASSUME NEW t \in Threads, Claim(t) PROVE TypeOK'
    BY <2>3 DEF Claim
  <2>4. ASSUME NEW t \in Threads, Push(t) PROVE TypeOK'
    BY <2>4 DEF Push, QueueTask
  <2>5. ASSUME NEW t \in Threads, StartTask(t) PROVE TypeOK'
    BY <2>5, SMTT(30) DEF StartTask
  <2>6. ASSUME NEW t \in Threads, Take(t) PROVE TypeOK'
    BY <2>6 DEF Take
  <2>7. ASSUME NEW t \in Threads, Execute(t) PROVE TypeOK'
    BY <2>7, SMTT(30) DEF Execute
  <2>8. ASSUME NEW t \in Threads, Return(t) PROVE TypeOK'
    BY <2>8 DEF Return
  <2>9. ASSUME NEW t \in Threads, Release(t) PROVE TypeOK'
    BY <2>9 DEF Release
  <2>10. ASSUME NEW t \in Threads, Recheck(t) PROVE TypeOK'
    BY <2>10 DEF Recheck
  <2>11. ASSUME NEW t \in Threads, Reclaim(t) PROVE TypeOK'
    BY <2>11 DEF Reclaim
  <2>12. ASSUME NEW t \in Threads, Repush(t) PROVE TypeOK'
    BY <2>12 DEF Repush, QueueTask
  <2>13. ASSUME NEW t \in Threads, FinishTask(t) PROVE TypeOK'
    BY <2>13 DEF FinishTask, DropRef
  <2>14. ASSUME NEW t \in Threads, VmRefer(t) PROVE TypeOK'
    BY <2>14 DEF VmRefer
  <2>15. ASSUME NEW t \in Threads, VmUnref(t) PROVE TypeOK'
    BY <2>15 DEF VmUnref, DropRef
  <2> QED
    BY <2>1, <2>2, <2>3, <2>4, <2>5, <2>6, <2>7, <2>8, <2>9, <2>10, <2>11,
       <2>12, <2>13, <2>14, <2>15 DEF Next, Step
<1> QED
  BY <1>1, <1>2, PTL DEF SafeSpec

\* One step keeps the accounting of the claim: only the winner of the
\* compare-and-swap queues a task, and only the task it queued releases.
LEMMA ClaimStep ==
  ASSUME Ind, [Next]_vars
  PROVE  (Nesting /\ OneTaskPerClaim)'
<1> USE ThreadsAssumption
    DEF Ind, TypeOK, AddStep, ProcStep, Nesting, OneTaskPerClaim, Claimed, Processing
<1>1. CASE UNCHANGED vars
  BY <1>1 DEF vars
<1>2. ASSUME NEW t \in Threads, Submit(t) PROVE (Nesting /\ OneTaskPerClaim)'
  BY <1>2 DEF Submit, MayCall, InUserCode
<1>3. ASSUME NEW t \in Threads, Claim(t) PROVE (Nesting /\ OneTaskPerClaim)'
  BY <1>3 DEF Claim
<1>4. ASSUME NEW t \in Threads, Push(t) PROVE (Nesting /\ OneTaskPerClaim)'
  BY <1>4 DEF Push, QueueTask
<1>5. ASSUME NEW t \in Threads, StartTask(t) PROVE (Nesting /\ OneTaskPerClaim)'
  BY <1>5 DEF StartTask
<1>6. ASSUME NEW t \in Threads, Take(t) PROVE (Nesting /\ OneTaskPerClaim)'
  BY <1>6 DEF Take
<1>7. ASSUME NEW t \in Threads, Execute(t) PROVE (Nesting /\ OneTaskPerClaim)'
  BY <1>7 DEF Execute
<1>8. ASSUME NEW t \in Threads, Return(t) PROVE (Nesting /\ OneTaskPerClaim)'
  BY <1>8 DEF Return
<1>9. ASSUME NEW t \in Threads, Release(t) PROVE (Nesting /\ OneTaskPerClaim)'
  BY <1>9 DEF Release
<1>10. ASSUME NEW t \in Threads, Recheck(t) PROVE (Nesting /\ OneTaskPerClaim)'
  BY <1>10 DEF Recheck
<1>11. ASSUME NEW t \in Threads, Reclaim(t) PROVE (Nesting /\ OneTaskPerClaim)'
  <2>1. add[t] = "idle"
    BY <1>11 DEF Reclaim
  <2>2. CASE owner = NULL
    <3>1. owner' = t /\ proc' = [proc EXCEPT ![t] = "push"]
      BY <2>2, <1>11 DEF Reclaim
    <3> QED
      BY <2>1, <2>2, <3>1, <1>11 DEF Reclaim
  <2>3. CASE owner # NULL
    <3>1. /\ proc[t] = "claim" /\ owner' = owner /\ add' = add /\ fque' = fque
          /\ proc' = [proc EXCEPT ![t] = "unref"]
      BY <2>3, <1>11 DEF Reclaim
    <3>2. \A u \in Threads : (Processing(u)' <=> Processing(u)) /\ (Claimed(u)' <=> Claimed(u))
      BY <3>1
    <3>3. Nesting'
      BY <2>1, <3>1
    <3> HIDE DEF Claimed, Processing
    <3>4. OneTaskPerClaim'
      <4>1. \A u \in Threads : add'[u] = "push" => proc'[u] # "push"
        BY <3>1
      <4> QED
        BY <3>1, <3>2, <4>1
    <3> QED
      BY <3>3, <3>4
  <2> QED
    BY <2>2, <2>3
<1>12. ASSUME NEW t \in Threads, Repush(t) PROVE (Nesting /\ OneTaskPerClaim)'
  BY <1>12 DEF Repush, QueueTask
<1>13. ASSUME NEW t \in Threads, FinishTask(t) PROVE (Nesting /\ OneTaskPerClaim)'
  BY <1>13 DEF FinishTask
<1>14. ASSUME NEW t \in Threads, VmRefer(t) PROVE (Nesting /\ OneTaskPerClaim)'
  BY <1>14 DEF VmRefer
<1>15. ASSUME NEW t \in Threads, VmUnref(t) PROVE (Nesting /\ OneTaskPerClaim)'
  BY <1>15 DEF VmUnref, InUserCode
<1> QED
  BY <1>1, <1>2, <1>3, <1>4, <1>5, <1>6, <1>7, <1>8, <1>9, <1>10, <1>11,
     <1>12, <1>13, <1>14, <1>15 DEF Next, Step

\* Ind holds throughout: whatever the order in which the threads of server::poll
\* take their steps, the compare-and-swap of m_owner lets one of them through.
LEMMA Invariant == SafeSpec => []Ind
<1>1. Init => Nesting /\ OneTaskPerClaim
  BY ThreadsAssumption DEF Init, Nesting, OneTaskPerClaim, Claimed, Processing
<1>2. TypeOK /\ Nesting /\ OneTaskPerClaim /\ [Next]_vars
        => (Nesting /\ OneTaskPerClaim)'
  BY ClaimStep DEF Ind
<1> QED
  BY <1>1, <1>2, TypeCorrect, PTL DEF SafeSpec, Ind

\* One claim, one task (emittable.hpp:38 and 86).
THEOREM OneTask == SafeSpec => []OneTaskPerClaim
BY Invariant, PTL DEF Ind

\* process_commands is never entered by two threads, its assertion on m_owner
\* holds (emittable.hpp:44), and a claim is neither lost nor doubled.
THEOREM MutualExclusion == SafeSpec => []OneProcessor
<1>1. Ind => OneProcessor
  BY DEF Ind, OneProcessor, OneTaskPerClaim, OwnerProcesses
<1> QED
  BY <1>1, Invariant, PTL

----------------------------------------------------------------------------
\* One step strands no command: a thread that links one goes on to the
\* compare-and-swap of m_owner, and a thread that releases m_owner goes on to
\* look at m_head (emittable.hpp:38 and 81).
LEMMA StrandStep ==
  ASSUME Ind, NotStranded, [Next]_vars
  PROVE  NotStranded'
<1> USE ThreadsAssumption DEF Ind, TypeOK, AddStep, ProcStep, NotStranded
<1>1. CASE UNCHANGED vars
  BY <1>1 DEF vars
<1>2. ASSUME NEW t \in Threads, Submit(t) PROVE NotStranded'
  BY <1>2 DEF Submit, MayCall, InUserCode
<1>3. ASSUME NEW t \in Threads, Claim(t) PROVE NotStranded'
  BY <1>3 DEF Claim
<1>4. ASSUME NEW t \in Threads, Push(t) PROVE NotStranded'
  BY <1>4 DEF Push, QueueTask
<1>5. ASSUME NEW t \in Threads, StartTask(t) PROVE NotStranded'
  BY <1>5 DEF StartTask
<1>6. ASSUME NEW t \in Threads, Take(t) PROVE NotStranded'
  BY <1>6 DEF Take
<1>7. ASSUME NEW t \in Threads, Execute(t) PROVE NotStranded'
  BY <1>7 DEF Execute
<1>8. ASSUME NEW t \in Threads, Return(t) PROVE NotStranded'
  BY <1>8 DEF Return
<1>9. ASSUME NEW t \in Threads, Release(t) PROVE NotStranded'
  BY <1>9 DEF Release
<1>10. ASSUME NEW t \in Threads, Recheck(t) PROVE NotStranded'
  BY <1>10 DEF Recheck
<1>11. ASSUME NEW t \in Threads, Reclaim(t) PROVE NotStranded'
  BY <1>11 DEF Reclaim
<1>12. ASSUME NEW t \in Threads, Repush(t) PROVE NotStranded'
  BY <1>12 DEF Repush, QueueTask
<1>13. ASSUME NEW t \in Threads, FinishTask(t) PROVE NotStranded'
  BY <1>13 DEF FinishTask, DropRef
<1>14. ASSUME NEW t \in Threads, VmRefer(t) PROVE NotStranded'
  BY <1>14 DEF VmRefer
<1>15. ASSUME NEW t \in Threads, VmUnref(t) PROVE NotStranded'
  BY <1>15 DEF VmUnref, InUserCode, DropRef
<1> QED
  BY <1>1, <1>2, <1>3, <1>4, <1>5, <1>6, <1>7, <1>8, <1>9, <1>10, <1>11,
     <1>12, <1>13, <1>14, <1>15 DEF Next, Step

\* A command that is linked always has a thread that will see it: the release
\* of m_owner and the unlocked read of m_head lose none (emittable.hpp:81-82).
THEOREM NoCommandStranded == SafeSpec => []NotStranded
<1>1. Init => NotStranded
  BY DEF Init, NotStranded
<1> QED
  BY <1>1, StrandStep, Invariant, PTL DEF SafeSpec

----------------------------------------------------------------------------
\* t holds a list it took and has not finished it.
Running(t) == proc[t] \in {"run", "call"}

\* The commands in s are the ones submitted after the first base ones.
Numbered(s, base) == \A i \in 1 .. Len(s) : s[i] = base + i

\* What is executed, what a running thread still holds and what is linked are
\* consecutive pieces of the submissions.
Order ==
  /\ Numbered(executed, 0)
  /\ \A t \in Threads :
       IF Running(t)
         THEN /\ Numbered(batch[t], Len(executed))
              /\ Numbered(cmds, Len(executed) + Len(batch[t]))
              /\ submitted = Len(executed) + Len(batch[t]) + Len(cmds)
         ELSE batch[t] = <<>>
  /\ (\A t \in Threads : ~Running(t)) =>
       /\ Numbered(cmds, Len(executed))
       /\ submitted = Len(executed) + Len(cmds)

\* add_command links the next command behind consecutive ones.
LEMMA NumberedAppend ==
  ASSUME NEW s \in Seq(Nat), NEW base \in Nat, Numbered(s, base)
  PROVE  Numbered(Append(s, base + Len(s) + 1), base)
<1> DEFINE a == Append(s, base + Len(s) + 1)
<1>1. /\ Len(s) \in Nat /\ Len(a) = Len(s) + 1
      /\ \A i \in 1 .. Len(s) : a[i] = s[i]
      /\ a[Len(s) + 1] = base + (Len(s) + 1)
  OBVIOUS
<1> QED
  BY <1>1 DEF Numbered

\* process_commands takes the first of consecutive commands off its list.
LEMMA NumberedTail ==
  ASSUME NEW s \in Seq(Nat), NEW base \in Nat, Numbered(s, base), s # <<>>
  PROVE  /\ Head(s) = base + 1
         /\ Numbered(Tail(s), base + 1)
         /\ Len(s) = Len(Tail(s)) + 1
<1>1. /\ Len(s) \in Nat /\ Len(s) > 0
      /\ Len(Tail(s)) = Len(s) - 1
      /\ \A i \in 1 .. Len(Tail(s)) : Tail(s)[i] = s[i + 1]
      /\ Head(s) = s[1]
  OBVIOUS
<1> QED
  BY <1>1 DEF Numbered

\* One step keeps the numbering: add_command appends at m_tail, and
\* process_commands takes the list as a whole and executes it from its head.
LEMMA OrderStep ==
  ASSUME Ind, Order, [Next]_vars
  PROVE  Order'
<1>0. /\ cmds \in Seq(Nat) /\ executed \in Seq(Nat) /\ submitted \in Nat
      /\ batch \in [Threads -> Seq(Nat)]
      /\ proc \in [Threads -> ProcStep]
      /\ Len(executed) \in Nat /\ Len(cmds) \in Nat
      /\ \A s \in Threads : Len(batch[s]) \in Nat
  BY DEF Ind, TypeOK
<1>1. CASE UNCHANGED vars
  BY <1>1 DEF vars, Order, Running
<1>2. ASSUME NEW t \in Threads, Submit(t) PROVE Order'
  <2>1. /\ cmds' = Append(cmds, submitted + 1) /\ submitted' = submitted + 1
        /\ UNCHANGED <<executed, batch, proc>>
    BY <1>2 DEF Submit
  <2>2. Len(cmds') = Len(cmds) + 1
    BY <1>0, <2>1
  <2>3. ASSUME NEW base \in Nat, Numbered(cmds, base), submitted = base + Len(cmds)
        PROVE  Numbered(cmds', base) /\ submitted' = base + Len(cmds')
    BY <1>0, <2>1, <2>2, <2>3, NumberedAppend
  <2>4. ASSUME NEW s \in Threads, Running(s)
        PROVE  /\ Numbered(cmds', Len(executed) + Len(batch[s]))
               /\ submitted' = Len(executed) + Len(batch[s]) + Len(cmds')
    BY <1>0, <2>3, <2>4 DEF Order
  <2>5. ASSUME \A s \in Threads : ~Running(s)
        PROVE  Numbered(cmds', Len(executed)) /\ submitted' = Len(executed) + Len(cmds')
    BY <1>0, <2>3, <2>5 DEF Order
  <2> QED
    BY <2>1, <2>4, <2>5 DEF Order, Running
<1>3. ASSUME NEW t \in Threads, Claim(t) PROVE Order'
  BY <1>3, <1>0 DEF Claim, Ind, OneTaskPerClaim, Processing, Order, Running
<1>4. ASSUME NEW t \in Threads, Push(t) PROVE Order'
  BY <1>4, <1>0 DEF Push, QueueTask, Ind, OneTaskPerClaim, Processing, Order, Running
<1>5. ASSUME NEW t \in Threads, StartTask(t) PROVE Order'
  BY <1>5, <1>0 DEF StartTask, Ind, OneTaskPerClaim, Processing, Order, Running
<1>6. ASSUME NEW t \in Threads, Take(t) PROVE Order'
  <2>1. /\ proc[t] = "enter" /\ batch' = [batch EXCEPT ![t] = cmds]
        /\ cmds' = <<>> /\ proc' = [proc EXCEPT ![t] = "run"]
        /\ UNCHANGED <<executed, submitted, owner>>
    BY <1>6 DEF Take
  <2>2. \A s \in Threads : ~Running(s)
    BY <2>1 DEF Ind, OneTaskPerClaim, Processing, Running
  <2>3. Numbered(cmds, Len(executed)) /\ submitted = Len(executed) + Len(cmds)
    BY <2>2 DEF Order
  <2>4. batch'[t] = cmds /\ Len(cmds') = 0 /\ Running(t)'
    BY <1>0, <2>1 DEF Running
  <2>5. Numbered(cmds', Len(executed) + Len(cmds))
    BY <2>4, <2>1 DEF Numbered
  <2>6. \A s \in Threads : s # t => batch'[s] = <<>> /\ ~Running(s)'
    BY <1>0, <2>1, <2>2 DEF Order, Running
  <2> QED
    BY <1>0, <2>1, <2>3, <2>4, <2>5, <2>6 DEF Order
<1>7. ASSUME NEW t \in Threads, Execute(t) PROVE Order'
  <2>1. /\ proc[t] = "run" /\ batch[t] # <<>>
        /\ executed' = Append(executed, Head(batch[t]))
        /\ batch' = [batch EXCEPT ![t] = Tail(batch[t])]
        /\ proc' = [proc EXCEPT ![t] = "call"]
        /\ UNCHANGED <<cmds, submitted, owner>>
    BY <1>7 DEF Execute
  <2>2. \A s \in Threads : s # t => ~Running(s) /\ batch[s] = <<>>
    BY <2>1 DEF Ind, OneTaskPerClaim, Processing, Running, Order
  <2>3. /\ Numbered(batch[t], Len(executed))
        /\ Numbered(cmds, Len(executed) + Len(batch[t]))
        /\ submitted = Len(executed) + Len(batch[t]) + Len(cmds)
    BY <2>1 DEF Order, Running
  <2>4. /\ Head(batch[t]) = Len(executed) + 1
        /\ Numbered(Tail(batch[t]), Len(executed) + 1)
        /\ Len(batch[t]) = Len(Tail(batch[t])) + 1
        /\ Tail(batch[t]) \in Seq(Nat)
    BY <1>0, <2>1, <2>3, NumberedTail
  <2>5. Len(executed') = Len(executed) + 1 /\ Numbered(executed', 0)
    BY <1>0, <2>1, <2>4, NumberedAppend DEF Order
  <2>6. batch'[t] = Tail(batch[t]) /\ Len(batch'[t]) \in Nat
    BY <1>0, <2>1, <2>4
  <2>7. \A s \in Threads : s # t => ~Running(s)' /\ batch'[s] = <<>>
    BY <1>0, <2>1, <2>2 DEF Running
  <2>8. Len(executed) + Len(batch[t]) = Len(executed') + Len(batch'[t])
    BY <1>0, <2>4, <2>5, <2>6
  <2>9. Running(t)'
    BY <1>0, <2>1 DEF Running
  <2> QED
    BY <2>1, <2>3, <2>4, <2>5, <2>6, <2>7, <2>8, <2>9 DEF Order
<1>8. ASSUME NEW t \in Threads, Return(t) PROVE Order'
  BY <1>8, <1>0 DEF Return, Ind, OneTaskPerClaim, Processing, Order, Running
<1>9. ASSUME NEW t \in Threads, Release(t) PROVE Order'
  BY <1>9, <1>0 DEF Release, Ind, OneTaskPerClaim, Processing, Order, Running
<1>10. ASSUME NEW t \in Threads, Recheck(t) PROVE Order'
  BY <1>10, <1>0 DEF Recheck, Ind, OneTaskPerClaim, Processing, Order, Running
<1>11. ASSUME NEW t \in Threads, Reclaim(t) PROVE Order'
  BY <1>11, <1>0 DEF Reclaim, Ind, OneTaskPerClaim, Processing, Order, Running
<1>12. ASSUME NEW t \in Threads, Repush(t) PROVE Order'
  BY <1>12, <1>0 DEF Repush, QueueTask, Ind, OneTaskPerClaim, Processing, Order, Running
<1>13. ASSUME NEW t \in Threads, FinishTask(t) PROVE Order'
  BY <1>13, <1>0 DEF FinishTask, DropRef, Ind, OneTaskPerClaim, Processing, Order, Running
<1>14. ASSUME NEW t \in Threads, VmRefer(t) PROVE Order'
  BY <1>14, <1>0 DEF VmRefer, Ind, OneTaskPerClaim, Processing, Order, Running
<1>15. ASSUME NEW t \in Threads, VmUnref(t) PROVE Order'
  BY <1>15, <1>0 DEF VmUnref, InUserCode, DropRef, Ind, OneTaskPerClaim, Processing, Order, Running
<1> QED
  BY <1>1, <1>2, <1>3, <1>4, <1>5, <1>6, <1>7, <1>8, <1>9, <1>10, <1>11,
     <1>12, <1>13, <1>14, <1>15 DEF Next, Step

\* Commands are executed in the order of their linking and never twice.
THEOREM ExecutedInOrder == SafeSpec => []InOrder
<1>1. Init => Order
  BY DEF Init, Order, Running, Numbered
<1>2. SafeSpec => []Order
  BY <1>1, OrderStep, Invariant, PTL DEF SafeSpec
<1>3. Order => InOrder
  BY DEF Order, Numbered, InOrder, Ind, TypeOK
<1> QED
  BY <1>2, <1>3, PTL

----------------------------------------------------------------------------
\* The three kinds of holders of a reference.
Vms == {t \in Threads : held[t]}
Queued == {t \in Threads : fque[t] > 0}
Bodies == {t \in Threads : proc[t] # "idle"}

\* Whoever is in add_command got there through a reference that outlives it.
AddHolds == \A t \in Threads : add[t] # "idle" => held[t] \/ proc[t] = "call"

Refs ==
  /\ AddHolds
  /\ refc = Cardinality(Vms) + Cardinality(Queued) + Cardinality(Bodies)
  /\ dying <=> refc = 0

\* One step keeps the accounting of the references: refer and unref of a VM, the
\* reference of a task that push takes and UNREF_EMWRAP drops.
LEMMA RefStep ==
  ASSUME Ind, Refs, [Next]_vars
  PROVE  Refs'
<1>0. /\ held \in [Threads -> BOOLEAN] /\ fque \in [Threads -> Nat]
      /\ add \in [Threads -> AddStep] /\ proc \in [Threads -> ProcStep]
      /\ refc \in Int /\ dying \in BOOLEAN
      /\ \A t \in Threads : fque[t] \in Nat /\ fque[t] <= 1
  BY DEF Ind, TypeOK, OneTaskPerClaim
<1>1. IsFiniteSet(Threads)
  BY ThreadsAssumption
<1>2. /\ IsFiniteSet(Vms) /\ Cardinality(Vms) \in Nat
      /\ IsFiniteSet(Queued) /\ Cardinality(Queued) \in Nat
      /\ IsFiniteSet(Bodies) /\ Cardinality(Bodies) \in Nat
  <2>1. Vms \in SUBSET Threads /\ Queued \in SUBSET Threads /\ Bodies \in SUBSET Threads
    BY DEF Vms, Queued, Bodies
  <2> QED
    BY <1>1, <2>1, FS_Subset, FS_CardinalityType
<1>3. ASSUME dying PROVE Vms = {} /\ Queued = {} /\ Bodies = {}
  <2>1. /\ Cardinality(Vms) = 0 /\ Cardinality(Queued) = 0
        /\ Cardinality(Bodies) = 0
    BY <1>2, <1>3 DEF Refs
  <2> QED
    BY <1>2, <2>1, FS_EmptySet
<1>19. CASE UNCHANGED vars
  BY <1>19 DEF vars, Refs, AddHolds, Vms, Queued, Bodies
<1>4. ASSUME NEW t \in Threads, Submit(t) PROVE Refs'
  <2>1. UNCHANGED <<Vms, Queued, Bodies, refc, dying>>
    BY <1>4, <1>0 DEF Submit, MayCall, InUserCode, Vms, Queued, Bodies
  <2>2. AddHolds'
    BY <1>4, <1>0 DEF Submit, MayCall, InUserCode, Refs, AddHolds
  <2> QED
    BY <2>1, <2>2 DEF Refs
<1>5. ASSUME NEW t \in Threads, Claim(t) PROVE Refs'
  <2>1. UNCHANGED <<Vms, Queued, Bodies, refc, dying>>
    BY <1>5, <1>0 DEF Claim, Vms, Queued, Bodies
  <2>2. AddHolds'
    BY <1>5, <1>0 DEF Claim, Refs, AddHolds
  <2> QED
    BY <2>1, <2>2 DEF Refs
<1>6. ASSUME NEW t \in Threads, Push(t) PROVE Refs'
  <2>1. t \notin Queued /\ Queued' = Queued \cup {t} /\ refc' = refc + 1
        /\ UNCHANGED <<Vms, Bodies, dying>>
    BY <1>6, <1>0 DEF Push, QueueTask, Ind, OneTaskPerClaim, Claimed, Queued, Vms, Bodies
  <2>2. Cardinality(Queued') = Cardinality(Queued) + 1
    BY <1>2, <2>1, FS_AddElement
  <2>3. ~dying
    BY <1>6, <1>0, <1>3 DEF Push, QueueTask, Refs, AddHolds, Vms, Bodies
  <2>4. AddHolds'
    BY <1>6, <1>0 DEF Push, QueueTask, Refs, AddHolds
  <2> QED
    BY <1>1, <1>2, <2>1, <2>2, <2>3, <2>4 DEF Refs
<1>7. ASSUME NEW t \in Threads, StartTask(t) PROVE Refs'
  <2>1. /\ t \in Queued /\ Queued' = Queued \ {t}
        /\ t \notin Bodies /\ Bodies' = Bodies \cup {t}
        /\ UNCHANGED <<Vms, refc, dying>>
    BY <1>7, <1>0 DEF StartTask, Ind, OneTaskPerClaim, Vms, Queued, Bodies
  <2>2. /\ Cardinality(Queued') = Cardinality(Queued) - 1
        /\ Cardinality(Bodies') = Cardinality(Bodies) + 1
    BY <1>2, <2>1, FS_AddElement, FS_RemoveElement
  <2>3. AddHolds'
    BY <1>7, <1>0 DEF StartTask, Refs, AddHolds
  <2> QED
    BY <1>1, <1>2, <2>1, <2>2, <2>3 DEF Refs
<1>8. ASSUME NEW t \in Threads, Take(t) PROVE Refs'
  <2>1. UNCHANGED <<Vms, Queued, Bodies, refc, dying>>
    BY <1>8, <1>0 DEF Take, Vms, Queued, Bodies
  <2>2. AddHolds'
    BY <1>8, <1>0 DEF Take, Refs, AddHolds
  <2> QED
    BY <2>1, <2>2 DEF Refs
<1>9. ASSUME NEW t \in Threads, Execute(t) PROVE Refs'
  <2>1. UNCHANGED <<Vms, Queued, Bodies, refc, dying>>
    BY <1>9, <1>0 DEF Execute, Vms, Queued, Bodies
  <2>2. AddHolds'
    BY <1>9, <1>0 DEF Execute, Refs, AddHolds
  <2> QED
    BY <2>1, <2>2 DEF Refs
<1>10. ASSUME NEW t \in Threads, Return(t) PROVE Refs'
  <2>1. UNCHANGED <<Vms, Queued, Bodies, refc, dying>>
    BY <1>10, <1>0 DEF Return, Vms, Queued, Bodies
  <2>2. AddHolds'
    BY <1>10, <1>0 DEF Return, Refs, AddHolds
  <2> QED
    BY <2>1, <2>2 DEF Refs
<1>11. ASSUME NEW t \in Threads, Release(t) PROVE Refs'
  <2>1. UNCHANGED <<Vms, Queued, Bodies, refc, dying>>
    BY <1>11, <1>0 DEF Release, Vms, Queued, Bodies
  <2>2. AddHolds'
    BY <1>11, <1>0 DEF Release, Refs, AddHolds
  <2> QED
    BY <2>1, <2>2 DEF Refs
<1>12. ASSUME NEW t \in Threads, Recheck(t) PROVE Refs'
  <2>1. UNCHANGED <<Vms, Queued, Bodies, refc, dying>>
    BY <1>12, <1>0 DEF Recheck, Vms, Queued, Bodies
  <2>2. AddHolds'
    BY <1>12, <1>0 DEF Recheck, Refs, AddHolds
  <2> QED
    BY <2>1, <2>2 DEF Refs
<1>13. ASSUME NEW t \in Threads, Reclaim(t) PROVE Refs'
  <2>1. UNCHANGED <<Vms, Queued, Bodies, refc, dying>>
    BY <1>13, <1>0 DEF Reclaim, Vms, Queued, Bodies
  <2>2. AddHolds'
    BY <1>13, <1>0 DEF Reclaim, Refs, AddHolds
  <2> QED
    BY <2>1, <2>2 DEF Refs
<1>14. ASSUME NEW t \in Threads, Repush(t) PROVE Refs'
  <2>1. t \notin Queued /\ Queued' = Queued \cup {t} /\ refc' = refc + 1
        /\ UNCHANGED <<Vms, Bodies, dying>>
    BY <1>14, <1>0 DEF Repush, QueueTask, Ind, OneTaskPerClaim, Claimed, Queued, Vms, Bodies
  <2>2. Cardinality(Queued') = Cardinality(Queued) + 1
    BY <1>2, <2>1, FS_AddElement
  <2>3. ~dying
    BY <1>14, <1>0, <1>3 DEF Repush, QueueTask, Refs, AddHolds, Vms, Bodies
  <2>4. AddHolds'
    BY <1>14, <1>0 DEF Repush, QueueTask, Refs, AddHolds
  <2> QED
    BY <1>1, <1>2, <2>1, <2>2, <2>3, <2>4 DEF Refs
<1>15. ASSUME NEW t \in Threads, FinishTask(t) PROVE Refs'
  <2>1. t \in Bodies /\ Bodies' = Bodies \ {t} /\ refc' = refc - 1
        /\ UNCHANGED <<Vms, Queued>> /\ dying' = (dying \/ refc <= 1)
    BY <1>15, <1>0 DEF FinishTask, DropRef, Bodies, Vms, Queued
  <2>2. /\ Cardinality(Bodies') = Cardinality(Bodies) - 1
        /\ Cardinality(Bodies') \in Nat
    BY <1>2, <2>1, FS_RemoveElement, FS_CardinalityType
  <2>3. ~dying
    BY <1>3, <2>1
  <2>4. AddHolds'
    BY <1>15, <1>0 DEF FinishTask, DropRef, Refs, AddHolds, Ind, Nesting
  <2>5. refc' = Cardinality(Vms') + Cardinality(Queued') + Cardinality(Bodies')
    BY <1>0, <1>2, <2>1, <2>2 DEF Refs
  <2>6. refc' \in Nat
    BY <1>2, <2>1, <2>2, <2>5
  <2>7. dying' <=> refc <= 1
    BY <2>1, <2>3
  <2>8. refc <= 1 <=> refc' = 0
    BY <1>0, <2>1, <2>6
  <2> QED
    BY <2>4, <2>5, <2>7, <2>8 DEF Refs
<1>16. ASSUME NEW t \in Threads, VmRefer(t) PROVE Refs'
  <2>1. t \notin Vms /\ Vms' = Vms \cup {t} /\ refc' = refc + 1
        /\ UNCHANGED <<Queued, Bodies, dying>>
    BY <1>16, <1>0 DEF VmRefer, Ind, OneTaskPerClaim, Claimed, Vms, Queued, Bodies
  <2>2. Cardinality(Vms') = Cardinality(Vms) + 1
    BY <1>2, <2>1, FS_AddElement
  <2>3. ~dying
    BY <1>16, <1>0, <1>3 DEF VmRefer, Refs, AddHolds, Vms, Bodies
  <2>4. AddHolds'
    BY <1>16, <1>0 DEF VmRefer, Refs, AddHolds
  <2> QED
    BY <1>1, <1>2, <2>1, <2>2, <2>3, <2>4 DEF Refs
<1>17. ASSUME NEW t \in Threads, VmUnref(t) PROVE Refs'
  <2>1. t \in Vms /\ Vms' = Vms \ {t} /\ refc' = refc - 1
        /\ UNCHANGED <<Queued, Bodies>> /\ dying' = (dying \/ refc <= 1)
    BY <1>17, <1>0 DEF VmUnref, InUserCode, DropRef, Vms, Queued, Bodies
  <2>2. /\ Cardinality(Vms') = Cardinality(Vms) - 1
        /\ Cardinality(Vms') \in Nat
    BY <1>2, <2>1, FS_RemoveElement, FS_CardinalityType
  <2>3. ~dying
    BY <1>3, <2>1
  <2>4. AddHolds'
    BY <1>17, <1>0 DEF VmUnref, InUserCode, DropRef, Refs, AddHolds, Ind, Nesting
  <2>5. refc' = Cardinality(Vms') + Cardinality(Queued') + Cardinality(Bodies')
    BY <1>0, <1>2, <2>1, <2>2 DEF Refs
  <2>6. refc' \in Nat
    BY <1>2, <2>1, <2>2, <2>5
  <2>7. dying' <=> refc <= 1
    BY <2>1, <2>3
  <2>8. refc <= 1 <=> refc' = 0
    BY <1>0, <2>1, <2>6
  <2> QED
    BY <2>4, <2>5, <2>7, <2>8 DEF Refs
<1> QED
  BY <1>19, <1>4, <1>5, <1>6, <1>7, <1>8, <1>9, <1>10, <1>11, <1>12, <1>13,
     <1>14, <1>15, <1>16, <1>17 DEF Next, Step

\* Refs holds throughout: the finalizer runs exactly when m_refc comes to 0.
LEMMA RefsInvariant == SafeSpec => []Refs
<1>1. ASSUME Init PROVE Refs
  <2>1. Vms = Threads /\ Queued = {} /\ Bodies = {} /\ refc = Cardinality(Threads)
    BY <1>1 DEF Init, Vms, Queued, Bodies
  <2>2. Cardinality(Threads) \in Nat /\ Cardinality(Threads) # 0
    BY ThreadsAssumption, FS_CardinalityType, FS_EmptySet
  <2>3. AddHolds /\ ~dying
    BY <1>1 DEF Init, AddHolds
  <2> QED
    BY <2>1, <2>2, <2>3, FS_EmptySet DEF Refs
<1> QED
  BY <1>1, RefStep, Invariant, PTL DEF SafeSpec

\* The reference count is the number of VMs, queued tasks and running tasks
\* that hold the emitter (the bookkeeping listed at emittable.h:426-480).
THEOREM ReferencesAccounted == SafeSpec => []RefsAccounted
<1>1. Refs => RefsAccounted
  BY DEF Refs, RefsAccounted, Vms, Queued, Bodies
<1> QED
  BY <1>1, RefsInvariant, PTL

\* When the finalizer runs nobody is using the emitter and no command is left.
THEOREM FinalizedWhenUnused == SafeSpec => []FinalizedUnused
<1>1. ASSUME Ind, Refs, NotStranded, dying PROVE FinalizedUnused
  <2>1. refc = 0 /\ Vms = {} /\ Queued = {} /\ Bodies = {}
    <3>1. IsFiniteSet(Vms) /\ IsFiniteSet(Queued) /\ IsFiniteSet(Bodies)
      <4>1. Vms \in SUBSET Threads /\ Queued \in SUBSET Threads /\ Bodies \in SUBSET Threads
        BY DEF Vms, Queued, Bodies
      <4> QED
        BY <4>1, ThreadsAssumption, FS_Subset
    <3>2. /\ Cardinality(Vms) \in Nat /\ Cardinality(Queued) \in Nat
          /\ Cardinality(Bodies) \in Nat
      BY <3>1, FS_CardinalityType
    <3>3. /\ Cardinality(Vms) = 0 /\ Cardinality(Queued) = 0
          /\ Cardinality(Bodies) = 0 /\ refc = 0
      BY <1>1, <3>2 DEF Refs
    <3> QED
      BY <3>1, <3>3, FS_EmptySet
  <2>2. \A t \in Threads : ~held[t] /\ fque[t] = 0 /\ proc[t] = "idle"
    BY <1>1, <2>1 DEF Vms, Queued, Bodies, Ind, TypeOK
  <2>3. \A t \in Threads : add[t] = "idle"
    BY <1>1, <2>2 DEF Refs, AddHolds
  <2>4. owner = NULL
    <3>1. ASSUME NEW t \in Threads, owner = t PROVE FALSE
      <4>1. Claimed(t) \/ fque[t] > 0 \/ Processing(t)
        BY <1>1, <3>1 DEF Ind, OneTaskPerClaim
      <4> QED
        BY <2>2, <2>3, <4>1 DEF Claimed, Processing
    <3> QED
      BY <1>1, <3>1 DEF Ind, TypeOK
  <2>5. cmds = <<>>
    BY <1>1, <2>2, <2>3, <2>4 DEF NotStranded
  <2> QED
    BY <2>1, <2>2, <2>3, <2>5 DEF FinalizedUnused
<1>2. FinalizedUnused \/ dying
  BY DEF FinalizedUnused
<1>3. Ind /\ Refs /\ NotStranded => FinalizedUnused
  BY <1>1, <1>2
<1> QED
  BY <1>3, Invariant, RefsInvariant, NoCommandStranded, PTL

\* The two together: every reference is accounted for and the finalizer comes
\* last (unref, emittable.h:227-232).
THEOREM CountedReferences == SafeSpec => []References
BY ReferencesAccounted, FinalizedWhenUnused, PTL DEF References

\* Once the finalizer ran, no step touches the emitter any more.
THEOREM StaysFinalized == SafeSpec => NoResurrection
<1>1. ASSUME Ind, FinalizedUnused, [Next]_vars, dying PROVE UNCHANGED vars
  <2>1. \A t \in Threads :
          ~held[t] /\ fque[t] = 0 /\ add[t] = "idle" /\ proc[t] = "idle"
    BY <1>1 DEF FinalizedUnused
  <2>2. ASSUME NEW t \in Threads, Step(t) PROVE FALSE
    BY <2>1, <2>2 DEF Step, Claim, Push, StartTask, Take, Execute, Return, Release,
                      Recheck, Reclaim, Repush, FinishTask
  <2>3. ASSUME NEW t \in Threads, Submit(t) \/ VmRefer(t) \/ VmUnref(t) PROVE FALSE
    BY <1>1, <2>1, <2>3 DEF Submit, VmRefer, VmUnref
  <2> QED
    BY <1>1, <2>2, <2>3 DEF Next
<1>2. Ind /\ FinalizedUnused /\ [Next]_vars
        => [dying => UNCHANGED <<refc, dying>>]_vars
  BY <1>1 DEF vars
<1> QED
  BY <1>2, Invariant, FinalizedWhenUnused, PTL DEF SafeSpec, NoResurrection

----------------------------------------------------------------------------
\* Every step of the emitter is a step of the abstract stream or a stutter.
LEMMA StreamStep ==
  ASSUME Ind, Order, FinalizedUnused, Order', FinalizedUnused', [Next]_vars
  PROVE  [Stream!Next]_(Stream!vars)
<1>0. /\ Len(executed) \in Nat /\ submitted \in Nat /\ dying \in BOOLEAN
      /\ \A s \in Threads : Len(batch[s]) \in Nat
      /\ Len(cmds) \in Nat
  BY DEF Ind, TypeOK
<1>1. ASSUME NEW t \in Threads, Submit(t) PROVE Stream!Submit
  BY <1>1 DEF Submit, Stream!Submit
<1>2. ASSUME NEW t \in Threads, Execute(t) PROVE Stream!Execute
  <2>1. /\ proc[t] = "run" /\ batch[t] # <<>> /\ batch[t] \in Seq(Nat)
        /\ executed' = Append(executed, Head(batch[t]))
        /\ UNCHANGED <<submitted, dying>>
    BY <1>2 DEF Execute, Ind, TypeOK
  <2>2. ~dying
    BY <2>1 DEF FinalizedUnused
  <2>3. Len(batch[t]) > 0
    BY <2>1
  <2>4. submitted = Len(executed) + Len(batch[t]) + Len(cmds)
    BY <2>1 DEF Order, Running
  <2>5. Len(executed) < submitted
    BY <1>0, <2>3, <2>4
  <2>6. Len(executed') = Len(executed) + 1
    BY <2>1 DEF Ind, TypeOK
  <2> QED
    BY <2>1, <2>2, <2>5, <2>6 DEF Stream!Execute
<1>3. ASSUME NEW t \in Threads, FinishTask(t) \/ VmUnref(t)
      PROVE  Stream!Vanish \/ UNCHANGED Stream!vars
  <2>1. UNCHANGED <<submitted, executed>>
    BY <1>3 DEF FinishTask, VmUnref
  <2>2. dying => dying'
    BY <1>3 DEF FinishTask, VmUnref, DropRef
  <2>3. ASSUME dying' PROVE Len(executed) = submitted
    <3>1. /\ \A s \in Threads : ~Running(s)'
          /\ cmds' = <<>>
      BY <2>3 DEF FinalizedUnused, Running
    <3>2. submitted' = Len(executed') + Len(cmds')
      BY <3>1 DEF Order
    <3> QED
      BY <1>0, <2>1, <3>1, <3>2
  <2>4. CASE dying' = dying
    BY <2>1, <2>4 DEF Stream!vars
  <2>5. CASE ~dying /\ dying' = TRUE
    BY <2>1, <2>3, <2>5 DEF Stream!Vanish
  <2>6. dying' \in BOOLEAN
    BY <1>0, <1>3 DEF FinishTask, VmUnref, DropRef
  <2> QED
    BY <1>0, <2>2, <2>4, <2>5, <2>6
<1>4. ASSUME NEW t \in Threads,
             \/ Claim(t) \/ Push(t) \/ StartTask(t) \/ Take(t) \/ Return(t)
             \/ Release(t) \/ Recheck(t) \/ Reclaim(t) \/ Repush(t) \/ VmRefer(t)
      PROVE  UNCHANGED Stream!vars
  BY <1>4 DEF Claim, Push, StartTask, Take, Return, Release, Recheck, Reclaim,
              Repush, VmRefer, Stream!vars
<1>5. CASE UNCHANGED vars
  BY <1>5 DEF vars, Stream!vars
<1> QED
  BY <1>1, <1>2, <1>3, <1>4, <1>5 DEF Next, Step, Stream!Next

\* The emitter implements the abstract stream (the liveness half of
\* ImplementsStream is left to model checking).
THEOREM Refinement == SafeSpec => Stream!SafeSpec
<1>1. Init => Stream!Init
  BY DEF Init, Stream!Init
<1>2. Init => Order
  BY DEF Init, Order, Running, Numbered
<1>3. SafeSpec => []Order
  BY <1>2, OrderStep, Invariant, PTL DEF SafeSpec
<1> QED
  BY <1>1, <1>3, StreamStep, Invariant, FinalizedWhenUnused, PTL
     DEF SafeSpec, Stream!SafeSpec
============================================================================
