---------------------------- MODULE ServerProofs ----------------------------
(***************************************************************************)
(* Proofs about Server, for any number of workers: what workers refer to   *)
(* is open unless somebody found it at a wrong time, what came before fin  *)
(* emptied a queue is executed, and the pools are freed last.              *)
(*                                                                         *)
(* HeldLives is not inductive: that unref meets a positive count, and that *)
(* insert finds no entry that is torn down, follows from where every       *)
(* worker is.  Holds says what each worker refers to at each point of its  *)
(* life, Entries what the entry it opens or tears down is, Alone that      *)
(* nobody tears down what another opens, and OneHands that m_mainp's       *)
(* reference is given back by one worker.                                  *)
(*                                                                         *)
(* Nothing keeps workers apart at an entry.  Where one finds what another  *)
(* makes or tears down, the step enters it in raced, and what is said of   *)
(* entries is said of the others: these steps are the only ones that break *)
(* it, which is what the proofs about entries show.                        *)
(***************************************************************************)
EXTENDS Server, FiniteSetTheorems, TLAPS

\* Where a worker can be.
Pcs == {"off", "start", "insert", "init", "check", "refer", "unref", "close", "erase",
        "mread", "mcas", "fabric", "exec", "ready", "run", "drain", "qfin",
        "done", "failed", "cancelled"}

\* The variables hold what their comments in Server say.
Types ==
  /\ group \in [Workers -> Groups]
  /\ tab \subseteq Workers /\ tojoin \subseteq Workers
  /\ pc \in [Workers -> Pcs]
  /\ of \in [Workers -> {"p", "r", "m"}]
  /\ waits \in [Workers \union {App} -> Workers \union {App}]
  /\ que \in [Workers -> {"none", "open", "closed"}]
  /\ tasks \in [Workers -> 0..MaxTasks]
  /\ tardy \in [Workers -> Nat]
  /\ named \subseteq Keys /\ raced \subseteq Keys
  /\ st \in [Keys -> {"raw", "open", "closed"}]
  /\ refc \in [Keys -> Int]
  /\ hold \in [Workers -> SUBSET Keys]
  /\ rp \in [Workers -> BOOLEAN]
  /\ mainp \in BOOLEAN

\* In shared_allocator::alloc, in free, and the life between exec and fin.
Entering == {"insert", "init", "check", "refer"}
Leaving == {"unref", "close", "erase"}
InUse == {"exec", "ready", "run", "drain", "failed", "cancelled"}

\* A worker allocates a poller or a resource, and a poller only in a group;
\* only workers of the main group hand over m_mainp.
Stages == \A w \in Workers :
  /\ pc[w] \in Entering => of[w] # "m" /\ (of[w] = "p" => group[w] # "none")
  /\ pc[w] \in {"mread", "mcas"} => group[w] = "main"
  /\ pc[w] \in Leaving => (of[w] = "m" => group[w] = "main") /\ (of[w] = "p" => group[w] # "none")

\* When a worker refers to its poller: from alloc's refer to free's unref ...
HasPoller(w) ==
  /\ group[w] # "none"
  /\ \/ pc[w] \in InUse \union {"mread", "mcas", "fabric"}
     \/ pc[w] \in Entering /\ of[w] = "r"
     \/ pc[w] \in Leaving /\ of[w] = "m"
     \/ pc[w] = "unref" /\ of[w] = "p"
\* ... and when to its resource.
HasResource(w) ==
  \/ pc[w] \in InUse \union {"qfin"}
  \/ pc[w] \in Leaving /\ of[w] = "p"
  \/ pc[w] = "unref" /\ of[w] = "r"
\* The entries that the place of a worker in the code speaks of.
Has(w, k) ==
  \/ k = <<"p", group[w]>> /\ HasPoller(w)
  \/ k = <<"r", group[w]>> /\ HasResource(w)
\* Each worker refers to nothing else, and to these, until the pools are gone,
\* but for a poller that it found too early.
Holds == \A w \in Workers : \A k \in Keys :
  /\ k \in hold[w] => Has(w, k) /\ phase # "end"
  /\ Has(w, k) /\ phase # "end" /\ k \notin raced => k \in hold[w]

\* w gives back the reference of m_mainp (loop.cpp:156-164).
Handing(w) == pc[w] = "unref" /\ of[w] = "m"
\* One worker does, and m_mainp is NULL by then.
OneHands == /\ \A w \in Workers : Handing(w) => ~mainp
            /\ \A v, w \in Workers : Handing(v) /\ Handing(w) => v = w

\* After insert the worker knows the entry; after unref it tears it down.
Opening == {"init", "check", "refer"}
Closing == {"close", "erase"}
\* The entry is as who works on it needs it.
Entries == \A w \in Workers : Key(w) \notin raced =>
  /\ pc[w] \in Opening \union Closing => Key(w) \in named
  /\ pc[w] = "init" => st[Key(w)] = "raw"
  /\ pc[w] = "check" => st[Key(w)] \in {"raw", "open"}
  /\ pc[w] = "refer" => st[Key(w)] = "open"
  /\ pc[w] = "close" => st[Key(w)] = "open" /\ refc[Key(w)] = 0
  /\ pc[w] = "erase" => st[Key(w)] = "closed" /\ refc[Key(w)] = 0
\* One worker opens an entry, and nobody uses an entry that another tears down.
Alone == \A v, w \in Workers : Key(v) = Key(w) /\ Key(w) \notin raced =>
  /\ pc[v] = "init" /\ pc[w] = "init" => v = w
  /\ pc[v] \in Closing /\ pc[w] \in Opening \union Closing => v = w
\* A closed entry is about to be erased, and an entry with a count is open.
Closers == \A k \in named \ raced : st[k] = "closed" => \E w \in Workers : pc[w] = "erase" /\ Key(w) = k
OpenWhileUsed == \A k \in Keys \ raced : refc[k] > 0 => Lives(k)
\* m_refc counts the references.
Counted == \A k \in Keys \ raced : refc[k] = Refs(k)
\* Only code that runs waits for the start of another worker.
Waiting == \A w \in Workers : waits[w] # App => pc[w] \in {"exec", "run"}
\* A queue is torn down after it was emptied, and what it has by then is late.
Queues == \A w \in Workers :
  /\ que[w] = "closed" => Emptied(w)
  /\ tardy[w] = IF Emptied(w) THEN tasks[w] ELSE 0
\* At the end no worker runs, and nothing is shared any more.
Over == /\ PoolsOutlive
        /\ phase = "end" => ~mainp /\ named = {} /\ \A k \in Keys : refc[k] = 0
IInv ==
  /\ Types /\ Stages /\ Holds /\ OneHands /\ Entries /\ Alone /\ Closers
  /\ OpenWhileUsed /\ Counted /\ Waiting /\ Queues /\ Over

\* Working on an entry that has been found.
Touching == Opening \union Closing

\* Every worker works on some key of the maps.
LEMMA KeyKind ==
  ASSUME Types
  PROVE  /\ MainKey \in Keys
         /\ \A v \in Workers : Key(v) \in Keys
  BY DEF Types, Key, Keys, MainKey, Groups

\* Sets of workers can be counted, up to N.
LEMMA Finite ==
  ASSUME NEW S, S \subseteq Workers
  PROVE  IsFiniteSet(S) /\ Cardinality(S) \in Nat /\ Cardinality(S) <= N
<1>1. IsFiniteSet(Workers) /\ Cardinality(Workers) = N
  <2>1. 1 \in Int /\ N \in Int /\ N \in Nat
    BY BoundAssumption
  <2>2. IsFiniteSet(1..N) /\ Cardinality(1..N) = IF 1 > N THEN 0 ELSE N - 1 + 1
    BY <2>1, FS_Interval
  <2> QED
    BY <2>1, <2>2 DEF Workers
<1>2. IsFiniteSet(S) /\ Cardinality(S) <= Cardinality(Workers)
  BY <1>1, FS_Subset
<1> QED
  BY <1>1, <1>2, FS_CardinalityType

\* The three parts of Refs(k).
Users(k) == {w \in Workers : k \in hold[w]}
Handers(k) == {w \in Workers : k = MainKey /\ Handing(w)}
Main(k) == IF k = MainKey /\ mainp THEN 1 ELSE 0

\* Refs(k) is the sum of its parts, and they are numbers.
LEMMA Sum ==
  ASSUME NEW k
  PROVE  /\ Refs(k) = Cardinality(Users(k)) + Main(k) + Cardinality(Handers(k))
         /\ Cardinality(Users(k)) \in Nat /\ Cardinality(Users(k)) <= N
         /\ Cardinality(Handers(k)) \in Nat /\ Main(k) \in {0, 1}
         /\ IsFiniteSet(Users(k)) /\ IsFiniteSet(Handers(k))
<1>1. Refs(k) = Cardinality(Users(k)) + Main(k) + Cardinality(Handers(k))
  BY DEF Refs, Users, Handers, Main, Handing
<1>2. Users(k) \subseteq Workers /\ Handers(k) \subseteq Workers
  BY DEF Users, Handers
<1> QED
  BY <1>1, <1>2, Finite DEF Main

\* Who refers to an entry is counted in its m_refc.
LEMMA Used ==
  ASSUME Counted, NEW k \in Keys, k \notin raced,
         \/ \E w \in Workers : k \in hold[w]
         \/ k = MainKey /\ \E w \in Workers : Handing(w)
         \/ k = MainKey /\ mainp
  PROVE  refc[k] > 0
<1>1. refc[k] = Cardinality(Users(k)) + Main(k) + Cardinality(Handers(k))
  BY Sum DEF Counted
<1>2. Users(k) # {} \/ Handers(k) # {} \/ Main(k) = 1
  BY DEF Users, Handers, Main
<1>3. Users(k) # {} => Cardinality(Users(k)) > 0
  BY Sum, FS_EmptySet
<1>4. Handers(k) # {} => Cardinality(Handers(k)) > 0
  BY Sum, FS_EmptySet
<1>5. Cardinality(Users(k)) \in Nat /\ Cardinality(Handers(k)) \in Nat /\ Main(k) \in {0, 1}
  BY Sum
<1> QED
  BY <1>1, <1>2, <1>3, <1>4, <1>5

\* A step that leaves the maps alone, and moves no worker that works on an
\* entry, keeps what is said of the entries.
LEMMA Aside ==
  ASSUME Types, OneHands, Entries, Alone, Closers, OpenWhileUsed, Counted,
         UNCHANGED <<group, named, st, refc, hold, raced, mainp>>,
         \A v \in Workers :
           /\ pc[v] \in Touching \/ pc'[v] \in Touching => pc'[v] = pc[v] /\ of'[v] = of[v]
           /\ Handing(v)' <=> Handing(v)
  PROVE  (OneHands /\ Entries /\ Alone /\ Closers /\ OpenWhileUsed /\ Counted)'
<1>1. OneHands'
  BY DEF OneHands
<1>2. \A v \in Workers : pc[v] \in Touching \/ pc'[v] \in Touching => pc'[v] = pc[v] /\ Key(v)' = Key(v)
  BY DEF Key, MainKey
<1>3. Entries'
  BY <1>2 DEF Entries, Touching, Opening, Closing
<1>4. Alone'
  BY <1>2 DEF Alone, Touching, Opening, Closing
<1>5. Closers'
  BY <1>2 DEF Closers, Touching, Opening, Closing
<1>6. OpenWhileUsed'
  BY DEF OpenWhileUsed, Lives
<1>7. Counted'
  <2> SUFFICES ASSUME NEW k \in Keys, k \notin raced'
               PROVE  refc'[k] = Refs(k)'
    BY DEF Counted
  <2>1. Users(k)' = Users(k) /\ Handers(k)' = Handers(k) /\ Main(k)' = Main(k)
    BY DEF Users, Handers, Main, MainKey
  <2>2. Refs(k)' = Refs(k)
    BY <2>1 DEF Refs, Users, Handers, Main, Handing
  <2> QED
    BY <2>2 DEF Counted
<1> QED
  BY <1>1, <1>3, <1>4, <1>5, <1>6, <1>7


\* launch keeps the invariant: the new worker has not begun.
LEMMA LaunchStep ==
  ASSUME IInv, NEW a \in Workers \union {App}, NEW w \in Workers, Launch(a, w)
  PROVE  IInv'
<1> USE DEF App
<1>z. App \notin Workers
  BY BoundAssumption DEF Workers
<1>1. Types'
  BY DEF IInv, Types, Pcs, Launch, evars, qvars, avars, Goto, Scripts
<1>2. Stages'
  BY DEF IInv, Types, Stages, Entering, Leaving, Launch, evars, qvars, avars,
     Goto, Scripts
<1>3. Holds'
  BY DEF IInv, Types, Holds, Has, Over, PoolsOutlive, Ended, HasPoller, HasResource,
     InUse, Entering, Leaving, Launch, evars, qvars, avars, Goto, Scripts
<1>4. (OneHands /\ Entries /\ Alone /\ Closers /\ OpenWhileUsed /\ Counted)'
  <2>1. UNCHANGED <<group, named, st, refc, hold, raced, mainp>>
    BY DEF Launch, evars, qvars, avars, Goto
  <2>2. \A v \in Workers :
           /\ pc[v] \in Touching \/ pc'[v] \in Touching => pc'[v] = pc[v] /\ of'[v] = of[v]
           /\ Handing(v)' <=> Handing(v)
    BY DEF IInv, Types, Touching, Opening, Closing, Handing, Launch, evars,
       qvars, avars, Goto, Scripts
  <2> QED
    BY <2>1, <2>2, Aside DEF IInv
<1>5. Waiting'
  BY <1>z DEF IInv, Types, Waiting, Launch, evars, qvars, avars, Goto, Scripts
<1>6. Queues'
  BY DEF IInv, Types, Queues, Emptied, Leaving, Launch, evars, qvars, avars, Goto,
     Scripts
<1>7. Over'
  BY DEF IInv, Types, Over, PoolsOutlive, Ended, Waiting, Launch, evars, qvars,
     avars, Goto, Scripts
<1> QED
  BY <1>1, <1>2, <1>3, <1>4, <1>5, <1>6, <1>7 DEF IInv

\* launch of a name that exists keeps the invariant: only running code waits.
LEMMA LaunchAgainStep ==
  ASSUME IInv, NEW a \in Workers \union {App}, NEW w \in Workers, LaunchAgain(a, w)
  PROVE  IInv'
<1> USE DEF App
<1>z. App \notin Workers
  BY BoundAssumption DEF Workers
<1>1. Types'
  BY DEF IInv, Types, Pcs, LaunchAgain, evars, qvars, avars, Scripts
<1>2. Stages'
  BY DEF IInv, Types, Stages, Entering, Leaving, LaunchAgain, evars, qvars,
     avars, Scripts
<1>3. Holds'
  BY DEF IInv, Types, Holds, Has, Over, PoolsOutlive, Ended, HasPoller, HasResource,
     InUse, Entering, Leaving, LaunchAgain, evars, qvars, avars, Scripts
<1>4. (OneHands /\ Entries /\ Alone /\ Closers /\ OpenWhileUsed /\ Counted)'
  <2>1. UNCHANGED <<group, named, st, refc, hold, raced, mainp>>
    BY DEF LaunchAgain, evars, qvars, avars
  <2>2. \A v \in Workers :
           /\ pc[v] \in Touching \/ pc'[v] \in Touching => pc'[v] = pc[v] /\ of'[v] = of[v]
           /\ Handing(v)' <=> Handing(v)
    BY DEF IInv, Types, Touching, Opening, Closing, Handing, LaunchAgain,
       evars, qvars, avars, Scripts
  <2> QED
    BY <2>1, <2>2, Aside DEF IInv
<1>5. Waiting'
  BY <1>z DEF IInv, Types, Waiting, LaunchAgain, evars, qvars, avars, Scripts
<1>6. Queues'
  BY DEF IInv, Types, Queues, Emptied, Leaving, LaunchAgain, evars, qvars, avars,
     Scripts
<1>7. Over'
  BY DEF IInv, Types, Over, PoolsOutlive, Ended, Waiting, LaunchAgain, evars,
     qvars, avars, Scripts
<1> QED
  BY <1>1, <1>2, <1>3, <1>4, <1>5, <1>6, <1>7 DEF IInv

\* The end of the wait keeps the invariant.
LEMMA LaunchedStep ==
  ASSUME IInv, NEW a \in Workers \union {App}, Launched(a)
  PROVE  IInv'
<1> USE DEF App
<1>1. Types'
  BY DEF IInv, Types, Pcs, Launched, evars, qvars, avars
<1>2. Stages'
  BY DEF IInv, Types, Stages, Entering, Leaving, Launched, evars, qvars, avars
<1>3. Holds'
  BY DEF IInv, Types, Holds, Has, Over, PoolsOutlive, Ended, HasPoller, HasResource,
     InUse, Entering, Leaving, Launched, evars, qvars, avars
<1>4. (OneHands /\ Entries /\ Alone /\ Closers /\ OpenWhileUsed /\ Counted)'
  <2>1. UNCHANGED <<group, named, st, refc, hold, raced, mainp>>
    BY DEF Launched, evars, qvars, avars
  <2>2. \A v \in Workers :
           /\ pc[v] \in Touching \/ pc'[v] \in Touching => pc'[v] = pc[v] /\ of'[v] = of[v]
           /\ Handing(v)' <=> Handing(v)
    BY DEF IInv, Types, Touching, Opening, Closing, Handing, Launched, evars,
       qvars, avars
  <2> QED
    BY <2>1, <2>2, Aside DEF IInv
<1>5. Waiting'
  BY DEF IInv, Types, Waiting, Launched, evars, qvars, avars
<1>6. Queues'
  BY DEF IInv, Types, Queues, Emptied, Leaving, Launched, evars, qvars, avars
<1>7. Over'
  BY DEF IInv, Types, Over, PoolsOutlive, Ended, Waiting, Launched, evars,
     qvars, avars
<1> QED
  BY <1>1, <1>2, <1>3, <1>4, <1>5, <1>6, <1>7 DEF IInv

\* The timeout of a launch keeps the invariant: the worker has failed, and keeps
\* what it refers to.
LEMMA LaunchTimeoutStep ==
  ASSUME IInv, NEW a \in Workers \union {App}, LaunchTimeout(a)
  PROVE  IInv'
<1> USE DEF App
<1>1. Types'
  BY DEF IInv, Types, Pcs, LaunchTimeout, evars, qvars, avars
<1>2. Stages'
  BY DEF IInv, Types, Stages, Entering, Leaving, LaunchTimeout, evars, qvars,
     avars
<1>3. Holds'
  BY DEF IInv, Types, Holds, Has, Over, PoolsOutlive, Ended, HasPoller, HasResource,
     InUse, Entering, Leaving, LaunchTimeout, evars, qvars, avars
<1>4. (OneHands /\ Entries /\ Alone /\ Closers /\ OpenWhileUsed /\ Counted)'
  <2>1. UNCHANGED <<group, named, st, refc, hold, raced, mainp>>
    BY DEF LaunchTimeout, evars, qvars, avars
  <2>2. \A v \in Workers :
           /\ pc[v] \in Touching \/ pc'[v] \in Touching => pc'[v] = pc[v] /\ of'[v] = of[v]
           /\ Handing(v)' <=> Handing(v)
    BY DEF IInv, Types, Touching, Opening, Closing, Handing, LaunchTimeout,
       evars, qvars, avars
  <2> QED
    BY <2>1, <2>2, Aside DEF IInv
<1>5. Waiting'
  BY DEF IInv, Types, Waiting, LaunchTimeout, evars, qvars, avars
<1>6. Queues'
  BY DEF IInv, Types, Queues, Emptied, Leaving, LaunchTimeout, evars, qvars, avars
<1>7. Over'
  BY DEF IInv, Types, Over, PoolsOutlive, Ended, Waiting, LaunchTimeout, evars,
     qvars, avars
<1> QED
  BY <1>1, <1>2, <1>3, <1>4, <1>5, <1>6, <1>7 DEF IInv

\* The start of the thread keeps the invariant.
LEMMA StartStep ==
  ASSUME IInv, NEW w \in Workers, Start(w)
  PROVE  IInv'
<1> USE DEF App
<1>1. Types'
  BY DEF IInv, Types, Pcs, Start, evars, wvars, qvars, avars, Goto
<1>2. Stages'
  BY DEF IInv, Types, Stages, Entering, Leaving, Start, evars, wvars, qvars,
     avars, Goto
<1>3. Holds'
  BY DEF IInv, Types, Holds, Has, Over, PoolsOutlive, Ended, HasPoller, HasResource,
     InUse, Entering, Leaving, Start, evars, wvars, qvars, avars, Goto
<1>4. (OneHands /\ Entries /\ Alone /\ Closers /\ OpenWhileUsed /\ Counted)'
  <2>1. UNCHANGED <<group, named, st, refc, hold, raced, mainp>>
    BY DEF Start, evars, wvars, qvars, avars, Goto
  <2>2. \A v \in Workers :
           /\ pc[v] \in Touching \/ pc'[v] \in Touching => pc'[v] = pc[v] /\ of'[v] = of[v]
           /\ Handing(v)' <=> Handing(v)
    BY DEF IInv, Types, Touching, Opening, Closing, Handing, Start, evars,
       wvars, qvars, avars, Goto
  <2> QED
    BY <2>1, <2>2, Aside DEF IInv
<1>5. Waiting'
  BY DEF IInv, Types, Waiting, Start, evars, wvars, qvars, avars, Goto
<1>6. Queues'
  BY DEF IInv, Types, Queues, Emptied, Leaving, Start, evars, wvars, qvars, avars, Goto
<1>7. Over'
  BY DEF IInv, Types, Over, PoolsOutlive, Ended, Waiting, Start, evars, wvars,
     qvars, avars, Goto
<1> QED
  BY <1>1, <1>2, <1>3, <1>4, <1>5, <1>6, <1>7 DEF IInv

\* Reading m_mainp keeps the invariant.
LEMMA ReadMainStep ==
  ASSUME IInv, NEW w \in Workers, ReadMain(w)
  PROVE  IInv'
<1> USE DEF App
<1>1. Types'
  BY DEF IInv, Types, Pcs, ReadMain, wvars, qvars, avars, Goto
<1>2. Stages'
  BY DEF IInv, Types, Stages, Entering, Leaving, ReadMain, wvars, qvars, avars,
     Goto
<1>3. Holds'
  BY DEF IInv, Types, Holds, Has, Over, PoolsOutlive, Ended, HasPoller, HasResource,
     InUse, Entering, Leaving, ReadMain, wvars, qvars, avars, Goto
<1>4. (OneHands /\ Entries /\ Alone /\ Closers /\ OpenWhileUsed /\ Counted)'
  <2>1. UNCHANGED <<group, named, st, refc, hold, raced, mainp>>
    BY DEF ReadMain, wvars, qvars, avars, Goto
  <2>2. \A v \in Workers :
           /\ pc[v] \in Touching \/ pc'[v] \in Touching => pc'[v] = pc[v] /\ of'[v] = of[v]
           /\ Handing(v)' <=> Handing(v)
    BY DEF IInv, Types, Touching, Opening, Closing, Handing, ReadMain, wvars,
       qvars, avars, Goto
  <2> QED
    BY <2>1, <2>2, Aside DEF IInv
<1>5. Waiting'
  BY DEF IInv, Types, Waiting, ReadMain, wvars, qvars, avars, Goto
<1>6. Queues'
  BY DEF IInv, Types, Queues, Emptied, Leaving, ReadMain, wvars, qvars, avars, Goto
<1>7. Over'
  BY DEF IInv, Types, Over, PoolsOutlive, Ended, Waiting, ReadMain, wvars,
     qvars, avars, Goto
<1> QED
  BY <1>1, <1>2, <1>3, <1>4, <1>5, <1>6, <1>7 DEF IInv

\* The start of the fabric keeps the invariant.
LEMMA InitFabricStep ==
  ASSUME IInv, NEW w \in Workers, InitFabric(w)
  PROVE  IInv'
<1> USE DEF App
<1>1. Types'
  BY DEF IInv, Types, Pcs, InitFabric, evars, wvars, avars, Goto
<1>2. Stages'
  BY DEF IInv, Types, Stages, Entering, Leaving, InitFabric, evars, wvars,
     avars, Goto
<1>3. Holds'
  BY DEF IInv, Types, Holds, Has, Over, PoolsOutlive, Ended, HasPoller, HasResource,
     InUse, Entering, Leaving, InitFabric, evars, wvars, avars, Goto
<1>4. (OneHands /\ Entries /\ Alone /\ Closers /\ OpenWhileUsed /\ Counted)'
  <2>1. UNCHANGED <<group, named, st, refc, hold, raced, mainp>>
    BY DEF InitFabric, evars, wvars, avars, Goto
  <2>2. \A v \in Workers :
           /\ pc[v] \in Touching \/ pc'[v] \in Touching => pc'[v] = pc[v] /\ of'[v] = of[v]
           /\ Handing(v)' <=> Handing(v)
    BY DEF IInv, Types, Touching, Opening, Closing, Handing, InitFabric, evars,
       wvars, avars, Goto
  <2> QED
    BY <2>1, <2>2, Aside DEF IInv
<1>5. Waiting'
  BY DEF IInv, Types, Waiting, InitFabric, evars, wvars, avars, Goto
<1>6. Queues'
  BY DEF IInv, Types, Queues, Emptied, Leaving, InitFabric, evars, wvars, avars, Goto
<1>7. Over'
  BY DEF IInv, Types, Over, PoolsOutlive, Ended, Waiting, InitFabric, evars,
     wvars, avars, Goto
<1> QED
  BY <1>1, <1>2, <1>3, <1>4, <1>5, <1>6, <1>7 DEF IInv

\* Running the code of the worker keeps the invariant, also when it fails.
LEMMA ExecuteStep ==
  ASSUME IInv, NEW w \in Workers, Execute(w)
  PROVE  IInv'
<1> USE DEF App
<1>1. Types'
  BY DEF IInv, Types, Pcs, Execute, evars, qvars, avars, Goto, At
<1>2. Stages'
  BY DEF IInv, Types, Stages, Entering, Leaving, Execute, evars, qvars, avars,
     Goto, At
<1>3. Holds'
  BY DEF IInv, Types, Holds, Has, Over, PoolsOutlive, Ended, HasPoller, HasResource,
     InUse, Entering, Leaving, Execute, evars, qvars, avars, Goto, At
<1>4. (OneHands /\ Entries /\ Alone /\ Closers /\ OpenWhileUsed /\ Counted)'
  <2>1. UNCHANGED <<group, named, st, refc, hold, raced, mainp>>
    BY DEF Execute, evars, qvars, avars, Goto, At
  <2>2. \A v \in Workers :
           /\ pc[v] \in Touching \/ pc'[v] \in Touching => pc'[v] = pc[v] /\ of'[v] = of[v]
           /\ Handing(v)' <=> Handing(v)
    BY DEF IInv, Types, Touching, Opening, Closing, Handing, Execute, evars,
       qvars, avars, Goto, At
  <2> QED
    BY <2>1, <2>2, Aside DEF IInv
<1>5. Waiting'
  BY DEF IInv, Types, Waiting, Execute, evars, qvars, avars, Goto, At
<1>6. Queues'
  BY DEF IInv, Types, Queues, Emptied, Leaving, Execute, evars, qvars, avars, Goto, At
<1>7. Over'
  BY DEF IInv, Types, Over, PoolsOutlive, Ended, Waiting, Execute, evars,
     qvars, avars, Goto, At
<1> QED
  BY <1>1, <1>2, <1>3, <1>4, <1>5, <1>6, <1>7 DEF IInv

\* Publishing the server keeps the invariant.
LEMMA SetServerStep ==
  ASSUME IInv, NEW w \in Workers, SetServer(w)
  PROVE  IInv'
<1> USE DEF App
<1>1. Types'
  BY DEF IInv, Types, Pcs, SetServer, evars, qvars, avars, Goto
<1>2. Stages'
  BY DEF IInv, Types, Stages, Entering, Leaving, SetServer, evars, qvars,
     avars, Goto
<1>3. Holds'
  BY DEF IInv, Types, Holds, Has, Over, PoolsOutlive, Ended, HasPoller, HasResource,
     InUse, Entering, Leaving, SetServer, evars, qvars, avars, Goto
<1>4. (OneHands /\ Entries /\ Alone /\ Closers /\ OpenWhileUsed /\ Counted)'
  <2>1. UNCHANGED <<group, named, st, refc, hold, raced, mainp>>
    BY DEF SetServer, evars, qvars, avars, Goto
  <2>2. \A v \in Workers :
           /\ pc[v] \in Touching \/ pc'[v] \in Touching => pc'[v] = pc[v] /\ of'[v] = of[v]
           /\ Handing(v)' <=> Handing(v)
    BY DEF IInv, Types, Touching, Opening, Closing, Handing, SetServer, evars,
       qvars, avars, Goto
  <2> QED
    BY <2>1, <2>2, Aside DEF IInv
<1>5. Waiting'
  BY DEF IInv, Types, Waiting, SetServer, evars, qvars, avars, Goto
<1>6. Queues'
  BY DEF IInv, Types, Queues, Emptied, Leaving, SetServer, evars, qvars, avars, Goto
<1>7. Over'
  BY DEF IInv, Types, Over, PoolsOutlive, Ended, Waiting, SetServer, evars,
     qvars, avars, Goto
<1> QED
  BY <1>1, <1>2, <1>3, <1>4, <1>5, <1>6, <1>7 DEF IInv

\* Running a task keeps the invariant.
LEMMA RunTaskStep ==
  ASSUME IInv, NEW w \in Workers, RunTask(w)
  PROVE  IInv'
<1> USE DEF App
<1>1. Types'
  BY BoundAssumption DEF IInv, Types, Pcs, RunTask, evars, wvars, avars, At
<1>2. Stages'
  BY DEF IInv, Types, Stages, Entering, Leaving, RunTask, evars, wvars, avars,
     At
<1>3. Holds'
  BY DEF IInv, Types, Holds, Has, Over, PoolsOutlive, Ended, HasPoller, HasResource,
     InUse, Entering, Leaving, RunTask, evars, wvars, avars, At
<1>4. (OneHands /\ Entries /\ Alone /\ Closers /\ OpenWhileUsed /\ Counted)'
  <2>1. UNCHANGED <<group, named, st, refc, hold, raced, mainp>>
    BY DEF RunTask, evars, wvars, avars, At
  <2>2. \A v \in Workers :
           /\ pc[v] \in Touching \/ pc'[v] \in Touching => pc'[v] = pc[v] /\ of'[v] = of[v]
           /\ Handing(v)' <=> Handing(v)
    BY DEF IInv, Types, Touching, Opening, Closing, Handing, RunTask, evars,
       wvars, avars, At
  <2> QED
    BY <2>1, <2>2, Aside DEF IInv
<1>5. Waiting'
  BY DEF IInv, Types, Waiting, RunTask, evars, wvars, avars, At
<1>6. Queues'
  BY DEF IInv, Types, Queues, Emptied, Leaving, RunTask, evars, wvars, avars, At
<1>7. Over'
  BY DEF IInv, Types, Over, PoolsOutlive, Ended, Waiting, RunTask, evars,
     wvars, avars, At
<1> QED
  BY <1>1, <1>2, <1>3, <1>4, <1>5, <1>6, <1>7 DEF IInv

\* The end of the event loop keeps the invariant.
LEMMA LeaveStep ==
  ASSUME IInv, NEW w \in Workers, Leave(w)
  PROVE  IInv'
<1> USE DEF App
<1>1. Types'
  BY DEF IInv, Types, Pcs, Leave, evars, wvars, qvars, avars, Goto, At
<1>2. Stages'
  BY DEF IInv, Types, Stages, Entering, Leaving, Leave, evars, wvars, qvars,
     avars, Goto, At
<1>3. Holds'
  BY DEF IInv, Types, Holds, Has, Over, PoolsOutlive, Ended, HasPoller, HasResource,
     InUse, Entering, Leaving, Leave, evars, wvars, qvars, avars, Goto, At
<1>4. (OneHands /\ Entries /\ Alone /\ Closers /\ OpenWhileUsed /\ Counted)'
  <2>1. UNCHANGED <<group, named, st, refc, hold, raced, mainp>>
    BY DEF Leave, evars, wvars, qvars, avars, Goto, At
  <2>2. \A v \in Workers :
           /\ pc[v] \in Touching \/ pc'[v] \in Touching => pc'[v] = pc[v] /\ of'[v] = of[v]
           /\ Handing(v)' <=> Handing(v)
    BY DEF IInv, Types, Touching, Opening, Closing, Handing, Leave, evars,
       wvars, qvars, avars, Goto, At
  <2> QED
    BY <2>1, <2>2, Aside DEF IInv
<1>5. Waiting'
  BY DEF IInv, Types, Waiting, Leave, evars, wvars, qvars, avars, Goto, At
<1>6. Queues'
  BY DEF IInv, Types, Queues, Emptied, Leaving, Leave, evars, wvars, qvars, avars, Goto,
     At
<1>7. Over'
  BY DEF IInv, Types, Over, PoolsOutlive, Ended, Waiting, Leave, evars, wvars,
     qvars, avars, Goto, At
<1> QED
  BY <1>1, <1>2, <1>3, <1>4, <1>5, <1>6, <1>7 DEF IInv

\* fin's drain keeps the invariant: the queue is empty then.
LEMMA DrainStep ==
  ASSUME IInv, NEW w \in Workers, Drain(w)
  PROVE  IInv'
<1> USE DEF App
<1>1. Types'
  BY BoundAssumption DEF IInv, Types, Pcs, Drain, evars, wvars, avars, Goto
<1>p. <<"p", group[w]>> \in hold[w] => group[w] # "none"
  BY DEF IInv, Types, Holds, Has, HasPoller
<1>2. Stages'
  BY <1>p DEF IInv, Types, Stages, Entering, Leaving, Drain, evars, wvars, avars,
     Goto
<1>3. Holds'
  BY DEF IInv, Types, Holds, Has, Over, PoolsOutlive, Ended, HasPoller, HasResource,
     InUse, Entering, Leaving, Drain, evars, wvars, avars, Goto
<1>4. (OneHands /\ Entries /\ Alone /\ Closers /\ OpenWhileUsed /\ Counted)'
  <2>1. UNCHANGED <<group, named, st, refc, hold, raced, mainp>>
    BY DEF Drain, evars, wvars, avars, Goto
  <2>2. \A v \in Workers :
           /\ pc[v] \in Touching \/ pc'[v] \in Touching => pc'[v] = pc[v] /\ of'[v] = of[v]
           /\ Handing(v)' <=> Handing(v)
    BY DEF IInv, Types, Touching, Opening, Closing, Handing, Drain, evars,
       wvars, avars, Goto
  <2> QED
    BY <2>1, <2>2, Aside DEF IInv
<1>5. Waiting'
  BY DEF IInv, Types, Waiting, Drain, evars, wvars, avars, Goto
<1>6. Queues'
  BY DEF IInv, Types, Queues, Emptied, Leaving, Drain, evars, wvars, avars, Goto
<1>7. Over'
  BY DEF IInv, Types, Over, PoolsOutlive, Ended, Waiting, Drain, evars, wvars,
     avars, Goto
<1> QED
  BY <1>1, <1>2, <1>3, <1>4, <1>5, <1>6, <1>7 DEF IInv

\* The end of m_fque keeps the invariant: it was drained.
LEMMA CloseQueueStep ==
  ASSUME IInv, NEW w \in Workers, CloseQueue(w)
  PROVE  IInv'
<1> USE DEF App
<1>1. Types'
  BY DEF IInv, Types, Pcs, CloseQueue, evars, wvars, avars, Goto
<1>2. Stages'
  BY DEF IInv, Types, Stages, Entering, Leaving, CloseQueue, evars, wvars,
     avars, Goto
<1>3. Holds'
  BY DEF IInv, Types, Holds, Has, Over, PoolsOutlive, Ended, HasPoller, HasResource,
     InUse, Entering, Leaving, CloseQueue, evars, wvars, avars, Goto
<1>4. (OneHands /\ Entries /\ Alone /\ Closers /\ OpenWhileUsed /\ Counted)'
  <2>1. UNCHANGED <<group, named, st, refc, hold, raced, mainp>>
    BY DEF CloseQueue, evars, wvars, avars, Goto
  <2>2. \A v \in Workers :
           /\ pc[v] \in Touching \/ pc'[v] \in Touching => pc'[v] = pc[v] /\ of'[v] = of[v]
           /\ Handing(v)' <=> Handing(v)
    BY DEF IInv, Types, Touching, Opening, Closing, Handing, CloseQueue, evars,
       wvars, avars, Goto
  <2> QED
    BY <2>1, <2>2, Aside DEF IInv
<1>5. Waiting'
  BY DEF IInv, Types, Waiting, CloseQueue, evars, wvars, avars, Goto
<1>6. Queues'
  BY DEF IInv, Types, Queues, Emptied, Leaving, CloseQueue, evars, wvars, avars, Goto
<1>7. Over'
  BY DEF IInv, Types, Over, PoolsOutlive, Ended, Waiting, CloseQueue, evars,
     wvars, avars, Goto
<1> QED
  BY <1>1, <1>2, <1>3, <1>4, <1>5, <1>6, <1>7 DEF IInv

\* Killing a thread keeps the invariant.
LEMMA KillStep ==
  ASSUME IInv, NEW a \in Workers \union {App}, NEW w \in Workers, Kill(a, w)
  PROVE  IInv'
<1> USE DEF App
<1>1. Types'
  BY DEF IInv, Types, Pcs, Kill, evars, qvars, avars, Scripts
<1>2. Stages'
  BY DEF IInv, Types, Stages, Entering, Leaving, Kill, evars, qvars, avars,
     Scripts
<1>3. Holds'
  BY DEF IInv, Types, Holds, Has, Over, PoolsOutlive, Ended, HasPoller, HasResource,
     InUse, Entering, Leaving, Kill, evars, qvars, avars, Scripts
<1>4. (OneHands /\ Entries /\ Alone /\ Closers /\ OpenWhileUsed /\ Counted)'
  <2>1. UNCHANGED <<group, named, st, refc, hold, raced, mainp>>
    BY DEF Kill, evars, qvars, avars
  <2>2. \A v \in Workers :
           /\ pc[v] \in Touching \/ pc'[v] \in Touching => pc'[v] = pc[v] /\ of'[v] = of[v]
           /\ Handing(v)' <=> Handing(v)
    BY DEF IInv, Types, Touching, Opening, Closing, Handing, Kill, evars,
       qvars, avars, Scripts
  <2> QED
    BY <2>1, <2>2, Aside DEF IInv
<1>5. Waiting'
  BY DEF IInv, Types, Waiting, Kill, evars, qvars, avars, Scripts
<1>6. Queues'
  BY DEF IInv, Types, Queues, Emptied, Leaving, Kill, evars, qvars, avars, Scripts
<1>7. Over'
  BY DEF IInv, Types, Over, PoolsOutlive, Ended, Waiting, Kill, evars, qvars,
     avars, Scripts
<1> QED
  BY <1>1, <1>2, <1>3, <1>4, <1>5, <1>6, <1>7 DEF IInv

\* A call of a thread keeps the invariant: it runs.
LEMMA CallStep ==
  ASSUME IInv, NEW a \in Workers \union {App}, NEW w \in Workers, Call(a, w)
  PROVE  IInv'
<1> USE DEF App
<1>1. Types'
  BY BoundAssumption DEF IInv, Types, Pcs, Call, evars, wvars, avars, Scripts
<1>2. Stages'
  BY DEF IInv, Types, Stages, Entering, Leaving, Call, evars, wvars, avars,
     Scripts
<1>3. Holds'
  BY DEF IInv, Types, Holds, Has, Over, PoolsOutlive, Ended, HasPoller, HasResource,
     InUse, Entering, Leaving, Call, evars, wvars, avars, Scripts
<1>4. (OneHands /\ Entries /\ Alone /\ Closers /\ OpenWhileUsed /\ Counted)'
  <2>1. UNCHANGED <<group, named, st, refc, hold, raced, mainp>>
    BY DEF Call, evars, wvars, avars
  <2>2. \A v \in Workers :
           /\ pc[v] \in Touching \/ pc'[v] \in Touching => pc'[v] = pc[v] /\ of'[v] = of[v]
           /\ Handing(v)' <=> Handing(v)
    BY DEF IInv, Types, Touching, Opening, Closing, Handing, Call, evars,
       wvars, avars, Scripts
  <2> QED
    BY <2>1, <2>2, Aside DEF IInv
<1>5. Waiting'
  BY DEF IInv, Types, Waiting, Call, evars, wvars, avars, Scripts
<1>6. Queues'
  BY DEF IInv, Types, Queues, Emptied, Leaving, Call, evars, wvars, avars, Scripts
<1>7. Over'
  BY DEF IInv, Types, Over, PoolsOutlive, Ended, Waiting, Call, evars, wvars,
     avars, Scripts
<1> QED
  BY <1>1, <1>2, <1>3, <1>4, <1>5, <1>6, <1>7 DEF IInv

\* SIGINT keeps the invariant.
LEMMA DieStep ==
  ASSUME IInv, Die
  PROVE  IInv'
<1> USE DEF App
<1>1. Types'
  BY DEF IInv, Types, Pcs, Die, evars, wvars, qvars, At
<1>2. Stages'
  BY DEF IInv, Types, Stages, Entering, Leaving, Die, evars, wvars, qvars, At
<1>3. Holds'
  BY DEF IInv, Types, Holds, Has, Over, PoolsOutlive, Ended, HasPoller, HasResource,
     InUse, Entering, Leaving, Die, evars, wvars, qvars, At
<1>4. (OneHands /\ Entries /\ Alone /\ Closers /\ OpenWhileUsed /\ Counted)'
  <2>1. UNCHANGED <<group, named, st, refc, hold, raced, mainp>>
    BY DEF Die, evars, wvars, qvars, At
  <2>2. \A v \in Workers :
           /\ pc[v] \in Touching \/ pc'[v] \in Touching => pc'[v] = pc[v] /\ of'[v] = of[v]
           /\ Handing(v)' <=> Handing(v)
    BY DEF IInv, Types, Touching, Opening, Closing, Handing, Die, evars, wvars,
       qvars, At
  <2> QED
    BY <2>1, <2>2, Aside DEF IInv
<1>5. Waiting'
  BY DEF IInv, Types, Waiting, Die, evars, wvars, qvars, At
<1>6. Queues'
  BY DEF IInv, Types, Queues, Emptied, Leaving, Die, evars, wvars, qvars, At
<1>7. Over'
  BY DEF IInv, Types, Over, PoolsOutlive, Ended, Waiting, Die, evars, wvars,
     qvars, At
<1> QED
  BY <1>1, <1>2, <1>3, <1>4, <1>5, <1>6, <1>7 DEF IInv

\* The end of bootstrap keeps the invariant.
LEMMA BootedStep ==
  ASSUME IInv, Booted
  PROVE  IInv'
<1> USE DEF App
<1>1. Types'
  BY DEF IInv, Types, Pcs, Booted, evars, wvars, qvars
<1>2. Stages'
  BY DEF IInv, Types, Stages, Entering, Leaving, Booted, evars, wvars, qvars
<1>3. Holds'
  BY DEF IInv, Types, Holds, Has, Over, PoolsOutlive, Ended, HasPoller, HasResource,
     InUse, Entering, Leaving, Booted, evars, wvars, qvars
<1>4. (OneHands /\ Entries /\ Alone /\ Closers /\ OpenWhileUsed /\ Counted)'
  <2>1. UNCHANGED <<group, named, st, refc, hold, raced, mainp>>
    BY DEF Booted, evars, wvars, qvars
  <2>2. \A v \in Workers :
           /\ pc[v] \in Touching \/ pc'[v] \in Touching => pc'[v] = pc[v] /\ of'[v] = of[v]
           /\ Handing(v)' <=> Handing(v)
    BY DEF IInv, Types, Touching, Opening, Closing, Handing, Booted, evars,
       wvars, qvars
  <2> QED
    BY <2>1, <2>2, Aside DEF IInv
<1>5. Waiting'
  BY DEF IInv, Types, Waiting, Booted, evars, wvars, qvars
<1>6. Queues'
  BY DEF IInv, Types, Queues, Emptied, Leaving, Booted, evars, wvars, qvars
<1>7. Over'
  BY DEF IInv, Types, Over, PoolsOutlive, Ended, Waiting, Booted, evars, wvars,
     qvars
<1> QED
  BY <1>1, <1>2, <1>3, <1>4, <1>5, <1>6, <1>7 DEF IInv

\* join keeps the invariant.
LEMMA JoinStep ==
  ASSUME IInv, NEW w \in Workers, Join(w)
  PROVE  IInv'
<1> USE DEF App
<1>1. Types'
  BY DEF IInv, Types, Pcs, Join, evars, wvars, qvars
<1>2. Stages'
  BY DEF IInv, Types, Stages, Entering, Leaving, Join, evars, wvars, qvars
<1>3. Holds'
  BY DEF IInv, Types, Holds, Has, Over, PoolsOutlive, Ended, HasPoller, HasResource,
     InUse, Entering, Leaving, Join, evars, wvars, qvars
<1>4. (OneHands /\ Entries /\ Alone /\ Closers /\ OpenWhileUsed /\ Counted)'
  <2>1. UNCHANGED <<group, named, st, refc, hold, raced, mainp>>
    BY DEF Join, evars, wvars, qvars
  <2>2. \A v \in Workers :
           /\ pc[v] \in Touching \/ pc'[v] \in Touching => pc'[v] = pc[v] /\ of'[v] = of[v]
           /\ Handing(v)' <=> Handing(v)
    BY DEF IInv, Types, Touching, Opening, Closing, Handing, Join, evars,
       wvars, qvars
  <2> QED
    BY <2>1, <2>2, Aside DEF IInv
<1>5. Waiting'
  BY DEF IInv, Types, Waiting, Join, evars, wvars, qvars
<1>6. Queues'
  BY DEF IInv, Types, Queues, Emptied, Leaving, Join, evars, wvars, qvars
<1>7. Over'
  BY DEF IInv, Types, Over, PoolsOutlive, Ended, Waiting, Join, evars, wvars,
     qvars
<1> QED
  BY <1>1, <1>2, <1>3, <1>4, <1>5, <1>6, <1>7 DEF IInv

\* The end of the joins keeps the invariant.
LEMMA JoinEndStep ==
  ASSUME IInv, JoinEnd
  PROVE  IInv'
<1> USE DEF App
<1>1. Types'
  BY DEF IInv, Types, Pcs, JoinEnd, evars, wvars, qvars
<1>2. Stages'
  BY DEF IInv, Types, Stages, Entering, Leaving, JoinEnd, evars, wvars, qvars
<1>3. Holds'
  BY DEF IInv, Types, Holds, Has, Over, PoolsOutlive, Ended, HasPoller, HasResource,
     InUse, Entering, Leaving, JoinEnd, evars, wvars, qvars
<1>4. (OneHands /\ Entries /\ Alone /\ Closers /\ OpenWhileUsed /\ Counted)'
  <2>1. UNCHANGED <<group, named, st, refc, hold, raced, mainp>>
    BY DEF JoinEnd, evars, wvars, qvars
  <2>2. \A v \in Workers :
           /\ pc[v] \in Touching \/ pc'[v] \in Touching => pc'[v] = pc[v] /\ of'[v] = of[v]
           /\ Handing(v)' <=> Handing(v)
    BY DEF IInv, Types, Touching, Opening, Closing, Handing, JoinEnd, evars,
       wvars, qvars
  <2> QED
    BY <2>1, <2>2, Aside DEF IInv
<1>5. Waiting'
  BY DEF IInv, Types, Waiting, JoinEnd, evars, wvars, qvars
<1>6. Queues'
  BY DEF IInv, Types, Queues, Emptied, Leaving, JoinEnd, evars, wvars, qvars
<1>7. Over'
  BY DEF IInv, Types, Over, PoolsOutlive, Ended, Waiting, JoinEnd, evars,
     wvars, qvars
<1> QED
  BY <1>1, <1>2, <1>3, <1>4, <1>5, <1>6, <1>7 DEF IInv

\* Cancelling a thread keeps the invariant: it sleeps or waits, and is not at an
\* entry.
LEMMA CancelStep ==
  ASSUME IInv, NEW w \in Workers, Cancel(w)
  PROVE  IInv'
<1> USE DEF App
<1>p. pc[w] \in {"exec", "run"}
  BY DEF IInv, Waiting, Cancel
<1>1. Types'
  BY DEF IInv, Types, Pcs, Cancel, evars, qvars, avars, Goto
<1>2. Stages'
  BY DEF IInv, Types, Stages, Entering, Leaving, Cancel, evars, qvars, avars,
     Goto
<1>3. Holds'
  BY <1>p DEF IInv, Types, Holds, Has, Over, PoolsOutlive, Ended, HasPoller,
     HasResource, InUse, Entering, Leaving, Cancel, evars, qvars, avars, Goto
<1>4. (OneHands /\ Entries /\ Alone /\ Closers /\ OpenWhileUsed /\ Counted)'
  <2>1. UNCHANGED <<group, named, st, refc, hold, raced, mainp>>
    BY DEF Cancel, evars, qvars, avars, Goto
  <2>2. \A v \in Workers :
           /\ pc[v] \in Touching \/ pc'[v] \in Touching => pc'[v] = pc[v] /\ of'[v] = of[v]
           /\ Handing(v)' <=> Handing(v)
    BY <1>p DEF IInv, Types, Touching, Opening, Closing, Handing, Cancel,
       evars, qvars, avars, Goto
  <2> QED
    BY <2>1, <2>2, Aside DEF IInv
<1>5. Waiting'
  BY DEF IInv, Types, Waiting, Cancel, evars, qvars, avars, Goto
<1>6. Queues'
  BY <1>p DEF IInv, Types, Queues, Emptied, Leaving, Cancel, evars, qvars, avars, Goto
<1>7. Over'
  BY DEF IInv, Types, Over, PoolsOutlive, Ended, Waiting, Cancel, evars, qvars,
     avars, Goto
<1> QED
  BY <1>1, <1>2, <1>3, <1>4, <1>5, <1>6, <1>7 DEF IInv

\* The end of thread_pool::fin keeps the invariant: every worker has ended.
LEMMA StopStep ==
  ASSUME IInv, Stop
  PROVE  IInv'
<1> USE DEF App
<1>1. Types'
  BY DEF IInv, Types, Pcs, Stop, evars, wvars, qvars
<1>2. Stages'
  BY DEF IInv, Types, Stages, Entering, Leaving, Stop, evars, wvars, qvars
<1>3. Holds'
  BY DEF IInv, Types, Holds, Has, Over, PoolsOutlive, Ended, HasPoller, HasResource,
     InUse, Entering, Leaving, Stop, evars, wvars, qvars
<1>4. (OneHands /\ Entries /\ Alone /\ Closers /\ OpenWhileUsed /\ Counted)'
  <2>1. UNCHANGED <<group, named, st, refc, hold, raced, mainp>>
    BY DEF Stop, evars, wvars, qvars
  <2>2. \A v \in Workers :
           /\ pc[v] \in Touching \/ pc'[v] \in Touching => pc'[v] = pc[v] /\ of'[v] = of[v]
           /\ Handing(v)' <=> Handing(v)
    BY DEF IInv, Types, Touching, Opening, Closing, Handing, Stop, evars,
       wvars, qvars
  <2> QED
    BY <2>1, <2>2, Aside DEF IInv
<1>5. Waiting'
  BY DEF IInv, Types, Waiting, Stop, evars, wvars, qvars
<1>6. Queues'
  BY DEF IInv, Types, Queues, Emptied, Leaving, Stop, evars, wvars, qvars
<1>7. Over'
  BY DEF IInv, Types, Over, PoolsOutlive, Ended, Waiting, Stop, evars, wvars,
     qvars
<1> QED
  BY <1>1, <1>2, <1>3, <1>4, <1>5, <1>6, <1>7 DEF IInv

\* alloc's insert keeps the invariant: a closed entry is in the map only while
\* somebody is about to erase it (Closers), and found then it is a raced one.
LEMMA InsertStep ==
  ASSUME IInv, NEW w \in Workers, Insert(w)
  PROVE  IInv'
<1> USE DEF App
<1>k. /\ MainKey \in Keys /\ Key(w) \in Keys
      /\ \A v \in Workers : Key(v) \in Keys
  BY KeyKind DEF IInv
<1>1. Types'
  BY <1>k DEF IInv, Types, Pcs, Opened, Freed, Insert, wvars, qvars, avars,
     Goto
<1>2. Stages'
  BY DEF IInv, Types, Stages, Entering, Leaving, Opened, Freed, Insert, wvars,
     qvars, avars, Goto
<1>3. Holds'
  BY <1>k DEF IInv, Types, Holds, Has, Over, PoolsOutlive, Ended, HasPoller,
     HasResource, InUse, Entering, Leaving, Stages, Opened, Freed, Keys, Key,
     MainKey, Insert, wvars, qvars, avars, Goto
<1>o. OneHands'
  BY DEF IInv, Types, OneHands, Handing, Opened, Freed, Insert, wvars, qvars,
     avars, Goto
<1>s. /\ \A v \in Workers : Key(v)' = Key(v)
      /\ pc' = [pc EXCEPT ![w] = pc'[w]] /\ pc \in [Workers -> Pcs] /\ pc' \in [Workers -> Pcs]
      /\ st \in [Keys -> {"raw", "open", "closed"}]
      /\ refc \in [Keys -> Int]
  BY <1>1 DEF IInv, Types, Key, MainKey, Insert, wvars, qvars, avars, Goto
<1>g. Key(w) \in named /\ Key(w) \notin raced' => st[Key(w)] # "closed"
  BY <1>k DEF IInv, Closers, Busy, Insert
<1>n. Key(w) \notin named /\ Key(w) \notin raced => refc[Key(w)] = 0
  <2> SUFFICES ASSUME Key(w) \notin named, Key(w) \notin raced
               PROVE  refc[Key(w)] = 0
    OBVIOUS
  <2>1. ~(refc[Key(w)] > 0)
    BY <1>k DEF IInv, OpenWhileUsed, Lives
  <2>2. refc[Key(w)] = Cardinality(Users(Key(w))) + Main(Key(w)) + Cardinality(Handers(Key(w)))
    BY <1>k, Sum DEF IInv, Counted
  <2> QED
    BY <2>1, <2>2, Sum
<1>e. Entries'
  BY <1>k, <1>s, <1>g DEF IInv, Entries, Alone, Opening, Closing, Opened,
     Freed, Insert, wvars, qvars, avars, Goto
<1>4. Alone'
  BY <1>k, <1>s, <1>g DEF IInv, Entries, Alone, Closers, Opening, Closing,
     Opened, Freed, Busy, Insert, wvars, qvars, avars, Goto
<1>l. Closers'
  <2> SUFFICES ASSUME NEW k \in named' \ raced', st'[k] = "closed"
               PROVE  \E v \in Workers : pc'[v] = "erase" /\ Key(v)' = k
    BY DEF Closers
  <2>1. k \in Keys /\ k # Key(w) /\ k \in named \ raced /\ st[k] = "closed"
    BY <1>1, <1>k, <1>s, <1>g DEF Types, Insert
  <2>2. PICK v \in Workers : pc[v] = "erase" /\ Key(v) = k
    BY <2>1 DEF IInv, Closers
  <2> QED
    BY <1>s, <2>1, <2>2
<1>u. OpenWhileUsed'
  BY <1>k, <1>s, <1>g DEF IInv, Entries, Alone, OpenWhileUsed, Lives, Opening,
     Closing, Insert, wvars, qvars, avars, Goto
<1>c. Counted'
  <2> SUFFICES ASSUME NEW k \in Keys, k \notin raced'
               PROVE  refc'[k] = Refs(k)'
    BY DEF Counted
  <2>a. k \notin raced
    BY DEF Insert
  <2>1. Users(k)' = Users(k) /\ Handers(k)' = Handers(k) /\ Main(k)' = Main(k)
    BY DEF IInv, Types, Users, Handers, Main, MainKey, Handing, Opened, Freed,
       Insert, wvars, qvars, avars, Goto
  <2>2. Refs(k)' = Refs(k)
    BY <2>1 DEF Refs, Users, Handers, Main, Handing
  <2> QED
    BY <1>k, <1>s, <1>n, <2>a, <2>2 DEF Counted, IInv, Insert, wvars, qvars, avars, Goto
<1>5. Waiting'
  BY DEF IInv, Types, Waiting, Opened, Freed, Insert, wvars, qvars, avars, Goto
<1>6. Queues'
  BY DEF IInv, Types, Queues, Emptied, Leaving, Opened, Freed, Insert, wvars, qvars,
     avars, Goto
<1>7. Over'
  BY <1>k DEF IInv, Types, Over, PoolsOutlive, Ended, Waiting, Insert, wvars,
     qvars, avars, Goto
<1> QED
  BY <1>1, <1>2, <1>3, <1>4, <1>5, <1>6, <1>7, <1>o, <1>e, <1>l, <1>c, <1>u DEF
     IInv

\* The initializer keeps the invariant: only one worker opens the entry.
LEMMA OpenStep ==
  ASSUME IInv, NEW w \in Workers, Open(w)
  PROVE  IInv'
<1> USE DEF App
<1>k. /\ MainKey \in Keys /\ Key(w) \in Keys
      /\ \A v \in Workers : Key(v) \in Keys
  BY KeyKind DEF IInv
<1>1. Types'
  BY <1>k DEF IInv, Types, Pcs, Opened, Freed, Open, wvars, qvars, avars, Goto
<1>2. Stages'
  BY DEF IInv, Types, Stages, Entering, Leaving, Opened, Freed, Open, wvars,
     qvars, avars, Goto
<1>3. Holds'
  BY <1>k DEF IInv, Types, Holds, Has, Over, PoolsOutlive, Ended, HasPoller,
     HasResource, InUse, Entering, Leaving, Stages, Opened, Freed, Keys, Key,
     MainKey, Open, wvars, qvars, avars, Goto
<1>o. OneHands'
  BY DEF IInv, Types, OneHands, Handing, Opened, Freed, Open, wvars, qvars,
     avars, Goto
<1>s. /\ \A v \in Workers : Key(v)' = Key(v)
      /\ pc' = [pc EXCEPT ![w] = pc'[w]] /\ pc \in [Workers -> Pcs] /\ pc' \in [Workers -> Pcs]
      /\ st \in [Keys -> {"raw", "open", "closed"}]
      /\ refc \in [Keys -> Int]
  BY <1>1 DEF IInv, Types, Key, MainKey, Open, wvars, qvars, avars, Goto
<1>e. Entries'
  BY <1>k, <1>s DEF IInv, Entries, Alone, Opening, Closing, Opened, Freed,
     Open, wvars, qvars, avars, Goto
<1>4. Alone'
  BY <1>k, <1>s DEF IInv, Entries, Alone, Closers, Opening, Closing, Opened,
     Freed, Busy, Open, wvars, qvars, avars, Goto
<1>l. Closers'
  BY <1>k, <1>s DEF IInv, Entries, Alone, Closers, Opening, Closing, Opened,
     Freed, Open, wvars, qvars, avars, Goto
<1>u. OpenWhileUsed'
  BY <1>k, <1>s DEF IInv, Entries, Alone, OpenWhileUsed, Lives, Opening, Closing,
     Open, wvars, qvars, avars, Goto
<1>c. Counted'
  <2> SUFFICES ASSUME NEW k \in Keys, k \notin raced'
               PROVE  refc'[k] = Refs(k)'
    BY DEF Counted
  <2>a. k \notin raced
    BY DEF Open
  <2>1. Users(k)' = Users(k) /\ Handers(k)' = Handers(k) /\ Main(k)' = Main(k)
    BY DEF IInv, Types, Users, Handers, Main, MainKey, Handing, Opened, Freed,
       Open, wvars, qvars, avars, Goto
  <2>2. Refs(k)' = Refs(k)
    BY <2>1 DEF Refs, Users, Handers, Main, Handing
  <2> QED
    BY <1>k, <1>s, <2>a, <2>2 DEF Counted, IInv, Open, wvars, qvars, avars, Goto
<1>5. Waiting'
  BY DEF IInv, Types, Waiting, Opened, Freed, Open, wvars, qvars, avars, Goto
<1>6. Queues'
  BY DEF IInv, Types, Queues, Emptied, Leaving, Opened, Freed, Open, wvars, qvars,
     avars, Goto
<1>7. Over'
  BY <1>k DEF IInv, Types, Over, PoolsOutlive, Ended, Waiting, Open, wvars,
     qvars, avars, Goto
<1> QED
  BY <1>1, <1>2, <1>3, <1>4, <1>5, <1>6, <1>7, <1>o, <1>e, <1>l, <1>c, <1>u DEF
     IInv

\* The checker keeps the invariant: it goes on with an entry that is open.
LEMMA CheckStep ==
  ASSUME IInv, NEW w \in Workers, Check(w)
  PROVE  IInv'
<1> USE DEF App
<1>k. /\ MainKey \in Keys /\ Key(w) \in Keys
      /\ \A v \in Workers : Key(v) \in Keys
  BY KeyKind DEF IInv
<1>1. Types'
  BY <1>k DEF IInv, Types, Pcs, Opened, Freed, Check, evars, wvars, qvars,
     avars, Goto
<1>2. Stages'
  BY DEF IInv, Types, Stages, Entering, Leaving, Opened, Freed, Check, evars,
     wvars, qvars, avars, Goto
<1>3. Holds'
  BY <1>k DEF IInv, Types, Holds, Has, Over, PoolsOutlive, Ended, HasPoller,
     HasResource, InUse, Entering, Leaving, Stages, Opened, Freed, Keys, Key,
     MainKey, Check, evars, wvars, qvars, avars, Goto
<1>o. OneHands'
  BY DEF IInv, Types, OneHands, Handing, Opened, Freed, Check, evars, wvars,
     qvars, avars, Goto
<1>s. /\ \A v \in Workers : Key(v)' = Key(v)
      /\ pc' = [pc EXCEPT ![w] = pc'[w]] /\ pc \in [Workers -> Pcs] /\ pc' \in [Workers -> Pcs]
      /\ st \in [Keys -> {"raw", "open", "closed"}]
      /\ refc \in [Keys -> Int]
  BY <1>1 DEF IInv, Types, Key, MainKey, Check, evars, wvars, qvars, avars,
     Goto
<1>e. Entries'
  BY <1>k, <1>s DEF IInv, Entries, Alone, Opening, Closing, Opened, Freed,
     Check, evars, wvars, qvars, avars, Goto
<1>4. Alone'
  BY <1>k, <1>s DEF IInv, Entries, Alone, Closers, Opening, Closing, Opened,
     Freed, Busy, Check, evars, wvars, qvars, avars, Goto
<1>l. Closers'
  BY <1>k, <1>s DEF IInv, Entries, Alone, Closers, Opening, Closing, Opened,
     Freed, Check, evars, wvars, qvars, avars, Goto
<1>u. OpenWhileUsed'
  BY <1>k, <1>s DEF IInv, Entries, Alone, OpenWhileUsed, Lives, Opening, Closing,
     Check, evars, wvars, qvars, avars, Goto
<1>c. Counted'
  <2> SUFFICES ASSUME NEW k \in Keys, k \notin raced'
               PROVE  refc'[k] = Refs(k)'
    BY DEF Counted
  <2>a. k \notin raced
    BY DEF Check, evars
  <2>1. Users(k)' = Users(k) /\ Handers(k)' = Handers(k) /\ Main(k)' = Main(k)
    BY DEF IInv, Types, Users, Handers, Main, MainKey, Handing, Opened, Freed,
       Check, evars, wvars, qvars, avars, Goto
  <2>2. Refs(k)' = Refs(k)
    BY <2>1 DEF Refs, Users, Handers, Main, Handing
  <2> QED
    BY <1>k, <1>s, <2>a, <2>2 DEF Counted, IInv, Check, evars, wvars, qvars, avars, Goto
<1>5. Waiting'
  BY DEF IInv, Types, Waiting, Opened, Freed, Check, evars, wvars, qvars,
     avars, Goto
<1>6. Queues'
  BY DEF IInv, Types, Queues, Emptied, Leaving, Opened, Freed, Check, evars, wvars,
     qvars, avars, Goto
<1>7. Over'
  BY <1>k DEF IInv, Types, Over, PoolsOutlive, Ended, Waiting, Check, evars,
     wvars, qvars, avars, Goto
<1> QED
  BY <1>1, <1>2, <1>3, <1>4, <1>5, <1>6, <1>7, <1>o, <1>e, <1>l, <1>c, <1>u DEF
     IInv

\* A check that fails keeps the invariant: of the entry nothing is said any more.
LEMMA CheckFailsStep ==
  ASSUME IInv, NEW w \in Workers, CheckFails(w)
  PROVE  IInv'
<1> USE DEF App
<1>k. /\ MainKey \in Keys /\ Key(w) \in Keys
      /\ \A v \in Workers : Key(v) \in Keys
  BY KeyKind DEF IInv
<1>1. Types'
  BY <1>k DEF IInv, Types, Pcs, Opened, Freed, CheckFails, wvars, qvars,
     avars, Goto
<1>2. Stages'
  BY DEF IInv, Types, Stages, Entering, Leaving, Opened, Freed, CheckFails,
     wvars, qvars, avars, Goto
<1>3. Holds'
  BY <1>k DEF IInv, Types, Holds, Has, Over, PoolsOutlive, Ended, HasPoller,
     HasResource, InUse, Entering, Leaving, Stages, Opened, Freed, Keys, Key,
     MainKey, CheckFails, wvars, qvars, avars, Goto
<1>o. OneHands'
  BY DEF IInv, Types, OneHands, Handing, Opened, Freed, CheckFails, wvars,
     qvars, avars, Goto
<1>s. /\ \A v \in Workers : Key(v)' = Key(v)
      /\ pc' = [pc EXCEPT ![w] = pc'[w]] /\ pc \in [Workers -> Pcs] /\ pc' \in [Workers -> Pcs]
      /\ st \in [Keys -> {"raw", "open", "closed"}]
      /\ refc \in [Keys -> Int]
  BY <1>1 DEF IInv, Types, Key, MainKey, CheckFails, wvars, qvars, avars,
     Goto
<1>e. Entries'
  BY <1>k, <1>s DEF IInv, Entries, Alone, Opening, Closing, Opened, Freed,
     CheckFails, wvars, qvars, avars, Goto
<1>4. Alone'
  BY <1>k, <1>s DEF IInv, Entries, Alone, Closers, Opening, Closing, Opened,
     Freed, Busy, CheckFails, wvars, qvars, avars, Goto
<1>l. Closers'
  BY <1>k, <1>s DEF IInv, Entries, Alone, Closers, Opening, Closing, Opened,
     Freed, CheckFails, wvars, qvars, avars, Goto
<1>u. OpenWhileUsed'
  BY <1>k, <1>s DEF IInv, Entries, Alone, OpenWhileUsed, Lives, Opening, Closing,
     CheckFails, wvars, qvars, avars, Goto
<1>c. Counted'
  <2> SUFFICES ASSUME NEW k \in Keys, k \notin raced'
               PROVE  refc'[k] = Refs(k)'
    BY DEF Counted
  <2>a. k \notin raced
    BY DEF CheckFails
  <2>1. Users(k)' = Users(k) /\ Handers(k)' = Handers(k) /\ Main(k)' = Main(k)
    BY DEF IInv, Types, Users, Handers, Main, MainKey, Handing, Opened, Freed,
       CheckFails, wvars, qvars, avars, Goto
  <2>2. Refs(k)' = Refs(k)
    BY <2>1 DEF Refs, Users, Handers, Main, Handing
  <2> QED
    BY <1>k, <1>s, <2>a, <2>2 DEF Counted, IInv, CheckFails, wvars, qvars, avars, Goto
<1>5. Waiting'
  BY DEF IInv, Types, Waiting, Opened, Freed, CheckFails, wvars, qvars,
     avars, Goto
<1>6. Queues'
  BY DEF IInv, Types, Queues, Emptied, Leaving, Opened, Freed, CheckFails, wvars,
     qvars, avars, Goto
<1>7. Over'
  BY <1>k DEF IInv, Types, Over, PoolsOutlive, Ended, Waiting, CheckFails,
     wvars, qvars, avars, Goto
<1> QED
  BY <1>1, <1>2, <1>3, <1>4, <1>5, <1>6, <1>7, <1>o, <1>e, <1>l, <1>c, <1>u DEF
     IInv

\* element::ref keeps the invariant: the worker did not refer to the entry before.
LEMMA ReferStep ==
  ASSUME IInv, NEW w \in Workers, Refer(w)
  PROVE  IInv'
<1> USE DEF App
<1>k. /\ MainKey \in Keys /\ Key(w) \in Keys
      /\ \A v \in Workers : Key(v) \in Keys
  BY KeyKind DEF IInv
<1>1. Types'
  BY <1>k DEF IInv, Types, Pcs, Opened, Freed, Refer, wvars, qvars, avars, Goto
<1>2. Stages'
  BY DEF IInv, Types, Stages, Entering, Leaving, Opened, Freed, Refer, wvars,
     qvars, avars, Goto
<1>3. Holds'
  <2>1. phase # "end" /\ phase' = phase /\ pc[w] = "refer"
          /\ pc' = [pc EXCEPT ![w] = Opened(w)] /\ UNCHANGED <<group, of>>
    BY DEF IInv, Over, PoolsOutlive, Ended, Refer, wvars, qvars, avars, Goto
  <2>2. hold' = [hold EXCEPT ![w] = @ \union {Key(w)}] /\ hold \in [Workers -> SUBSET Keys]
    BY DEF IInv, Types, Refer
  <2>3. \A v \in Workers : v # w => hold'[v] = hold[v] /\ (HasPoller(v)' <=> HasPoller(v))
          /\ (HasResource(v)' <=> HasResource(v))
    BY <2>1, <2>2 DEF IInv, Types, HasPoller, HasResource
  <2>h. \A v \in Workers : v # w => \A k \in Keys : Has(v, k)' <=> Has(v, k)
    BY <2>1, <2>3 DEF Has
  <2>r. raced' = raced
    BY DEF Refer
  <2>4. Key(w) = <<of[w], group[w]>> /\ of[w] \in {"p", "r"}
          /\ (of[w] = "p" => group[w] # "none") /\ pc'[w] = Opened(w)
    BY <2>1 DEF IInv, Types, Stages, Entering, Key
  <2>5. CASE of[w] = "p"
    <3>1. ~HasPoller(w) /\ ~HasResource(w) /\ HasPoller(w)' /\ ~HasResource(w)'
      BY <2>1, <2>4, <2>5 DEF HasPoller, HasResource, InUse, Entering, Leaving,
         Opened
    <3>2. \A k \in Keys : Has(w, k)' <=> Has(w, k) \/ k = Key(w)
      BY <2>1, <2>4, <2>5, <3>1 DEF Has
    <3> QED
      BY <1>k, <2>1, <2>2, <2>3, <2>h, <2>r, <3>2 DEF IInv, Holds
  <2>6. CASE of[w] = "r"
    <3>1. (HasPoller(w)' <=> HasPoller(w)) /\ ~HasResource(w) /\ HasResource(w)'
      BY <2>1, <2>4, <2>6 DEF HasPoller, HasResource, InUse, Entering, Leaving,
         Opened
    <3>2. \A k \in Keys : Has(w, k)' <=> Has(w, k) \/ k = Key(w)
      BY <2>1, <2>4, <2>6, <3>1 DEF Has
    <3> QED
      BY <1>k, <2>1, <2>2, <2>3, <2>h, <2>r, <3>2 DEF IInv, Holds
  <2> QED
    BY <2>4, <2>5, <2>6
<1>o. OneHands'
  BY DEF IInv, Types, OneHands, Handing, Opened, Freed, Refer, wvars, qvars,
     avars, Goto
<1>s. /\ \A v \in Workers : Key(v)' = Key(v)
      /\ pc' = [pc EXCEPT ![w] = pc'[w]] /\ pc \in [Workers -> Pcs] /\ pc' \in [Workers -> Pcs]
      /\ st \in [Keys -> {"raw", "open", "closed"}]
      /\ refc \in [Keys -> Int]
  BY <1>1 DEF IInv, Types, Key, MainKey, Refer, wvars, qvars, avars, Goto
<1>e. Entries'
  BY <1>k, <1>s DEF IInv, Entries, Alone, Opening, Closing, Opened, Freed,
     Refer, wvars, qvars, avars, Goto
<1>4. Alone'
  BY <1>k, <1>s DEF IInv, Entries, Alone, Closers, Opening, Closing, Opened,
     Freed, Busy, Refer, wvars, qvars, avars, Goto
<1>l. Closers'
  BY <1>k, <1>s DEF IInv, Entries, Alone, Closers, Opening, Closing, Opened,
     Freed, Refer, wvars, qvars, avars, Goto
<1>u. OpenWhileUsed'
  BY <1>k, <1>s DEF IInv, Entries, Alone, OpenWhileUsed, Lives, Opening, Closing,
     Refer, wvars, qvars, avars, Goto
<1>c. Counted'
  <2> SUFFICES ASSUME NEW k \in Keys, k \notin raced'
               PROVE  refc'[k] = Refs(k)'
    BY DEF Counted
  <2>a. k \notin raced
    BY DEF Refer
  <2>1. Handers(k)' = Handers(k) /\ Main(k)' = Main(k)
    BY DEF IInv, Types, Handers, Main, MainKey, Handing, Opened, Refer, wvars,
       qvars, avars, Goto
  <2>2. Refs(k)' = Cardinality(Users(k)') + Main(k)' + Cardinality(Handers(k)')
    BY DEF Refs, Users, Handers, Main, Handing
  <2>3. Key(w) \notin hold[w]
    <3>1. phase # "end" /\ pc[w] = "refer"
      BY DEF IInv, Over, PoolsOutlive, Ended, Refer
    <3>2. Key(w) = <<of[w], group[w]>> /\ of[w] \in {"p", "r"}
      BY <3>1 DEF IInv, Types, Stages, Entering, Key
    <3>3. of[w] = "p" => ~HasPoller(w)
      BY <3>1 DEF HasPoller, InUse, Entering, Leaving
    <3>4. ~HasResource(w)
      BY <3>1 DEF HasResource, InUse, Leaving
    <3>5. ~Has(w, Key(w))
      BY <3>2, <3>3, <3>4 DEF Has
    <3> QED
      BY <1>k, <3>5 DEF IInv, Holds
  <2>4. refc[k] = Cardinality(Users(k)) + Main(k) + Cardinality(Handers(k))
    BY <2>a, Sum DEF IInv, Counted
  <2>5. CASE k = Key(w)
    <3>1. Users(k)' = Users(k) \union {w} /\ w \notin Users(k)
      BY <2>3, <2>5 DEF IInv, Types, Users, Refer, wvars, qvars, avars, Goto
    <3>2. Cardinality(Users(k)') = Cardinality(Users(k)) + 1
      BY <3>1, Sum, FS_AddElement
    <3>3. refc'[k] = refc[k] + 1
      BY <1>k, <1>s, <2>5 DEF Refer
    <3> QED
      BY <2>1, <2>2, <2>4, <3>2, <3>3, Sum
  <2>6. CASE k # Key(w)
    <3>1. Users(k)' = Users(k)
      BY <2>6 DEF IInv, Types, Users, Refer, wvars, qvars, avars, Goto
    <3>2. refc'[k] = refc[k]
      BY <1>k, <1>s, <2>6 DEF Refer
    <3> QED
      BY <2>1, <2>2, <2>4, <3>1, <3>2
  <2> QED
    BY <2>5, <2>6
<1>5. Waiting'
  BY DEF IInv, Types, Waiting, Opened, Freed, Refer, wvars, qvars, avars, Goto
<1>6. Queues'
  BY DEF IInv, Types, Queues, Emptied, Leaving, Opened, Freed, Refer, wvars, qvars,
     avars, Goto
<1>7. Over'
  BY <1>k DEF IInv, Types, Over, PoolsOutlive, Ended, Waiting, Refer, wvars,
     qvars, avars, Goto
<1> QED
  BY <1>1, <1>2, <1>3, <1>4, <1>5, <1>6, <1>7, <1>o, <1>e, <1>l, <1>c, <1>u DEF
     IInv

\* element::unref keeps the invariant: the count was positive, since the worker
\* refers to the entry, and if somebody else is at it at zero it is a raced one.
LEMMA UnrefStep ==
  ASSUME IInv, NEW w \in Workers, Unref(w)
  PROVE  IInv'
<1> USE DEF App
<1>k. /\ MainKey \in Keys /\ Key(w) \in Keys
      /\ \A v \in Workers : Key(v) \in Keys
  BY KeyKind DEF IInv
<1>y. of[w] # "m" /\ Key(w) \notin raced => Key(w) \in hold[w]
  <2>0. phase # "end" /\ of[w] \in {"p", "r", "m"} /\ pc[w] = "unref"
    BY DEF IInv, Types, Over, PoolsOutlive, Ended, Unref
  <2>3. of[w] = "p" => HasPoller(w)
    BY <2>0 DEF IInv, Stages, HasPoller, Leaving
  <2>4. of[w] = "r" => HasResource(w)
    BY <2>0 DEF HasResource
  <2> QED
    BY <1>k, <2>0, <2>3, <2>4 DEF IInv, Holds, Has, Key
<1>h. Key(w) \notin raced => refc[Key(w)] > 0
  <2>2. of[w] = "m" => Key(w) = MainKey /\ Handing(w)
    BY DEF Key, Handing, Unref
  <2> QED
    BY <1>k, <1>y, <2>2, Used DEF IInv
<1>m. raced \subseteq raced'
  BY DEF Unref
<1>1. Types'
  BY <1>k, <1>h DEF IInv, Types, Pcs, Opened, Freed, Unref, wvars, qvars,
     avars, Goto
<1>2. Stages'
  BY DEF IInv, Types, Stages, Entering, Leaving, Opened, Freed, Unref, wvars,
     qvars, avars, Goto
<1>3. Holds'
  <2>1. phase # "end" /\ phase' = phase /\ pc[w] = "unref" /\ UNCHANGED <<group, of>>
    BY DEF IInv, Over, PoolsOutlive, Ended, Unref, wvars, qvars, avars, Goto
  <2>2. hold' = [hold EXCEPT ![w] = IF of[w] = "m" THEN @ ELSE @ \ {Key(w)}]
          /\ hold \in [Workers -> SUBSET Keys]
    BY DEF IInv, Types, Unref
  <2>3. \A v \in Workers : v # w => hold'[v] = hold[v] /\ (HasPoller(v)' <=> HasPoller(v))
          /\ (HasResource(v)' <=> HasResource(v))
    BY <2>1, <2>2 DEF IInv, Types, HasPoller, HasResource, Goto, Unref
  <2>h. \A v \in Workers : v # w => \A k \in Keys : Has(v, k)' <=> Has(v, k)
    BY <2>1, <2>3 DEF Has
  <2>4. of[w] # "m" => Key(w) = <<of[w], group[w]>>
    BY DEF Key
  <2>p. pc'[w] \in {"close", Freed(w)} /\ of[w] \in {"p", "r", "m"}
    BY DEF IInv, Types, Goto, Unref
  <2>g. (of[w] = "p" => group[w] # "none") /\ (of[w] = "m" => group[w] = "main")
    BY <2>1 DEF IInv, Stages, Leaving
  <2>5. CASE of[w] = "p"
    <3>1. HasPoller(w) /\ HasResource(w) /\ ~HasPoller(w)' /\ HasResource(w)'
      BY <2>1, <2>p, <2>g, <2>5 DEF HasPoller, HasResource, InUse, Entering,
         Leaving, Freed
    <3>2. \A k \in Keys : Has(w, k)' <=> Has(w, k) /\ k # Key(w)
      BY <2>1, <2>4, <2>5, <3>1 DEF Has
    <3> QED
      BY <1>k, <1>m, <2>1, <2>2, <2>3, <2>h, <2>5, <3>2 DEF IInv, Holds
  <2>6. CASE of[w] = "r"
    <3>1. ~HasPoller(w) /\ ~HasPoller(w)' /\ HasResource(w) /\ ~HasResource(w)'
      BY <2>1, <2>p, <2>6 DEF HasPoller, HasResource, InUse, Entering, Leaving,
         Freed
    <3>2. \A k \in Keys : Has(w, k)' <=> Has(w, k) /\ k # Key(w)
      BY <2>1, <2>4, <2>6, <3>1 DEF Has
    <3> QED
      BY <1>k, <1>m, <2>1, <2>2, <2>3, <2>h, <2>6, <3>2 DEF IInv, Holds
  <2>7. CASE of[w] = "m"
    <3>1. HasPoller(w) /\ HasPoller(w)' /\ ~HasResource(w) /\ ~HasResource(w)'
      BY <2>1, <2>p, <2>g, <2>7 DEF HasPoller, HasResource, InUse, Entering,
         Leaving, Freed
    <3>2. \A k \in Keys : Has(w, k)' <=> Has(w, k)
      BY <2>1, <2>4, <2>7, <3>1 DEF Has
    <3> QED
      BY <1>k, <1>m, <2>1, <2>2, <2>3, <2>h, <2>7, <3>2 DEF IInv, Holds
  <2> QED
    BY <2>p, <2>5, <2>6, <2>7
<1>o. OneHands'
  BY DEF IInv, Types, OneHands, Handing, Opened, Freed, Unref, wvars, qvars,
     avars, Goto
<1>s. /\ \A v \in Workers : Key(v)' = Key(v)
      /\ pc' = [pc EXCEPT ![w] = pc'[w]] /\ pc \in [Workers -> Pcs] /\ pc' \in [Workers -> Pcs]
      /\ st \in [Keys -> {"raw", "open", "closed"}]
      /\ refc \in [Keys -> Int]
  BY <1>1 DEF IInv, Types, Key, MainKey, Unref, wvars, qvars, avars, Goto
<1>e. Entries'
  <2> SUFFICES ASSUME NEW v \in Workers, Key(v)' \notin raced'
               PROVE  /\ pc'[v] \in Opening \union Closing => Key(v)' \in named'
                      /\ pc'[v] = "init" => st'[Key(v)'] = "raw"
                      /\ pc'[v] = "check" => st'[Key(v)'] \in {"raw", "open"}
                      /\ pc'[v] = "refer" => st'[Key(v)'] = "open"
                      /\ pc'[v] = "close" => st'[Key(v)'] = "open" /\ refc'[Key(v)'] = 0
                      /\ pc'[v] = "erase" => st'[Key(v)'] = "closed" /\ refc'[Key(v)'] = 0
    BY DEF Entries, Opening, Closing
  <2>1. Key(v)' = Key(v) /\ Key(v) \notin raced /\ Key(v) \in Keys
    BY <1>k, <1>m, <1>s
  <2>2. st' = st /\ named' = named
    BY DEF Unref
  <2>3. refc' = [refc EXCEPT ![Key(w)] = @ - 1]
    BY DEF Unref
  <2>4. CASE v = w
    <3>1. refc[Key(w)] > 0 /\ st[Key(w)] = "open" /\ Key(w) \in named
      BY <1>h, <1>k, <2>1, <2>4 DEF IInv, OpenWhileUsed, Lives
    <3>2. pc'[w] = IF refc[Key(w)] = 1 THEN "close" ELSE Freed(w)
      BY <1>s DEF Unref, Goto
    <3>3. Freed(w) \in {"fabric", "qfin", "done"}
      BY DEF Freed
    <3>4. refc[Key(w)] = 1 => refc'[Key(w)] = 0
      BY <1>k, <1>s, <2>3
    <3> QED
      BY <2>1, <2>2, <2>4, <3>1, <3>2, <3>3, <3>4
  <2>5. CASE v # w
    <3>1. pc'[v] = pc[v]
      BY <1>s, <2>5
    <3>2. pc[v] \in Closing => Key(v) # Key(w)
      BY <1>h, <2>1 DEF IInv, Entries, Closing
    <3>3. pc[v] \in Closing => refc'[Key(v)] = refc[Key(v)]
      BY <1>s, <2>1, <2>3, <3>2
    <3> QED
      BY <2>1, <2>2, <3>1, <3>3 DEF IInv, Entries, Opening, Closing
  <2> QED
    BY <2>4, <2>5
<1>4. Alone'
  BY <1>k, <1>s, <1>h DEF IInv, Entries, Alone, Closers, Opening, Closing,
     Opened, Freed, Busy, OpenWhileUsed, Unref, wvars, qvars, avars,
     Goto
<1>l. Closers'
  BY <1>k, <1>s, <1>h DEF IInv, Entries, Alone, Closers, Opening, Closing,
     Opened, Freed, OpenWhileUsed, Unref, wvars, qvars, avars, Goto
<1>u. OpenWhileUsed'
  BY <1>k, <1>s, <1>h DEF IInv, Entries, Alone, OpenWhileUsed, Lives, Opening,
     Closing, OpenWhileUsed, Unref, wvars, qvars, avars, Goto
<1>c. Counted'
  <2> SUFFICES ASSUME NEW k \in Keys, k \notin raced'
               PROVE  refc'[k] = Refs(k)'
    BY DEF Counted
  <2>a. k \notin raced
    BY <1>m
  <2>1. Main(k)' = Main(k)
    BY DEF Main, MainKey, Unref, wvars, qvars, avars, Goto
  <2>2. Refs(k)' = Cardinality(Users(k)') + Main(k)' + Cardinality(Handers(k)')
    BY DEF Refs, Users, Handers, Main, Handing
  <2>4. refc[k] = Cardinality(Users(k)) + Main(k) + Cardinality(Handers(k))
    BY <2>a, Sum DEF IInv, Counted
  <2>7. \A v \in Workers : v # w => (Handing(v)' <=> Handing(v))
    BY DEF IInv, Types, Handing, Unref, wvars, qvars, avars, Goto
  <2>8. ~Handing(w)'
    BY DEF IInv, Types, Handing, Freed, Unref, wvars, qvars, avars, Goto
  <2>9. k = Key(w) => refc'[k] = refc[k] - 1
    BY <1>k, <1>s DEF Unref
  <2>10. k # Key(w) => refc'[k] = refc[k]
    BY <1>k, <1>s DEF Unref
  <2>5. CASE of[w] = "m"
    <3>1. Users(k)' = Users(k)
      BY <2>5 DEF IInv, Types, Users, Unref, wvars, qvars, avars, Goto
    <3>2. k = Key(w) <=> k = MainKey
      BY <2>5 DEF Key
    <3>3. Handing(w)
      BY <2>5 DEF Handing, Unref
    <3>4. CASE k = MainKey
      <4>1. Handers(k)' = Handers(k) \ {w} /\ w \in Handers(k)
        BY <3>3, <3>4, <2>7, <2>8 DEF Handers, MainKey
      <4>2. Cardinality(Handers(k)') = Cardinality(Handers(k)) - 1
        BY <4>1, Sum, FS_RemoveElement
      <4> QED
        BY <2>1, <2>2, <2>4, <2>9, <3>1, <3>2, <3>4, <4>2, Sum
    <3>5. CASE k # MainKey
      <4>1. Handers(k)' = Handers(k)
        BY <3>5 DEF Handers, MainKey
      <4> QED
        BY <2>1, <2>2, <2>4, <2>10, <3>1, <3>2, <3>5, <4>1
    <3> QED
      BY <3>4, <3>5
  <2>6. CASE of[w] # "m"
    <3>1. ~Handing(w)
      BY <2>6 DEF Handing
    <3>2. Handers(k)' = Handers(k)
      BY <3>1, <2>7, <2>8 DEF Handers, MainKey
    <3>4. CASE k = Key(w)
      <4>0. Key(w) \in hold[w]
        BY <2>6, <2>a, <3>4, <1>y
      <4>1. Users(k)' = Users(k) \ {w} /\ w \in Users(k)
        BY <2>6, <3>4, <4>0 DEF IInv, Types, Users, Unref, wvars, qvars, avars,
           Goto
      <4>2. Cardinality(Users(k)') = Cardinality(Users(k)) - 1
        BY <4>1, Sum, FS_RemoveElement
      <4> QED
        BY <2>1, <2>2, <2>4, <2>9, <3>2, <3>4, <4>2, Sum
    <3>5. CASE k # Key(w)
      <4>1. Users(k)' = Users(k)
        BY <2>6, <3>5 DEF IInv, Types, Users, Unref, wvars, qvars, avars, Goto
      <4> QED
        BY <2>1, <2>2, <2>4, <2>10, <3>2, <3>5, <4>1
    <3> QED
      BY <3>4, <3>5
  <2> QED
    BY <2>5, <2>6
<1>5. Waiting'
  BY DEF IInv, Types, Waiting, Opened, Freed, Unref, wvars, qvars, avars, Goto
<1>6. Queues'
  BY DEF IInv, Types, Queues, Emptied, Leaving, Opened, Freed, Unref, wvars, qvars,
     avars, Goto
<1>7. Over'
  BY <1>k DEF IInv, Types, Over, PoolsOutlive, Ended, Waiting, Unref, wvars,
     qvars, avars, Goto
<1> QED
  BY <1>1, <1>2, <1>3, <1>4, <1>5, <1>6, <1>7, <1>o, <1>e, <1>l, <1>c, <1>u DEF
     IInv

\* Closing the entry keeps the invariant: nobody refers to it or opens it.
LEMMA CloseEntryStep ==
  ASSUME IInv, NEW w \in Workers, CloseEntry(w)
  PROVE  IInv'
<1> USE DEF App
<1>k. /\ MainKey \in Keys /\ Key(w) \in Keys
      /\ \A v \in Workers : Key(v) \in Keys
  BY KeyKind DEF IInv
<1>1. Types'
  BY <1>k DEF IInv, Types, Pcs, Opened, Freed, CloseEntry, wvars, qvars, avars,
     Goto
<1>2. Stages'
  BY DEF IInv, Types, Stages, Entering, Leaving, Opened, Freed, CloseEntry,
     wvars, qvars, avars, Goto
<1>3. Holds'
  BY <1>k DEF IInv, Types, Holds, Has, Over, PoolsOutlive, Ended, HasPoller,
     HasResource, InUse, Entering, Leaving, Stages, Opened, Freed, Keys, Key,
     MainKey, CloseEntry, wvars, qvars, avars, Goto
<1>o. OneHands'
  BY DEF IInv, Types, OneHands, Handing, Opened, Freed, CloseEntry, wvars,
     qvars, avars, Goto
<1>s. /\ \A v \in Workers : Key(v)' = Key(v)
      /\ pc' = [pc EXCEPT ![w] = pc'[w]] /\ pc \in [Workers -> Pcs] /\ pc' \in [Workers -> Pcs]
      /\ st \in [Keys -> {"raw", "open", "closed"}]
      /\ refc \in [Keys -> Int]
  BY <1>1 DEF IInv, Types, Key, MainKey, CloseEntry, wvars, qvars, avars, Goto
<1>e. Entries'
  BY <1>k, <1>s DEF IInv, Entries, Alone, Opening, Closing, Opened, Freed,
     CloseEntry, wvars, qvars, avars, Goto
<1>4. Alone'
  BY <1>k, <1>s DEF IInv, Entries, Alone, Closers, Opening, Closing, Opened,
     Freed, Busy, CloseEntry, wvars, qvars, avars, Goto
<1>l. Closers'
  BY <1>k, <1>s DEF IInv, Entries, Alone, Closers, Opening, Closing, Opened,
     Freed, CloseEntry, wvars, qvars, avars, Goto
<1>u. OpenWhileUsed'
  BY <1>k, <1>s DEF IInv, Entries, Alone, OpenWhileUsed, Lives, Opening, Closing,
     CloseEntry, wvars, qvars, avars, Goto
<1>c. Counted'
  <2> SUFFICES ASSUME NEW k \in Keys, k \notin raced'
               PROVE  refc'[k] = Refs(k)'
    BY DEF Counted
  <2>a. k \notin raced
    BY DEF CloseEntry
  <2>1. Users(k)' = Users(k) /\ Handers(k)' = Handers(k) /\ Main(k)' = Main(k)
    BY DEF IInv, Types, Users, Handers, Main, MainKey, Handing, Opened, Freed,
       CloseEntry, wvars, qvars, avars, Goto
  <2>2. Refs(k)' = Refs(k)
    BY <2>1 DEF Refs, Users, Handers, Main, Handing
  <2> QED
    BY <1>k, <1>s, <2>a, <2>2 DEF Counted, IInv, CloseEntry, wvars, qvars, avars, Goto
<1>5. Waiting'
  BY DEF IInv, Types, Waiting, Opened, Freed, CloseEntry, wvars, qvars, avars,
     Goto
<1>6. Queues'
  BY DEF IInv, Types, Queues, Emptied, Leaving, Opened, Freed, CloseEntry, wvars, qvars,
     avars, Goto
<1>7. Over'
  BY <1>k DEF IInv, Types, Over, PoolsOutlive, Ended, Waiting, CloseEntry,
     wvars, qvars, avars, Goto
<1> QED
  BY <1>1, <1>2, <1>3, <1>4, <1>5, <1>6, <1>7, <1>o, <1>e, <1>l, <1>c, <1>u DEF
     IInv

\* Erasing the name keeps the invariant: nobody is at the entry.
LEMMA EraseStep ==
  ASSUME IInv, NEW w \in Workers, Erase(w)
  PROVE  IInv'
<1> USE DEF App
<1>k. /\ MainKey \in Keys /\ Key(w) \in Keys
      /\ \A v \in Workers : Key(v) \in Keys
  BY KeyKind DEF IInv
<1>1. Types'
  BY <1>k DEF IInv, Types, Pcs, Opened, Freed, Erase, wvars, qvars, avars, Goto
<1>2. Stages'
  BY DEF IInv, Types, Stages, Entering, Leaving, Opened, Freed, Erase, wvars,
     qvars, avars, Goto
<1>3. Holds'
  BY <1>k DEF IInv, Types, Holds, Has, Over, PoolsOutlive, Ended, HasPoller,
     HasResource, InUse, Entering, Leaving, Stages, Opened, Freed, Keys, Key,
     MainKey, Erase, wvars, qvars, avars, Goto
<1>o. OneHands'
  BY DEF IInv, Types, OneHands, Handing, Opened, Freed, Erase, wvars, qvars,
     avars, Goto
<1>s. /\ \A v \in Workers : Key(v)' = Key(v)
      /\ pc' = [pc EXCEPT ![w] = pc'[w]] /\ pc \in [Workers -> Pcs] /\ pc' \in [Workers -> Pcs]
      /\ st \in [Keys -> {"raw", "open", "closed"}]
      /\ refc \in [Keys -> Int]
  BY <1>1 DEF IInv, Types, Key, MainKey, Erase, wvars, qvars, avars, Goto
<1>e. Entries'
  BY <1>k, <1>s DEF IInv, Entries, Alone, Opening, Closing, Opened, Freed,
     Erase, wvars, qvars, avars, Goto
<1>4. Alone'
  BY <1>k, <1>s DEF IInv, Entries, Alone, Closers, Opening, Closing, Opened,
     Freed, Busy, Erase, wvars, qvars, avars, Goto
<1>l. Closers'
  BY <1>k, <1>s DEF IInv, Entries, Alone, Closers, Opening, Closing, Opened,
     Freed, Erase, wvars, qvars, avars, Goto
<1>u. OpenWhileUsed'
  BY <1>k, <1>s DEF IInv, Entries, Alone, OpenWhileUsed, Lives, Opening, Closing,
     Erase, wvars, qvars, avars, Goto
<1>c. Counted'
  <2> SUFFICES ASSUME NEW k \in Keys, k \notin raced'
               PROVE  refc'[k] = Refs(k)'
    BY DEF Counted
  <2>a. k \notin raced
    BY DEF Erase
  <2>1. Users(k)' = Users(k) /\ Handers(k)' = Handers(k) /\ Main(k)' = Main(k)
    BY DEF IInv, Types, Users, Handers, Main, MainKey, Handing, Opened, Freed,
       Erase, wvars, qvars, avars, Goto
  <2>2. Refs(k)' = Refs(k)
    BY <2>1 DEF Refs, Users, Handers, Main, Handing
  <2> QED
    BY <1>k, <1>s, <2>a, <2>2 DEF Counted, IInv, Erase, wvars, qvars, avars, Goto
<1>5. Waiting'
  BY DEF IInv, Types, Waiting, Opened, Freed, Erase, wvars, qvars, avars, Goto
<1>6. Queues'
  BY DEF IInv, Types, Queues, Emptied, Leaving, Opened, Freed, Erase, wvars, qvars,
     avars, Goto
<1>7. Over'
  BY <1>k DEF IInv, Types, Over, PoolsOutlive, Ended, Waiting, Erase, wvars,
     qvars, avars, Goto
<1> QED
  BY <1>1, <1>2, <1>3, <1>4, <1>5, <1>6, <1>7, <1>o, <1>e, <1>l, <1>c, <1>u DEF
     IInv

\* The exchange of m_mainp keeps the invariant: its reference becomes the worker's
\* to give back, and no other's.
LEMMA TakeMainStep ==
  ASSUME IInv, NEW w \in Workers, TakeMain(w)
  PROVE  IInv'
<1> USE DEF App
<1>k. /\ MainKey \in Keys /\ Key(w) \in Keys
      /\ \A v \in Workers : Key(v) \in Keys
  BY KeyKind DEF IInv
<1>1. Types'
  BY <1>k DEF IInv, Types, Pcs, Opened, Freed, TakeMain, wvars, qvars, avars,
     Goto
<1>2. Stages'
  BY DEF IInv, Types, Stages, Entering, Leaving, Opened, Freed, TakeMain,
     wvars, qvars, avars, Goto
<1>3. Holds'
  BY <1>k DEF IInv, Types, Holds, Has, Over, PoolsOutlive, Ended, HasPoller,
     HasResource, InUse, Entering, Leaving, Stages, TakeMain, wvars, qvars,
     avars, Goto
<1>o. OneHands'
  BY DEF IInv, Types, OneHands, Handing, TakeMain, wvars, qvars, avars, Goto
<1>s. /\ UNCHANGED <<group, named, st, refc, hold, raced>>
      /\ \A v \in Workers : pc[v] \in Touching \/ pc'[v] \in Touching => pc'[v] = pc[v] /\ Key(v)' = Key(v)
  BY DEF IInv, Types, Key, MainKey, Touching, Opening, Closing, TakeMain,
     wvars, qvars, avars, Goto
<1>e. Entries'
  BY <1>s DEF IInv, Entries, Touching, Opening, Closing
<1>4. Alone'
  BY <1>s DEF IInv, Alone, Touching, Opening, Closing
<1>l. Closers'
  BY <1>s DEF IInv, Closers, Touching, Opening, Closing
<1>u. OpenWhileUsed'
  BY <1>s DEF IInv, OpenWhileUsed, Lives
<1>c. Counted'
  <2> SUFFICES ASSUME NEW k \in Keys, k \notin raced'
               PROVE  refc'[k] = Refs(k)'
    BY DEF Counted
  <2>a. k \notin raced
    BY DEF TakeMain
  <2>2. Refs(k)' = Cardinality(Users(k)') + Main(k)' + Cardinality(Handers(k)')
    BY DEF Refs, Users, Handers, Main, Handing
  <2>3. Users(k)' = Users(k)
    BY <1>s DEF Users
  <2>4. refc'[k] = Cardinality(Users(k)) + Main(k) + Cardinality(Handers(k))
    BY <1>s, <2>a, Sum DEF IInv, Counted
  <2>5. \A v \in Workers : v # w => (Handing(v)' <=> Handing(v))
    BY DEF IInv, Types, Handing, TakeMain, wvars, qvars, avars, Goto
  <2>6. ~Handing(w)
    BY DEF Handing, TakeMain
  <2>7. CASE k = MainKey /\ rp[w] /\ mainp
    <3>1. Handing(w)' /\ ~mainp'
      BY <2>7 DEF IInv, Types, Handing, TakeMain, wvars, qvars, avars, Goto
    <3>2. Main(k)' = 0 /\ Main(k) = 1
      BY <2>7, <3>1 DEF Main, MainKey
    <3>3. Handers(k)' = Handers(k) \union {w} /\ w \notin Handers(k)
      BY <2>7, <3>1, <2>5, <2>6 DEF Handers, MainKey
    <3>4. Cardinality(Handers(k)') = Cardinality(Handers(k)) + 1
      BY <3>3, Sum, FS_AddElement
    <3> QED
      BY <2>2, <2>3, <2>4, <3>2, <3>4, Sum
  <2>8. CASE ~(k = MainKey /\ rp[w] /\ mainp)
    <3>1. k = MainKey => ~Handing(w)' /\ mainp' = mainp
      BY <2>8 DEF IInv, Types, Handing, TakeMain, wvars, qvars, avars, Goto
    <3>2. Main(k)' = Main(k)
      BY <3>1 DEF Main, MainKey
    <3>3. Handers(k)' = Handers(k)
      BY <3>1, <2>5, <2>6 DEF Handers, MainKey
    <3> QED
      BY <2>2, <2>3, <2>4, <3>2, <3>3
  <2> QED
    BY <2>7, <2>8
<1>5. Waiting'
  BY DEF IInv, Types, Waiting, Opened, Freed, TakeMain, wvars, qvars, avars,
     Goto
<1>6. Queues'
  BY DEF IInv, Types, Queues, Emptied, Leaving, Opened, Freed, TakeMain, wvars, qvars,
     avars, Goto
<1>7. Over'
  BY <1>k DEF IInv, Types, Over, PoolsOutlive, Ended, Waiting, TakeMain, wvars,
     qvars, avars, Goto
<1> QED
  BY <1>1, <1>2, <1>3, <1>4, <1>5, <1>6, <1>7, <1>o, <1>e, <1>l, <1>c, <1>u DEF
     IInv

\* static_fin keeps the invariant: no worker is left that refers to anything.
LEMMA StaticFinStep ==
  ASSUME IInv, StaticFin
  PROVE  IInv'
<1>1. /\ phase' = "end" /\ mainp' = FALSE /\ tab' = {}
      /\ named' = {} /\ raced' = raced /\ st' = [k \in Keys |-> "closed"] /\ refc' = [k \in Keys |-> 0] /\ hold' = [w \in Workers |-> {}]
      /\ UNCHANGED <<group, pc, of, waits, que, tasks, tardy, rp, tojoin>>
      /\ \A w \in Workers : pc[w] \in {"off", "done", "failed", "cancelled"}
  BY DEF IInv, Over, PoolsOutlive, Ended, StaticFin, qvars
<1>2. Types'
  <2>1. st' \in [Keys -> {"raw", "open", "closed"}] /\ refc' \in [Keys -> Int]
    BY <1>1
  <2>2. hold' \in [Workers -> SUBSET Keys]
    BY <1>1
  <2>3. named' \subseteq Keys /\ raced' \subseteq Keys /\ mainp' \in BOOLEAN
    BY <1>1 DEF IInv, Types
  <2>4. /\ group' \in [Workers -> Groups] /\ tab' \subseteq Workers /\ tojoin' \subseteq Workers
        /\ pc' \in [Workers -> Pcs] /\ of' \in [Workers -> {"p", "r", "m"}]
        /\ waits' \in [Workers \union {App} -> Workers \union {App}]
        /\ que' \in [Workers -> {"none", "open", "closed"}]
        /\ tasks' \in [Workers -> 0..MaxTasks] /\ tardy' \in [Workers -> Nat]
        /\ rp' \in [Workers -> BOOLEAN]
    BY <1>1 DEF IInv, Types
  <2> QED
    BY <2>1, <2>2, <2>3, <2>4 DEF Types
<1>3. Stages'
  BY <1>1 DEF IInv, Stages
<1>4. Holds'
  BY <1>1 DEF Holds
<1>5. OneHands'
  BY <1>1 DEF OneHands, Handing
<1>6. Entries' /\ Alone'
  BY <1>1 DEF Entries, Alone, Opening, Closing
<1>7. Closers' /\ OpenWhileUsed'
  BY <1>1 DEF Closers, OpenWhileUsed, Lives
<1>8. Counted'
  <2> SUFFICES ASSUME NEW k \in Keys, k \notin raced'
               PROVE  refc'[k] = Refs(k)'
    BY DEF Counted
  <2>1. Refs(k)' = Cardinality(Users(k)') + Main(k)' + Cardinality(Handers(k)')
    BY DEF Refs, Users, Handers, Main, Handing
  <2>2. Users(k)' = {} /\ Handers(k)' = {} /\ Main(k)' = 0
    BY <1>1 DEF Users, Handers, Main, Handing
  <2> QED
    BY <1>1, <2>1, <2>2, FS_EmptySet
<1>9. Waiting'
  BY <1>1 DEF IInv, Waiting
<1>10. Queues'
  BY <1>1 DEF IInv, Queues, Emptied
<1>11. Over'
  BY <1>1 DEF Over, PoolsOutlive, Ended
<1> QED
  BY <1>2, <1>3, <1>4, <1>5, <1>6, <1>7, <1>8, <1>9, <1>10, <1>11 DEF IInv

\* What static_init leaves satisfies the invariant: the main poller is open and
\* m_mainp refers to it.
LEMMA Initial ==
  ASSUME Init
  PROVE  IInv
<1>1. /\ named = {MainKey} /\ raced = {}
      /\ st = [k \in Keys |-> IF k = MainKey THEN "open" ELSE "closed"]
      /\ refc = [k \in Keys |-> IF k = MainKey THEN 1 ELSE 0] /\ mainp = TRUE
      /\ tab = {} /\ pc = [w \in Workers |-> "off"] /\ of = [w \in Workers |-> "p"]
      /\ waits = [a \in Workers \union {App} |-> App]
      /\ que = [w \in Workers |-> "none"] /\ tasks = [w \in Workers |-> 0] /\ tardy = [w \in Workers |-> 0]
      /\ hold = [w \in Workers |-> {}] /\ rp = [w \in Workers |-> FALSE]
      /\ phase = "boot" /\ tojoin = {}
      /\ group \in [Workers -> Groups]
  BY DEF Init, InitShared, Groups
<1>2. Types
  BY <1>1, BoundAssumption DEF Types, Pcs, Keys, Groups, MainKey
<1>3. Stages /\ Waiting /\ Queues /\ OneHands
  BY <1>1 DEF Stages, Waiting, Queues, Emptied, OneHands, Entering, Leaving, Handing
<1>4. Holds
  BY <1>1 DEF Holds, Has, HasPoller, HasResource, InUse, Entering, Leaving
<1>5. Entries /\ Alone
  BY <1>1 DEF Entries, Alone, Opening, Closing
<1>6. Closers /\ OpenWhileUsed
  BY <1>1 DEF Closers, OpenWhileUsed, Lives, MainKey, Keys, Groups
<1>7. Counted
  <2> SUFFICES ASSUME NEW k \in Keys
               PROVE  refc[k] = Refs(k)
    BY DEF Counted
  <2>1. Users(k) = {} /\ Handers(k) = {} /\ Main(k) = refc[k]
    BY <1>1 DEF Users, Handers, Main, Handing
  <2> QED
    BY <2>1, Sum, FS_EmptySet
<1>8. Over
  BY <1>1 DEF Over, PoolsOutlive
<1> QED
  BY <1>2, <1>3, <1>4, <1>5, <1>6, <1>7, <1>8 DEF IInv

\* Every step keeps the invariant.
LEMMA Inductive ==
  ASSUME IInv, [Next]_vars
  PROVE  IInv'
<1>1. CASE \E a \in Workers \union {App}, w \in Workers : Launch(a, w)
  BY <1>1, LaunchStep
<1>2. CASE \E a \in Workers \union {App}, w \in Workers : LaunchAgain(a, w)
  BY <1>2, LaunchAgainStep
<1>3. CASE \E a \in Workers \union {App}, w \in Workers : Kill(a, w)
  BY <1>3, KillStep
<1>4. CASE \E a \in Workers \union {App}, w \in Workers : Call(a, w)
  BY <1>4, CallStep
<1>5. CASE \E a \in Workers \union {App} : Launched(a)
  BY <1>5, LaunchedStep
<1>6. CASE \E a \in Workers \union {App} : LaunchTimeout(a)
  BY <1>6, LaunchTimeoutStep
<1>7. CASE \E w \in Workers : Insert(w)
  BY <1>7, InsertStep
<1>8. CASE \E w \in Workers : Open(w)
  BY <1>8, OpenStep
<1>9. CASE \E w \in Workers : Check(w)
  BY <1>9, CheckStep
<1>10. CASE \E w \in Workers : Refer(w)
  BY <1>10, ReferStep
<1>11. CASE \E w \in Workers : Unref(w)
  BY <1>11, UnrefStep
<1>12. CASE \E w \in Workers : CloseEntry(w)
  BY <1>12, CloseEntryStep
<1>13. CASE \E w \in Workers : Erase(w)
  BY <1>13, EraseStep
<1>14. CASE \E w \in Workers : Start(w)
  BY <1>14, StartStep
<1>15. CASE \E w \in Workers : ReadMain(w)
  BY <1>15, ReadMainStep
<1>16. CASE \E w \in Workers : TakeMain(w)
  BY <1>16, TakeMainStep
<1>17. CASE \E w \in Workers : InitFabric(w)
  BY <1>17, InitFabricStep
<1>18. CASE \E w \in Workers : Execute(w)
  BY <1>18, ExecuteStep
<1>19. CASE \E w \in Workers : SetServer(w)
  BY <1>19, SetServerStep
<1>20. CASE \E w \in Workers : RunTask(w)
  BY <1>20, RunTaskStep
<1>21. CASE \E w \in Workers : Leave(w)
  BY <1>21, LeaveStep
<1>22. CASE \E w \in Workers : Drain(w)
  BY <1>22, DrainStep
<1>23. CASE \E w \in Workers : CloseQueue(w)
  BY <1>23, CloseQueueStep
<1>24. CASE \E w \in Workers : Join(w)
  BY <1>24, JoinStep
<1>25. CASE \E w \in Workers : Cancel(w)
  BY <1>25, CancelStep
<1>26. CASE Die
  BY <1>26, DieStep
<1>27. CASE Booted
  BY <1>27, BootedStep
<1>28. CASE JoinEnd
  BY <1>28, JoinEndStep
<1>29. CASE Stop
  BY <1>29, StopStep
<1>30. CASE StaticFin
  BY <1>30, StaticFinStep
<1>32. CASE \E w \in Workers : CheckFails(w)
  BY <1>32, CheckFailsStep
<1>31. CASE UNCHANGED vars
  <2>1. \A k : Refs(k)' = Refs(k)
    BY <1>31 DEF Refs, MainKey, vars, evars
  <2>2. \A w \in Workers : Key(w)' = Key(w)
    BY <1>31 DEF Key, MainKey, vars
  <2>3. (Types /\ Stages /\ Holds /\ OneHands /\ Waiting /\ Queues /\ Over)'
    BY <1>31 DEF IInv, Types, Stages, Holds, Has, Emptied, HasPoller, HasResource, OneHands, Handing,
       Waiting, Queues, Over, PoolsOutlive, Ended, vars, evars, wvars, qvars, avars
  <2>4. (Entries /\ Alone /\ Closers /\ OpenWhileUsed /\ Counted)'
    BY <1>31, <2>1, <2>2 DEF IInv, Entries, Alone, Closers, OpenWhileUsed, Lives, Counted, vars, evars
  <2> QED
    BY <2>3, <2>4 DEF IInv
<1> QED
  BY <1>1, <1>2, <1>3, <1>4, <1>5, <1>6, <1>7, <1>8, <1>9, <1>10, <1>11, <1>12, <1>13,
     <1>14, <1>15, <1>16, <1>17, <1>18, <1>19, <1>20, <1>21, <1>22, <1>23, <1>24, <1>25,
     <1>26, <1>27, <1>28, <1>29, <1>30, <1>31, <1>32 DEF Next, Advance, Script, Wait, Share,
     Work, Process

\* The invariant holds at all times, for any number of workers.
THEOREM Invariant == SafeSpec => []IInv
<1>1. Init => IInv
  BY Initial
<1>2. IInv /\ [Next]_vars => IInv'
  BY Inductive
<1> QED
  BY <1>1, <1>2, PTL DEF SafeSpec

\* The count of a shared poller or resource is the number of its references,
\* and it is open and in its map as long as there is one, as long as nobody
\* found it too early or too late (shalloc.h:24-31, loop.cpp:156-164).
THEOREM UsedIsOpen == SafeSpec => []HeldLives
<1>1. IInv => HeldLives
  <2> SUFFICES ASSUME IInv
               PROVE  HeldLives
    OBVIOUS
  <2>1. \A k \in Keys \ raced : refc[k] = Refs(k) /\ (Refs(k) > 0 => Lives(k))
    BY DEF IInv, Counted, OpenWhileUsed
  <2>2. TypeOK
    BY DEF IInv, Types, TypeOK, Pcs
  <2> QED
    BY <2>1, <2>2 DEF HeldLives
<1> QED
  BY <1>1, Invariant, PTL

\* What is in a queue when it is torn down was sent after fin had emptied it:
\* all that came before has been executed (server.h:380-391).
THEOREM NothingLost == SafeSpec => []Drained
<1>1. IInv => Drained
  BY DEF IInv, Queues, Drained
<1> QED
  BY <1>1, Invariant, PTL

\* The pools are freed when no worker runs any more (app.h:80-86).
THEOREM PoolsLast == SafeSpec => []PoolsOutlive
<1>1. IInv => PoolsOutlive
  BY DEF IInv, Over
<1> QED
  BY <1>1, Invariant, PTL

=============================================================================
