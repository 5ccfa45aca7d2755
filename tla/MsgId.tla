------------------------------- MODULE MsgId -------------------------------
(***************************************************************************)
(* The message id generator (src/util/msgid.h).                            *)
(*                                                                         *)
(* new_id resets the seed with a compare-and-swap when it stands at        *)
(* MSGID_LIMIT and then increments it; two threads can come between the    *)
(* two halves of each other.  The seed is an unsigned number of 32 bits    *)
(* and wraps around after 2 * Half numbers.                                *)
(*                                                                         *)
(* Definitions marked "Slip" are wrong variants of the definition that     *)
(* follows them; the properties are required to notice each of them.       *)
(***************************************************************************)
EXTENDS Naturals, TLAPS

CONSTANTS
  Callers,      \* threads that call new_id
  Half,         \* half the numbers of the seed, 2^31 in the program
  MSGID_START,  \* 1000 in the program
  Pending       \* the most ids that are waited for at the same time

INVALID_MSGID == 0
MSGID_LIMIT == Half - 1

\* The ids that are waited for are fewer than those before the limit.
SeedBounds ==
  /\ Half \in Nat /\ MSGID_START \in Nat \ {0} /\ Pending \in Nat
  /\ MSGID_START + Pending < MSGID_LIMIT

VARIABLES
  m_msgid_seed,
  pc,           \* pc[c]: "swap" or "add", the two halves of new_id
  age           \* history: age[i], ids given out since i was, for the ids waited for

vars == <<m_msgid_seed, pc, age>>

Ids == 0 .. 2 * Half - 1

\* The ids some fiber waits for.
Waiting == {i \in Ids : age[i] < Pending}

Init ==
  /\ m_msgid_seed = MSGID_START
  /\ pc = [c \in Callers |-> "swap"]
  /\ age = [i \in Ids |-> Pending]

\* Slip: the seed goes back to the start before Pending ids were given out.
SwapAnywhere(c) ==
  /\ pc[c] = "swap"
  /\ m_msgid_seed' = IF m_msgid_seed >= MSGID_START + Pending - 1
                     THEN MSGID_START ELSE m_msgid_seed
  /\ pc' = [pc EXCEPT ![c] = "add"]
  /\ UNCHANGED age

\* The compare-and-swap.
Swap(c) ==
  /\ pc[c] = "swap"
  /\ m_msgid_seed' = IF m_msgid_seed = MSGID_LIMIT THEN MSGID_START ELSE m_msgid_seed
  /\ pc' = [pc EXCEPT ![c] = "add"]
  /\ UNCHANGED age

\* The atomic increment, whose result is the new id.
Add(c) ==
  /\ pc[c] = "add"
  /\ m_msgid_seed' = (m_msgid_seed + 1) % (2 * Half)
  /\ age' = [i \in Ids |-> IF i = m_msgid_seed' THEN 0
                           ELSE IF age[i] < Pending THEN age[i] + 1 ELSE Pending]
  /\ pc' = [pc EXCEPT ![c] = "swap"]

Next == \E c \in Callers : Swap(c) \/ Add(c)

Spec == Init /\ [][Next]_vars

----------------------------------------------------------------------------

\* An id is not given out again while a fiber waits for its answer, although
\* the numbers are used over and over: the entries of the table of yielded
\* fibers have keys of their own.
Fresh == age' # age => m_msgid_seed' \notin Waiting
FreshIds == [][Fresh]_vars

----------------------------------------------------------------------------
(* Theorems, for any number of threads, any width of the seed and any      *)
(* number of ids that are waited for, as long as these are fewer than the  *)
(* ids before the limit.                                                   *)
(*                                                                         *)
(* The numbers go in a circle that has a short cut: from MSGID_LIMIT the   *)
(* seed goes back to MSGID_START, unless two threads came between the two  *)
(* halves of new_id and it ran past the limit and wraps around at the end. *)
(* Lap says for each id that is waited for how far behind the seed it is   *)
(* on the way that the seed took.                                          *)

TypeOK ==
  /\ m_msgid_seed \in Ids
  /\ pc \in [Callers -> {"swap", "add"}]
  /\ age \in [Ids -> 0 .. Pending]

\* The seed came straight from i, or back to the start, or around the end.
Straight(i) == i + age[i] = m_msgid_seed
Restarted(i) ==
  /\ i <= MSGID_LIMIT /\ m_msgid_seed >= MSGID_START
  /\ i + age[i] = MSGID_LIMIT + (m_msgid_seed - MSGID_START)
Wrapped(i) == i + age[i] = 2 * Half + m_msgid_seed

Lap == \A i \in Waiting : Straight(i) \/ Restarted(i) \/ Wrapped(i)

LEMMA ModUpTo ==
  ASSUME NEW n \in Nat \ {0}, NEW a \in 0 .. n
  PROVE  a % n = IF a = n THEN 0 ELSE a
BY SMT

\* The increment of the unsigned seed (msgid.h:25).
LEMMA Increment ==
  ASSUME SeedBounds, TypeOK
  PROVE  (m_msgid_seed + 1) % (2 * Half) =
           IF m_msgid_seed = 2 * Half - 1 THEN 0 ELSE m_msgid_seed + 1
<1> DEFINE n == 2 * Half
           a == m_msgid_seed + 1
<1>1. n \in Nat \ {0} /\ a \in 0 .. n /\ (a = n <=> m_msgid_seed = n - 1)
  BY DEF SeedBounds, TypeOK, Ids, MSGID_LIMIT
<1> HIDE DEF n, a
<1>2. a % n = IF a = n THEN 0 ELSE a
  BY <1>1, ModUpTo
<1> QED
  BY <1>1, <1>2 DEF n, a

LEMMA InvInit == SeedBounds /\ Init => TypeOK /\ Lap
BY DEF SeedBounds, Init, TypeOK, Ids, MSGID_LIMIT, Lap, Waiting

LEMMA SwapStep ==
  ASSUME SeedBounds, TypeOK, Lap, NEW c \in Callers, Swap(c)
  PROVE  TypeOK' /\ Lap'
<1> USE DEF SeedBounds, Swap, Ids, MSGID_LIMIT
<1>1. TypeOK'
  BY DEF TypeOK
<1>2. SUFFICES ASSUME NEW i \in Waiting'
               PROVE  (Straight(i) \/ Restarted(i) \/ Wrapped(i))'
  BY <1>1 DEF Lap
<1>3. i \in Waiting /\ i \in Nat /\ age[i] \in Nat /\ age[i] < Pending /\ i < 2 * Half
  BY DEF Waiting, TypeOK
<1>4. CASE m_msgid_seed # MSGID_LIMIT
  BY <1>3, <1>4 DEF Lap, Straight, Restarted, Wrapped
<1>5. CASE m_msgid_seed = MSGID_LIMIT
  <2>1. Straight(i)
    BY <1>3, <1>5 DEF Lap, Straight, Restarted, Wrapped
  <2> QED
    BY <1>3, <1>5, <2>1 DEF Straight, Restarted
<1> QED
  BY <1>4, <1>5

LEMMA AddStep ==
  ASSUME SeedBounds, TypeOK, Lap, NEW c \in Callers, Add(c)
  PROVE  TypeOK' /\ Lap' /\ Fresh
<1> USE DEF SeedBounds, Ids, MSGID_LIMIT
<1> DEFINE next == IF m_msgid_seed = 2 * Half - 1 THEN 0 ELSE m_msgid_seed + 1
<1>1. m_msgid_seed' = next /\ next \in Ids
  BY Increment DEF Add, TypeOK
<1>2. age' = [i \in Ids |-> IF i = next THEN 0
                            ELSE IF age[i] < Pending THEN age[i] + 1 ELSE Pending]
  BY <1>1 DEF Add
<1> HIDE DEF next
<1>3. TypeOK'
  BY <1>1, <1>2 DEF TypeOK, Add
<1>4. ASSUME NEW i \in Waiting
      PROVE  /\ i # next /\ i \in Ids
             /\ age'[i] < Pending => (Straight(i) \/ Restarted(i) \/ Wrapped(i))'
  <2>1. i \in Nat /\ i < 2 * Half /\ age[i] \in Nat /\ age[i] < Pending
    BY DEF Waiting, TypeOK
  <2>2. i # next
    BY <1>4, <2>1, SMTT(30) DEF next, Lap, Straight, Restarted, Wrapped, TypeOK
  <2>3. age'[i] = age[i] + 1
    BY <1>2, <2>1, <2>2
  <2>4. CASE m_msgid_seed = 2 * Half - 1
    BY <1>1, <1>4, <2>1, <2>3, <2>4 DEF next, Lap, Straight, Restarted, Wrapped
  <2>5. CASE m_msgid_seed # 2 * Half - 1
    <3>1. m_msgid_seed' = m_msgid_seed + 1 /\ m_msgid_seed \in Nat
      BY <1>1, <2>5 DEF next, TypeOK
    <3>2. CASE Straight(i)
      BY <2>1, <2>2, <2>3, <3>1, <3>2 DEF Waiting, Straight
    <3>3. CASE Restarted(i)
      BY <2>1, <2>2, <2>3, <3>1, <3>3 DEF Waiting, Restarted
    <3>4. CASE Wrapped(i)
      BY <2>1, <2>2, <2>3, <3>1, <3>4 DEF Waiting, Wrapped
    <3> QED
      BY <3>2, <3>3, <3>4 DEF Lap
  <2> QED
    BY <2>1, <2>2, <2>4, <2>5
<1>5. Lap'
  <2> SUFFICES ASSUME NEW i \in Ids, age'[i] < Pending
               PROVE  (Straight(i) \/ Restarted(i) \/ Wrapped(i))'
    BY DEF Lap, Waiting
  <2>1. CASE i = next
    BY <1>1, <1>2, <2>1 DEF Straight, TypeOK
  <2>2. CASE i # next
    <3>1. age[i] < Pending
      BY <1>2, <2>2 DEF TypeOK
    <3> QED
      BY <1>4, <3>1 DEF Waiting
  <2> QED
    BY <2>1, <2>2
<1>6. Fresh
  BY <1>1, <1>4 DEF Fresh
<1> QED
  BY <1>3, <1>5, <1>6

LEMMA Invariant == ASSUME SeedBounds PROVE Spec => [](TypeOK /\ Lap)
<1>1. TypeOK /\ Lap /\ UNCHANGED vars => TypeOK' /\ Lap'
  BY DEF TypeOK, Lap, Waiting, Straight, Restarted, Wrapped, vars
<1>2. TypeOK /\ Lap /\ [Next]_vars => TypeOK' /\ Lap'
  BY <1>1, SwapStep, AddStep DEF Next
<1> QED
  BY <1>2, InvInit, PTL DEF Spec

\* An id that some fiber waits for is not given out again, in whatever order
\* the threads take their steps in new_id (msgid.h:20-26): the distance from
\* the start to the limit is more than the ids that are waited for.
THEOREM IdsAreFresh == ASSUME SeedBounds PROVE Spec => FreshIds
<1>1. TypeOK /\ Lap /\ [Next]_vars => [Fresh]_vars
  <2>1. ASSUME NEW c \in Callers, Swap(c) PROVE Fresh
    BY <2>1 DEF Swap, Fresh
  <2> QED
    BY <2>1, AddStep DEF Next, vars
<1> QED
  BY <1>1, Invariant, PTL DEF Spec, FreshIds
============================================================================
