-------------------------- MODULE TimerWheelProofs --------------------------
(***************************************************************************)
(* Theorems about the timer wheel, for any ring, any tasks and threads and *)
(* any starts and intervals, with tasks that are closed at any time.       *)
(*                                                                         *)
(* The heart of it is Due: a task in slot s is called after as many ticks  *)
(* as s is away, and a whole turn for every unit of m_delay, and the ticks *)
(* of the events that are still to be worked off are counted for it too.   *)
(* The first part of the module is the arithmetic of that distance, a      *)
(* remainder of a difference that may be negative.  A start of 0 in the    *)
(* last slot ends in the cell behind the ring, of which Due says nothing.  *)
(***************************************************************************)
EXTENDS TimerWheel, FiniteSetTheorems, TLAPS

\* Where m_processed is set.
Working == {"loop", "slot", "first"}

\* As TypeOK, without the counters of the events, which may have any value.
Types ==
  /\ sched \in [Cells -> SUBSET Task]
  /\ inserted \subseteq Task /\ used \subseteq Task /\ taken \subseteq Task
  /\ closed \subseteq used
  /\ m_idx \in [Task -> Intervals \union {1}] /\ m_start_idx \in [Task -> Nat]
  /\ m_removed \in [Task -> BOOLEAN] /\ m_delay \in [Task -> Nat]
  /\ m_count \in Nat /\ m_trigger_count \in Int
  /\ goal \in [Threads -> Int] /\ left \in [Task -> Int]
  /\ pc \in [Threads -> {"idle", "event", "enter"} \union Working]

\* One thread works on the wheel; only there a list is in somebody's hands.
Alone ==
  /\ \A g, h \in Threads : pc[g] \in Working /\ pc[h] \in Working => g = h
  /\ taken # {} => \E h \in Threads : pc[h] \in {"slot", "first"}

\* The tasks insert_timer_at has put somewhere
Placed == InWheel \union BehindWheel

Lists ==
  /\ \A t \in used : t \in Placed \/ t \in inserted \/ t \in taken
  /\ Placed \union inserted \union taken \subseteq used
  /\ Placed \intersect inserted = {}
  /\ Placed \intersect taken = {}
  /\ inserted \intersect taken = {}
  /\ \A s, r \in Cells : sched[s] \intersect sched[r] # {} => s = r

\* The removed bit is right wherever the wheel looks at it.
Flags ==
  /\ \A t \in InWheel : m_removed[t] <=> t \in closed
  /\ inserted \intersect closed = {}
  /\ \A h \in Threads : \A t \in taken :
       /\ pc[h] = "slot" => (m_removed[t] <=> t \in closed)
       /\ pc[h] = "first" => t \notin closed

\* Ticks until slot s is worked on, at least one
Turn(s) == ((s - m_count) % Size) + 1

\* Slots and turns add up to the ticks that are left.
Due ==
  /\ \A s \in Slots : \A t \in sched[s] : left[t] + Arrears = Turn(s) + m_delay[t] * Size
  /\ \A h \in Threads : pc[h] = "slot" =>
       \A t \in taken : left[t] + Arrears = m_delay[t] * Size

IInv == Types /\ Alone /\ Lists /\ Flags /\ Due

----------------------------------------------------------------------------
(* Remainders of a divisor that is not known *)

\* Division of natural numbers.
LEMMA Quotient ==
  ASSUME NEW a \in Nat, NEW n \in Nat \ {0}
  PROVE  a \div n \in Nat /\ a % n \in 0 .. n - 1 /\ a = n * (a \div n) + (a % n)
BY SMTT(30)

\* The remainder is the only number in range that differs by a multiple.
LEMMA Remainder ==
  ASSUME NEW n \in Nat \ {0}, NEW a \in Int, NEW q \in Int, NEW r \in 0 .. n - 1,
         a = n * q + r
  PROVE  a % n = r
BY SMTT(30)

\* Every integer, a negative one too, is a multiple and its remainder.
LEMMA Residue ==
  ASSUME NEW n \in Nat \ {0}, NEW a \in Int
  PROVE  a % n \in 0 .. n - 1 /\ \E q \in Int : a = n * q + (a % n)
<1>1. a = n * (a \div n) + (a % n) /\ a \div n \in Int /\ a % n \in 0 .. n - 1
  BY SMTT(30)
<1> QED
  BY <1>1

\* Numbers that differ by a multiple of n have the same remainder.
LEMMA Congruent ==
  ASSUME NEW n \in Nat \ {0}, NEW a \in Int, NEW q \in Int
  PROVE  (a + n * q) % n = a % n
<1>1. PICK p \in Int : a = n * p + (a % n)
  BY Residue
<1>2. a + n * q = n * (p + q) + (a % n)
  BY <1>1, Residue
<1>3. a % n \in 0 .. n - 1 /\ p + q \in Int /\ a + n * q \in Int
  BY Residue
<1> HIDE <1>1
<1> QED
  BY <1>2, <1>3, Remainder

\* One step down on the ring.
LEMMA Successor ==
  ASSUME NEW n \in Nat \ {0}, NEW a \in Int
  PROVE  (a - 1) % n = IF a % n = 0 THEN n - 1 ELSE (a % n) - 1
<1>1. PICK p \in Int : a = n * p + (a % n)
  BY Residue
<1>2. CASE a % n = 0
  <2>1. a - 1 = n * (p - 1) + (n - 1)
    BY <1>1, <1>2
  <2> QED
    BY <2>1, <1>2, Remainder, n - 1 \in 0 .. n - 1, a - 1 \in Int, p - 1 \in Int
<1>3. CASE a % n # 0
  <2>1. a % n \in 1 .. n - 1
    BY <1>3, Residue
  <2>2. a - 1 = n * p + ((a % n) - 1)
    BY <1>1, <2>1
  <2>3. (a % n) - 1 \in 0 .. n - 1
    BY <2>1
  <2> QED
    BY <2>2, <2>3, <1>3, Remainder, a - 1 \in Int
<1> QED
  BY <1>2, <1>3

----------------------------------------------------------------------------
(* Slots and their distances *)

\* The indices that process_one_shot uses are in the ring (timerfd.hpp:46).
LEMMA CurrentSlot ==
  ASSUME Types
  PROVE  Current \in Slots /\ m_count % Size \in Slots /\ \A s \in Slots : Turn(s) \in 1 .. Size
BY Residue, SizeAssumption DEF Types, Current, Slots, Turn

\* Less than one turn away from 0, on either side.
LEMMA SmallRemainder ==
  ASSUME NEW n \in Nat \ {0}, NEW a \in Int, -n < a, a < n
  PROVE  a % n = IF a < 0 THEN a + n ELSE a
<1>1. CASE a < 0
  BY <1>1, Remainder, a = n * (-1) + (a + n), a + n \in 0 .. n - 1
<1>2. CASE a >= 0
  BY <1>2, Remainder, a = n * 0 + a, a \in 0 .. n - 1
<1> QED
  BY <1>1, <1>2

\* Setting the counter back to its slot keeps all distances; the slot of the
\* next tick is the one at distance 0.
LEMMA SameTurn ==
  ASSUME NEW c \in Nat, NEW s \in Slots
  PROVE  /\ (s - c) % Size = (s - (c % Size)) % Size
         /\ (s - c) % Size = 0 <=> s = c % Size
<1> DEFINE n == Size
<1>1. n \in Nat \ {0} /\ s \in 0 .. n - 1 /\ c \in Int /\ s - c \in Int
  BY SizeAssumption DEF Slots
<1> HIDE DEF n
<1>2. PICK q \in Int : c = n * q + (c % n)
  BY <1>1, Residue
<1>3. c % n \in 0 .. n - 1
  BY <1>1, Residue
<1>4. (s - c) = (s - (c % n)) + n * (-q)
  BY <1>1, <1>2, <1>3
<1>5. (s - c) % n = (s - (c % n)) % n
  <2>1. s - (c % n) \in Int /\ -q \in Int
    BY <1>1, <1>3
  <2>2. ((s - (c % n)) + n * (-q)) % n = (s - (c % n)) % n
    BY <1>1, <2>1, Congruent
  <2> QED
    BY <1>4, <2>2
<1>6. (s - (c % n)) % n = 0 <=> s = c % n
  <2> DEFINE d == s - (c % n)
  <2>1. d \in Int /\ -n < d /\ d < n
    BY <1>1, <1>3
  <2>2. d % n = IF d < 0 THEN d + n ELSE d
    BY <1>1, <2>1, SmallRemainder
  <2> QED
    BY <1>1, <1>3, <2>1, <2>2
<1> QED
  BY <1>5, <1>6 DEF n

\* A tick brings every slot one tick nearer, except the one it is about.
LEMMA TurnPasses ==
  ASSUME NEW c \in Nat, NEW s \in Slots
  PROVE  ((s - (c + 1)) % Size) + 1 =
           IF s = c % Size THEN Size ELSE ((s - c) % Size)
<1>1. Size \in Nat \ {0} /\ s - c \in Int /\ s - (c + 1) = (s - c) - 1
  BY SizeAssumption DEF Slots
<1>2. ((s - c) - 1) % Size = IF (s - c) % Size = 0 THEN Size - 1 ELSE ((s - c) % Size) - 1
  BY <1>1, Successor
<1>3. (s - c) % Size \in 0 .. Size - 1
  BY <1>1, Residue
<1>4. (s - c) % Size = 0 <=> s = c % Size
  BY SameTurn
<1> QED
  BY <1>1, <1>2, <1>3, <1>4

\* The slot that is being worked on comes back after a whole turn.
LEMMA CurrentTurn ==
  ASSUME Types
  PROVE  Turn(Current) = Size
<1> DEFINE n == Size
           a == m_count + n - 1
<1>0. n \in Nat \ {0} /\ a \in Int /\ m_count \in Int /\ a = m_count + n - 1
  BY SizeAssumption DEF Types
<1> HIDE DEF n, a
<1>1. PICK q \in Int : a = n * q + (a % n)
  BY <1>0, Residue
<1>2. a % n \in 0 .. n - 1
  BY <1>0, Residue
<1>3. (a % n) - m_count = n * (-q) + (n - 1)
  BY <1>0, <1>1, <1>2
<1>4. ((a % n) - m_count) % n = n - 1
  BY <1>0, <1>2, <1>3, Remainder, (a % n) - m_count \in Int, -q \in Int, n - 1 \in 0 .. n - 1
<1> QED
  BY <1>0, <1>4 DEF Turn, Current, n, a

\* insert_timer finds the slot and the turns for any positive number of ticks
\* (timerfd.h:205-212).
LEMMA PlacePositive ==
  ASSUME Types, NEW index \in Nat \ {0}
  PROVE  /\ Place(index).slot \in Slots /\ Place(index).delay \in Nat
         /\ index = Turn(Place(index).slot) + Place(index).delay * Size
<1> DEFINE n == Size
           k == Current
           slot == (index + k) % n
           turns == index \div n
<1>0. n \in Nat \ {0} /\ k \in 0 .. n - 1 /\ m_count \in Int /\ index + k \in Int
  BY CurrentSlot, SizeAssumption DEF Types, Slots
<1>1. turns \in Nat /\ index % n \in 0 .. n - 1 /\ index = n * turns + (index % n)
  BY <1>0, Quotient
<1>2. slot \in 0 .. n - 1
  BY <1>0, Residue
<1>3. PICK p \in Int : index + k = n * p + slot
  BY <1>0, Residue
<1>4. PICK q \in Int : m_count + n - 1 = n * q + k
  BY <1>0, Residue, m_count + n - 1 \in Int DEF Current
<1>5. k - m_count = n * (-q) + (n - 1)
  BY <1>0, <1>4
<1> HIDE DEF n, k, slot, turns
<1>6. CASE slot = k
  <2>1. index % n = 0
    <3>1. index = n * p + 0
      BY <1>0, <1>3, <1>6
    <3> QED
      BY <1>0, <3>1, Remainder, 0 \in 0 .. n - 1, index \in Int
  <2>2. index = n * turns
    BY <1>0, <1>1, <2>1
  <2>3. turns > 0
    BY <1>0, <1>1, <2>2
  <2>4. Place(index) = [slot |-> k, delay |-> turns - 1]
    BY <1>6, <2>3 DEF Place, n, k, slot, turns
  <2>5. Turn(k) = n
    BY CurrentTurn DEF k, n
  <2>6. index = n + (turns - 1) * n
    BY <1>0, <1>1, <2>2
  <2> QED
    BY <1>0, <1>1, <2>3, <2>4, <2>5, <2>6 DEF n, Slots
<1>7. CASE slot # k
  <2>1. Place(index) = [slot |-> slot, delay |-> turns]
    BY <1>7 DEF Place, n, k, slot, turns
  <2>2. index % n # 0
    <3>1. SUFFICES ASSUME index % n = 0 PROVE FALSE
      OBVIOUS
    <3>2. index + k = n * turns + k
      BY <1>0, <1>1, <3>1
    <3>3. (index + k) % n = k
      <4>1. turns \in Int /\ k \in 0 .. n - 1 /\ index + k \in Int /\ n \in Nat \ {0}
        BY <1>0, <1>1
      <4> QED
        BY <3>2, <4>1, Remainder
    <3> QED
      BY <1>7, <3>3 DEF slot
  <2>3. slot - m_count = n * (turns + (-q) - p) + (n - 1) + (index % n)
    <3>1. slot = index + k - n * p
      BY <1>0, <1>2, <1>3
    <3>2. slot - m_count = index + (k - m_count) - n * p
      BY <1>0, <1>2, <3>1
    <3>3. slot - m_count = n * turns + (index % n) + n * (-q) + (n - 1) - n * p
      BY <1>0, <1>1, <1>5, <3>2
    <3> QED
      BY <1>0, <1>1, <3>3
  <2>4. slot - m_count = n * (turns + (-q) - p + 1) + ((index % n) - 1)
    BY <1>0, <1>1, <2>3
  <2>5. (slot - m_count) % n = (index % n) - 1
    BY <1>0, <1>1, <1>2, <2>2, <2>4, Remainder, slot - m_count \in Int,
       turns + (-q) - p + 1 \in Int, (index % n) - 1 \in 0 .. n - 1
  <2>6. Turn(slot) = index % n
    BY <1>0, <1>1, <2>5 DEF Turn, n
  <2>7. index = (index % n) + turns * n
    BY <1>0, <1>1
  <2> QED
    BY <1>0, <1>1, <1>2, <2>1, <2>6, <2>7 DEF n, Slots
<1> QED
  BY <1>6, <1>7

\* The slot behind the current one is due at the next tick.
LEMMA NextTurn ==
  ASSUME Types, Current + 1 \in Slots
  PROVE  Turn(Current + 1) = 1
<1> DEFINE n == Size
<1>0. n \in Nat \ {0} /\ m_count \in Nat /\ m_count \in Int /\ m_count - 1 \in Int
  BY SizeAssumption DEF Types
<1> HIDE DEF n
<1>1. Current = (m_count - 1) % n
  <2>1. m_count + n - 1 = (m_count - 1) + n * 1
    BY <1>0
  <2>2. ((m_count - 1) + n * 1) % n = (m_count - 1) % n
    BY <1>0, Congruent, 1 \in Int
  <2> QED
    BY <2>1, <2>2 DEF Current, n
<1>2. (m_count - 1) % n = IF m_count % n = 0 THEN n - 1 ELSE (m_count % n) - 1
  BY <1>0, Successor
<1>3. m_count % n \in 0 .. n - 1
  BY <1>0, Residue
<1>4. Current + 1 = m_count % n
  BY <1>0, <1>1, <1>2, <1>3 DEF Slots, n
<1>5. ((Current + 1) - m_count) % n = 0
  BY <1>0, <1>4, SameTurn DEF n
<1> QED
  BY <1>5 DEF Turn, n

\* A start of 0 is a start of 1, except behind the ring.
LEMMA PlaceDue ==
  ASSUME Types, NEW index \in Nat
  PROVE  /\ Place(index).slot \in Cells /\ Place(index).delay \in Nat
         /\ Place(index).slot \in Slots =>
              (IF index = 0 THEN 1 ELSE index)
                = Turn(Place(index).slot) + Place(index).delay * Size
<1>0. Size \in Nat \ {0} /\ Current \in 0 .. Size - 1
  BY CurrentSlot, SizeAssumption DEF Slots
<1>1. CASE index = 0
  <2>1. (0 + Current) % Size = Current
    BY <1>0, Remainder, 0 + Current = Size * 0 + Current, 0 + Current \in Int
  <2>2. 0 \div Size = 0
    <3>1. 0 \div Size \in Nat /\ 0 % Size \in 0 .. Size - 1 /\ 0 = Size * (0 \div Size) + (0 % Size)
      BY <1>0, Quotient
    <3> QED
      BY <1>0, <3>1
  <2>3. Place(index) = [slot |-> Current + 1, delay |-> 0]
    BY <1>1, <2>1, <2>2 DEF Place
  <2>4. Current + 1 \in Cells /\ 0 * Size = 0
    BY <1>0 DEF Cells
  <2>5. Current + 1 \in Slots => Turn(Current + 1) = 1
    BY NextTurn
  <2> QED
    BY <1>1, <2>3, <2>4, <2>5
<1>2. CASE index # 0
  BY <1>0, <1>2, PlacePositive DEF Slots, Cells
<1> QED
  BY <1>1, <1>2

----------------------------------------------------------------------------
(* A task is put into a slot, at its turn *)

\* The ring and the cell behind it
LEMMA Ring ==
  Cells = Slots \union {Size} /\ Size \notin Slots /\ Placed = UNION {sched[s] : s \in Cells}
<1>1. Cells = Slots \union {Size} /\ Size \notin Slots
  BY SizeAssumption DEF Cells, Slots
<1> QED
  BY <1>1 DEF Placed, InWheel, BehindWheel

\* A task that was in no slot is in one afterwards.
LEMMA PutInto ==
  ASSUME Types, Lists, NEW t \in Task \ Placed, NEW s \in Cells, Put(t, s)
  PROVE  /\ sched' \in [Cells -> SUBSET Task]
         /\ Placed' = Placed \union {t}
         /\ InWheel' = InWheel \union (IF s \in Slots THEN {t} ELSE {})
         /\ \A r, q \in Cells : sched'[r] \intersect sched'[q] # {} => r = q
<1>1. \A r \in Cells : sched'[r] = IF r = s THEN sched[r] \union {t} ELSE sched[r]
  BY DEF Types, Put
<1>2. sched' \in [Cells -> SUBSET Task]
  BY DEF Types, Put
<1>3. Slots \subseteq Cells
  BY Ring
<1>4. InWheel' = InWheel \union (IF s \in Slots THEN {t} ELSE {})
  <2>1. CASE s \in Slots
    BY <1>1, <1>3, <2>1 DEF InWheel
  <2>2. CASE s \notin Slots
    <3>1. \A r \in Slots : sched'[r] = sched[r]
      BY <1>1, <1>3, <2>2
    <3>2. InWheel' = InWheel
      BY <3>1 DEF InWheel
    <3> QED
      BY <2>2, <3>2
  <2> QED
    BY <2>1, <2>2
<1>5. Placed' = Placed \union {t}
  <2>1. Size \in Cells /\ (s \in Slots <=> s # Size)
    BY Ring
  <2>2. BehindWheel' = BehindWheel \union (IF s \in Slots THEN {} ELSE {t})
    BY <1>1, <2>1 DEF BehindWheel
  <2> QED
    BY <1>4, <2>2 DEF Placed
<1>6. \A r \in Cells : t \notin sched[r]
  BY Ring
<1> QED
  BY <1>1, <1>2, <1>4, <1>5, <1>6 DEF Lists

\* A task that is inserted is due when it asked to be, and no other changes.
LEMMA Inserted ==
  ASSUME Types, Lists, Due, NEW t \in Task \ Placed, NEW index \in Nat,
         Insert(t, index), m_count' = m_count, m_trigger_count' = m_trigger_count
  PROVE  /\ sched' \in [Cells -> SUBSET Task]
         /\ m_delay' \in [Task -> Nat] /\ left' \in [Task -> Int]
         /\ Placed' = Placed \union {t}
         /\ InWheel' \subseteq InWheel \union {t}
         /\ \A r, q \in Cells : sched'[r] \intersect sched'[q] # {} => r = q
         /\ Arrears' = Arrears
         /\ \A u \in Task \ {t} : m_delay'[u] = m_delay[u] /\ left'[u] = left[u]
         /\ \A s \in Slots : \A u \in sched'[s] :
              left'[u] + Arrears' = Turn(s)' + m_delay'[u] * Size
<1> DEFINE s == Place(index).slot
           d == Place(index).delay
           x == IF index = 0 THEN 1 ELSE index
<1>1. s \in Cells /\ d \in Nat /\ (s \in Slots => x = Turn(s) + d * Size) /\ x \in Nat
  BY PlaceDue
<1>2. /\ Put(t, s) /\ m_delay' = [m_delay EXCEPT ![t] = d]
      /\ left' = [left EXCEPT ![t] = x - Arrears]
  BY DEF Insert, Asks
<1> HIDE DEF s, d, x
<1>3. /\ sched' \in [Cells -> SUBSET Task]
      /\ Placed' = Placed \union {t}
      /\ InWheel' \subseteq InWheel \union {t}
      /\ \A r, q \in Cells : sched'[r] \intersect sched'[q] # {} => r = q
  BY <1>1, <1>2, PutInto
<1>a. Arrears \in Int /\ Arrears' = Arrears
  BY DEF Arrears, Types
<1>4. m_delay' \in [Task -> Nat] /\ left' \in [Task -> Int]
  BY <1>1, <1>2, <1>a DEF Types
<1>5. \A u \in Task \ {t} : m_delay'[u] = m_delay[u] /\ left'[u] = left[u]
  BY <1>2 DEF Types
<1>6. \A r \in Slots : Turn(r)' = Turn(r)
  BY DEF Turn
<1>7. ASSUME NEW r \in Slots, NEW u \in sched'[r]
      PROVE  left'[u] + Arrears' = Turn(r)' + m_delay'[u] * Size
  <2>0. r \in Cells
    BY Ring
  <2>1. CASE u = t
    <3>1. t \notin sched[r]
      BY <2>0, Ring
    <3>2. r = s
      BY <1>2, <2>0, <2>1, <3>1 DEF Put, Types
    <3>3. left'[u] = x - Arrears /\ m_delay'[u] = d
      BY <1>2, <2>1 DEF Types
    <3>4. left'[u] + Arrears' = x
      BY <1>1, <1>a, <3>3
    <3>5. x = Turn(r) + d * Size
      BY <1>1, <3>2
    <3> QED
      BY <1>6, <3>3, <3>4, <3>5
  <2>2. CASE u # t
    <3>1. u \in sched[r] /\ u \in Task
      BY <1>1, <1>2, <2>0, <2>2 DEF Put, Types
    <3>2. left[u] + Arrears = Turn(r) + m_delay[u] * Size
      BY <3>1 DEF Due
    <3> QED
      BY <1>5, <1>6, <1>a, <2>2, <3>1, <3>2
  <2> QED
    BY <2>1, <2>2
<1> QED
  BY <1>3, <1>4, <1>5, <1>7, <1>a

----------------------------------------------------------------------------
(* Every step keeps the invariant *)

LEMMA AddStep ==
  ASSUME IInv, NEW t \in Task, NEW start \in Starts, NEW intval \in Intervals,
         Add(t, start, intval)
  PROVE  IInv'
<1> USE SizeAssumption DEF IInv, Add, Goto, fields
<1>1. Types'
  <2>1. start \in Nat
    BY DurationAssumption
  <2> QED
    BY <2>1 DEF Types
<1>2. Alone'
  BY DEF Alone, Types, Working
<1>3. Lists'
  BY DEF Lists, Types, Placed, InWheel, BehindWheel, Alone, Working
<1>5. Flags'
  BY DEF Flags, Types, Lists, InWheel, Alone, Working
<1>6. Due'
  BY DEF Due, Types, Turn, Arrears, Alone, Working
<1> QED
  BY <1>1, <1>2, <1>3, <1>5, <1>6

LEMMA CloseStep ==
  ASSUME IInv, NEW t \in Task, Close(t)
  PROVE  IInv'
<1> USE SizeAssumption DEF IInv, Goto, fields
<1>a. /\ t \in used
      /\ UNCHANGED <<sched, inserted, used, m_idx, m_delay, m_count, m_trigger_count, pc, goal,
                     taken, left>>
  BY DEF Close
<1>b. \/ /\ NotPickedUp(t)
         /\ m_start_idx' = [m_start_idx EXCEPT ![t] = IF @ % 2 = 0 THEN @ + 1 ELSE @]
         /\ m_removed' = m_removed /\ closed' = closed
      \/ /\ ~NotPickedUp(t)
         /\ m_removed' = [m_removed EXCEPT ![t] = TRUE]
         /\ closed' = closed \union {t}
         /\ m_start_idx' = m_start_idx
  BY DEF Close
<1>1. Types'
  <2>1. m_start_idx' \in [Task -> Nat]
    <3>1. (IF m_start_idx[t] % 2 = 0 THEN m_start_idx[t] + 1 ELSE m_start_idx[t]) \in Nat
      BY DEF Types
    <3> QED
      BY <1>b, <3>1 DEF Types
  <2>2. m_removed' \in [Task -> BOOLEAN] /\ closed' \subseteq used
    BY <1>a, <1>b DEF Types
  <2> QED
    BY <1>a, <2>1, <2>2 DEF Types
<1>2. Alone' /\ Lists' /\ Due'
  BY <1>a DEF Alone, Lists, Placed, InWheel, BehindWheel, Due, Turn, Arrears
<1>3. InWheel' = InWheel /\ inserted' = inserted /\ taken' = taken /\ pc' = pc
  BY <1>a DEF InWheel
<1>5. Flags'
  <2>1. CASE NotPickedUp(t)
    BY <1>b, <1>3, <2>1 DEF Flags
  <2>2. CASE ~NotPickedUp(t)
    <3>1. t \notin inserted /\ \A h \in Threads : t \in taken => pc[h] # "first"
      BY <2>2 DEF NotPickedUp
    <3>2. m_removed' = [m_removed EXCEPT ![t] = TRUE] /\ closed' = closed \union {t}
      BY <1>b, <2>2
    <3>3. \A u \in Task : m_removed'[u] = IF u = t THEN TRUE ELSE m_removed[u]
      BY <3>2 DEF Types
    <3>4. InWheel \subseteq Task /\ taken \subseteq Task
      BY DEF Types, InWheel, Slots, Cells
    <3> QED
      BY <1>3, <3>1, <3>2, <3>3, <3>4 DEF Flags
  <2> QED
    BY <2>1, <2>2
<1> QED
  BY <1>1, <1>2, <1>5

LEMMA TriggerStep ==
  ASSUME IInv, NEW h \in Threads, NEW c \in 1 .. MaxBehind, Trigger(h, c)
  PROVE  IInv'
<1> USE DEF IInv
<1>a. /\ pc[h] = "idle" /\ pc' = [pc EXCEPT ![h] = "event"]
      /\ m_trigger_count' = m_trigger_count + c
      /\ left' = [t \in Task |-> IF t \in Scheduled THEN left[t] - c ELSE left[t]]
      /\ UNCHANGED <<sched, inserted, used, m_idx, m_start_idx, m_removed, m_delay, m_count, goal,
                     taken, closed>>
  BY DEF Trigger, Goto, Passed, fields
<1>b. c \in Int
  BY CountAssumption
<1>1. Types'
  <2>1. left' \in [Task -> Int] /\ m_trigger_count' \in Int
    BY <1>a, <1>b DEF Types
  <2>2. pc' \in [Threads -> {"idle", "event", "enter"} \union Working]
    BY <1>a DEF Types
  <2> QED
    BY <1>a, <2>1, <2>2 DEF Types
<1>2. Alone'
  BY <1>a DEF Alone, Types, Working
<1>3. Lists'
  BY <1>a DEF Lists, Placed, InWheel, BehindWheel
<1>5. Flags'
  BY <1>a DEF Flags, Types, InWheel
<1>6. Due'
  <2>1. Arrears \in Int /\ Arrears' = Arrears + c
    BY <1>a, <1>b DEF Arrears, Types
  <2>2. \A t \in Task : left[t] \in Int /\ (t \in Scheduled => left'[t] = left[t] - c)
    BY <1>a DEF Types
  <2>3. \A t \in Task : t \in Scheduled => left'[t] + Arrears' = left[t] + Arrears
    BY <1>b, <2>1, <2>2
  <2>4. ASSUME NEW s \in Slots, NEW t \in sched'[s]
        PROVE  left'[t] + Arrears' = Turn(s)' + m_delay'[t] * Size
    <3>1. t \in sched[s] /\ t \in Task /\ t \in Scheduled
      BY <1>a, <2>4, Ring DEF Scheduled, InWheel, Types
    <3>2. Turn(s)' = Turn(s) /\ m_delay'[t] = m_delay[t]
      BY <1>a DEF Turn
    <3> QED
      BY <2>3, <3>1, <3>2 DEF Due
  <2>5. ASSUME NEW g \in Threads, pc'[g] = "slot", NEW t \in taken'
        PROVE  left'[t] + Arrears' = m_delay'[t] * Size
    <3>1. pc[g] = "slot" /\ t \in taken /\ t \in Task /\ m_delay' = m_delay
      BY <1>a, <2>5 DEF Types
    <3>2. \A k \in Threads : pc[k] # "first"
      BY <3>1 DEF Alone, Working
    <3>3. t \in Scheduled
      BY <3>1, <3>2 DEF Scheduled, NotPickedUp, Lists
    <3> QED
      BY <2>3, <3>1, <3>3 DEF Due
  <2> QED
    BY <2>4, <2>5 DEF Due
<1> QED
  BY <1>1, <1>2, <1>3, <1>5, <1>6

LEMMA ReadCountStep ==
  ASSUME IInv, NEW h \in Threads, ReadCount(h)
  PROVE  IInv'
<1> USE SizeAssumption DEF IInv, ReadCount, Goto, fields
<1>1. Types'
  BY DEF Types, Working
<1>2. Alone'
  BY DEF Alone, Types, Working
<1>3. Lists'
  BY DEF Lists, Placed, InWheel, BehindWheel
<1>5. Flags'
  BY DEF Flags, Types, InWheel
<1>6. Due'
  BY DEF Due, Types, Turn, Arrears
<1> QED
  BY <1>1, <1>2, <1>3, <1>5, <1>6

LEMMA EnterStep ==
  ASSUME IInv, NEW h \in Threads, Enter(h)
  PROVE  IInv'
<1> USE SizeAssumption DEF IInv, Enter, Goto, fields
<1>1. Types'
  BY DEF Types, Working, Busy
<1>2. Alone'
  BY DEF Busy, Alone, Types, Working
<1>3. Lists'
  BY DEF Busy, Lists, Types, Placed, InWheel, BehindWheel, Alone, Working
<1>5. Flags'
  BY DEF Busy, Flags, Types, Lists, InWheel, Alone, Working
<1>6. Due'
  BY DEF Busy, Due, Types, Turn, Arrears, Alone, Working
<1> QED
  BY <1>1, <1>2, <1>3, <1>5, <1>6

LEMMA NextSlotStep ==
  ASSUME IInv, NEW h \in Threads, NextSlot(h)
  PROVE  IInv'
<1> USE SizeAssumption DEF IInv
<1> DEFINE c == m_count % Size
<1>a. c \in Slots /\ m_count \in Nat
  BY CurrentSlot DEF Types
<1>b. taken = {}
  BY DEF NextSlot, Alone, Working, Types
<1>e. /\ pc[h] = "loop" /\ pc' = [pc EXCEPT ![h] = "slot"]
      /\ taken' = sched[c] /\ m_count' = m_count + 1
      /\ sched' = [sched EXCEPT ![c] = {}]
      /\ UNCHANGED <<inserted, used, m_idx, m_start_idx, m_removed, m_delay, m_trigger_count,
                     goal, closed, left>>
  BY DEF NextSlot, Goto, fields
<1>f. c \in Cells /\ c # Size
  BY <1>a, Ring
<1>c. \A s \in Cells : sched'[s] = IF s = c THEN {} ELSE sched[s]
  BY <1>e DEF Types
<1>g. \A s, r \in Cells : sched[s] \intersect sched[r] # {} => s = r
  BY DEF Lists
<1> HIDE DEF c
<1>d. Placed' = Placed \ sched[c] /\ InWheel' = InWheel \ sched[c] /\ sched[c] \subseteq InWheel
  <2>1. Slots \subseteq Cells /\ Size \in Cells
    BY Ring
  <2>2. InWheel' = InWheel \ sched[c]
    BY <1>a, <1>c, <1>f, <1>g, <2>1 DEF InWheel
  <2>3. BehindWheel' = BehindWheel /\ BehindWheel \intersect sched[c] = {}
    BY <1>c, <1>f, <1>g, <2>1 DEF BehindWheel
  <2>4. sched[c] \subseteq InWheel
    BY <1>a DEF InWheel
  <2> QED
    BY <2>2, <2>3, <2>4 DEF Placed
<1>h. \A g \in Threads : pc'[g] # "first"
  BY <1>e DEF Types, Alone, Working
<1>1. Types'
  <2>1. sched' \in [Cells -> SUBSET Task] /\ taken' \subseteq Task
    BY <1>e, <1>f DEF Types
  <2>2. m_count' \in Nat
    BY <1>a, <1>e
  <2>3. pc' \in [Threads -> {"idle", "event", "enter"} \union Working]
    BY <1>e DEF Types, Working
  <2> QED
    BY <1>e, <2>1, <2>2, <2>3 DEF Types
<1>2. Alone'
  BY <1>e DEF Alone, Types, Working
<1>3. Lists'
  <2>1. \A s, r \in Cells : sched'[s] \intersect sched'[r] # {} => s = r
    BY <1>c, <1>g
  <2>2. used' = used /\ inserted' = inserted /\ taken' = sched[c] /\ sched[c] \subseteq Placed
    BY <1>d, <1>e DEF Placed
  <2> QED
    BY <1>b, <1>d, <2>1, <2>2 DEF Lists
<1>5. Flags'
  BY <1>b, <1>d, <1>e, <1>h DEF Flags
<1>6. Due'
  <2>0. Arrears \in Int /\ Arrears' = Arrears - 1
    BY <1>a, <1>e DEF Arrears, Types
  <2>1. ASSUME NEW s \in Slots, NEW t \in sched[s]
        PROVE  /\ t \in Task /\ left'[t] + Arrears' = (left[t] + Arrears) - 1
               /\ left[t] + Arrears = Turn(s) + m_delay[t] * Size
    <3>1. t \in Task /\ left[t] \in Int /\ left'[t] = left[t]
      BY <1>e, Ring DEF Types
    <3> QED
      BY <2>0, <3>1 DEF Due
  <2>2. ASSUME NEW s \in Slots, s # c
        PROVE  Turn(s)' = Turn(s) - 1
    <3>1. Turn(s)' = ((s - (m_count + 1)) % Size) + 1
      BY <1>e DEF Turn
    <3>2. ((s - (m_count + 1)) % Size) + 1 =
            IF s = m_count % Size THEN Size ELSE ((s - m_count) % Size)
      BY <1>a, TurnPasses
    <3>3. (s - m_count) % Size \in Int
      BY Residue, SizeAssumption DEF Types, Slots
    <3> QED
      BY <2>2, <3>1, <3>2, <3>3 DEF Turn, c
  <2>3. Turn(c) = 1
    <3>1. (c - m_count) % Size = 0
      BY <1>a, SameTurn DEF c
    <3> QED
      BY <3>1 DEF Turn
  <2>4. \A s \in Slots : Turn(s) \in Int /\ \A t \in Task : m_delay[t] * Size \in Int
    BY CurrentSlot, SizeAssumption DEF Types
  <2>5. ASSUME NEW s \in Slots, NEW t \in sched'[s]
        PROVE  left'[t] + Arrears' = Turn(s)' + m_delay'[t] * Size
    <3>1. s # c /\ t \in sched[s] /\ m_delay' = m_delay
      BY <1>c, <1>e, <2>5, Ring
    <3> QED
      BY <2>1, <2>2, <2>4, <3>1
  <2>6. ASSUME NEW t \in taken'
        PROVE  left'[t] + Arrears' = m_delay'[t] * Size
    <3>1. t \in sched[c] /\ m_delay' = m_delay
      BY <1>e, <2>6
    <3> QED
      BY <1>a, <2>1, <2>3, <2>4, <3>1
  <2> QED
    BY <2>5, <2>6 DEF Due
<1> QED
  BY <1>1, <1>2, <1>3, <1>5, <1>6

\* remove_timer of a task of the slot
LEMMA FreeStep ==
  ASSUME IInv, NEW h \in Threads, NEW t \in taken, pc[h] = "slot", Free(t),
         taken' = taken \ {t},
         UNCHANGED <<inserted, m_start_idx, m_count, m_trigger_count, pc, goal>>
  PROVE  IInv'
<1> USE DEF IInv
<1>a. /\ used' = used \ {t} /\ closed' = closed \ {t} /\ sched' = sched
      /\ m_idx' = [m_idx EXCEPT ![t] = 1]
      /\ m_removed' = [m_removed EXCEPT ![t] = FALSE]
      /\ m_delay' = [m_delay EXCEPT ![t] = 0]
      /\ left' = [left EXCEPT ![t] = 0]
  BY DEF Free
<1>b. \A u \in Task \ {t} : /\ m_removed'[u] = m_removed[u] /\ m_delay'[u] = m_delay[u]
                            /\ left'[u] = left[u]
  BY <1>a DEF Types
<1>c. InWheel' = InWheel /\ Placed' = Placed
  BY <1>a DEF InWheel, Placed, BehindWheel
<1>d. t \notin Placed /\ t \notin inserted /\ t \in Task /\ InWheel \subseteq Placed
  BY DEF Lists, Types, Placed
<1>e. InWheel \subseteq Task /\ taken \subseteq Task /\ Arrears' = Arrears
  BY Ring DEF Types, InWheel, Arrears
<1>1. Types'
  <2>1. m_idx' \in [Task -> Intervals \union {1}] /\ left' \in [Task -> Int]
    BY <1>a DEF Types
  <2>2. m_removed' \in [Task -> BOOLEAN] /\ m_delay' \in [Task -> Nat]
    BY <1>a DEF Types
  <2> QED
    BY <1>a, <2>1, <2>2 DEF Types
<1>2. Alone'
  BY DEF Alone
<1>3. Lists'
  BY <1>a, <1>c, <1>d DEF Lists
<1>5. Flags'
  BY <1>a, <1>b, <1>c, <1>d, <1>e DEF Flags
<1>6. Due'
  <2>1. ASSUME NEW s \in Slots, NEW u \in sched[s]
        PROVE  left'[u] + Arrears' = Turn(s)' + m_delay'[u] * Size
    <3>1. u \in InWheel
      BY DEF InWheel
    <3>2. u \in Task \ {t} /\ Turn(s)' = Turn(s)
      BY <1>d, <1>e, <3>1 DEF Turn
    <3> QED
      BY <1>b, <1>e, <3>2 DEF Due
  <2> QED
    BY <1>a, <1>b, <1>e, <2>1 DEF Due
<1> QED
  BY <1>1, <1>2, <1>3, <1>5, <1>6

LEMMA DropStep ==
  ASSUME IInv, NEW h \in Threads, NEW t \in Task, Drop(h, t)
  PROVE  IInv'
BY FreeStep DEF Drop

LEMMA WaitStep ==
  ASSUME IInv, NEW h \in Threads, NEW t \in Task, Wait(h, t)
  PROVE  IInv'
<1> USE SizeAssumption DEF IInv
<1>0. /\ pc[h] = "slot" /\ t \in taken /\ m_delay[t] > 0 /\ taken' = taken \ {t}
      /\ ~m_removed[t] /\ m_delay' = [m_delay EXCEPT ![t] = @ - 1]
      /\ UNCHANGED <<inserted, used, m_idx, m_start_idx, m_removed, m_count, m_trigger_count, pc,
                     goal, closed, left>>
  BY DEF Wait
<1>a. Current \in Slots /\ Current \in Cells /\ t \notin Placed /\ Put(t, Current)
  BY CurrentSlot, Ring DEF Lists, Wait
<1>b. /\ sched' \in [Cells -> SUBSET Task]
      /\ Placed' = Placed \union {t} /\ InWheel' = InWheel \union {t}
      /\ \A r, q \in Cells : sched'[r] \intersect sched'[q] # {} => r = q
  BY <1>a, PutInto
<1>c. \A u \in Task : m_delay'[u] = IF u = t THEN m_delay[t] - 1 ELSE m_delay[u]
  BY <1>0 DEF Types
<1>1. Types'
  <2>1. m_delay' \in [Task -> Nat]
    BY <1>0 DEF Types
  <2> QED
    BY <1>0, <1>b, <2>1 DEF Types
<1>2. Alone'
  BY <1>0 DEF Alone, Types, Working
<1>3. Lists'
  BY <1>0, <1>a, <1>b DEF Lists
<1>5. Flags'
  BY <1>0, <1>b DEF Flags, Alone, Working
<1>6. Due'
  <2>1. /\ left[t] + Arrears = m_delay[t] * Size /\ Size \in Nat /\ m_delay[t] \in Nat
        /\ t \in Task /\ Arrears' = Arrears
    BY <1>0, SizeAssumption DEF Due, Types, Arrears
  <2>2. left[t] + Arrears = Size + (m_delay[t] - 1) * Size
    BY <2>1
  <2>3. Turn(Current) = Size /\ \A s \in Slots : Turn(s)' = Turn(s)
    BY <1>0, CurrentTurn DEF Turn
  <2>4. ASSUME NEW s \in Slots, NEW u \in sched'[s]
        PROVE  left'[u] + Arrears' = Turn(s)' + m_delay'[u] * Size
    <3>0. s \in Cells
      BY Ring
    <3>1. CASE u = t
      <4>1. t \notin sched[s]
        BY <1>a, <3>0, Ring
      <4>2. s = Current
        BY <1>a, <2>4, <3>0, <3>1, <4>1 DEF Put, Types
      <4>3. m_delay'[u] = m_delay[t] - 1 /\ left' = left
        BY <1>0, <1>c, <2>1, <3>1
      <4> QED
        BY <2>1, <2>2, <2>3, <3>1, <4>2, <4>3
    <3>2. CASE u # t
      <4>1. u \in sched[s] /\ u \in Task
        BY <1>a, <2>4, <3>0, <3>2 DEF Put, Types
      <4> QED
        BY <1>0, <1>c, <2>1, <2>3, <3>2, <4>1 DEF Due
    <3> QED
      BY <3>1, <3>2
  <2>5. \A g \in Threads : pc'[g] = "slot" =>
          \A u \in taken' : left'[u] + Arrears' = m_delay'[u] * Size
    BY <1>0, <1>c, <2>1 DEF Due, Types
  <2> QED
    BY <2>4, <2>5 DEF Due
<1> QED
  BY <1>1, <1>2, <1>3, <1>5, <1>6

LEMMA FireStep ==
  ASSUME IInv, NEW h \in Threads, NEW t \in Task, Fire(h, t)
  PROVE  IInv'
<1> USE SizeAssumption DEF IInv
<1> DEFINE Again == Insert(t, m_idx[t]) /\ UNCHANGED <<used, closed, m_idx, m_removed>>
<1>0. /\ pc[h] = "slot" /\ t \in taken /\ taken' = taken \ {t}
      /\ Free(t) \/ Again
      /\ UNCHANGED <<inserted, m_start_idx, m_count, m_trigger_count, pc, goal>>
  BY DEF Fire
<1>a. t \in Task \ Placed /\ m_idx[t] \in Nat
  <2>1. m_idx[t] \in Intervals \union {1}
    BY DEF Types
  <2>2. m_idx[t] \in Nat
    <3>1. CASE m_idx[t] \in Intervals
      BY <3>1, DurationAssumption
    <3>2. CASE m_idx[t] = 1
      BY <3>2
    <3> QED
      BY <2>1, <3>1, <3>2
  <2> QED
    BY <1>0, <2>2 DEF Lists
<1>c. CASE Free(t)
  BY <1>0, <1>c, FreeStep
<1>d. CASE Again
  <2>0. UNCHANGED <<used, closed, m_idx, m_removed>>
    BY <1>d
  <2>b. /\ sched' \in [Cells -> SUBSET Task]
        /\ m_delay' \in [Task -> Nat] /\ left' \in [Task -> Int]
        /\ Placed' = Placed \union {t}
        /\ InWheel' \subseteq InWheel \union {t}
        /\ \A r, q \in Cells : sched'[r] \intersect sched'[q] # {} => r = q
        /\ Arrears' = Arrears
        /\ \A u \in Task \ {t} : m_delay'[u] = m_delay[u] /\ left'[u] = left[u]
        /\ \A s \in Slots : \A u \in sched'[s] :
              left'[u] + Arrears' = Turn(s)' + m_delay'[u] * Size
    BY <1>0, <1>a, <1>d, Inserted
  <2>1. Types'
    BY <1>0, <2>0, <2>b DEF Types
  <2>2. Alone'
    BY <1>0 DEF Alone
  <2>3. Lists'
    BY <1>0, <1>a, <2>0, <2>b DEF Lists
  <2>4. Flags'
    BY <1>0, <2>0, <2>b DEF Flags, Alone, Working
  <2>5. Due'
    BY <1>0, <2>b DEF Due, Types
  <2> QED
    BY <2>1, <2>2, <2>3, <2>4, <2>5
<1> QED
  BY <1>0, <1>c, <1>d

LEMMA PickUpStep ==
  ASSUME IInv, NEW h \in Threads, PickUp(h)
  PROVE  IInv'
<1> USE SizeAssumption DEF IInv, PickUp, Goto, fields
<1>1. Types'
  BY DEF Types, Working, Busy
<1>2. Alone'
  BY DEF Alone, Types, Working
<1>3. Lists'
  BY DEF Lists, Types, Placed, InWheel, BehindWheel, Alone, Working
<1>5. Flags'
  BY DEF Flags, Types, Lists, InWheel, Alone, Working
<1>6. Due'
  BY DEF Due, Types, Turn, Arrears, Alone, Working
<1> QED
  BY <1>1, <1>2, <1>3, <1>5, <1>6

LEMMA FirstStep ==
  ASSUME IInv, NEW h \in Threads, NEW t \in Task, First(h, t)
  PROVE  IInv'
<1> USE SizeAssumption DEF IInv
<1>0. /\ pc[h] = "first" /\ t \in taken /\ taken' = taken \ {t}
      /\ m_removed' = [m_removed EXCEPT ![t] = FALSE]
      /\ m_start_idx' = [m_start_idx EXCEPT ![t] = 0]
      /\ Insert(t, m_start_idx[t])
      /\ UNCHANGED <<inserted, used, m_idx, m_count, m_trigger_count, pc, goal, closed>>
  BY DEF First
<1>a. t \in Task \ Placed /\ t \notin closed /\ t \in used /\ m_start_idx[t] \in Nat
  BY <1>0 DEF Lists, Flags, Types
<1>b. /\ sched' \in [Cells -> SUBSET Task]
      /\ m_delay' \in [Task -> Nat] /\ left' \in [Task -> Int]
      /\ Placed' = Placed \union {t}
      /\ InWheel' \subseteq InWheel \union {t}
      /\ \A r, q \in Cells : sched'[r] \intersect sched'[q] # {} => r = q
      /\ Arrears' = Arrears
      /\ \A u \in Task \ {t} : m_delay'[u] = m_delay[u] /\ left'[u] = left[u]
      /\ \A s \in Slots : \A u \in sched'[s] :
            left'[u] + Arrears' = Turn(s)' + m_delay'[u] * Size
  BY <1>0, <1>a, Inserted
<1>c. \A g \in Threads : pc[g] # "slot"
  BY <1>0 DEF Alone, Working
<1>1. Types'
  BY <1>0, <1>b DEF Types
<1>2. Alone'
  BY <1>0 DEF Alone
<1>3. Lists'
  BY <1>0, <1>a, <1>b DEF Lists
<1>5. Flags'
  <2>1. \A u \in Task : m_removed'[u] = IF u = t THEN FALSE ELSE m_removed[u]
    BY <1>0 DEF Types
  <2>2. InWheel \subseteq Task /\ taken' \subseteq taken
    BY <1>0, Ring DEF Types, InWheel
  <2> QED
    BY <1>0, <1>a, <1>b, <1>c, <2>1, <2>2 DEF Flags
<1>6. Due'
  BY <1>0, <1>b, <1>c DEF Due
<1> QED
  BY <1>1, <1>2, <1>3, <1>5, <1>6

LEMMA EndTickStep ==
  ASSUME IInv, NEW h \in Threads, EndTick(h)
  PROVE  IInv'
<1> USE SizeAssumption DEF IInv, EndTick, Goto, fields
<1>1. Types'
  BY DEF Types, Working, Busy
<1>2. Alone'
  BY DEF Alone, Types, Working
<1>3. Lists'
  BY DEF Lists, Types, Placed, InWheel, BehindWheel, Alone, Working
<1>5. Flags'
  BY DEF Flags, Types, Lists, InWheel, Alone, Working
<1>6. Due'
  BY DEF Due, Types, Turn, Arrears, Alone, Working
<1> QED
  BY <1>1, <1>2, <1>3, <1>5, <1>6

LEMMA LeaveStep ==
  ASSUME IInv, NEW h \in Threads, Leave(h)
  PROVE  IInv'
<1> USE SizeAssumption DEF IInv, Leave, Goto, fields
<1>1. Types'
  <2>1. m_count % Size \in Nat
    BY CurrentSlot DEF Slots
  <2>2. m_count' \in Nat /\ m_trigger_count' \in Int
    BY <2>1, CurrentSlot DEF Types, Slots
  <2> QED
    BY <2>2 DEF Types, Working
<1>2. Alone'
  BY DEF Alone, Types, Working
<1>3. Lists'
  BY DEF Lists, Types, Placed, InWheel, BehindWheel, Alone, Working
<1>5. Flags'
  BY DEF Flags, Types, Lists, InWheel, Alone, Working
<1>6. Due'
  <2>1. \A s \in Slots : Turn(s)' = Turn(s)
    <3> SUFFICES ASSUME NEW s \in Slots PROVE Turn(s)' = Turn(s)
      OBVIOUS
    <3>1. m_count' = m_count \/ m_count' = m_count % Size
      OBVIOUS
    <3> QED
      BY <3>1, SameTurn DEF Turn, Types
  <2>2. Arrears' = Arrears
    <3>1. m_count % Size \in Int /\ m_count \in Int /\ m_trigger_count \in Int
      BY CurrentSlot DEF Types, Slots
    <3> QED
      BY <3>1 DEF Arrears
  <2> QED
    BY <2>1, <2>2 DEF Due, Types
<1> QED
  BY <1>1, <1>2, <1>3, <1>5, <1>6

----------------------------------------------------------------------------

\* The invariant holds of every run of the wheel (timerfd.hpp:39-110).
THEOREM Invariant ==
  Spec => []IInv
<1>1. Init => IInv
  <2> SUFFICES ASSUME Init PROVE IInv
    OBVIOUS
  <2> USE DEF Init, Slots
  <2>1. InWheel = {} /\ BehindWheel = {} /\ Placed = {}
    BY SizeAssumption DEF InWheel, BehindWheel, Placed, Cells
  <2>2. Types
    BY DEF Types, Working
  <2>3. Alone /\ Lists /\ Flags /\ Due
    BY <2>1, Ring DEF Alone, Working, Lists, Flags, Due
  <2> QED
    BY <2>2, <2>3 DEF IInv
<1>2. IInv /\ [Next]_vars => IInv'
  <2> SUFFICES ASSUME IInv, [Next]_vars PROVE IInv'
    OBVIOUS
  <2>1. ASSUME NEW t \in Task, Close(t) PROVE IInv'
    BY <2>1, CloseStep
  <2>2. ASSUME NEW t \in Task, NEW s \in Starts, NEW i \in Intervals, Add(t, s, i) PROVE IInv'
    BY <2>2, AddStep
  <2>3. ASSUME NEW h \in Threads, NEW c \in 1 .. MaxBehind, Trigger(h, c) PROVE IInv'
    BY <2>3, TriggerStep
  <2>4. ASSUME NEW h \in Threads, Work(h) PROVE IInv'
    BY <2>4, ReadCountStep, EnterStep, NextSlotStep, PickUpStep, EndTickStep, LeaveStep, DropStep, WaitStep,
       FireStep, FirstStep DEF Work
  <2>5. CASE UNCHANGED vars
    BY <2>5 DEF vars, fields, IInv, Types, Alone, Lists, Flags, Due, Turn, Arrears, Placed,
       BehindWheel, InWheel
  <2> QED
    BY <2>1, <2>2, <2>3, <2>4, <2>5 DEF Next
<1> QED
  BY <1>1, <1>2, PTL DEF Spec

\* Every task of the ring is called at the tick it asked for, not earlier and not
\* later, and not after it was closed, if it had been picked up before that,
\* whichever threads the events come to and how many of them come while the
\* wheel is busy.
THEOREM CalledOnTime ==
  Spec => []OnTime
<1>1. IInv => OnTime
  <2> SUFFICES ASSUME IInv PROVE OnTime
    OBVIOUS
  <2>1. StaysClosed
    BY DEF IInv, Flags, StaysClosed
  <2>2. ASSUME NEW s \in Slots, NEW t \in sched[s] PROVE left[t] + Arrears > 0
    <3>1. left[t] + Arrears = Turn(s) + m_delay[t] * Size /\ t \in Task
      BY Ring DEF IInv, Due, Types
    <3>2. Turn(s) \in 1 .. Size
      BY CurrentSlot DEF IInv
    <3>3. Size \in Nat /\ m_delay[t] \in Nat
      BY <3>1, SizeAssumption DEF IInv, Types
    <3>4. m_delay[t] * Size \in Nat
      BY <3>3
    <3> QED
      BY <3>1, <3>2, <3>3, <3>4
  <2>3. \A t \in InWheel : left[t] + Arrears > 0
    BY <2>2 DEF InWheel
  <2> QED
    BY <2>1, <2>3 DEF OnTime, IInv, Due
<1> QED
  BY <1>1, Invariant, PTL

\* The counters, as long as they are not set back
Counters == m_trigger_count \in 0 .. MaxTicks /\ goal \in [Threads -> Nat]

\* m_processed lets one thread in (timerfd.hpp:42).
LEMMA OneAtATime ==
  ASSUME IInv
  PROVE  Cardinality({h \in Threads : pc[h] \in {"loop", "slot", "first"}}) <= 1
<1> DEFINE W == {h \in Threads : pc[h] \in {"loop", "slot", "first"}}
<1>1. CASE W = {}
  BY <1>1, FS_EmptySet
<1>2. CASE W # {}
  <2>1. PICK h : h \in W
    BY <1>2
  <2>2. W = {h}
    BY <2>1 DEF IInv, Alone, Working
  <2>3. Cardinality({h}) = 1
    BY FS_Singleton
  <2> QED
    BY <2>2, <2>3
<1> QED
  BY <1>1, <1>2

\* Every allocated task is in exactly one list, and one thread works on the
\* wheel.  MaxTicks <= MAX_COUNT says that the counters are not set back; after
\* that a thread that read m_trigger_count before has a goal far ahead of it.
THEOREM ListedOnce ==
  ASSUME MaxTicks <= MAX_COUNT
  PROVE  Spec => []InOneList
<1>1. Init => Counters
  BY CountAssumption DEF Init, Counters
<1>2. IInv /\ Counters /\ [Next]_vars => Counters'
  <2> SUFFICES ASSUME IInv, Counters, [Next]_vars PROVE Counters'
    OBVIOUS
  <2> USE CountAssumption DEF Counters
  <2>1. ASSUME NEW h \in Threads, NEW c \in 1 .. MaxBehind, Trigger(h, c) PROVE Counters'
    BY <2>1 DEF Trigger
  <2>2. ASSUME NEW h \in Threads, Leave(h) PROVE Counters'
    BY <2>2 DEF Leave
  <2>3. CASE UNCHANGED <<m_trigger_count, goal>>
    BY <2>3
  <2>4. ASSUME NEW h \in Threads, ReadCount(h) PROVE Counters'
    BY <2>4 DEF ReadCount
  <2> QED
    BY <2>1, <2>2, <2>3, <2>4
       DEF Next, Work, Add, Close, Enter, NextSlot, Drop, Wait, Fire, PickUp, First, EndTick, vars
<1>3. IInv /\ Counters => InOneList
  <2> SUFFICES ASSUME IInv, Counters PROVE InOneList
    OBVIOUS
  <2>1. TypeOK
    BY OneAtATime DEF IInv, Types, Counters, TypeOK, Working
  <2>2. used = InWheel \union BehindWheel \union inserted \union taken
    BY DEF IInv, Lists, Placed
  <2> QED
    BY <2>1, <2>2 DEF InOneList, IInv, Lists, Placed
<1> QED
  BY <1>1, <1>2, <1>3, Invariant, PTL DEF Spec
============================================================================
