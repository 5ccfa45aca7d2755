-------------------------------- MODULE Array --------------------------------
(***************************************************************************)
(* The pools of objects (array of src/util/array.h) as threads share them: *)
(* memory is taken and given back under the lock of the pool, and the      *)
(* objects are constructed and destroyed outside of it.                    *)
(*                                                                         *)
(* A pool starts with elements of its own and takes more from the heap.    *)
(* All pools of the program are made to grow.  The links of the lists are  *)
(* in module Map, whose elements come from the same allocator; here a list *)
(* is its elements.  The heap always has memory.                           *)
(*                                                                         *)
(* Definitions marked "Slip" are wrong variants of the definition that     *)
(* follows them.                                                           *)
(***************************************************************************)
EXTENDS Naturals, Sequences, FiniteSets

CONSTANTS
  Threads,   \* threads that use the pool
  Own,       \* elements the pool has of its own
  MaxLive    \* bound on the elements in use

VARIABLES
  used, free,     \* the list of elements in use, the free list
  m_max, m_use,   \* elements the pool has, elements in use
  heap,           \* blocks of the heap that are given out
  object,         \* the elements with an object in them
  hand,           \* t: the element thread t works on, 0 if none
  step,           \* t: "construct", "release" or, without an element, "rest"
  ended           \* fin was called

vars == <<used, free, m_max, m_use, heap, object, hand, step, ended>>

Elements == 1 .. Own + MaxLive
FromHeap(e) == e > Own

\* create and init_header: the elements of its own, chained in order.
Init ==
  /\ used = {} /\ free = [i \in 1 .. Own |-> i]
  /\ m_max = Own /\ m_use = 0
  /\ heap = {} /\ object = {}
  /\ hand = [t \in Threads |-> 0] /\ step = [t \in Threads |-> "rest"]
  /\ ended = FALSE

Works(t, s, e) == step' = [step EXCEPT ![t] = s] /\ hand' = [hand EXCEPT ![t] = e]

\* operator new, alloc and alloc_elm: the first free element, or a new one.
Take(t) ==
  /\ step[t] = "rest" /\ ~ended /\ m_use < MaxLive
  /\ LET e == IF free # <<>> THEN Head(free)
              ELSE CHOOSE x \in Elements \ heap : FromHeap(x)
     IN /\ used' = used \union {e}
        /\ free' = IF free # <<>> THEN Tail(free) ELSE free
        /\ heap' = IF free # <<>> THEN heap ELSE heap \union {e}
        /\ m_max' = IF free # <<>> THEN m_max ELSE m_max + 1
        /\ Works(t, "construct", e)
  /\ m_use' = m_use + 1
  /\ UNCHANGED <<object, ended>>

\* The constructor, after the lock was given up.
Construct(t) ==
  /\ step[t] = "construct"
  /\ object' = object \union {hand[t]}
  /\ Works(t, "rest", 0)
  /\ UNCHANGED <<used, free, m_max, m_use, heap, ended>>

\* array::free and erase: first the destructor.
Destroy(t) ==
  /\ step[t] = "rest" /\ ~ended
  /\ \E e \in object : object' = object \ {e} /\ Works(t, "release", e)
  /\ UNCHANGED <<used, free, m_max, m_use, heap, ended>>

\* Slip: a block that is given back still counts.
ReleaseUncounted(t) ==
  /\ step[t] = "release"
  /\ LET e == hand[t]
         back == FromHeap(e) /\ m_max \div 2 >= m_use
     IN /\ used' = used \ {e}
        /\ heap' = IF back THEN heap \ {e} ELSE heap
        /\ free' = IF back THEN free ELSE <<e>> \o free
  /\ m_use' = m_use - 1
  /\ Works(t, "rest", 0)
  /\ UNCHANGED <<m_max, object, ended>>

\* fix_size_allocator::free and free_elm: a block of the heap goes back when few
\* elements are in use, otherwise it comes first in the free list.
Release(t) ==
  /\ step[t] = "release"
  /\ LET e == hand[t]
         back == FromHeap(e) /\ m_max \div 2 >= m_use
     IN /\ used' = used \ {e}
        /\ heap' = IF back THEN heap \ {e} ELSE heap
        /\ m_max' = IF back THEN m_max - 1 ELSE m_max
        /\ free' = IF back THEN free ELSE <<e>> \o free
  /\ m_use' = m_use - 1
  /\ Works(t, "rest", 0)
  /\ UNCHANGED <<object, ended>>

\* array::fin when the threads are gone: the objects in use are destroyed, and
\* the blocks of both lists go back.
Fin ==
  /\ ~ended /\ \A t \in Threads : step[t] = "rest"
  /\ object' = object \ used
  /\ heap' = heap \ (used \union {free[i] : i \in DOMAIN free})
  /\ used' = {} /\ free' = <<>> /\ m_max' = 0 /\ m_use' = 0
  /\ ended' = TRUE
  /\ UNCHANGED <<hand, step>>

Next == Fin \/ \E t \in Threads : Take(t) \/ Construct(t) \/ Destroy(t) \/ Release(t)

Spec == Init /\ [][Next]_vars

----------------------------------------------------------------------------

\* The memory of a pool: every element in use has an object, or one thread that
\* makes or ends it; an element is in one list or, as a block of the heap, in
\* none; the counters agree with the lists, so the pool knows what it has to
\* give back, and at the end no object and no block is left.
PoolWhole ==
  LET freed == {free[i] : i \in DOMAIN free}
      hands == {hand[t] : t \in Threads} \ {0}
  IN /\ used = object \union hands /\ object \intersect hands = {}
     /\ \A t, u \in Threads : hand[t] = hand[u] => t = u \/ hand[t] = 0
     /\ used \intersect freed = {} /\ Cardinality(freed) = Len(free)
     /\ m_use = Cardinality(used) /\ m_max = Cardinality(used) + Len(free)
     /\ {e \in used \union freed : FromHeap(e)} = heap
     /\ ~ended => {e \in Elements : ~FromHeap(e)} \subseteq used \union freed
============================================================================
