-------------------------------- MODULE Shm --------------------------------
(***************************************************************************)
(* Memory that the VMs of all threads share by name (ll/lua/misc.h, shm,   *)
(* and thread.h, rwlock).  The first insert of a key makes an entry in the *)
(* map, then its block and its lock; the map's own lock covers only the    *)
(* first of these.  The other threads find the entry, and scripts take the *)
(* lock while they work on the block.                                      *)
(*                                                                         *)
(* A thread that comes while the entry is made may get no address, and may *)
(* take a lock that is not made yet: such a lock, all zero, can be taken,  *)
(* and making it forgets who has it.  spoiled holds the keys this happened *)
(* to; their entries keep no promise.  Scripts unlock what they locked.    *)
(***************************************************************************)
EXTENDS Integers, FiniteSets

CONSTANTS
  Threads,   \* each with a VM
  Keys,
  MaxBlocks  \* bound on the blocks that are allocated

VARIABLES
  entry,    \* the keys in m_shmm
  m_p,      \* the block of an entry, a number, or 0 (NULL)
  m_lock,   \* of an entry: whether it is made, and who holds it to read and to write
  making,   \* of a thread: the keys whose entry it makes
  got,      \* of a thread and a key: the address it was told, or 0
  blocks,   \* allocations so far
  spoiled   \* history: keys that were used while they were made

vars == <<entry, m_p, m_lock, making, got, blocks, spoiled>>

Free == [made |-> FALSE, rd |-> {}, wr |-> {}]

Init ==
  /\ entry = {}
  /\ m_p = [k \in Keys |-> 0]
  /\ m_lock = [k \in Keys |-> Free]
  /\ making = [t \in Threads |-> {}]
  /\ got = [t \in Threads |-> [k \in Keys |-> 0]]
  /\ blocks = 0
  /\ spoiled = {}

Made(k) == \A t \in Threads : k \notin making[t]
Runs(t) == making[t] = {}  \* t is in no call
Spoil(k) == spoiled' = IF Made(k) THEN spoiled ELSE spoiled \union {k}
Tell(t, k) == got' = [got EXCEPT ![t][k] = m_p[k]]

\* insert of a key that is not there: the entry is made under the map's lock.
Alloc(t, k) ==
  /\ Runs(t) /\ k \notin entry
  /\ entry' = entry \union {k}
  /\ making' = [making EXCEPT ![t] = {k}]
  /\ UNCHANGED <<m_p, m_lock, got, blocks, spoiled>>

\* ent::init: the block is allocated ...
InitBlock(t, k) ==
  /\ k \in making[t] /\ m_p[k] = 0 /\ blocks < MaxBlocks
  /\ blocks' = blocks + 1
  /\ m_p' = [m_p EXCEPT ![k] = blocks + 1]
  /\ UNCHANGED <<entry, m_lock, making, got, spoiled>>

\* ... and the lock is made; the script gets the address.
InitLock(t, k) ==
  /\ k \in making[t] /\ m_p[k] # 0
  /\ m_lock' = [m_lock EXCEPT ![k] = [Free EXCEPT !.made = TRUE]]
  /\ making' = [making EXCEPT ![t] = {}]
  /\ Tell(t, k)
  /\ UNCHANGED <<entry, m_p, blocks, spoiled>>

\* There is no memory for the block, or no lock: the entry is erased, which
\* frees the block, and the script gets an error.
InitFails(t, k) ==
  /\ k \in making[t]
  /\ entry' = entry \ {k}
  /\ m_p' = [m_p EXCEPT ![k] = 0]
  /\ m_lock' = [m_lock EXCEPT ![k] = Free]
  /\ making' = [making EXCEPT ![t] = {}]
  /\ UNCHANGED <<got, blocks, spoiled>>

\* Slip: an entry that is there is initialized again.
InsertAnew(t, k) ==
  /\ Runs(t) /\ k \in entry /\ blocks < MaxBlocks
  /\ blocks' = blocks + 1
  /\ m_p' = [m_p EXCEPT ![k] = blocks + 1]
  /\ got' = [got EXCEPT ![t][k] = blocks + 1]
  /\ Spoil(k)
  /\ UNCHANGED <<entry, m_lock, making>>

\* insert of a key that is there
Insert(t, k) ==
  /\ Runs(t) /\ k \in entry
  /\ Tell(t, k) /\ Spoil(k)
  /\ UNCHANGED <<entry, m_p, m_lock, making, blocks>>

\* rdlock and wrlock wait as long as others are in the way.
RdLock(t, k) ==
  /\ Runs(t) /\ k \in entry /\ m_lock[k].wr = {}
  /\ m_lock' = [m_lock EXCEPT ![k].rd = @ \union {t}]
  /\ Tell(t, k) /\ Spoil(k)
  /\ UNCHANGED <<entry, m_p, making, blocks>>

WrLock(t, k) ==
  /\ Runs(t) /\ k \in entry /\ m_lock[k].wr = {} /\ m_lock[k].rd = {}
  /\ m_lock' = [m_lock EXCEPT ![k].wr = {t}]
  /\ Tell(t, k) /\ Spoil(k)
  /\ UNCHANGED <<entry, m_p, making, blocks>>

Unlock(t, k) ==
  /\ Runs(t) /\ k \in entry /\ t \in m_lock[k].rd \union m_lock[k].wr
  /\ m_lock' = [m_lock EXCEPT ![k].rd = @ \ {t}, ![k].wr = @ \ {t}]
  /\ Spoil(k)
  /\ UNCHANGED <<entry, m_p, making, got, blocks>>

\* fetch finds the entry, but returns no value to the script.
Fetch(t, k) ==
  /\ Runs(t) /\ k \in entry
  /\ Spoil(k)
  /\ UNCHANGED <<entry, m_p, m_lock, making, got, blocks>>

Next ==
  \E t \in Threads, k \in Keys :
    \/ Alloc(t, k) \/ InitBlock(t, k) \/ InitLock(t, k) \/ InitFails(t, k)
    \/ Insert(t, k) \/ RdLock(t, k) \/ WrLock(t, k) \/ Unlock(t, k) \/ Fetch(t, k)

Spec == Init /\ [][Next]_vars

\* Unless a thread came while the entry was made, all threads that use a key
\* have the one block of it, which is there, and a thread that writes is alone:
\* misc.h, insert and lock.
SharesOne ==
  \A k \in Keys \ spoiled :
    /\ \A t \in Threads : got[t][k] # 0 => k \in entry /\ got[t][k] = m_p[k]
    /\ \A t \in m_lock[k].wr : m_lock[k].rd \union m_lock[k].wr = {t} /\ got[t][k] # 0
============================================================================
