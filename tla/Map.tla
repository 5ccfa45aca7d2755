-------------------------------- MODULE Map --------------------------------
(***************************************************************************)
(* The hash map (src/util/map.h) on its pool of elements (src/util/array.h)*)
(* as threads share it: an insertion, a removal and each step of a walk    *)
(* hold the lock of the pool, and the walk gives it up between its steps.  *)
(*                                                                         *)
(* A pool starts with elements of its own and takes more from the heap     *)
(* when they are used up; some of those go back to the heap later, others  *)
(* are kept.  Elements in use form a doubly linked list, free ones a       *)
(* singly linked one, and the elements of a slot of the table a doubly     *)
(* linked chain of their own.                                              *)
(*                                                                         *)
(* Definitions marked "Slip" are wrong variants of the definition that     *)
(* follows them; the properties are required to notice each of them.       *)
(***************************************************************************)
EXTENDS Naturals, Sequences, FiniteSets

CONSTANTS
  Keys,    \* numbers
  Slots,   \* slots of the table
  Own      \* elements the pool has of its own

VARIABLES
  m_used, m_free,   \* first elements of the two lists, 0 if there are none
  m_max, m_use,     \* elements the pool has, elements in use
  elm,              \* the elements: see Blank
  m_table,          \* first elements of the chains
  walk              \* an iteration: see Resting

vars == <<m_used, m_free, m_max, m_use, elm, m_table, walk>>

\* Addresses: the first are the pool's own, the others are of the heap.
Elements == 1 .. Own + Cardinality(Keys)
FromHeap(e) == e > Own

\* Memory the heap has not given away.
Blank == [prev |-> 0, next |-> 0, inuse |-> FALSE, hnext |-> 0, hprev |-> 0, key |-> 0]

\* at is the element the callback is called for and p the one that comes next.
\* History: the elements in use since the walk began, the elements visited,
\* whether one was visited again, and whether p was removed under the walk.
Resting == [on |-> FALSE, at |-> 0, p |-> 0, stay |-> {}, seen |-> {},
            again |-> FALSE, astray |-> FALSE]

\* init_header chains the pool's own elements.
Init ==
  /\ m_used = 0 /\ m_free = 1
  /\ m_max = Own /\ m_use = 0
  /\ elm = [e \in Elements |-> [Blank EXCEPT !.next = IF e < Own THEN e + 1 ELSE 0]]
  /\ m_table = [h \in 0 .. Slots - 1 |-> 0]
  /\ walk = Resting

----------------------------------------------------------------------------

get_hush(k) == k % Slots

\* The elements from e on along the member f, in order.
Chain(e, f(_)) ==
  LET c[x \in Elements \union {0}, left \in Nat] ==
        IF x = 0 \/ left = 0 THEN <<>> ELSE <<x>> \o c[f(x), left - 1]
  IN c[e, Cardinality(Elements) + 1]

Members(e, f(_)) == LET c == Chain(e, f) IN {c[i] : i \in DOMAIN c}

ListNext(e) == elm[e].next
ChainNext(e) == elm[e].hnext

\* hash::get: the element of the key, or 0.
get(k) ==
  LET c == Chain(m_table[get_hush(k)], ChainNext)
      found == {i \in DOMAIN c : elm[c[i]].key = k}
  IN IF found = {} THEN 0 ELSE c[CHOOSE i \in found : \A j \in found : i <= j]

\* Assignments to a member of element e, none if e is null.
Assign(f, e, member, x) ==
  [y \in Elements |-> IF y = e THEN [f[y] EXCEPT ![member] = x] ELSE f[y]]

Pool == Members(m_used, ListNext) \union Members(m_free, ListNext)

----------------------------------------------------------------------------

\* alloc_elm: the first free element, or one more from the heap.
Taken ==
  IF m_free # 0 THEN m_free
  ELSE CHOOSE x \in Elements \ Pool :
         FromHeap(x) /\ \A y \in Elements \ Pool : FromHeap(y) => x <= y

\* hash::insert of a key that is not there: the element becomes the first of
\* the list and of its chain.
Insert(k) ==
  /\ get(k) = 0
  /\ LET h == get_hush(k)
         fresh == m_free = 0
         e == Taken
         linked == Assign(Assign(elm, m_used, "prev", e), m_table[h], "hprev", e)
     IN /\ m_free' = IF fresh THEN 0 ELSE elm[e].next
        /\ m_max' = IF fresh THEN m_max + 1 ELSE m_max
        /\ m_use' = m_use + 1
        /\ elm' = [linked EXCEPT ![e] =
                     [prev |-> 0, next |-> m_used, inuse |-> TRUE,
                      hnext |-> m_table[h], hprev |-> 0, key |-> k]]
        /\ m_used' = e
        /\ m_table' = [m_table EXCEPT ![h] = e]
  /\ UNCHANGED walk

\* Slip: the element behind e still names e as the one before it.
UnchainBack(e) == Assign(elm, elm[e].hprev, "hnext", elm[e].hnext)

\* The chain without e.
Unchain(e) ==
  Assign(Assign(elm, elm[e].hprev, "hnext", elm[e].hnext), elm[e].hnext, "hprev", elm[e].hprev)

\* The list of elements in use without e.
Unlink(f, e) ==
  Assign(Assign(f, f[e].prev, "next", f[e].next), f[e].next, "prev", f[e].prev)

\* free_elm gives an element of the heap back when few are in use.
ToHeap(e) == FromHeap(e) /\ m_max \div 2 >= m_use

\* hash::remove with free_elm.  The members of a free element that are set again
\* before anybody reads them are taken for zero.
Removed(k) ==
  LET e == get(k)
      h == get_hush(k)
      unlinked == Unlink(Unchain(e), e)
  IN /\ e # 0
     /\ m_table' = IF elm[e].hprev = 0 THEN [m_table EXCEPT ![h] = elm[e].hnext] ELSE m_table
     /\ m_used' = IF m_used = e THEN elm[e].next ELSE m_used
     /\ m_use' = m_use - 1
     /\ IF ToHeap(e)
        THEN /\ elm' = [unlinked EXCEPT ![e] = Blank]
             /\ m_max' = m_max - 1
             /\ UNCHANGED m_free
        ELSE /\ elm' = [unlinked EXCEPT ![e] = [Blank EXCEPT !.next = m_free]]
             /\ m_free' = e
             /\ UNCHANGED m_max

\* What the history of the walk learns of it.
Seen(k) ==
  [walk EXCEPT !.stay = @ \ {get(k)}, !.astray = @ \/ (walk.on /\ walk.p = get(k))]

Remove(k) == Removed(k) /\ walk' = Seen(k)

----------------------------------------------------------------------------
(* iterate_array *)

\* first.
Begin ==
  /\ ~walk.on
  /\ walk' = [Resting EXCEPT !.on = TRUE, !.p = m_used, !.stay = Members(m_used, ListNext)]
  /\ UNCHANGED <<m_used, m_free, m_max, m_use, elm, m_table>>

\* Slip: the element after the next is looked up when the callback is through.
ComingLate == IF walk.at = 0 THEN m_used ELSE elm[walk.at].next

\* The element whose turn it is was looked up before the last callback.
Coming == walk.p

\* next, and the callback for the element before it.
Step ==
  /\ walk.on /\ Coming # 0
  /\ walk' = [walk EXCEPT !.at = Coming, !.p = elm[Coming].next,
                          !.again = @ \/ Coming \in walk.seen,
                          !.seen = @ \union {Coming}]
  /\ UNCHANGED <<m_used, m_free, m_max, m_use, elm, m_table>>

\* The callback erases the key it was called with.
EraseCurrent ==
  /\ walk.on /\ walk.at # 0 /\ elm[walk.at].inuse
  /\ Removed(elm[walk.at].key)
  /\ walk' = Seen(elm[walk.at].key)

\* The end of the list, or a callback that returns an error.
End ==
  /\ walk.on /\ (walk.at # 0 \/ walk.p = 0)
  /\ walk' = Resting
  /\ UNCHANGED <<m_used, m_free, m_max, m_use, elm, m_table>>

Next ==
  \/ \E k \in Keys : Insert(k) \/ Remove(k)
  \/ Begin \/ Step \/ EraseCurrent \/ End

Spec == Init /\ [][Next]_vars

----------------------------------------------------------------------------

\* The places of the values; 0 is none.
Found == [k \in Keys |-> get(k)]

\* The map keeps what it promises, whatever lists and chains the elements are
\* in: a key has one place at most and no two keys share one; an insertion gives
\* its key a place, a removal takes it, and no other value moves.
NothingFound == Found = [k \in Keys |-> 0]
KeepsItsPlaces ==
  Found' # Found =>
    \E k \in Keys :
      /\ Found' = [Found EXCEPT ![k] = Found'[k]]
      /\ IF Found[k] # 0 THEN Found'[k] = 0
         ELSE Found'[k] \in Elements \ {Found[x] : x \in Keys}
ImplementsMap == NothingFound /\ [][KeepsItsPlaces]_vars

\* What count_usenum asserts, and that both ways through the elements in use,
\* along the list and along the chains, lead to the same ones and back.
PoolSound ==
  LET used == Chain(m_used, ListNext)
      free == Chain(m_free, ListNext)
  IN /\ m_use = Len(used) /\ m_max = Len(used) + Len(free)
     /\ {e \in Elements : elm[e].inuse} = Members(m_used, ListNext)
     /\ Members(m_free, ListNext) \intersect Members(m_used, ListNext) = {}
     /\ 1 .. Own \subseteq Pool
     /\ \A i \in DOMAIN used :
          /\ elm[used[i]].prev = IF i = 1 THEN 0 ELSE used[i - 1]
          /\ get(elm[used[i]].key) = used[i]

\* A walk comes to each element that is in use all the while, and to none
\* twice, although elements are inserted and removed in the meantime and by
\* the callback; unless the very element that comes next is removed.
WalkVisits ==
  /\ PoolSound
  /\ walk.on /\ ~walk.astray =>
       /\ ~walk.again
       /\ walk.stay \subseteq walk.seen \union Members(walk.p, ListNext)
============================================================================
