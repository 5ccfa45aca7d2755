------------------------------- MODULE Store -------------------------------
(***************************************************************************)
(* What the hash map (util/map.h) does with keys and values: the kinds of  *)
(* keys, the ways to insert and to take out, and which of them make and    *)
(* destroy a value.  Each call is one step; module Map has the pool, the   *)
(* lists and the walks that go on during other calls.                      *)
(*                                                                         *)
(* A name is its length, a prefix of one text.  An element has room for a  *)
(* name of a certain length: a longer one is cut when it is stored, but    *)
(* not when it is looked for.  (The program cuts at the room and two       *)
(* pointers more, and writes these over the beginning of the value.)  The  *)
(* slot of a key is any function of the whole key.  The heap has memory.   *)
(*                                                                         *)
(* Definitions marked "Slip" are wrong variants of the definition that     *)
(* follows them; the properties are required to notice each of them.       *)
(***************************************************************************)
EXTENDS Naturals, Sequences, SequencesExt

CONSTANTS
  Slots,      \* slots of the table
  MaxName,    \* length of the longest key
  NameRoom,   \* the longest name an element has room for
  MaxValues   \* bound on the values that are put into the map

VARIABLES
  kind,       \* "int", "str" or "mem": what the keys are
  slot,       \* the hash function
  table,      \* the elements, the last one that was inserted first
  count,      \* values made so far
  removable,  \* the values that may be taken out by find_and_erase_if
  dict,       \* history: the value each key should have, 0 if none
  clouded,    \* history: whether a name was cut
  destroyed,  \* history: the values whose destructor ran, in order
  handed      \* history: the values that were handed over or assigned over

vars == <<kind, slot, table, count, removable, dict, clouded, destroyed, handed>>

Names == 1 .. MaxName

\* What a key is for the table depends on its type in the program: U32 is an
\* integer, char pointers and arrays are names, all others are their memory.
Kinds == {"int", "str", "mem"}

Init ==
  /\ kind \in Kinds
  /\ slot \in [Names -> 0 .. Slots - 1]
  /\ table = <<>> /\ count = 0 /\ removable = {}
  /\ dict = [k \in Names |-> 0] /\ clouded = FALSE
  /\ destroyed = <<>> /\ handed = {}

\* Slip: names that fill the room are cut as well.
set_keyShort(k) == IF kind = "str" /\ k >= NameRoom THEN NameRoom - 1 ELSE k

set_key(k) == IF kind = "str" /\ k > NameRoom THEN NameRoom ELSE k

cmp_key(e, k) == e.key = k

get_hush(k) == slot[k]

\* The first element of the key in its slot.
Matches(k) == {i \in DOMAIN table : table[i].h = get_hush(k) /\ cmp_key(table[i], k)}
Has(k) == Matches(k) # {}
At(k) == CHOOSE i \in Matches(k) : \A j \in Matches(k) : i <= j

\* find
Get(k) == IF Has(k) THEN table[At(k)].val ELSE 0

----------------------------------------------------------------------------

\* A new element with a new value, which may be taken out or not yet.
Create(k) ==
  /\ ~Has(k)
  /\ table' = <<[h |-> get_hush(k), key |-> set_key(k), val |-> count + 1]>> \o table
  /\ count' = count + 1
  /\ removable' \in {removable, removable \union {count + 1}}
  /\ dict' = [dict EXCEPT ![k] = count + 1]
  /\ clouded' = (clouded \/ set_key(k) # k)
  /\ UNCHANGED <<kind, slot, destroyed, handed>>

\* alloc of a value assigns it to the one that is there; insert refuses and the
\* other alloc returns what is there, so that nothing changes.
AssignTo(k) ==
  /\ Has(k)
  /\ table' = [table EXCEPT ![At(k)].val = count + 1]
  /\ count' = count + 1
  /\ removable' \in {removable, removable \union {count + 1}}
  /\ handed' = handed \union {Get(k)}
  /\ dict' = [dict EXCEPT ![k] = count + 1]
  /\ UNCHANGED <<kind, slot, clouded, destroyed>>

Put(k) == count < MaxValues /\ (Create(k) \/ AssignTo(k))

Removed(i, k) ==
  /\ table' = RemoveAt(table, i)
  /\ dict' = [dict EXCEPT ![k] = 0]
  /\ UNCHANGED <<kind, slot, count, removable, clouded>>

\* find_and_erase copies the value to the caller; its destructor does not run.
FindAndErase(k) ==
  /\ Has(k)
  /\ Removed(At(k), k)
  /\ handed' = handed \union {Get(k)} /\ UNCHANGED destroyed

\* find_and_erase_if copies the value in any case.
FindAndEraseIf(k) ==
  /\ Has(k) /\ Get(k) \in removable
  /\ Removed(At(k), k)
  /\ handed' = handed \union {Get(k)} /\ UNCHANGED destroyed

\* erase
Erase(k) ==
  /\ Has(k)
  /\ Removed(At(k), k)
  /\ destroyed' = Append(destroyed, Get(k)) /\ UNCHANGED handed

\* val2key: the key is read before the value.
KeyOf(i) == table[i].key

\* erase of a value that is in the map.
EraseValue(i) ==
  LET k == KeyOf(i) IN
  /\ i \in DOMAIN table /\ Has(k)
  /\ Removed(At(k), k)
  /\ destroyed' = Append(destroyed, Get(k)) /\ UNCHANGED handed

\* Slip: the values stay as they are when the memory goes.
sweeperNot == <<>>

\* sweeper, called for each element of the walk.
sweeper == [i \in DOMAIN table |-> table[i].val]

\* fin of the table.
Release ==
  /\ table' = <<>>
  /\ dict' = [k \in Names |-> 0]

\* fin; the map can be used again after another init.
Fin ==
  /\ table # <<>>
  /\ destroyed' = destroyed \o sweeper
  /\ Release
  /\ UNCHANGED <<kind, slot, count, removable, clouded, handed>>

Next ==
  \/ \E k \in Names : Put(k) \/ FindAndErase(k) \/ FindAndEraseIf(k) \/ Erase(k)
  \/ \E i \in 1 .. MaxValues : EraseValue(i)
  \/ Fin

Spec == Init /\ [][Next]_vars

----------------------------------------------------------------------------

\* A key that there is room for has the value it was given last, and nothing
\* once it was erased, whatever the other keys and slots are; only the name that
\* a longer one was cut to may have another one's: map.h, set_key and cmp_key.
KeysMean ==
  \A k \in Names :
    k <= NameRoom \/ kind # "str" =>
      (clouded /\ k = NameRoom) \/ Get(k) = dict[k]

\* Each value that was made is in the map, was handed to the caller, or was
\* destroyed once: map.h, find_and_erase, erase and fin.
ValuesEnd ==
  LET kept == {table[i].val : i \in DOMAIN table} IN
  /\ 1 .. count = kept \union handed \union ToSet(destroyed)
  /\ IsInjective(destroyed)
  /\ kept \intersect (handed \union ToSet(destroyed)) = {}
  /\ handed \intersect ToSet(destroyed) = {}
=============================================================================
