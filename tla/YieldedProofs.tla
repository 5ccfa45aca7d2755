---------------------------- MODULE YieldedProofs ----------------------------
(***************************************************************************)
(* Theorems about the table of yielded fibers, for any number of fibers,   *)
(* of threads that answer them, of slots and of ids, whatever delays the   *)
(* threads meet.                                                           *)
(*                                                                         *)
(* The inductive invariant is IInv.  Some of its parts hold whatever       *)
(* happens to the storage: which ids and entries there are (Distinct,      *)
(* Asking, Filled, Setting) and that an id is in one place only (Once,     *)
(* Posted).  The others speak of the fibers that are not torn: which entry *)
(* belongs to whom (Filling, Own), what the threads that work without the  *)
(* lock may rely on (Held, Looked), and that a fiber is resumed rightly    *)
(* and not forgotten (Boxes, Told).                                        *)
(***************************************************************************)
EXTENDS Yielded, TLAPS

\* The threads that take entries out of the table.
Takers == Answerers \union {Checker}

Mail == [id : 0 .. MaxIds, by : {"answer", "timeout"}]

\* The fibers whose entries nobody disturbed.
Intact == Fibers \ torn

Places ==
  /\ seed \in 0 .. MaxIds
  /\ slot \in [Actors -> Slots \union {NIL}]
  /\ id \in [Actors -> 0 .. MaxIds]
  /\ pc \in [Actors -> {"run", "set", "limit", "wait", "idle", "erase", "copy"}]
  /\ \A f \in Fibers :
       /\ pc[f] \in {"run", "set", "limit", "wait"}
       /\ pc[f] \in {"set", "limit"} => slot[f] \in Slots
  /\ \A a \in Takers : pc[a] \in {"idle", "erase", "copy"} /\ (pc[a] # "idle" => slot[a] \in Slots)
  /\ \A a \in Answerers : pc[a] # "erase"
  /\ late \subseteq 0 .. MaxIds

Mails == inbox \in [Fibers -> Seq(Mail)]

\* Fibers in a call have ids of their own.
Distinct ==
  /\ \A f \in Fibers : pc[f] # "run" => id[f] \in 1 .. seed
  /\ \A f, g \in Fibers : f # g /\ pc[f] # "run" /\ pc[g] # "run" => id[f] # id[g]

\* Nobody knows the id of an entry that is not complete.
Asking == \A f \in Fibers : pc[f] \in {"set", "limit"} => id[f] \notin asked

\* An entry is clear or filled in, and no other slot has its key.
Filled ==
  /\ \A s \in entries :
       /\ key[s] \in 1 .. seed
       /\ (m_msgid[s] = 0 /\ m_f[s] = NIL) \/ (m_msgid[s] = key[s] /\ m_f[s] \in Fibers)
  /\ \A s \in Slots : \A t \in entries : m_msgid[s] = key[t] => s = t
  /\ \A s, t \in entries : key[s] = key[t] => s = t
  /\ \A s \in Slots : m_msgid[s] \in 0 .. seed

\* An entry that is still clear is not taken, and a fiber is about to fill it.
Setting ==
  /\ \A f \in Fibers : pc[f] = "set" =>
       /\ slot[f] \in entries /\ key[slot[f]] = id[f]
       /\ m_msgid[slot[f]] = 0 /\ m_f[slot[f]] = NIL
  /\ \A s \in entries : m_msgid[s] = 0 => \E f \in Fibers : pc[f] = "set" /\ id[f] = key[s]

\* The entry of an intact fiber is there until it is complete, and nobody else
\* has to do with it.
Filling ==
  \A f \in Intact : pc[f] \in {"set", "limit"} =>
    /\ slot[f] \in entries /\ key[slot[f]] = id[f]
    /\ pc[f] = "limit" => m_f[slot[f]] = f
    /\ \A a \in Takers : pc[a] # "idle" => slot[a] # slot[f]

\* An entry that names an intact fiber is the one of its call.
Own ==
  \A s \in entries : m_f[s] \in Intact =>
    /\ pc[m_f[s]] \in {"limit", "wait"} /\ id[m_f[s]] = key[s]
    /\ pc[m_f[s]] = "limit" => slot[m_f[s]] = s
    /\ pc[m_f[s]] = "wait" /\ m_limit[s] = "past" => key[s] \in late

\* What a thread holds after it took the entry of an intact fiber names that
\* fiber, and an intact fiber is named by nobody else.
Held ==
  \A a \in Takers : pc[a] = "copy" =>
    /\ id[a] \in 1 .. seed
    /\ \A f \in Intact :
         /\ pc[f] = "wait" /\ id[f] = id[a] => slot[a] \notin entries /\ m_f[slot[a]] = f
         /\ m_f[slot[a]] = f => slot[a] \notin entries /\ pc[f] = "wait" /\ id[f] = id[a]

\* The checker is after intact fibers only when their limits passed.
Looked ==
  /\ pc[Checker] = "erase" /\ slot[Checker] \in entries /\ m_f[slot[Checker]] \in Intact =>
       key[slot[Checker]] \in late
  /\ pc[Checker] = "copy" =>
       \A f \in Intact : pc[f] = "wait" /\ id[f] = id[Checker] => id[f] \in late

\* An id that was taken is out of the table, and one thread has it.
Once ==
  \A a \in Takers : pc[a] = "copy" =>
    /\ \A s \in entries : key[s] # id[a]
    /\ \A b \in Takers : b # a /\ pc[b] = "copy" => id[b] # id[a]

\* An id for which a fiber is being resumed is nowhere else.
Posted ==
  \A f \in Fibers : \A n \in DOMAIN inbox[f] :
    /\ inbox[f][n].id \in 1 .. seed
    /\ \A s \in entries : key[s] # inbox[f][n].id
    /\ \A a \in Takers : pc[a] = "copy" => id[a] # inbox[f][n].id
    /\ \A g \in Fibers : \A m \in DOMAIN inbox[g] :
         inbox[g][m].id = inbox[f][n].id => g = f /\ m = n

\* A resume under way is the one its intact fiber waits for.
Boxes ==
  \A f \in Intact : inbox[f] # <<>> =>
    /\ pc[f] = "wait" /\ Len(inbox[f]) = 1 /\ inbox[f][1].id = id[f]
    /\ inbox[f][1].by = "timeout" => id[f] \in late

\* An intact fiber that waits is in the table, in somebody's hands, or resumed.
Told ==
  \A f \in Intact : pc[f] = "wait" =>
    \/ \E s \in entries : key[s] = id[f] /\ m_f[s] = f
    \/ \E a \in Takers : pc[a] = "copy" /\ id[a] = id[f] /\ m_f[slot[a]] = f
    \/ inbox[f] # <<>>

IInv ==
  /\ TypeOK /\ Places /\ Mails /\ Distinct /\ Asking /\ Filled /\ Setting /\ Filling
  /\ Own /\ Held /\ Looked /\ Once /\ Posted /\ Boxes /\ Told

----------------------------------------------------------------------------
(* Every action keeps the invariant *)

\* A new entry has a fresh key and is clear (map.h:336).
LEMMA AllocStep ==
  ASSUME IInv, NEW f \in Fibers, Alloc(f)
  PROVE  IInv'
<1> USE NilAssumption, BoundAssumption, ActorAssumption
    DEF IInv, Intact, Actors, Takers, Checker, Alloc, Goto, InHand, Users, Filler, Waiters
<1>1. TypeOK'
  BY DEF TypeOK, Places
<1>2. Places'
  BY DEF Places
<1>3. Mails'
  BY DEF Mails
<1>4. Distinct'
  BY DEF Distinct, Places
<1>5. Asking'
  BY DEF Asking, TypeOK, Places
<1>6. Filled'
  BY DEF Filled, TypeOK, Places
<1>7. Setting'
  BY DEF Setting, Filled, TypeOK, Places
<1>8. Filling'
  BY DEF Filling, Filled, TypeOK, Places
<1>9. Own'
  BY DEF Own, Filled, TypeOK, Places, Distinct
<1>10. Held'
  BY DEF Held, TypeOK, Places, Distinct
<1>11. Looked'
  BY DEF Looked, TypeOK, Places
<1>12. Once'
  BY DEF Once, Held, TypeOK, Places
<1>13. Posted'
  BY DEF Posted, TypeOK, Places
<1>14. Boxes'
  BY DEF Boxes, Places
<1>15. Told'
  <2>1. \A g \in Fibers \ torn' : pc'[g] = "wait" =>
          g \in Intact /\ pc[g] = "wait" /\ id'[g] = id[g] /\ inbox'[g] = inbox[g]
    BY DEF Places
  <2>2. \A t \in entries : t \in entries' /\ key'[t] = key[t] /\ m_f'[t] = m_f[t]
    BY DEF TypeOK
  <2>3. \A a \in Takers : pc'[a] = pc[a] /\ id'[a] = id[a] /\ slot'[a] = slot[a]
    BY DEF Places
  <2>4. \A g \in Fibers \ torn', a \in Takers :
          pc[g] = "wait" /\ pc[a] = "copy" /\ id[a] = id[g] => m_f'[slot[a]] = m_f[slot[a]]
    BY DEF Places, TypeOK
  <2> QED
    BY <2>1, <2>2, <2>3, <2>4 DEF Told
<1> QED
  BY <1>1, <1>2, <1>3, <1>4, <1>5, <1>6, <1>7, <1>8, <1>9, <1>10, <1>11, <1>12, <1>13, <1>14, <1>15

\* The storage of an erased entry is written by others (array.h:312).
LEMMA ScribbleStep ==
  ASSUME IInv, NEW s \in Slots, Scribble(s)
  PROVE  IInv'
<1> USE NilAssumption, BoundAssumption, ActorAssumption
    DEF IInv, Intact, Actors, Takers, Checker, Scribble, Users, Filler, Waiters
<1>1. TypeOK'
  BY DEF TypeOK, Places
<1>2. Places'
  BY DEF Places
<1>3. Mails'
  BY DEF Mails
<1>4. Distinct'
  BY DEF Distinct
<1>5. Asking'
  BY DEF Asking
<1>6. Filled'
  BY DEF Filled, TypeOK, Places
<1>7. Setting'
  BY DEF Setting, Filled, TypeOK, Places
<1>8. Filling'
  BY DEF Filling, TypeOK, Places
<1>9. Own'
  BY DEF Own, TypeOK
<1>10. Held'
  BY DEF Held, TypeOK, Places
<1>11. Looked'
  BY DEF Looked, TypeOK, Places
<1>12. Once'
  BY DEF Once
<1>13. Posted'
  BY DEF Posted
<1>14. Boxes'
  BY DEF Boxes
<1>15. Told'
  <2>1. \A g \in Fibers \ torn' : pc'[g] = "wait" =>
          g \in Intact /\ pc[g] = "wait" /\ id'[g] = id[g] /\ inbox'[g] = inbox[g]
    BY DEF Places
  <2>2. \A t \in entries : t \in entries' /\ key'[t] = key[t] /\ m_f'[t] = m_f[t]
    BY DEF TypeOK
  <2>3. \A a \in Takers : pc'[a] = pc[a] /\ id'[a] = id[a] /\ slot'[a] = slot[a]
    BY DEF Places
  <2>4. \A g \in Fibers \ torn', a \in Takers :
          pc[g] = "wait" /\ pc[a] = "copy" /\ id[a] = id[g] => m_f'[slot[a]] = m_f[slot[a]]
    BY DEF Places, TypeOK
  <2> QED
    BY <2>1, <2>2, <2>3, <2>4 DEF Told
<1> QED
  BY <1>1, <1>2, <1>3, <1>4, <1>5, <1>6, <1>7, <1>8, <1>9, <1>10, <1>11, <1>12, <1>13, <1>14, <1>15

\* yielded::set writes to an entry that is still in the table (fabric.h:27).
LEMMA SetFiberStep ==
  ASSUME IInv, NEW f \in Fibers, SetFiber(f)
  PROVE  IInv'
<1> USE NilAssumption, BoundAssumption, ActorAssumption
    DEF IInv, Intact, Actors, Takers, Checker, SetFiber, Goto
<1>1. TypeOK'
  BY DEF TypeOK, Setting, Places
<1>2. Places'
  BY DEF Places
<1>3. Mails'
  BY DEF Mails
<1>4. Distinct'
  BY DEF Distinct
<1>5. Asking'
  BY DEF Asking
<1>6. Filled'
  BY DEF Filled, Setting, TypeOK, Distinct
<1>7. Setting'
  <2>1. \A g \in Fibers \ {f} : pc'[g] = pc[g] /\ (pc[g] = "set" => slot[g] # slot[f])
    BY DEF Setting, Distinct, Places
  <2>2. m_msgid'[slot[f]] = id[f] /\ id[f] # 0 /\ slot[f] \in entries /\ key[slot[f]] = id[f]
    BY DEF Setting, TypeOK, Distinct
  <2>3. \A t \in entries \ {slot[f]} : m_msgid'[t] = m_msgid[t] /\ m_f'[t] = m_f[t] /\ key[t] # id[f]
    BY <2>2 DEF TypeOK, Filled
  <2>4. pc'[f] = "limit"
    BY DEF Places
  <2> QED
    BY <2>1, <2>2, <2>3, <2>4 DEF Setting
<1>8. Filling'
  BY DEF Filling, Setting, TypeOK, Places, Distinct
<1>9. Own'
  BY DEF Own, Setting, Filling, Filled, TypeOK, Places, Distinct
<1>10. Held'
  BY DEF Held, Setting, Filling, TypeOK, Places
<1>11. Looked'
  BY DEF Looked, Setting, Filling, TypeOK, Places
<1>12. Once'
  BY DEF Once
<1>13. Posted'
  BY DEF Posted
<1>14. Boxes'
  BY DEF Boxes, Places
<1>15. Told'
  <2>1. \A g \in Intact : pc'[g] = "wait" => pc[g] = "wait" /\ g # f
    BY DEF Places
  <2>2. \A t \in entries, g \in Intact : pc[g] = "wait" /\ key[t] = id[g] => m_f'[t] = m_f[t]
    BY DEF Setting, Distinct
  <2>3. \A a \in Takers : pc'[a] = pc[a]
    BY DEF Places
  <2>4. \A a \in Takers, g \in Intact :
          pc[g] = "wait" /\ pc[a] = "copy" /\ id[a] = id[g] => m_f'[slot[a]] = m_f[slot[a]]
    BY DEF Held, Setting
  <2> QED
    BY <2>1, <2>2, <2>3, <2>4 DEF Told
<1> QED
  BY <1>1, <1>2, <1>3, <1>4, <1>5, <1>6, <1>7, <1>8, <1>9, <1>10, <1>11, <1>12, <1>13, <1>14, <1>15

\* With its limit the entry is complete (fabric.h:29).
LEMMA SetLimitStep ==
  ASSUME IInv, NEW f \in Fibers, SetLimit(f)
  PROVE  IInv'
<1> USE NilAssumption, BoundAssumption, ActorAssumption
    DEF IInv, Intact, Actors, Takers, Checker, SetLimit, Goto
<1>1. TypeOK'
  BY DEF TypeOK, Places
<1>2. Places'
  BY DEF Places
<1>3. Mails'
  BY DEF Mails
<1>4. Distinct'
  BY DEF Distinct
<1>5. Asking'
  BY DEF Asking
<1>6. Filled'
  BY DEF Filled
<1>7. Setting'
  BY DEF Setting, Places
<1>8. Filling'
  BY DEF Filling, TypeOK, Places
<1>9. Own'
  BY DEF Own, TypeOK, Places
<1>10. Held'
  BY DEF Held, Filling, Once, Places
<1>11. Looked'
  BY DEF Looked, Filling, Once, Places
<1>12. Once'
  BY DEF Once
<1>13. Posted'
  BY DEF Posted
<1>14. Boxes'
  BY DEF Boxes, Places
<1>15. Told'
  BY DEF Told, Filling, Places
<1> QED
  BY <1>1, <1>2, <1>3, <1>4, <1>5, <1>6, <1>7, <1>8, <1>9, <1>10, <1>11, <1>12, <1>13, <1>14, <1>15

\* Only complete entries become known (fiber.hpp:133).
LEMMA AskStep ==
  ASSUME IInv, NEW f \in Fibers, Ask(f)
  PROVE  IInv'
<1> USE NilAssumption, BoundAssumption, ActorAssumption
    DEF IInv, Intact, Actors, Takers, Checker, Ask, tvars
<1>1. TypeOK'
  <2>1. id[f] \in 1 .. seed
    BY DEF Distinct
  <2> QED
    BY <2>1 DEF TypeOK
<1>2. Places'
  BY DEF Places
<1>3. Mails'
  BY DEF Mails
<1>4. Distinct'
  BY DEF Distinct
<1>5. Asking'
  BY DEF Asking, Distinct
<1>6. Filled'
  BY DEF Filled
<1>7. Setting'
  BY DEF Setting
<1>8. Filling'
  BY DEF Filling
<1>9. Own'
  BY DEF Own
<1>10. Held'
  BY DEF Held
<1>11. Looked'
  BY DEF Looked
<1>12. Once'
  BY DEF Once
<1>13. Posted'
  BY DEF Posted
<1>14. Boxes'
  BY DEF Boxes
<1>15. Told'
  BY DEF Told
<1> QED
  BY <1>1, <1>2, <1>3, <1>4, <1>5, <1>6, <1>7, <1>8, <1>9, <1>10, <1>11, <1>12, <1>13, <1>14, <1>15

\* The list of resumes of a fiber.
LEMMA TailMail ==
  ASSUME NEW q \in Seq(Mail), q # <<>>
  PROVE  /\ Tail(q) \in Seq(Mail) /\ Len(Tail(q)) = Len(q) - 1
         /\ \A n \in DOMAIN Tail(q) : n \in Nat /\ n + 1 \in DOMAIN q /\ Tail(q)[n] = q[n + 1]
OBVIOUS

LEMMA EmptyMail ==
  ASSUME NEW q \in Seq(Mail)
  PROVE  (Len(q) = 0 <=> q = <<>>) /\ (q # <<>> => 1 \in DOMAIN q)
OBVIOUS

LEMMA LastMail ==
  ASSUME NEW q \in Seq(Mail), q # <<>>, Len(q) = 1
  PROVE  Tail(q) = <<>>
<1>1. Tail(q) \in Seq(Mail) /\ Len(Tail(q)) = 0
  BY TailMail
<1>2. \A r \in Seq(Mail) : Len(r) = 0 => r = <<>>
  OBVIOUS
<1> QED
  BY <1>1, <1>2, Zenon

LEMMA AppendMail ==
  ASSUME NEW q \in Seq(Mail), NEW m \in Mail
  PROVE  /\ Append(q, m) \in Seq(Mail) /\ Len(Append(q, m)) = Len(q) + 1
         /\ \A n \in DOMAIN Append(q, m) :
              \/ n \in DOMAIN q /\ Append(q, m)[n] = q[n]
              \/ n = Len(q) + 1 /\ n \notin DOMAIN q /\ Append(q, m)[n] = m
OBVIOUS

\* The fiber runs on, and nothing of its call is left (fiber.hpp:207).
LEMMA WakeStep ==
  ASSUME IInv, NEW f \in Fibers, Wake(f)
  PROVE  IInv'
<1> USE NilAssumption, BoundAssumption, ActorAssumption
    DEF IInv, Intact, Actors, Takers, Checker, Wake, Goto, tvars
<1>a. inbox[f] \in Seq(Mail) /\ inbox[f] # <<>> /\ 1 \in DOMAIN inbox[f]
  BY DEF Mails
<1>b. /\ inbox' = [inbox EXCEPT ![f] = Tail(inbox[f])]
      /\ \A n \in DOMAIN Tail(inbox[f]) :
           n \in Nat /\ n + 1 \in DOMAIN inbox[f] /\ Tail(inbox[f])[n] = inbox[f][n + 1]
  BY <1>a, TailMail
<1>c. f \in Intact => inbox'[f] = <<>>
  <2>1. f \in Intact => Len(inbox[f]) = 1
    BY <1>a DEF Boxes
  <2>2. Len(inbox[f]) = 1 => Tail(inbox[f]) = <<>>
    BY <1>a, LastMail
  <2> QED
    BY <1>b, <2>1, <2>2 DEF Mails
<1>d. f \in Intact =>
        /\ \A s \in entries : key[s] # id[f]
        /\ \A a \in Takers : pc[a] = "copy" => id[a] # id[f]
  BY <1>a DEF Boxes, Posted
<1>e. \A g \in Fibers \ {f} : pc'[g] = pc[g] /\ inbox'[g] = inbox[g]
  BY <1>b DEF Places
<1>1. TypeOK'
  BY DEF TypeOK
<1>2. Places'
  BY DEF Places
<1>3. Mails'
  BY TailMail DEF Mails
<1>4. Distinct'
  BY DEF Distinct
<1>5. Asking'
  BY DEF Asking
<1>6. Filled'
  BY DEF Filled
<1>7. Setting'
  BY DEF Setting, Places
<1>8. Filling'
  BY DEF Filling, Places
<1>9. Own'
  BY <1>d, <1>e DEF Own
<1>10. Held'
  BY <1>d, <1>e DEF Held, Places
<1>11. Looked'
  BY DEF Looked, Places
<1>12. Once'
  BY DEF Once
<1>13. Posted'
  BY <1>b DEF Posted, Places
<1>14. Boxes'
  BY <1>b, <1>c, <1>e DEF Boxes
<1>15. Told'
  BY <1>b DEF Told, Places
<1> QED
  BY <1>1, <1>2, <1>3, <1>4, <1>5, <1>6, <1>7, <1>8, <1>9, <1>10, <1>11, <1>12, <1>13, <1>14, <1>15

\* find_and_erase gives an entry that is complete to one taker (map.h:681).
LEMMA TakeStep ==
  ASSUME IInv, NEW a \in Takers, NEW s \in entries, pc[a] # "copy",
         m_msgid[s] = key[s],
         \A f \in Intact : pc[f] \in {"set", "limit"} => slot[f] # s,
         a = Checker /\ m_f[s] \in Intact => key[s] \in late,
         entries' = entries \ {s}, slot' = [slot EXCEPT ![a] = s],
         id' = [id EXCEPT ![a] = key[s]], Goto(a, "copy"),
         UNCHANGED <<key, m_f, m_msgid, m_limit, seed, asked, inbox, late, torn>>
  PROVE  IInv'
<1> USE NilAssumption, BoundAssumption, ActorAssumption
    DEF IInv, Intact, Actors, Takers, Checker, Goto
<1>a. key[s] \in 1 .. seed /\ m_f[s] \in Fibers
  BY DEF Filled, TypeOK, Places
<1>b. \A f \in Intact : m_f[s] = f <=> pc[f] = "wait" /\ id[f] = key[s]
  <2>1. ASSUME NEW f \in Intact, m_f[s] = f
        PROVE  pc[f] = "wait" /\ id[f] = key[s]
    BY <2>1 DEF Own
  <2>2. ASSUME NEW f \in Intact, pc[f] = "wait", id[f] = key[s]
        PROVE  m_f[s] = f
    <3>1. ~\E b \in Takers : pc[b] = "copy" /\ id[b] = id[f]
      BY <2>2 DEF Once
    <3>2. inbox[f] = <<>>
      BY <2>2 DEF Boxes, Posted, Mails
    <3> QED
      BY <2>2, <3>1, <3>2 DEF Told, Filled
  <2> QED
    BY <2>1, <2>2
<1>c. \A b \in Takers : pc[b] = "copy" => id[b] # key[s]
  BY DEF Once
<1>d. \A b \in Takers \ {a} : pc'[b] = pc[b] /\ id'[b] = id[b] /\ slot'[b] = slot[b]
  BY DEF Places
<1>1. TypeOK'
  BY DEF TypeOK
<1>2. Places'
  BY DEF Places, TypeOK
<1>3. Mails'
  BY DEF Mails
<1>4. Distinct'
  BY DEF Distinct, Places
<1>5. Asking'
  BY DEF Asking, Places
<1>6. Filled'
  BY DEF Filled, TypeOK
<1>7. Setting'
  BY DEF Setting, Filled, Places, TypeOK
<1>8. Filling'
  BY DEF Filling, Places, TypeOK
<1>9. Own'
  BY DEF Own, Places, TypeOK
<1>10. Held'
  BY <1>a, <1>b DEF Held, Places, TypeOK
<1>11. Looked'
  BY <1>a, <1>b DEF Looked, Places, TypeOK
<1>12. Once'
  BY <1>c DEF Once, Filled, Places, TypeOK
<1>13. Posted'
  BY <1>c DEF Posted, Places
<1>14. Boxes'
  BY DEF Boxes, Places
<1>15. Told'
  BY <1>d DEF Told, Places
<1> QED
  BY <1>1, <1>2, <1>3, <1>4, <1>5, <1>6, <1>7, <1>8, <1>9, <1>10, <1>11, <1>12, <1>13, <1>14, <1>15

\* The taker resumes the fiber that its entry names by now (fabric.h:50, 227).
LEMMA DeliverStep ==
  ASSUME IInv, NEW a \in Takers, pc[a] = "copy", NEW by \in {"answer", "timeout"},
         by = "timeout" => a = Checker,
         Deliver(a, by), slot' = [slot EXCEPT ![a] = NIL], Goto(a, "idle"),
         UNCHANGED <<tvars, seed, id, asked, late, torn>>
  PROVE  IInv'
<1> USE NilAssumption, BoundAssumption, ActorAssumption
    DEF IInv, Intact, Actors, Takers, Checker, Goto, tvars
<1> DEFINE m == [id |-> id[a], by |-> by]
<1>a. /\ id[a] \in 1 .. seed /\ \A t \in entries : key[t] # id[a]
      /\ \A b \in Takers : b # a /\ pc[b] = "copy" => id[b] # id[a]
      /\ \A f \in Fibers : \A n \in DOMAIN inbox[f] : inbox[f][n].id # id[a]
  BY DEF Held, Once, Posted
<1>b. m \in Mail
  BY DEF Mail, Places
<1>c. \/ m_f[slot[a]] = NIL /\ inbox' = inbox
      \/ /\ m_f[slot[a]] \in Fibers
         /\ inbox' = [inbox EXCEPT ![m_f[slot[a]]] = Append(inbox[m_f[slot[a]]], m)]
         /\ Append(inbox[m_f[slot[a]]], m) \in Seq(Mail)
         /\ \A n \in DOMAIN Append(inbox[m_f[slot[a]]], m) :
              \/ n \in DOMAIN inbox[m_f[slot[a]]] /\ Append(inbox[m_f[slot[a]]], m)[n] = inbox[m_f[slot[a]]][n]
              \/ /\ n = Len(inbox[m_f[slot[a]]]) + 1 /\ n \notin DOMAIN inbox[m_f[slot[a]]]
                 /\ Append(inbox[m_f[slot[a]]], m)[n] = m
  <2>1. m_f[slot[a]] \in Fibers \union {NIL}
    BY DEF TypeOK, Places
  <2>2. CASE m_f[slot[a]] = NIL
    BY <2>2 DEF Deliver
  <2>3. CASE m_f[slot[a]] \in Fibers
    <3>1. inbox[m_f[slot[a]]] \in Seq(Mail)
      BY <2>3 DEF Mails
    <3>2. inbox' = [inbox EXCEPT ![m_f[slot[a]]] = Append(inbox[m_f[slot[a]]], m)]
      BY <2>3 DEF Deliver
    <3> QED
      BY <1>b, <2>3, <3>1, <3>2, AppendMail
  <2> QED
    BY <2>1, <2>2, <2>3
<1>d. ASSUME NEW f \in Intact, m_f[slot[a]] = f
      PROVE  /\ pc[f] = "wait" /\ id[f] = id[a] /\ inbox[f] = <<>>
             /\ by = "timeout" => id[a] \in late
  <2>1. pc[f] = "wait" /\ id[f] = id[a]
    BY <1>d DEF Held
  <2>2. inbox[f] = <<>>
    BY <1>a, <2>1, EmptyMail DEF Boxes, Mails
  <2>3. by = "timeout" => id[a] \in late
    BY <2>1 DEF Looked
  <2> QED
    BY <2>1, <2>2, <2>3
<1>f. ASSUME NEW f \in Intact, m_f[slot[a]] = f
      PROVE  inbox'[f] # <<>> /\ Len(inbox'[f]) = 1 /\ inbox'[f][1] = m
  <2>1. inbox'[f] = Append(inbox[f], m)
    BY <1>c, <1>f, NilAssumption DEF Mails
  <2>2. inbox[f] = <<>>
    BY <1>d, <1>f
  <2>3. Append(<<>>, m) = <<m>>
    OBVIOUS
  <2>4. inbox'[f] = <<m>>
    BY <2>1, <2>2, <2>3
  <2> QED
    BY <2>4
<1>g. \A f \in Fibers : m_f[slot[a]] # f => inbox'[f] = inbox[f]
  BY <1>c DEF Mails
<1>e. \A b \in Takers \ {a} : pc'[b] = pc[b] /\ slot'[b] = slot[b]
  BY DEF Places
<1>1. TypeOK'
  BY DEF TypeOK
<1>2. Places'
  BY DEF Places
<1>3. Mails'
  BY <1>b, <1>c DEF Mails
<1>4. Distinct'
  BY DEF Distinct, Places
<1>5. Asking'
  BY DEF Asking, Places
<1>6. Filled'
  BY DEF Filled
<1>7. Setting'
  BY DEF Setting, Places
<1>8. Filling'
  BY DEF Filling, Places
<1>9. Own'
  BY DEF Own, Places
<1>10. Held'
  BY DEF Held, Places
<1>11. Looked'
  BY DEF Looked, Places
<1>12. Once'
  BY DEF Once, Places
<1>13. Posted'
  <2>1. \A f \in Fibers : \A n \in DOMAIN inbox'[f] :
          \/ n \in DOMAIN inbox[f] /\ inbox'[f][n] = inbox[f][n]
          \/ m_f[slot[a]] = f /\ n = Len(inbox[f]) + 1 /\ inbox'[f][n] = m
    BY <1>c, <1>g DEF Mails
  <2>2. m.id = id[a]
    OBVIOUS
  <2>3. \A b \in Takers : pc'[b] = "copy" => b # a /\ pc[b] = "copy"
    BY DEF Places
  <2> QED
    BY <1>a, <2>1, <2>2, <2>3 DEF Posted
<1>14. Boxes'
  <2> SUFFICES ASSUME NEW f \in Intact, inbox'[f] # <<>>
               PROVE  /\ pc[f] = "wait" /\ Len(inbox'[f]) = 1 /\ inbox'[f][1].id = id[f]
                      /\ inbox'[f][1].by = "timeout" => id[f] \in late
    BY DEF Boxes, Places
  <2>1. CASE m_f[slot[a]] = f
    BY <1>d, <1>f, <2>1
  <2>2. CASE m_f[slot[a]] # f
    BY <1>g, <2>2 DEF Boxes
  <2> QED
    BY <2>1, <2>2
<1>15. Told'
  <2> SUFFICES ASSUME NEW f \in Intact, pc[f] = "wait"
               PROVE  \/ \E s \in entries : key[s] = id[f] /\ m_f[s] = f
                      \/ \E b \in Takers : pc'[b] = "copy" /\ id[b] = id[f] /\ m_f[slot'[b]] = f
                      \/ inbox'[f] # <<>>
    BY DEF Told, Places
  <2>1. CASE m_f[slot[a]] = f
    BY <1>f, <2>1
  <2>2. CASE m_f[slot[a]] # f
    BY <1>e, <1>g, <2>2 DEF Told
  <2> QED
    BY <2>1, <2>2
<1> QED
  BY <1>1, <1>2, <1>3, <1>4, <1>5, <1>6, <1>7, <1>8, <1>9, <1>10, <1>11, <1>12, <1>13, <1>14, <1>15

\* A time limit passes.
LEMMA ExpireStep ==
  ASSUME IInv, NEW s \in Slots, Expire(s)
  PROVE  IInv'
<1> USE NilAssumption, BoundAssumption, ActorAssumption
    DEF IInv, Intact, Actors, Takers, Checker, Expire
<1>1. TypeOK'
  BY DEF TypeOK
<1>2. Places'
  <2>1. {key[x] : x \in entries \intersect {s}} \subseteq 0 .. MaxIds
    BY DEF TypeOK
  <2> QED
    BY <2>1 DEF Places
<1>3. Mails'
  BY DEF Mails
<1>4. Distinct'
  BY DEF Distinct
<1>5. Asking'
  BY DEF Asking
<1>6. Filled'
  BY DEF Filled
<1>7. Setting'
  BY DEF Setting
<1>8. Filling'
  BY DEF Filling
<1>9. Own'
  BY DEF Own, TypeOK
<1>10. Held'
  BY DEF Held
<1>11. Looked'
  BY DEF Looked
<1>12. Once'
  BY DEF Once
<1>13. Posted'
  BY DEF Posted
<1>14. Boxes'
  BY DEF Boxes
<1>15. Told'
  BY DEF Told
<1> QED
  BY <1>1, <1>2, <1>3, <1>4, <1>5, <1>6, <1>7, <1>8, <1>9, <1>10, <1>11, <1>12, <1>13, <1>14, <1>15

\* The checker comes to a slot; the limit in an entry that is complete is the one
\* of its fiber (fabric.h:43).
LEMMA LookStep ==
  ASSUME IInv, NEW s \in Slots, Look(s)
  PROVE  IInv'
<1> USE NilAssumption, BoundAssumption, ActorAssumption
    DEF IInv, Intact, Actors, Takers, Checker, Look, Goto, tvars, Filler
<1>1. TypeOK'
  BY DEF TypeOK
<1>2. Places'
  BY DEF Places
<1>3. Mails'
  BY DEF Mails
<1>4. Distinct'
  BY DEF Distinct, Places
<1>5. Asking'
  BY DEF Asking, Places
<1>6. Filled'
  BY DEF Filled
<1>7. Setting'
  BY DEF Setting, Places
<1>8. Filling'
  BY DEF Filling, Places
<1>9. Own'
  BY DEF Own, Places
<1>10. Held'
  BY DEF Held, Places
<1>11. Looked'
  BY DEF Looked, Own, Places, TypeOK
<1>12. Once'
  BY DEF Once, Places
<1>13. Posted'
  BY DEF Posted, Places
<1>14. Boxes'
  BY DEF Boxes, Places
<1>15. Told'
  BY DEF Told, Places
<1> QED
  BY <1>1, <1>2, <1>3, <1>4, <1>5, <1>6, <1>7, <1>8, <1>9, <1>10, <1>11, <1>12, <1>13, <1>14, <1>15

\* An answer takes the entry with its id (map.h:688).
LEMMA EraseStep ==
  ASSUME IInv, NEW a \in Answerers, Erase(a)
  PROVE  IInv'
<1> USE NilAssumption, BoundAssumption, ActorAssumption
    DEF IInv, Intact, Actors, Takers, Checker, Erase, Found
<1>0. PICK i \in asked : \E s \in Found(i) :
        entries' = entries \ {s} /\ slot' = [slot EXCEPT ![a] = s] /\ id' = [id EXCEPT ![a] = i]
  OBVIOUS
<1>1. PICK s \in Found(i) :
        entries' = entries \ {s} /\ slot' = [slot EXCEPT ![a] = s] /\ id' = [id EXCEPT ![a] = i]
  BY <1>0
<1>2. s \in entries /\ key[s] = i
  BY <1>1
<1>3. m_msgid[s] = key[s]
  <2>1. ASSUME m_msgid[s] = 0 PROVE FALSE
    BY <1>2, <2>1 DEF Filled, Asking, Setting
  <2> QED
    BY <1>2, <2>1 DEF Filled
<1>4. \A f \in Intact : pc[f] \in {"set", "limit"} => slot[f] # s
  BY <1>2 DEF Filling, Asking
<1> QED
  BY <1>1, <1>2, <1>3, <1>4, TakeStep

\* What the checker takes is the entry it has looked at: the id it reads there
\* finds no other (map.h:681).
LEMMA EraseLateStep ==
  ASSUME IInv, EraseLate
  PROVE  IInv'
<1> USE NilAssumption, BoundAssumption, ActorAssumption
    DEF IInv, Intact, Actors, Takers, Checker, EraseLate, Found
<1>a. CASE slot' = [slot EXCEPT ![Checker] = NIL] /\ Goto(Checker, "idle")
             /\ UNCHANGED <<entries, id>>
  <2> USE <1>a DEF Goto
  <2>1. TypeOK' /\ Filled' /\ Mails'
    BY DEF TypeOK, Filled, Mails
  <2>2. Places'
    BY DEF Places
  <2>3. Distinct' /\ Asking' /\ Setting'
    BY DEF Distinct, Asking, Setting, Places
  <2>4. Filling' /\ Own'
    BY DEF Filling, Own, Places
  <2>5. Held' /\ Looked' /\ Once'
    BY DEF Held, Looked, Once, Places
  <2>6. Posted' /\ Boxes'
    BY DEF Posted, Boxes, Places
  <2>7. Told'
    BY DEF Told, Places
  <2> QED
    BY <2>1, <2>2, <2>3, <2>4, <2>5, <2>6, <2>7
<1>b. ASSUME NEW s \in entries, key[s] = m_msgid[slot[Checker]],
             entries' = entries \ {s}, slot' = [slot EXCEPT ![Checker] = s],
             id' = [id EXCEPT ![Checker] = m_msgid[slot[Checker]]], Goto(Checker, "copy")
      PROVE  IInv'
  <2>1. slot[Checker] \in Slots /\ pc[Checker] = "erase"
    BY DEF Places
  <2>2. s = slot[Checker] /\ m_msgid[s] = key[s]
    BY <1>b, <2>1 DEF Filled
  <2>3. \A f \in Intact : pc[f] \in {"set", "limit"} => slot[f] # s
    BY <2>1, <2>2 DEF Filling
  <2>4. m_f[s] \in Intact => key[s] \in late
    BY <1>b, <2>1, <2>2 DEF Looked
  <2> QED
    BY <1>b, <2>1, <2>2, <2>3, <2>4, TakeStep
<1> QED
  BY <1>a, <1>b

\* No call is made at first.
LEMMA Initial == Init => IInv
<1> SUFFICES ASSUME Init PROVE IInv
  OBVIOUS
<1> USE NilAssumption, BoundAssumption, ActorAssumption DEF Init, Actors, Takers, Checker, Intact
<1>1. TypeOK /\ Places /\ Mails
  BY DEF TypeOK, Places, Mails
<1>2. Distinct /\ Asking /\ Filled /\ Setting /\ Filling
  BY DEF Distinct, Asking, Filled, Setting, Filling
<1>3. Own /\ Held /\ Looked /\ Once
  BY DEF Own, Held, Looked, Once
<1>4. Posted /\ Boxes /\ Told
  BY DEF Posted, Boxes, Told
<1> QED
  BY <1>1, <1>2, <1>3, <1>4 DEF IInv

\* A step that changes nothing keeps it.
LEMMA Stutter == IInv /\ UNCHANGED vars => IInv'
BY DEF IInv, Intact, TypeOK, Places, Mails, Distinct, Asking, Filled, Setting, Filling, Own,
       Held, Looked, Once, Posted, Boxes, Told, vars, tvars

\* The invariant holds in every state, whatever the threads' delays.
THEOREM Invariant == SafeSpec => []IInv
<1>1. ASSUME IInv, NEW a \in Answerers, Resume(a) PROVE IInv'
  BY <1>1, DeliverStep DEF Resume, Takers
<1>2. ASSUME IInv, Raise PROVE IInv'
  BY <1>2, DeliverStep DEF Raise, Takers
<1>3. IInv /\ [Next]_vars => IInv'
  BY <1>1, <1>2, Stutter, AllocStep, ScribbleStep, SetFiberStep, SetLimitStep, AskStep, WakeStep,
     EraseStep, ExpireStep, LookStep, EraseLateStep DEF Next, Check
<1> QED
  BY <1>3, Initial, PTL DEF SafeSpec

\* An id is taken out of the table once, by one thread, and resumes one fiber:
\* an answer and a timeout never both end a call, however long a thread sleeps
\* between two of its steps and whatever becomes of the storage (map.h:384-420).
THEOREM TakenOnce == SafeSpec => []OneTaker
<1>1. ASSUME IInv PROVE OneTaker
  <2> USE <1>1 DEF IInv, Takers, Actors, Checker
  <2> SUFFICES ASSUME NEW i \in 1 .. seed, NEW x \in Ends(i), NEW y \in Ends(i)
               PROVE  x = y
    BY DEF OneTaker
  <2> DEFINE Table == {<<"table", s>> : s \in Found(i)}
             Hands == {<<"taker", a>> : a \in {b \in Actors \ Fibers : pc[b] = "copy" /\ id[b] = i}}
             Posts == UNION {{<<"inbox", f, n>> : n \in {m \in DOMAIN inbox[f] : inbox[f][m].id = i}} : f \in Fibers}
  <2>1. x \in Table \union Hands \union Posts /\ y \in Table \union Hands \union Posts
    BY DEF Ends
  <2>2. \A s, t \in Found(i) : s = t
    BY DEF Filled, Found
  <2>3. \A a, b \in Actors \ Fibers : pc[a] = "copy" /\ id[a] = i /\ pc[b] = "copy" /\ id[b] = i => a = b
    BY DEF Once
  <2>4. \A f, g \in Fibers : \A n \in DOMAIN inbox[f] : \A m \in DOMAIN inbox[g] :
          inbox[f][n].id = i /\ inbox[g][m].id = i => f = g /\ n = m
    BY DEF Posted
  <2>5. Found(i) = {} \/ Hands = {}
    BY DEF Once, Found
  <2>6. Found(i) = {} \/ Posts = {}
    BY DEF Posted, Found
  <2>7. Hands = {} \/ Posts = {}
    BY DEF Posted
  <2> QED
    BY <2>1, <2>2, <2>3, <2>4, <2>5, <2>6, <2>7
<1> QED
  BY <1>1, Invariant, PTL

\* A fiber whose entries nobody disturbed is resumed once for each yield and for
\* the id it waits for, only a limit that passed makes a TimeoutError, and it is
\* not forgotten (fabric.h, find_and_erase, recv and check_timeout).
THEOREM ResumedOnce == SafeSpec => []OneWakeup
<1>1. ASSUME IInv PROVE OneWakeup
  <2> USE <1>1 DEF IInv, Intact
  <2> SUFFICES ASSUME NEW f \in Intact
               PROVE  /\ Len(inbox[f]) <= 1
                      /\ inbox[f] # <<>> =>
                           /\ pc[f] = "wait" /\ inbox[f][1].id = id[f]
                           /\ inbox[f][1].by = "timeout" => id[f] \in late
                      /\ pc[f] = "wait" =>
                           \/ \E s \in Found(id[f]) : m_f[s] = f
                           \/ \E a \in Actors \ Fibers :
                                 pc[a] = "copy" /\ id[a] = id[f] /\ m_f[slot[a]] = f
                           \/ inbox[f] # <<>>
    BY DEF OneWakeup
  <2>1. Len(inbox[f]) <= 1
    <3>1. CASE inbox[f] = <<>>
      BY <3>1
    <3>2. CASE inbox[f] # <<>>
      <4>1. Len(inbox[f]) = 1
        BY <3>2 DEF Boxes
      <4> QED
        BY <4>1
    <3> QED
      BY <3>1, <3>2
  <2>2. inbox[f] # <<>> =>
           /\ pc[f] = "wait" /\ inbox[f][1].id = id[f]
           /\ inbox[f][1].by = "timeout" => id[f] \in late
    BY DEF Boxes
  <2>3. Takers \subseteq Actors \ Fibers
    BY ActorAssumption DEF Takers, Actors, Checker
  <2>4. pc[f] = "wait" =>
           \/ \E s \in Found(id[f]) : m_f[s] = f
           \/ \E a \in Actors \ Fibers :
                 pc[a] = "copy" /\ id[a] = id[f] /\ m_f[slot[a]] = f
           \/ inbox[f] # <<>>
    BY <2>3 DEF Told, Found
  <2> QED
    BY <2>1, <2>2, <2>4
<1> QED
  BY <1>1, Invariant, PTL
==============================================================================
