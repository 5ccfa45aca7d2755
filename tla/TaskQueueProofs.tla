-------------------------- MODULE TaskQueueProofs --------------------------
(***************************************************************************)
(* Theorems about the chunked queue, for any number of producers, chunks,  *)
(* cells of a chunk (at least two) and items.                              *)
(*                                                                         *)
(* The inductive invariant says where the queue is, independently of which *)
(* chunks it uses: there is a numbering o of the chunks in the order in    *)
(* which they were linked, and a numbering s of the free chunks from the   *)
(* bottom of their stack, such that the reader is in chunk o[r], m_wp in   *)
(* o[w], and the chain ends in o[l].  The numberings are no variables of   *)
(* the model; every step is shown to have some that fit afterwards when    *)
(* there were some before.                                                 *)
(***************************************************************************)
EXTENDS TaskQueue, Integers, WellFoundedInduction, TLAPS

\* A producer that has the last cell of a chunk, and those that have another
Last == {"last", "expand", "link", "advance", "switch", "reset"}
Filling == {"write", "publish"}

\* The producer that has the last cell, and whether it has linked the next
\* chunk and moved m_w there.
Full == \E t \in Producers : pc[t] \in Last
Linked == \E t \in Producers : pc[t] \in {"advance", "switch"}
Moved == \E t \in Producers : pc[t] = "switch"

Types ==
  /\ p \in [Cells -> Items \union {NoItem}]
  /\ next \in [Chunks -> Chunks \union {NIL}] /\ fresh \subseteq Chunks
  /\ m_c \in Chunks /\ m_w \in Chunks /\ m_r \in Chunks /\ m_free \in Chunks \union {NIL}
  /\ wpos \in Nat /\ wp \in Cells /\ rpos \in 0 .. N /\ rp \in Cells
  /\ pc \in [Producers -> {"idle", "reserve", "wait"} \union Filling \union Last]
  /\ slot \in [Producers -> Chunks \X Nat]
  /\ chunk \in [Producers -> Chunks \union {NIL}]
  /\ count \in [Producers -> 0 .. MaxItems]
  /\ cpc \in {"idle", "unchain", "free"} /\ old \in Chunks \union {NIL}
  /\ pushed \in Seq(Items) /\ popped \in Seq(Items)

\* The chunks are numbered in the order in which they were linked: o[j] is the
\* j-th of them.  r is the number of the one that is read, w of the one
\* that is written, l of the last one.
Numbers(r, w, l) ==
  /\ r \in Nat /\ w \in Nat /\ r <= w
  /\ l = IF Linked THEN w + 1 ELSE w
  /\ cpc = "unchain" => r > 0
  /\ cpc = "idle" /\ r = w => rpos <= wp[2]

\* The number of the chunk that m_c is.
First(r) == IF cpc = "unchain" THEN r - 1 ELSE r

Chained(o, r, l) ==
  /\ \A j \in First(r) .. l - 1 : next[o[j]] = o[j + 1]
  /\ next[o[l]] = NIL
  /\ \A i, j \in First(r) .. l : o[i] = o[j] => i = j

\* The free chunks are a stack of height f.
Stacked(s, f) ==
  /\ f \in Nat
  /\ m_free = IF f = 0 THEN NIL ELSE s[f - 1]
  /\ \A i \in 0 .. f - 1 : next[s[i]] = IF i = 0 THEN NIL ELSE s[i - 1]
  /\ \A i, j \in 0 .. f - 1 : s[i] = s[j] => i = j

Queued(o, r, l) == {o[j] : j \in First(r) .. l}
Stack(s, f) == {s[i] : i \in 0 .. f - 1}

\* Taken by expand and not linked yet
Taken == {chunk[t] : t \in {u \in Producers : pc[u] = "link"}}
\* Read to the end and not in the stack yet
Given == IF cpc = "free" THEN {old} ELSE {}

\* Every chunk is in exactly one of five sets.
Parted(A, B, C, D, E) ==
  /\ A \intersect (B \union C \union D \union E) = {} /\ B \intersect (C \union D \union E) = {}
  /\ C \intersect (D \union E) = {} /\ D \intersect E = {}
  /\ Chunks = A \union B \union C \union D \union E
\* In the queue, free, on its way into the queue or to the free chunks, or
\* never allocated.
Placed(o, s, r, l, f) == Parted(Queued(o, r, l), Stack(s, f), Taken, Given, fresh)

\* Where the reader is, and how much it has popped.
Reading(o, r) ==
  /\ m_r = o[r]
  /\ cpc = "idle" => /\ rp = <<o[r], rpos>> /\ rpos < N /\ old = NIL
                     /\ m_c = m_r /\ Len(popped) = r * N + rpos
  /\ cpc = "unchain" => old = o[r - 1] /\ m_c = old /\ Len(popped) = r * N
  /\ cpc = "free" => m_c = m_r /\ Len(popped) = r * N

\* Where m_wp is, and how much has been pushed.
Writing(o, w) ==
  /\ wp[1] = o[w] /\ Len(pushed) = w * N + wp[2]
  /\ m_w = IF Moved THEN o[w + 1] ELSE o[w]

\* At most one producer has the last cell, and while one has it no other
\* gets a cell.
OneLast ==
  /\ wp[2] <= wpos
  /\ wpos >= N <=> Full
  /\ \A t, u \in Producers : pc[t] \in Last /\ pc[u] \in Last => t = u

\* The cells that are being filled are between m_wp and m_wpos, one each.
Reserved ==
  \A t \in Producers : pc[t] \in Filling =>
    wp[2] <= slot[t][2] /\ slot[t][2] < N - 1 /\ slot[t][2] < wpos
Apart ==
  \A t, u \in Producers :
    t # u /\ pc[t] \in Filling /\ pc[u] \in Filling => slot[t][2] # slot[u][2]

\* Where the producer with the last cell is.
LastCell(o, w) ==
  \A t \in Producers :
    /\ pc[t] \in Last \ {"reset"} => slot[t][2] = N - 1
    /\ pc[t] = "switch" => wp[2] = N - 1 /\ chunk[t] = o[w + 1]
    /\ pc[t] = "reset" => wp[2] = 0 /\ \A u \in Producers : pc[u] \notin Filling

\* What is written is the item of the producer, in the chunk of m_wp.
Written(o, w) ==
  \A t \in Producers :
    pc[t] \in {"publish", "expand", "link", "advance", "switch"} =>
      slot[t][1] = o[w] /\ p[slot[t]] = <<t, count[t]>>

\* A producer that pushes has an item.
Counted == \A t \in Producers : pc[t] # "idle" => count[t] > 0

\* Cells, by their number, that are not popped yet and that m_wp has passed.
Unread(r, j, i) == r < j \/ (r = j /\ (cpc = "idle" => rpos <= i))
Readable(w, j, i) == j < w \/ (j = w /\ i < wp[2])

\* What was pushed is in the cells, in order.
Contents(o, r, w) ==
  \A j \in Nat, i \in 0 .. N - 1 :
    Unread(r, j, i) /\ Readable(w, j, i) => p[<<o[j], i>>] = pushed[(j * N + i) + 1]

Inv(o, s, r, w, l, f) ==
  /\ o \in [Nat -> Chunks] /\ s \in [Nat -> Chunks]
  /\ Types /\ Numbers(r, w, l) /\ Chained(o, r, l) /\ Stacked(s, f) /\ Placed(o, s, r, l, f)
  /\ Reading(o, r) /\ Writing(o, w) /\ OneLast /\ Reserved /\ Apart
  /\ LastCell(o, w) /\ Written(o, w) /\ Counted /\ Contents(o, r, w)

\* The inductive invariant
IInv == \E o, s \in [Nat -> Chunks], r, w, l, f \in Nat : Inv(o, s, r, w, l, f)

----------------------------------------------------------------------------
(* Tuples and the numbers of the cells *)

\* A pair with another second part
LEMMA SetIndex ==
  ASSUME NEW x \in Chunks \X Nat, NEW i \in Nat
  PROVE  [x EXCEPT ![2] = i] = <<x[1], i>>
OBVIOUS

\* A pair with another first part
LEMMA SetFirst ==
  ASSUME NEW x \in Chunks \X Nat, NEW c
  PROVE  [x EXCEPT ![1] = c] = <<c, x[2]>>
OBVIOUS

\* The parts of pairs, and the types of numbers
LEMMA Parts ==
  ASSUME SizeAssumption, Types
  PROVE  /\ \A u \in Producers : /\ count[u] \in 0 .. MaxItems /\ slot[u][1] \in Chunks
                                 /\ slot[u][2] \in Nat /\ slot[u] = <<slot[u][1], slot[u][2]>>
         /\ wp[1] \in Chunks /\ wp[2] \in 0 .. N - 1 /\ wp = <<wp[1], wp[2]>>
         /\ Len(pushed) \in Nat /\ Len(popped) \in Nat /\ wpos \in Nat /\ rpos \in 0 .. N
<1>1. ASSUME NEW u \in Producers
      PROVE  /\ count[u] \in 0 .. MaxItems /\ slot[u][1] \in Chunks /\ slot[u][2] \in Nat
             /\ slot[u] = <<slot[u][1], slot[u][2]>>
  <2>1. count[u] \in 0 .. MaxItems /\ slot[u] \in Chunks \X Nat
    BY DEF Types
  <2> QED
    BY <2>1
<1>2. wp[1] \in Chunks /\ wp[2] \in 0 .. N - 1 /\ wp = <<wp[1], wp[2]>>
  <2>1. wp \in Chunks \X (0 .. N - 1)
    BY DEF Types, Cells
  <2> QED
    BY <2>1
<1>3. Len(pushed) \in Nat /\ Len(popped) \in Nat
  BY DEF Types
<1>4. wpos \in Nat /\ rpos \in 0 .. N
  BY DEF Types
<1> QED
  BY <1>1, <1>2, <1>3, <1>4

\* A cell of an earlier chunk has a smaller number than those of the chunk that
\* is written.
LEMMA InOrder ==
  ASSUME SizeAssumption, NEW j \in Nat, NEW w \in Nat, NEW i \in 0 .. N - 1, NEW d \in Nat, j < w
  PROVE  (j * N + i) + 1 \in 1 .. w * N + d
<1>1. N \in Nat /\ j * N \in Nat /\ w * N \in Nat
  BY DEF SizeAssumption
<1>2. PICK e \in Nat : w = j + 1 + e
  <2>1. w - j - 1 \in Nat /\ w = j + 1 + (w - j - 1)
    OBVIOUS
  <2> QED
    BY <2>1
<1>3. w * N = j * N + N + e * N /\ e * N \in Nat
  BY <1>1, <1>2
<1>4. \A x, y, z \in Nat : y = x + N + z => (x + i) + 1 \in 1 .. y + d
  BY <1>1
<1> QED
  BY <1>1, <1>3, <1>4

\* The cell the consumer reads next, if it is readable, has the item that was
\* pushed after all those it has popped.
LEMMA Front ==
  ASSUME SizeAssumption, ChunkAssumption, NEW o, NEW s,
         NEW r \in Nat, NEW w \in Nat, NEW l \in Nat, NEW f \in Nat,
         Inv(o, s, r, w, l, f), cpc = "idle", rp # wp
  PROVE  /\ r < w \/ (r = w /\ rpos < wp[2])
         /\ Len(popped) = r * N + rpos /\ Len(popped) < Len(pushed)
         /\ p[rp] = pushed[Len(popped) + 1] /\ p[rp] \in Items
<1>i. /\ o \in [Nat -> Chunks]
      /\ Types /\ Numbers(r, w, l) /\ Reading(o, r) /\ Writing(o, w) /\ Contents(o, r, w)
  BY DEF Inv
<1>n. N \in Nat /\ N > 1
  BY DEF SizeAssumption
<1>t. /\ wp[1] \in Chunks /\ wp[2] \in 0 .. N - 1 /\ wp = <<wp[1], wp[2]>>
      /\ pushed \in Seq(Items) /\ Len(pushed) \in Nat /\ Len(popped) \in Nat /\ rpos \in 0 .. N - 1
  <2>1. pushed \in Seq(Items) /\ rpos \in 0 .. N - 1
    <3>1. pushed \in Seq(Items) /\ rpos \in 0 .. N
      BY <1>i DEF Types
    <3>2. rpos < N
      BY <1>i DEF Reading
    <3> QED
      BY <3>1, <3>2, <1>n
  <2> QED
    BY <1>i, <2>1, Parts
<1>1. rp = <<o[r], rpos>> /\ wp = <<o[w], wp[2]>>
  BY <1>i, <1>t DEF Reading, Writing
<1>2. r < w \/ (r = w /\ rpos < wp[2])
  <2>1. r = w => rpos <= wp[2] /\ rpos # wp[2]
    BY <1>1, <1>i DEF Numbers
  <2> QED
    BY <2>1, <1>i, <1>t DEF Numbers
<1>3. Len(popped) = r * N + rpos /\ Len(pushed) = w * N + wp[2]
  BY <1>i DEF Reading, Writing
<1>4. (r * N + rpos) + 1 \in 1 .. Len(pushed)
  <2>n. wp[2] \in Nat /\ rpos \in Nat /\ r * N \in Nat
    BY <1>t, <1>n
  <2>1. CASE r < w
    <3>1. (r * N + rpos) + 1 \in 1 .. w * N + wp[2]
      BY <2>1, <2>n, <1>t, InOrder
    <3> QED
      BY <3>1, <1>3
  <2>2. CASE r = w /\ rpos < wp[2]
    <3>1. Len(pushed) = r * N + wp[2]
      BY <2>2, <1>3
    <3>2. \A a \in Nat : (a + rpos) + 1 \in 1 .. a + wp[2]
      BY <2>2, <2>n
    <3> QED
      BY <3>1, <3>2, <2>n
  <2> QED
    BY <2>1, <2>2, <1>2
<1>5. p[<<o[r], rpos>>] = pushed[(r * N + rpos) + 1]
  <2>1. Unread(r, r, rpos) /\ Readable(w, r, rpos)
    BY <1>2, <1>t DEF Unread, Readable
  <2> QED
    BY <2>1, <1>t, <1>i DEF Contents
<1>6. \A k \in 1 .. Len(pushed) : pushed[k] \in Items
  BY <1>t
<1>7. Len(popped) + 1 \in 1 .. Len(pushed) /\ p[rp] = pushed[Len(popped) + 1]
  BY <1>1, <1>3, <1>4, <1>5
<1>8. Len(popped) < Len(pushed)
  BY <1>7, <1>t
<1>9. p[rp] \in Items
  BY <1>6, <1>7
<1> QED
  BY <1>2, <1>3, <1>7, <1>8, <1>9

\* The contents depend on the cells, the ends of the queue and what was pushed.
LEMMA SameContents ==
  ASSUME NEW o, NEW r, NEW w, Contents(o, r, w), p' = p, pushed' = pushed, rpos' = rpos,
         cpc' = cpc, wp' = wp
  PROVE  Contents(o, r, w)'
BY DEF Contents, Unread, Readable

\* Where the chunks are depends on the places of the threads and what they carry.
LEMMA SamePlaces ==
  ASSUME NEW o, NEW s, NEW r, NEW l, NEW f, Placed(o, s, r, l, f), cpc' = cpc, pc' = pc,
         chunk' = chunk, old' = old, fresh' = fresh
  PROVE  Placed(o, s, r, l, f)'
<1>1. Queued(o, r, l)' = Queued(o, r, l)
  BY DEF Queued, First
<1>2. Stack(s, f)' = Stack(s, f)
  BY DEF Stack
<1>3. Taken' = Taken
  BY DEF Taken
<1>4. Given' = Given
  BY DEF Given
<1> QED
  BY <1>1, <1>2, <1>3, <1>4 DEF Placed, Parted

-----------------------------------------------------------------------------
(* The steps preserve the invariant *)

\* A producer that starts to push has no cell yet.
LEMMA CallStep ==
  ASSUME SizeAssumption, ChunkAssumption,
         NEW o, NEW s, NEW r \in Nat, NEW w \in Nat, NEW l \in Nat, NEW f \in Nat,
         Inv(o, s, r, w, l, f), NEW t \in Producers, Call(t)
  PROVE  IInv'
<1>i. /\ o \in [Nat -> Chunks] /\ s \in [Nat -> Chunks]
      /\ Types /\ Numbers(r, w, l) /\ Chained(o, r, l) /\ Stacked(s, f)
      /\ Placed(o, s, r, l, f) /\ Reading(o, r) /\ Writing(o, w) /\ OneLast /\ Reserved /\ Apart
      /\ LastCell(o, w) /\ Written(o, w) /\ Counted /\ Contents(o, r, w)
  BY DEF Inv
<1>n. N \in Nat /\ N > 1 /\ MaxItems \in Nat /\ NIL \notin Chunks
  BY DEF SizeAssumption, ChunkAssumption
<1>t. /\ \A u \in Producers : /\ count[u] \in 0 .. MaxItems /\ slot[u][1] \in Chunks /\ slot[u][2] \in Nat
                              /\ slot[u] = <<slot[u][1], slot[u][2]>>
      /\ wp[1] \in Chunks /\ wp[2] \in 0 .. N - 1 /\ wp = <<wp[1], wp[2]>>
      /\ Len(pushed) \in Nat /\ Len(popped) \in Nat /\ wpos \in Nat /\ rpos \in 0 .. N
  BY <1>i, Parts
<1>a. /\ pc[t] = "idle"
      /\ \A u \in Producers : pc'[u] = IF u = t THEN "reserve" ELSE pc[u]
      /\ pc' \in [Producers -> {"idle", "reserve", "wait"} \union Filling \union Last]
  BY <1>i, <1>n DEF Call, Goto, wvars, rvars, Types, Filling, Last
<1>u. /\ p' = p /\ next' = next /\ fresh' = fresh /\ m_free' = m_free /\ m_c' = m_c
      /\ m_w' = m_w /\ m_r' = m_r /\ wpos' = wpos /\ wp' = wp /\ rpos' = rpos
      /\ rp' = rp /\ slot' = slot /\ chunk' = chunk /\ cpc' = cpc /\ old' = old
      /\ pushed' = pushed /\ popped' = popped
  BY DEF Call, wvars, rvars
<1>b. /\ count[t] < MaxItems
      /\ \A u \in Producers : count'[u] = IF u = t THEN count[t] + 1 ELSE count[u]
      /\ count' \in [Producers -> 0 .. MaxItems]
  <2>1. /\ count \in [Producers -> 0 .. MaxItems] /\ count[t] < MaxItems
        /\ count' = [count EXCEPT ![t] = @ + 1]
    BY <1>i DEF Types, Call
  <2>2. count[t] + 1 \in 0 .. MaxItems
    BY <2>1, <1>t, <1>n
  <2> QED
    BY <2>1, <2>2
<1>c. (Full' <=> Full) /\ (Linked' <=> Linked) /\ (Moved' <=> Moved)
  BY <1>i, <1>a DEF Full, Linked, Moved, Last, OneLast
<1>l. /\ \A u \in Producers : pc'[u] \in Last <=> pc[u] \in Last
      /\ \A u \in Producers : pc'[u] \in Filling <=> pc[u] \in Filling
  BY <1>a DEF Last, Filling
<1>g. /\ o \in [Nat -> Chunks] /\ s \in [Nat -> Chunks]
      /\ r \in Nat /\ w \in Nat /\ l \in Nat /\ f \in Nat
  BY <1>i, <1>n, <1>t, <1>u, <1>a, <1>l, <1>b, <1>c, <1>u DEF Stacked, Types
<1>1. Types'
  BY <1>i, <1>n, <1>t, <1>u, <1>a, <1>l, <1>b, <1>c DEF Types
<1>2. Numbers(r, w, l)'
  BY <1>i, <1>n, <1>t, <1>u, <1>a, <1>l, <1>b, <1>c DEF Numbers
<1>3. Chained(o, r, l)'
  BY <1>i, <1>n, <1>t, <1>u, <1>a, <1>l, <1>b, <1>c DEF Chained, First
<1>4. Stacked(s, f)'
  BY <1>i, <1>n, <1>t, <1>u, <1>a, <1>l, <1>b, <1>c DEF Stacked
<1>5. Placed(o, s, r, l, f)'
  <2>1. Queued(o, r, l)' = Queued(o, r, l)
    BY <1>i, <1>n, <1>t, <1>u, <1>a, <1>l, <1>b, <1>c DEF Queued, First
  <2>2. Stack(s, f)' = Stack(s, f)
    BY <1>i, <1>n, <1>t, <1>u, <1>a, <1>l, <1>b, <1>c DEF Stack
  <2>3. Taken' = Taken
    BY <1>a, <1>u DEF Taken
  <2>4. Given' = Given
    BY <1>i, <1>n, <1>t, <1>u, <1>a, <1>l, <1>b, <1>c DEF Given
  <2> QED
    BY <2>1, <2>2, <2>3, <2>4, <1>i, <1>u DEF Placed, Parted
<1>6. Reading(o, r)'
  BY <1>i, <1>n, <1>t, <1>u, <1>a, <1>l, <1>b, <1>c DEF Reading
<1>7. Writing(o, w)'
  BY <1>i, <1>n, <1>t, <1>u, <1>a, <1>l, <1>b, <1>c DEF Writing
<1>8. OneLast'
  BY <1>i, <1>n, <1>t, <1>l, <1>u, <1>b, <1>c DEF OneLast, Full, Reserved, Filling, Last
<1>9. Reserved'
  BY <1>i, <1>n, <1>t, <1>l, <1>u, <1>b DEF Reserved, OneLast, Apart, Filling, Last
<1>10. Apart'
  BY <1>i, <1>n, <1>t, <1>l, <1>u, <1>b DEF Apart, Reserved, Filling, Last
<1>11. LastCell(o, w)'
  BY <1>i, <1>n, <1>t, <1>l, <1>u, <1>b, <1>a DEF LastCell, OneLast, Full, Reserved,
     Filling, Last
<1>12. Written(o, w)'
  BY <1>i, <1>n, <1>t, <1>u, <1>a, <1>l, <1>b, <1>c DEF Written
<1>13. Counted'
  <2> SUFFICES ASSUME NEW u \in Producers, pc'[u] # "idle" PROVE count'[u] > 0
    BY DEF Counted
  <2>1. CASE u = t
    <3>1. count'[u] = count[t] + 1 /\ count[t] \in Nat
      BY <2>1, <1>b, <1>t, <1>n
    <3> QED
      BY <3>1
  <2>2. CASE u # t
    <3>1. pc[u] # "idle" /\ count'[u] = count[u]
      BY <2>2, <1>a, <1>b
    <3> QED
      BY <3>1, <1>i DEF Counted
  <2> QED
    BY <2>1, <2>2
<1>14. Contents(o, r, w)'
  BY <1>i, <1>u, SameContents
<1> QED
  BY <1>1, <1>2, <1>3, <1>4, <1>5, <1>6, <1>7, <1>8, <1>9, <1>10, <1>11, <1>12, <1>13,
     <1>14, <1>g DEF Inv, IInv

\* The next position is free: it is not below m_wp, and no other producer has
\* it.  The first position after the last cell is reserved only once before the
\* producer of the last cell is through.
LEMMA ReserveStep ==
  ASSUME SizeAssumption, ChunkAssumption,
         NEW o, NEW s, NEW r \in Nat, NEW w \in Nat, NEW l \in Nat, NEW f \in Nat,
         Inv(o, s, r, w, l, f), NEW t \in Producers, Reserve(t)
  PROVE  IInv'
<1>i. /\ o \in [Nat -> Chunks] /\ s \in [Nat -> Chunks]
      /\ Types /\ Numbers(r, w, l) /\ Chained(o, r, l) /\ Stacked(s, f)
      /\ Placed(o, s, r, l, f) /\ Reading(o, r) /\ Writing(o, w) /\ OneLast /\ Reserved /\ Apart
      /\ LastCell(o, w) /\ Written(o, w) /\ Counted /\ Contents(o, r, w)
  BY DEF Inv
<1>n. N \in Nat /\ N > 1 /\ MaxItems \in Nat /\ NIL \notin Chunks
  BY DEF SizeAssumption, ChunkAssumption
<1>t. /\ \A u \in Producers : /\ count[u] \in 0 .. MaxItems /\ slot[u][1] \in Chunks /\ slot[u][2] \in Nat
                              /\ slot[u] = <<slot[u][1], slot[u][2]>>
      /\ wp[1] \in Chunks /\ wp[2] \in 0 .. N - 1 /\ wp = <<wp[1], wp[2]>>
      /\ Len(pushed) \in Nat /\ Len(popped) \in Nat /\ wpos \in Nat /\ rpos \in 0 .. N
  BY <1>i, Parts
<1>a. /\ pc[t] = "reserve"
      /\ \A u \in Producers : pc'[u] = IF u = t THEN IF wpos + 1 < N THEN "write"
           ELSE IF wpos + 1 = N THEN "last" ELSE "wait" ELSE pc[u]
      /\ pc' \in [Producers -> {"idle", "reserve", "wait"} \union Filling \union Last]
  BY <1>i, <1>n DEF Reserve, Goto, wvars, rvars, Types, Filling, Last
<1>u. /\ p' = p /\ next' = next /\ fresh' = fresh /\ m_free' = m_free /\ m_c' = m_c
      /\ m_w' = m_w /\ m_r' = m_r /\ wp' = wp /\ rpos' = rpos /\ rp' = rp
      /\ chunk' = chunk /\ count' = count /\ cpc' = cpc /\ old' = old
      /\ pushed' = pushed /\ popped' = popped
  BY DEF Reserve, wvars, rvars
<1>c. /\ Full' <=> Full \/ wpos + 1 = N
      /\ (Linked' <=> Linked) /\ (Moved' <=> Moved)
  BY <1>i, <1>a DEF Full, Linked, Moved, Last, OneLast
<1>l. /\ \A u \in Producers \ {t} : pc'[u] = pc[u]
      /\ pc[t] \notin Last \union Filling /\ (pc'[t] \in Last <=> wpos + 1 = N)
           /\ (pc'[t] \in Filling <=> wpos + 1 < N)
  <2>1. pc'[t] = IF wpos + 1 < N THEN "write" ELSE IF wpos + 1 = N THEN "last" ELSE "wait"
    BY <1>a
  <2>2. ~(wpos + 1 < N /\ wpos + 1 = N)
    BY <1>n, <1>t
  <2>3. pc'[t] \in Last <=> wpos + 1 = N
    BY <2>1, <2>2 DEF Last
  <2>4. pc'[t] \in Filling <=> wpos + 1 < N
    BY <2>1, <2>2 DEF Filling
  <2>5. pc[t] \notin Last \union Filling
    BY <1>a DEF Last, Filling
  <2> QED
    BY <1>a, <2>3, <2>4, <2>5
<1>b. /\ wpos' = wpos + 1 /\ wpos' \in Nat /\ slot' \in [Producers -> Chunks \X Nat]
      /\ \A u \in Producers \ {t} : slot'[u] = slot[u]
      /\ slot'[t] = <<slot[t][1], wpos>> /\ slot'[t][1] = slot[t][1] /\ slot'[t][2] = wpos
  <2>1. slot \in [Producers -> Chunks \X Nat] /\ slot' = [slot EXCEPT ![t][2] = wpos]
    BY <1>i DEF Types, Reserve
  <2>2. slot'[t] = [slot[t] EXCEPT ![2] = wpos]
    BY <2>1
  <2>3. slot'[t] = <<slot[t][1], wpos>>
    BY <2>1, <2>2, <1>t, SetIndex
  <2>4. slot' \in [Producers -> Chunks \X Nat] /\ \A u \in Producers \ {t} : slot'[u] = slot[u]
    <3>1. <<slot[t][1], wpos>> \in Chunks \X Nat
      BY <1>t
    <3>2. slot' = [slot EXCEPT ![t] = <<slot[t][1], wpos>>]
      BY <2>1, <2>2, <2>3
    <3> QED
      BY <2>1, <3>1, <3>2
  <2>5. wpos' = wpos + 1 /\ wpos' \in Nat
    BY <1>t DEF Reserve
  <2> QED
    BY <2>3, <2>4, <2>5
<1>k. /\ wpos' = wpos + 1 /\ slot'[t][2] = wpos
      /\ \A u \in Producers \ {t} : slot'[u][2] = slot[u][2]
  BY <1>b
<1>h. /\ wpos \in Nat /\ wp[2] \in Nat /\ N \in Nat /\ wp' = wp
      /\ \A u \in Producers : slot[u][2] \in Nat
  BY <1>n, <1>t, <1>u
<1>g. /\ o \in [Nat -> Chunks] /\ s \in [Nat -> Chunks]
      /\ r \in Nat /\ w \in Nat /\ l \in Nat /\ f \in Nat
  BY <1>i, <1>n, <1>t, <1>u, <1>a, <1>l, <1>c, <1>b, <1>u DEF Stacked, Types
<1>1. Types'
  BY <1>i, <1>n, <1>t, <1>u, <1>a, <1>l, <1>c, <1>b DEF Types
<1>2. Numbers(r, w, l)'
  BY <1>i, <1>n, <1>t, <1>u, <1>a, <1>l, <1>c, <1>b DEF Numbers
<1>3. Chained(o, r, l)'
  BY <1>i, <1>n, <1>t, <1>u, <1>a, <1>l, <1>c, <1>b DEF Chained, First
<1>4. Stacked(s, f)'
  BY <1>i, <1>n, <1>t, <1>u, <1>a, <1>l, <1>c, <1>b DEF Stacked
<1>5. Placed(o, s, r, l, f)'
  <2>1. Queued(o, r, l)' = Queued(o, r, l)
    BY <1>i, <1>n, <1>t, <1>u, <1>a, <1>l, <1>c, <1>b DEF Queued, First
  <2>2. Stack(s, f)' = Stack(s, f)
    BY <1>i, <1>n, <1>t, <1>u, <1>a, <1>l, <1>c, <1>b DEF Stack
  <2>3. Taken' = Taken
    BY <1>a, <1>u DEF Taken
  <2>4. Given' = Given
    BY <1>i, <1>n, <1>t, <1>u, <1>a, <1>l, <1>c, <1>b DEF Given
  <2> QED
    BY <2>1, <2>2, <2>3, <2>4, <1>i, <1>u DEF Placed, Parted
<1>6. Reading(o, r)'
  BY <1>i, <1>n, <1>t, <1>u, <1>a, <1>l, <1>c, <1>b DEF Reading
<1>7. Writing(o, w)'
  BY <1>i, <1>n, <1>t, <1>u, <1>a, <1>l, <1>c, <1>b DEF Writing
<1>8. OneLast'
  BY <1>i, <1>h, <1>l, <1>k, <1>c DEF OneLast, Full
<1>9. Reserved'
  BY <1>i, <1>h, <1>l, <1>k DEF Reserved, OneLast, Filling, Last
<1>10. Apart'
  BY <1>i, <1>h, <1>l, <1>k DEF Apart, Reserved, Filling
<1>11. LastCell(o, w)'
  BY <1>i, <1>h, <1>l, <1>k, <1>u, <1>a DEF LastCell, OneLast, Full, Filling, Last
<1>12. Written(o, w)'
  BY <1>i, <1>n, <1>t, <1>u, <1>a, <1>l, <1>c, <1>b DEF Written
<1>13. Counted'
  BY <1>i, <1>n, <1>t, <1>u, <1>a, <1>l, <1>c, <1>b DEF Counted
<1>14. Contents(o, r, w)'
  BY <1>i, <1>u, SameContents
<1> QED
  BY <1>1, <1>2, <1>3, <1>4, <1>5, <1>6, <1>7, <1>8, <1>9, <1>10, <1>11, <1>12, <1>13,
     <1>14, <1>g DEF Inv, IInv

\* The cell written is one that is not readable, in the chunk of m_wp, and no
\* other producer has it.
LEMMA WriteStep ==
  ASSUME SizeAssumption, ChunkAssumption,
         NEW o, NEW s, NEW r \in Nat, NEW w \in Nat, NEW l \in Nat, NEW f \in Nat,
         Inv(o, s, r, w, l, f), NEW t \in Producers, Write(t)
  PROVE  IInv'
<1>i. /\ o \in [Nat -> Chunks] /\ s \in [Nat -> Chunks]
      /\ Types /\ Numbers(r, w, l) /\ Chained(o, r, l) /\ Stacked(s, f)
      /\ Placed(o, s, r, l, f) /\ Reading(o, r) /\ Writing(o, w) /\ OneLast /\ Reserved /\ Apart
      /\ LastCell(o, w) /\ Written(o, w) /\ Counted /\ Contents(o, r, w)
  BY DEF Inv
<1>n. N \in Nat /\ N > 1 /\ MaxItems \in Nat /\ NIL \notin Chunks
  BY DEF SizeAssumption, ChunkAssumption
<1>t. /\ \A u \in Producers : /\ count[u] \in 0 .. MaxItems /\ slot[u][1] \in Chunks /\ slot[u][2] \in Nat
                              /\ slot[u] = <<slot[u][1], slot[u][2]>>
      /\ wp[1] \in Chunks /\ wp[2] \in 0 .. N - 1 /\ wp = <<wp[1], wp[2]>>
      /\ Len(pushed) \in Nat /\ Len(popped) \in Nat /\ wpos \in Nat /\ rpos \in 0 .. N
  BY <1>i, Parts
<1>x. pc[t] \in {"write", "last"}
  BY DEF Write
<1>y. m_w = o[w] /\ (pc[t] = "last" => next[m_w] = NIL)
  <2>1. CASE pc[t] = "write"
    <3>1. ~Moved
      <4>1. slot[t][2] < N - 1 /\ slot[t][2] \in Nat /\ wp[2] <= slot[t][2]
        BY <2>1, <1>i, <1>t DEF Reserved, Filling
      <4>2. wp[2] # N - 1
        BY <4>1, <1>t, <1>n
      <4> QED
        BY <4>2, <1>i DEF Moved, LastCell
    <3> QED
      BY <2>1, <3>1, <1>i DEF Writing
  <2>2. CASE pc[t] = "last"
    <3>1. ~Linked /\ ~Moved
      BY <2>2, <1>i DEF Linked, Moved, OneLast, Last
    <3> QED
      BY <2>2, <3>1, <1>i DEF Writing, Numbers, Chained
  <2> QED
    BY <2>1, <2>2, <1>x
<1>s. slot' = [slot EXCEPT ![t] = <<o[w], slot[t][2]>>]
  <2>1. [slot[t] EXCEPT ![1] = m_w] = <<m_w, slot[t][2]>>
    BY <1>t, <1>i, SetFirst DEF Types
  <2> QED
    BY <1>y, <2>1, <1>i DEF Write, Types
<1>a. /\ pc[t] \in {"write", "last"}
      /\ \A u \in Producers : pc'[u] = IF u = t
           THEN IF pc[t] = "write" THEN "publish" ELSE "expand" ELSE pc[u]
      /\ pc' \in [Producers -> {"idle", "reserve", "wait"} \union Filling \union Last]
  BY <1>x, <1>y, <1>i, <1>n DEF Write, Goto, wvars, rvars, Types, Filling, Last
<1>u. /\ next' = next /\ fresh' = fresh /\ m_free' = m_free /\ m_c' = m_c /\ m_w' = m_w
      /\ m_r' = m_r /\ wpos' = wpos /\ wp' = wp /\ rpos' = rpos /\ rp' = rp
      /\ chunk' = chunk /\ count' = count /\ cpc' = cpc /\ old' = old
      /\ pushed' = pushed /\ popped' = popped
  BY DEF Write, wvars, rvars
<1>l. /\ \A u \in Producers : pc'[u] \in Last <=> pc[u] \in Last
      /\ \A u \in Producers : pc'[u] \in Filling <=> pc[u] \in Filling
  BY <1>a DEF Last, Filling
<1>b. /\ p' \in [Cells -> Items \union {NoItem}] /\ slot' \in [Producers -> Chunks \X Nat]
      /\ p'[<<o[w], slot[t][2]>>] = <<t, count[t]>> /\ <<o[w], slot[t][2]>> \in Cells
      /\ \A x \in Cells : x # <<o[w], slot[t][2]>> => p'[x] = p[x]
  <2>1. slot[t][2] \in 0 .. N - 1 /\ count[t] \in 1 .. MaxItems
    <3>1. ASSUME pc[t] = "write" PROVE slot[t][2] \in 0 .. N - 1
      <4>1. slot[t][2] < N - 1
        BY <3>1, <1>i DEF Reserved, Filling
      <4> QED
        BY <4>1, <1>t, <1>n
    <3>2. ASSUME pc[t] = "last" PROVE slot[t][2] \in 0 .. N - 1
      <4>1. slot[t][2] = N - 1
        BY <3>2, <1>i DEF LastCell, Last
      <4> QED
        BY <4>1, <1>n
    <3>3. slot[t][2] \in 0 .. N - 1
      BY <3>1, <3>2, <1>x
    <3>4. count[t] > 0 /\ count[t] \in 0 .. MaxItems
      BY <1>i, <1>x, <1>t DEF Counted
    <3> QED
      BY <3>3, <3>4, <1>n
  <2>2. <<o[w], slot[t][2]>> \in Cells /\ <<t, count[t]>> \in Items
    BY <2>1, <1>i DEF Cells, Items
  <2>3. p' = [p EXCEPT ![<<o[w], slot[t][2]>>] = <<t, count[t]>>]
    BY <1>s, <1>i DEF Write, Types
  <2>4. slot' \in [Producers -> Chunks \X Nat]
    BY <1>s, <1>t, <1>i DEF Types
  <2>5. p \in [Cells -> Items \union {NoItem}]
    BY <1>i DEF Types
  <2> QED
    BY <2>2, <2>3, <2>4, <2>5
<1>k. /\ slot'[t][2] = slot[t][2] /\ slot'[t][1] = o[w] /\ slot'[t] = <<o[w], slot[t][2]>>
      /\ \A u \in Producers \ {t} : slot'[u] = slot[u]
  BY <1>s, <1>i DEF Types
<1>j. \A u \in Producers : slot'[u][2] = slot[u][2]
  BY <1>k
<1>c. (Full' <=> Full) /\ (Linked' <=> Linked) /\ (Moved' <=> Moved)
  BY <1>a, <1>l DEF Full, Linked, Moved
<1>g. /\ o \in [Nat -> Chunks] /\ s \in [Nat -> Chunks]
      /\ r \in Nat /\ w \in Nat /\ l \in Nat /\ f \in Nat
  BY <1>i, <1>n, <1>t, <1>u, <1>a, <1>b, <1>c, <1>k, <1>l, <1>u DEF Stacked, Types
<1>1. Types'
  BY <1>i, <1>u, <1>a, <1>b DEF Types
<1>2. Numbers(r, w, l)'
  BY <1>i, <1>u, <1>c DEF Numbers
<1>3. Chained(o, r, l)'
  BY <1>i, <1>n, <1>t, <1>u, <1>a, <1>b, <1>c, <1>k, <1>l DEF Chained, First
<1>4. Stacked(s, f)'
  BY <1>i, <1>n, <1>t, <1>u, <1>a, <1>b, <1>c, <1>k, <1>l DEF Stacked
<1>5. Placed(o, s, r, l, f)'
  <2>1. Queued(o, r, l)' = Queued(o, r, l)
    BY <1>i, <1>n, <1>t, <1>u, <1>a, <1>b, <1>c, <1>k, <1>l DEF Queued, First
  <2>2. Stack(s, f)' = Stack(s, f)
    BY <1>i, <1>n, <1>t, <1>u, <1>a, <1>b, <1>c, <1>k, <1>l DEF Stack
  <2>3. Taken' = Taken
    BY <1>a, <1>u DEF Taken
  <2>4. Given' = Given
    BY <1>i, <1>n, <1>t, <1>u, <1>a, <1>b, <1>c, <1>k, <1>l DEF Given
  <2> QED
    BY <2>1, <2>2, <2>3, <2>4, <1>i, <1>u DEF Placed, Parted
<1>6. Reading(o, r)'
  BY <1>i, <1>n, <1>t, <1>u, <1>a, <1>b, <1>c, <1>k, <1>l DEF Reading
<1>7. Writing(o, w)'
  BY <1>i, <1>u, <1>c DEF Writing
<1>8. OneLast'
  BY <1>i, <1>u, <1>l, <1>c DEF OneLast
<1>9. Reserved'
  BY <1>i, <1>u, <1>l, <1>j DEF Reserved
<1>10. Apart'
  BY <1>i, <1>l, <1>j DEF Apart
<1>11. LastCell(o, w)'
  BY <1>i, <1>u, <1>a, <1>l, <1>j DEF LastCell, Last
<1>12. Written(o, w)'
  <2> SUFFICES ASSUME NEW u \in Producers, pc'[u] \in {"publish", "expand", "link", "advance", "switch"}
               PROVE  slot'[u][1] = o[w] /\ p'[slot'[u]] = <<u, count[u]>>
    BY <1>u DEF Written
  <2>1. CASE u = t
    BY <2>1, <1>b, <1>k
  <2>2. CASE u # t
    <3>1. slot'[u] = slot[u] /\ slot[u][1] = o[w] /\ p[slot[u]] = <<u, count[u]>>
      BY <2>2, <1>a, <1>k, <1>i DEF Written
    <3>2. slot[u][2] # slot[t][2] /\ slot[u][2] \in 0 .. N - 1
      <4>1. pc[u] \in Filling \/ pc[u] \in Last \ {"reset"}
        BY <2>2, <1>a DEF Filling, Last
      <4>2. CASE pc[u] \in Last \ {"reset"}
        <5>1. slot[u][2] = N - 1
          BY <4>2, <1>i DEF LastCell
        <5>2. pc[t] = "write"
          BY <4>2, <2>2, <1>x, <1>i DEF OneLast, Last
        <5>3. slot[t][2] < N - 1
          BY <5>2, <1>i DEF Reserved, Filling
        <5> QED
          BY <5>1, <5>3, <1>n, <1>t
      <4>3. CASE pc[u] \in Filling
        <5>1. slot[u][2] < N - 1 /\ slot[u][2] \in Nat
          BY <4>3, <1>i, <1>t DEF Reserved
        <5>2. CASE pc[t] = "write"
          BY <5>1, <5>2, <4>3, <2>2, <1>i, <1>n DEF Apart, Filling
        <5>3. CASE pc[t] = "last"
          <6>1. slot[t][2] = N - 1
            BY <5>3, <1>i DEF LastCell, Last
          <6> QED
            BY <5>1, <6>1, <1>n
        <5> QED
          BY <5>2, <5>3, <1>x
      <4> QED
        BY <4>1, <4>2, <4>3
    <3>3. slot[u] \in Cells /\ slot[u] # <<o[w], slot[t][2]>>
      <4>1. slot[u] = <<slot[u][1], slot[u][2]>> /\ slot[u][1] \in Chunks
        BY <1>t
      <4>2. <<slot[u][1], slot[u][2]>> \in Cells
        BY <3>2, <4>1 DEF Cells
      <4>3. <<slot[u][1], slot[u][2]>> # <<o[w], slot[t][2]>>
        BY <3>2
      <4> QED
        BY <4>1, <4>2, <4>3
    <3> QED
      BY <3>1, <3>3, <1>b
  <2> QED
    BY <2>1, <2>2
<1>13. Counted'
  BY <1>i, <1>u, <1>a DEF Counted
<1>14. Contents(o, r, w)'
  <2> SUFFICES ASSUME NEW j \in Nat, NEW i \in 0 .. N - 1, Unread(r, j, i), Readable(w, j, i)
               PROVE  p'[<<o[j], i>>] = pushed[(j * N + i) + 1]
    BY <1>u DEF Contents, Unread, Readable
  <2>1. o[j] \in Chunks /\ <<o[j], i>> \in Cells
    BY <1>i DEF Cells
  <2>2. o[j] = o[w] => j = w
    BY <1>i, <1>n DEF Unread, Readable, Chained, Numbers, First
  <2>3. i < wp[2] => i # slot[t][2]
    <3>1. CASE pc[t] = "write"
      <4>1. wp[2] <= slot[t][2]
        BY <3>1, <1>i DEF Reserved, Filling
      <4> QED
        BY <4>1, <1>t
    <3>2. CASE pc[t] = "last"
      <4>1. slot[t][2] = N - 1
        BY <3>2, <1>i DEF LastCell, Last
      <4> QED
        BY <4>1, <1>t, <1>n
    <3> QED
      BY <3>1, <3>2, <1>x
  <2>4. <<o[j], i>> # <<o[w], slot[t][2]>>
    BY <2>2, <2>3 DEF Readable
  <2>5. p[<<o[j], i>>] = pushed[(j * N + i) + 1]
    BY <1>i DEF Contents
  <2> QED
    BY <2>1, <2>4, <2>5, <1>b
<1> QED
  BY <1>1, <1>2, <1>3, <1>4, <1>5, <1>6, <1>7, <1>8, <1>9, <1>10, <1>11, <1>12, <1>13,
     <1>14, <1>g DEF Inv, IInv

\* The producer whose turn it is adds its item behind those of the chunk.
LEMMA PublishStep ==
  ASSUME SizeAssumption, ChunkAssumption,
         NEW o, NEW s, NEW r \in Nat, NEW w \in Nat, NEW l \in Nat, NEW f \in Nat,
         Inv(o, s, r, w, l, f), NEW t \in Producers, Publish(t)
  PROVE  IInv'
<1>i. /\ o \in [Nat -> Chunks] /\ s \in [Nat -> Chunks]
      /\ Types /\ Numbers(r, w, l) /\ Chained(o, r, l) /\ Stacked(s, f)
      /\ Placed(o, s, r, l, f) /\ Reading(o, r) /\ Writing(o, w) /\ OneLast /\ Reserved /\ Apart
      /\ LastCell(o, w) /\ Written(o, w) /\ Counted /\ Contents(o, r, w)
  BY DEF Inv
<1>n. N \in Nat /\ N > 1 /\ MaxItems \in Nat /\ NIL \notin Chunks
  BY DEF SizeAssumption, ChunkAssumption
<1>t. /\ \A u \in Producers : /\ count[u] \in 0 .. MaxItems /\ slot[u][1] \in Chunks /\ slot[u][2] \in Nat
                              /\ slot[u] = <<slot[u][1], slot[u][2]>>
      /\ wp[1] \in Chunks /\ wp[2] \in 0 .. N - 1 /\ wp = <<wp[1], wp[2]>>
      /\ Len(pushed) \in Nat /\ Len(popped) \in Nat /\ wpos \in Nat /\ rpos \in 0 .. N
  BY <1>i, Parts
<1>a. /\ pc[t] = "publish"
      /\ \A u \in Producers : pc'[u] = IF u = t THEN "idle" ELSE pc[u]
      /\ pc' \in [Producers -> {"idle", "reserve", "wait"} \union Filling \union Last]
  BY <1>i, <1>n DEF Publish, Goto, wvars, rvars, Types, Filling, Last
<1>u. /\ p' = p /\ next' = next /\ fresh' = fresh /\ m_free' = m_free /\ m_c' = m_c
      /\ m_w' = m_w /\ m_r' = m_r /\ wpos' = wpos /\ rpos' = rpos /\ rp' = rp
      /\ slot' = slot /\ chunk' = chunk /\ count' = count /\ cpc' = cpc /\ old' = old
      /\ popped' = popped
  BY DEF Publish, wvars, rvars
<1>b. /\ wp = slot[t] /\ wp' = <<slot[t][1], slot[t][2] + 1>>
      /\ wp'[1] = slot[t][1] /\ wp'[2] = slot[t][2] + 1
      /\ pushed' = Append(pushed, <<t, count[t]>>)
  BY <1>i, <1>n, <1>t DEF Publish, Goto, wvars, rvars, Types
<1>c. (Full' <=> Full) /\ (Linked' <=> Linked) /\ (Moved' <=> Moved)
  BY <1>i, <1>a DEF Full, Linked, Moved, Last, OneLast
<1>l. /\ \A u \in Producers : pc'[u] \in Last <=> pc[u] \in Last
      /\ pc[t] \in Filling /\ \A u \in Producers : pc'[u] \in Filling <=> u # t /\ pc[u] \in Filling
  BY <1>a DEF Last, Filling
<1>m. /\ pushed' \in Seq(Items) /\ wp' \in Cells /\ Len(pushed') = Len(pushed) + 1
      /\ \A i \in 1 .. Len(pushed) : pushed'[i] = pushed[i]
      /\ pushed'[Len(pushed) + 1] = <<t, count[t]>>
  <2>1. pc[t] # "idle" /\ count[t] \in 1 .. MaxItems /\ <<t, count[t]>> \in Items
    <3>1. pc[t] # "idle" /\ count[t] > 0
      BY <1>i, <1>a DEF Counted
    <3>2. count[t] \in 1 .. MaxItems
      BY <3>1, <1>t, <1>n
    <3> QED
      BY <3>1, <3>2 DEF Items
  <2>2. wp' \in Cells
    <3>1. slot[t][2] < N - 1 /\ slot[t][2] \in Nat /\ slot[t][1] \in Chunks
      BY <1>i, <1>l, <1>t DEF Reserved
    <3>2. slot[t][2] + 1 \in 0 .. N - 1
      BY <3>1, <1>n
    <3> QED
      BY <3>1, <3>2, <1>b DEF Cells
  <2> QED
    BY <2>1, <2>2, <1>i, <1>b DEF Types
<1>g. /\ o \in [Nat -> Chunks] /\ s \in [Nat -> Chunks]
      /\ r \in Nat /\ w \in Nat /\ l \in Nat /\ f \in Nat
  BY <1>i, <1>n, <1>t, <1>m, <1>u, <1>a, <1>l, <1>b, <1>c, <1>u DEF Stacked, Types
<1>1. Types'
  BY <1>i, <1>n, <1>t, <1>m, <1>u, <1>a, <1>l, <1>b, <1>c DEF Types
<1>2. Numbers(r, w, l)'
  BY <1>i, <1>n, <1>t, <1>m, <1>u, <1>a, <1>l, <1>b, <1>c DEF Numbers
<1>3. Chained(o, r, l)'
  BY <1>i, <1>n, <1>t, <1>m, <1>u, <1>a, <1>l, <1>b, <1>c DEF Chained, First
<1>4. Stacked(s, f)'
  BY <1>i, <1>n, <1>t, <1>m, <1>u, <1>a, <1>l, <1>b, <1>c DEF Stacked
<1>5. Placed(o, s, r, l, f)'
  <2>1. Queued(o, r, l)' = Queued(o, r, l)
    BY <1>i, <1>n, <1>t, <1>m, <1>u, <1>a, <1>l, <1>b, <1>c DEF Queued, First
  <2>2. Stack(s, f)' = Stack(s, f)
    BY <1>i, <1>n, <1>t, <1>m, <1>u, <1>a, <1>l, <1>b, <1>c DEF Stack
  <2>3. Taken' = Taken
    BY <1>a, <1>u DEF Taken
  <2>4. Given' = Given
    BY <1>i, <1>n, <1>t, <1>m, <1>u, <1>a, <1>l, <1>b, <1>c DEF Given
  <2> QED
    BY <2>1, <2>2, <2>3, <2>4, <1>i, <1>u DEF Placed, Parted
<1>6. Reading(o, r)'
  BY <1>i, <1>n, <1>t, <1>m, <1>u, <1>a, <1>l, <1>b, <1>c DEF Reading
<1>7. Writing(o, w)'
  BY <1>i, <1>n, <1>t, <1>m, <1>u, <1>a, <1>l, <1>b, <1>c DEF Writing
<1>8. OneLast'
  <2>1. slot[t][2] \in Nat /\ slot[t][2] < wpos
    BY <1>i, <1>l, <1>t DEF Reserved
  <2>2. wp'[2] <= wpos'
    BY <2>1, <1>b, <1>u, <1>t
  <2>3. wpos' >= N <=> Full'
    BY <1>i, <1>u, <1>c DEF OneLast
  <2>4. \A v, u \in Producers : pc'[v] \in Last /\ pc'[u] \in Last => v = u
    BY <1>i, <1>l DEF OneLast
  <2> QED
    BY <2>2, <2>3, <2>4 DEF OneLast
<1>9. Reserved'
  <2> SUFFICES ASSUME NEW u \in Producers, pc'[u] \in Filling
               PROVE  wp'[2] <= slot[u][2] /\ slot[u][2] < N - 1 /\ slot[u][2] < wpos
    BY <1>u DEF Reserved
  <2>1. u # t /\ pc[u] \in Filling
    BY <1>l
  <2>2. wp[2] <= slot[u][2] /\ slot[u][2] < N - 1 /\ slot[u][2] < wpos
    BY <2>1, <1>i DEF Reserved
  <2>3. slot[u][2] # slot[t][2]
    BY <2>1, <1>l, <1>i DEF Apart
  <2>4. wp[2] = slot[t][2] /\ wp'[2] = slot[t][2] + 1
    BY <1>b
  <2>5. slot[u][2] \in Nat /\ slot[t][2] \in Nat
    BY <1>t
  <2> QED
    BY <2>2, <2>3, <2>4, <2>5
<1>10. Apart'
  BY <1>i, <1>n, <1>t, <1>l, <1>u, <1>b DEF Apart, Reserved, Filling, Last
<1>11. LastCell(o, w)'
  <2> SUFFICES ASSUME NEW u \in Producers
               PROVE  /\ pc'[u] \in Last \ {"reset"} => slot[u][2] = N - 1
                      /\ pc'[u] = "switch" => wp'[2] = N - 1 /\ chunk[u] = o[w + 1]
                      /\ pc'[u] = "reset" => wp'[2] = 0 /\ \A v \in Producers : pc'[v] \notin Filling
    BY <1>u DEF LastCell
  <2>1. CASE u = t
    BY <2>1, <1>a DEF Last
  <2>2. CASE u # t
    <3>1. pc'[u] = pc[u]
      BY <2>2, <1>a
    <3>2. pc[u] # "reset"
      BY <1>l, <1>i DEF LastCell
    <3>3. pc[u] # "switch"
      <4>1. slot[t][2] < N - 1 /\ wp[2] = slot[t][2] /\ slot[t][2] \in Nat
        BY <1>l, <1>i, <1>b, <1>t DEF Reserved
      <4>2. wp[2] # N - 1
        BY <4>1, <1>n
      <4> QED
        BY <4>2, <1>i DEF LastCell
    <3>4. pc[u] \in Last \ {"reset"} => slot[u][2] = N - 1
      BY <1>i DEF LastCell
    <3> QED
      BY <3>1, <3>2, <3>3, <3>4
  <2> QED
    BY <2>1, <2>2
<1>12. Written(o, w)'
  BY <1>i, <1>n, <1>t, <1>m, <1>u, <1>a, <1>l, <1>b, <1>c DEF Written
<1>13. Counted'
  BY <1>i, <1>n, <1>t, <1>m, <1>u, <1>a, <1>l, <1>b, <1>c DEF Counted
<1>14. Contents(o, r, w)'
  <2> SUFFICES ASSUME NEW j \in Nat, NEW i \in 0 .. N - 1, Unread(r, j, i)', Readable(w, j, i)'
               PROVE  p[<<o[j], i>>] = pushed'[(j * N + i) + 1]
    BY <1>u DEF Contents
  <2>1. /\ slot[t] = <<o[w], wp[2]>> /\ Len(pushed) = w * N + wp[2]
        /\ p[slot[t]] = <<t, count[t]>> /\ wp'[2] = wp[2] + 1
    BY <1>i, <1>a, <1>b, <1>t DEF Writing, Written
  <2>2. Unread(r, j, i)
    BY <1>u DEF Unread
  <2>3. CASE Readable(w, j, i)
    <3>1. (j * N + i) + 1 \in 1 .. Len(pushed)
      <4>1. CASE j < w
        <5>1. wp[2] \in Nat
          BY <1>t, <1>n
        <5>2. (j * N + i) + 1 \in 1 .. w * N + wp[2]
          BY <4>1, <5>1, InOrder
        <5> QED
          BY <5>2, <2>1
      <4>2. CASE j = w /\ i < wp[2]
        <5>1. PICK a \in Nat : a = w * N
          BY <1>n
        <5>2. Len(pushed) = a + wp[2]
          BY <5>1, <2>1
        <5>3. (a + i) + 1 \in 1 .. a + wp[2]
          <6>1. i \in Nat /\ wp[2] \in Nat
            BY <1>t, <1>n DEF SizeAssumption
          <6> QED
            BY <4>2, <5>1, <6>1
        <5> QED
          BY <4>2, <5>1, <5>2, <5>3
      <4> QED
        BY <4>1, <4>2, <2>3 DEF Readable
    <3>2. p[<<o[j], i>>] = pushed[(j * N + i) + 1]
      BY <2>2, <2>3, <1>i DEF Contents
    <3> QED
      BY <3>1, <3>2, <1>m
  <2>4. CASE ~Readable(w, j, i)
    <3>1. j <= w /\ (j = w => i <= wp[2])
      <4>1. j < w \/ (j = w /\ i < wp'[2])
        BY DEF Readable
      <4>2. wp[2] \in Nat /\ i \in Nat /\ wp'[2] = wp[2] + 1
        BY <2>1, <1>n, <1>t
      <4> QED
        BY <4>1, <4>2
    <3>2. j = w /\ i = wp[2]
      BY <3>1, <2>4, <1>n, <1>t DEF Readable
    <3> QED
      BY <3>2, <2>1, <1>m
  <2> QED
    BY <2>3, <2>4
<1> QED
  BY <1>1, <1>2, <1>3, <1>4, <1>5, <1>6, <1>7, <1>8, <1>9, <1>10, <1>11, <1>12, <1>13,
     <1>14, <1>g DEF Inv, IInv

\* The top of the stack of free chunks goes to the one producer at this place.
LEMMA CacheStep ==
  ASSUME SizeAssumption, ChunkAssumption,
         NEW o, NEW s, NEW r \in Nat, NEW w \in Nat, NEW l \in Nat, NEW f \in Nat,
         Inv(o, s, r, w, l, f), NEW t \in Producers, Cache(t)
  PROVE  IInv'
<1>i. /\ o \in [Nat -> Chunks] /\ s \in [Nat -> Chunks]
      /\ Types /\ Numbers(r, w, l) /\ Chained(o, r, l) /\ Stacked(s, f)
      /\ Placed(o, s, r, l, f) /\ Reading(o, r) /\ Writing(o, w) /\ OneLast /\ Reserved /\ Apart
      /\ LastCell(o, w) /\ Written(o, w) /\ Counted /\ Contents(o, r, w)
  BY DEF Inv
<1>n. N \in Nat /\ N > 1 /\ MaxItems \in Nat /\ NIL \notin Chunks
  BY DEF SizeAssumption, ChunkAssumption
<1>t. /\ \A u \in Producers : /\ count[u] \in 0 .. MaxItems /\ slot[u][1] \in Chunks /\ slot[u][2] \in Nat
                              /\ slot[u] = <<slot[u][1], slot[u][2]>>
      /\ wp[1] \in Chunks /\ wp[2] \in 0 .. N - 1 /\ wp = <<wp[1], wp[2]>>
      /\ Len(pushed) \in Nat /\ Len(popped) \in Nat /\ wpos \in Nat /\ rpos \in 0 .. N
  BY <1>i, Parts
<1>a. /\ pc[t] = "expand"
      /\ \A u \in Producers : pc'[u] = IF u = t THEN "link" ELSE pc[u]
      /\ pc' \in [Producers -> {"idle", "reserve", "wait"} \union Filling \union Last]
  BY <1>i, <1>n DEF Cache, Goto, wvars, rvars, Types, Filling, Last
<1>u. /\ p' = p /\ next' = next /\ fresh' = fresh /\ m_c' = m_c /\ m_w' = m_w
      /\ m_r' = m_r /\ wpos' = wpos /\ wp' = wp /\ rpos' = rpos /\ rp' = rp
      /\ slot' = slot /\ count' = count /\ cpc' = cpc /\ old' = old /\ pushed' = pushed
      /\ popped' = popped
  BY DEF Cache, wvars, rvars
<1>b. /\ m_free # NIL /\ m_free' = next[m_free]
      /\ \A u \in Producers : chunk'[u] = IF u = t THEN m_free ELSE chunk[u]
      /\ chunk' \in [Producers -> Chunks \union {NIL}]
  BY <1>i, <1>n, <1>t DEF Cache, Goto, wvars, rvars, Types
<1>c. (Full' <=> Full) /\ (Linked' <=> Linked) /\ (Moved' <=> Moved)
  BY <1>i, <1>a DEF Full, Linked, Moved, Last, OneLast
<1>l. /\ \A u \in Producers : pc'[u] \in Last <=> pc[u] \in Last
      /\ \A u \in Producers : pc'[u] \in Filling <=> pc[u] \in Filling
  BY <1>a DEF Last, Filling
<1>d. PICK fn : fn = f - 1
  OBVIOUS
<1>y. /\ f > 0 /\ fn \in Nat /\ m_free = s[fn] /\ s[fn] \in Chunks
      /\ next[m_free] = IF fn = 0 THEN NIL ELSE s[fn - 1]
  BY <1>i, <1>b, <1>d DEF Stacked
<1>z. Taken = {} /\ Taken' = {s[fn]}
  <2>1. \A u \in Producers : pc[u] # "link" /\ (pc'[u] = "link" <=> u = t)
    BY <1>a, <1>i DEF OneLast, Last
  <2> QED
    BY <2>1, <1>b, <1>y DEF Taken
<1>g. /\ o \in [Nat -> Chunks] /\ s \in [Nat -> Chunks]
      /\ r \in Nat /\ w \in Nat /\ l \in Nat /\ fn \in Nat
  BY <1>i, <1>n, <1>t, <1>u, <1>a, <1>l, <1>b, <1>c, <1>d, <1>y, <1>u DEF Stacked, Types
<1>1. Types'
  BY <1>i, <1>u, <1>a, <1>b, <1>y DEF Types
<1>2. Numbers(r, w, l)'
  BY <1>i, <1>n, <1>t, <1>u, <1>a, <1>l, <1>b, <1>c, <1>d, <1>y DEF Numbers
<1>3. Chained(o, r, l)'
  BY <1>i, <1>n, <1>t, <1>u, <1>a, <1>l, <1>b, <1>c, <1>d, <1>y DEF Chained, First
<1>4. Stacked(s, fn)'
  <2>1. \A i \in 0 .. fn - 1 : i \in 0 .. f - 1
    BY <1>d, <1>y
  <2> QED
    BY <2>1, <1>y, <1>b, <1>u, <1>i DEF Stacked
<1>5. Placed(o, s, r, l, fn)'
  <2>1. Queued(o, r, l)' = Queued(o, r, l) /\ Given' = Given
    BY <1>u DEF Queued, First, Given
  <2>2. Stack(s, f) = Stack(s, fn) \union {s[fn]} /\ s[fn] \notin Stack(s, fn)
    BY <1>d, <1>y, <1>i DEF Stack, Stacked
  <2>3. Stack(s, fn)' = Stack(s, fn)
    BY DEF Stack
  <2> QED
    BY <2>1, <2>2, <2>3, <1>z, <1>u, <1>i DEF Placed, Parted
<1>6. Reading(o, r)'
  BY <1>i, <1>n, <1>t, <1>u, <1>a, <1>l, <1>b, <1>c, <1>d, <1>y DEF Reading
<1>7. Writing(o, w)'
  BY <1>i, <1>n, <1>t, <1>u, <1>a, <1>l, <1>b, <1>c, <1>d, <1>y DEF Writing
<1>8. OneLast'
  BY <1>i, <1>n, <1>t, <1>l, <1>u, <1>b, <1>c DEF OneLast, Full, Reserved, Filling, Last
<1>9. Reserved'
  BY <1>i, <1>n, <1>t, <1>l, <1>u, <1>b DEF Reserved, OneLast, Apart, Filling, Last
<1>10. Apart'
  BY <1>i, <1>n, <1>t, <1>l, <1>u, <1>b DEF Apart, Reserved, Filling, Last
<1>11. LastCell(o, w)'
  BY <1>i, <1>n, <1>t, <1>l, <1>u, <1>b, <1>a DEF LastCell, OneLast, Full, Reserved,
     Filling, Last
<1>12. Written(o, w)'
  BY <1>i, <1>n, <1>t, <1>u, <1>a, <1>l, <1>b, <1>c, <1>d, <1>y DEF Written
<1>13. Counted'
  BY <1>i, <1>n, <1>t, <1>u, <1>a, <1>l, <1>b, <1>c, <1>d, <1>y DEF Counted
<1>14. Contents(o, r, w)'
  BY <1>i, <1>u, SameContents
<1> QED
  BY <1>1, <1>2, <1>3, <1>4, <1>5, <1>6, <1>7, <1>8, <1>9, <1>10, <1>11, <1>12, <1>13,
     <1>14, <1>g DEF Inv, IInv

\* A chunk that was never used goes to the one producer at this place.
LEMMA AllocateStep ==
  ASSUME SizeAssumption, ChunkAssumption,
         NEW o, NEW s, NEW r \in Nat, NEW w \in Nat, NEW l \in Nat, NEW f \in Nat,
         Inv(o, s, r, w, l, f), NEW t \in Producers, Allocate(t)
  PROVE  IInv'
<1>i. /\ o \in [Nat -> Chunks] /\ s \in [Nat -> Chunks]
      /\ Types /\ Numbers(r, w, l) /\ Chained(o, r, l) /\ Stacked(s, f)
      /\ Placed(o, s, r, l, f) /\ Reading(o, r) /\ Writing(o, w) /\ OneLast /\ Reserved /\ Apart
      /\ LastCell(o, w) /\ Written(o, w) /\ Counted /\ Contents(o, r, w)
  BY DEF Inv
<1>n. N \in Nat /\ N > 1 /\ MaxItems \in Nat /\ NIL \notin Chunks
  BY DEF SizeAssumption, ChunkAssumption
<1>t. /\ \A u \in Producers : /\ count[u] \in 0 .. MaxItems /\ slot[u][1] \in Chunks /\ slot[u][2] \in Nat
                              /\ slot[u] = <<slot[u][1], slot[u][2]>>
      /\ wp[1] \in Chunks /\ wp[2] \in 0 .. N - 1 /\ wp = <<wp[1], wp[2]>>
      /\ Len(pushed) \in Nat /\ Len(popped) \in Nat /\ wpos \in Nat /\ rpos \in 0 .. N
  BY <1>i, Parts
<1>a. /\ pc[t] = "expand"
      /\ \A u \in Producers : pc'[u] = IF u = t THEN "link" ELSE pc[u]
      /\ pc' \in [Producers -> {"idle", "reserve", "wait"} \union Filling \union Last]
  BY <1>i, <1>n DEF Allocate, Goto, wvars, rvars, Types, Filling, Last
<1>u. /\ p' = p /\ next' = next /\ m_free' = m_free /\ m_c' = m_c /\ m_w' = m_w
      /\ m_r' = m_r /\ wpos' = wpos /\ wp' = wp /\ rpos' = rpos /\ rp' = rp
      /\ slot' = slot /\ count' = count /\ cpc' = cpc /\ old' = old /\ pushed' = pushed
      /\ popped' = popped
  BY DEF Allocate, wvars, rvars
<1>c. (Full' <=> Full) /\ (Linked' <=> Linked) /\ (Moved' <=> Moved)
  BY <1>i, <1>a DEF Full, Linked, Moved, Last, OneLast
<1>l. /\ \A u \in Producers : pc'[u] \in Last <=> pc[u] \in Last
      /\ \A u \in Producers : pc'[u] \in Filling <=> pc[u] \in Filling
  BY <1>a DEF Last, Filling
<1>f. PICK c \in fresh : chunk' = [chunk EXCEPT ![t] = c] /\ fresh' = fresh \ {c}
  BY DEF Allocate
<1>b. /\ m_free = NIL /\ c \in Chunks /\ c \in fresh /\ fresh' = fresh \ {c} /\ fresh' \subseteq Chunks
      /\ \A u \in Producers : chunk'[u] = IF u = t THEN c ELSE chunk[u]
      /\ chunk' \in [Producers -> Chunks \union {NIL}]
  BY <1>f, <1>i DEF Types, Allocate
<1>y. Taken = {} /\ Taken' = {c}
  <2>1. \A u \in Producers : pc[u] # "link" /\ (pc'[u] = "link" <=> u = t)
    BY <1>a, <1>i DEF OneLast, Last
  <2> QED
    BY <2>1, <1>b DEF Taken
<1>g. /\ o \in [Nat -> Chunks] /\ s \in [Nat -> Chunks]
      /\ r \in Nat /\ w \in Nat /\ l \in Nat /\ f \in Nat
  BY <1>i, <1>n, <1>t, <1>u, <1>a, <1>l, <1>c, <1>b, <1>y, <1>u DEF Stacked, Types
<1>1. Types'
  BY <1>i, <1>u, <1>a, <1>b DEF Types
<1>2. Numbers(r, w, l)'
  BY <1>i, <1>n, <1>t, <1>u, <1>a, <1>l, <1>c, <1>b, <1>y DEF Numbers
<1>3. Chained(o, r, l)'
  BY <1>i, <1>n, <1>t, <1>u, <1>a, <1>l, <1>c, <1>b, <1>y DEF Chained, First
<1>4. Stacked(s, f)'
  BY <1>i, <1>n, <1>t, <1>u, <1>a, <1>l, <1>c, <1>b, <1>y DEF Stacked
<1>5. Placed(o, s, r, l, f)'
  <2>1. Queued(o, r, l)' = Queued(o, r, l) /\ Given' = Given /\ Stack(s, f)' = Stack(s, f)
    BY <1>u DEF Queued, First, Given, Stack
  <2> QED
    BY <2>1, <1>y, <1>b, <1>i DEF Placed, Parted
<1>6. Reading(o, r)'
  BY <1>i, <1>n, <1>t, <1>u, <1>a, <1>l, <1>c, <1>b, <1>y DEF Reading
<1>7. Writing(o, w)'
  BY <1>i, <1>n, <1>t, <1>u, <1>a, <1>l, <1>c, <1>b, <1>y DEF Writing
<1>8. OneLast'
  BY <1>i, <1>n, <1>t, <1>l, <1>u, <1>b, <1>c DEF OneLast, Full, Reserved, Filling, Last
<1>9. Reserved'
  BY <1>i, <1>n, <1>t, <1>l, <1>u, <1>b DEF Reserved, OneLast, Apart, Filling, Last
<1>10. Apart'
  BY <1>i, <1>n, <1>t, <1>l, <1>u, <1>b DEF Apart, Reserved, Filling, Last
<1>11. LastCell(o, w)'
  BY <1>i, <1>n, <1>t, <1>l, <1>u, <1>b, <1>a DEF LastCell, OneLast, Full, Reserved,
     Filling, Last
<1>12. Written(o, w)'
  BY <1>i, <1>n, <1>t, <1>u, <1>a, <1>l, <1>c, <1>b, <1>y DEF Written
<1>13. Counted'
  BY <1>i, <1>n, <1>t, <1>u, <1>a, <1>l, <1>c, <1>b, <1>y DEF Counted
<1>14. Contents(o, r, w)'
  BY <1>i, <1>u, SameContents
<1> QED
  BY <1>1, <1>2, <1>3, <1>4, <1>5, <1>6, <1>7, <1>8, <1>9, <1>10, <1>11, <1>12, <1>13,
     <1>14, <1>g DEF Inv, IInv

\* The chunk taken is nobody else's, so linking it does not break the chain of
\* the queue or the stack of free chunks.
LEMMA LinkStep ==
  ASSUME SizeAssumption, ChunkAssumption,
         NEW o, NEW s, NEW r \in Nat, NEW w \in Nat, NEW l \in Nat, NEW f \in Nat,
         Inv(o, s, r, w, l, f), NEW t \in Producers, Link(t)
  PROVE  IInv'
<1>i. /\ o \in [Nat -> Chunks] /\ s \in [Nat -> Chunks]
      /\ Types /\ Numbers(r, w, l) /\ Chained(o, r, l) /\ Stacked(s, f)
      /\ Placed(o, s, r, l, f) /\ Reading(o, r) /\ Writing(o, w) /\ OneLast /\ Reserved /\ Apart
      /\ LastCell(o, w) /\ Written(o, w) /\ Counted /\ Contents(o, r, w)
  BY DEF Inv
<1>n. N \in Nat /\ N > 1 /\ MaxItems \in Nat /\ NIL \notin Chunks
  BY DEF SizeAssumption, ChunkAssumption
<1>t. /\ \A u \in Producers : /\ count[u] \in 0 .. MaxItems /\ slot[u][1] \in Chunks /\ slot[u][2] \in Nat
                              /\ slot[u] = <<slot[u][1], slot[u][2]>>
      /\ wp[1] \in Chunks /\ wp[2] \in 0 .. N - 1 /\ wp = <<wp[1], wp[2]>>
      /\ Len(pushed) \in Nat /\ Len(popped) \in Nat /\ wpos \in Nat /\ rpos \in 0 .. N
  BY <1>i, Parts
<1>a. /\ pc[t] = "link"
      /\ \A u \in Producers : pc'[u] = IF u = t THEN "advance" ELSE pc[u]
      /\ pc' \in [Producers -> {"idle", "reserve", "wait"} \union Filling \union Last]
  BY <1>i, <1>n DEF Link, Goto, wvars, rvars, Types, Filling, Last
<1>u. /\ p' = p /\ fresh' = fresh /\ m_free' = m_free /\ m_c' = m_c /\ m_w' = m_w
      /\ m_r' = m_r /\ wpos' = wpos /\ wp' = wp /\ rpos' = rpos /\ rp' = rp
      /\ slot' = slot /\ chunk' = chunk /\ count' = count /\ cpc' = cpc /\ old' = old
      /\ pushed' = pushed /\ popped' = popped
  BY DEF Link, wvars, rvars
<1>b. next' = [next EXCEPT ![chunk[t]] = NIL, ![m_w] = chunk[t]]
  BY <1>i, <1>n, <1>t DEF Link, Goto, wvars, rvars, Types
<1>c. (Full' <=> Full) /\ Linked' /\ ~Linked /\ ~Moved /\ ~Moved'
  BY <1>i, <1>a DEF Full, Linked, Moved, Last, OneLast
<1>l. /\ \A u \in Producers : pc'[u] \in Last <=> pc[u] \in Last
      /\ \A u \in Producers : pc'[u] \in Filling <=> pc[u] \in Filling
  BY <1>a DEF Last, Filling
<1>d. PICK on : on = [o EXCEPT ![w + 1] = chunk[t]]
  OBVIOUS
<1>e. PICK ln : ln = w + 1
  OBVIOUS
<1>y. /\ l = w /\ m_w = o[w] /\ next[o[w]] = NIL /\ o[w] \in Queued(o, r, l)
      /\ Taken = {chunk[t]} /\ Taken' = {}
  <2>1. l = w /\ m_w = o[w]
    BY <1>c, <1>i DEF Numbers, Writing
  <2>2. \A u \in Producers : (pc[u] = "link" <=> u = t) /\ pc'[u] # "link"
    BY <1>a, <1>i DEF OneLast, Last
  <2>3. Taken = {chunk[t]} /\ Taken' = {}
    BY <2>2 DEF Taken
  <2> QED
    BY <2>1, <2>3, <1>i DEF Chained, Queued, Numbers, First
<1>p. /\ chunk[t] \in Chunks /\ chunk[t] \notin Queued(o, r, l)
      /\ chunk[t] \notin Stack(s, f) /\ o[w] \notin Stack(s, f) /\ chunk[t] # o[w]
  <2>1. chunk[t] \in Chunks
    BY <1>y, <1>i DEF Placed, Parted
  <2> QED
    BY <2>1, <1>y, <1>i DEF Placed, Parted
<1>q. /\ next'[chunk[t]] = NIL /\ next'[o[w]] = chunk[t]
      /\ \A x \in Chunks : x # chunk[t] /\ x # o[w] => next'[x] = next[x]
      /\ next' \in [Chunks -> Chunks \union {NIL}]
  BY <1>b, <1>y, <1>p, <1>i DEF Types
<1>o. /\ on \in [Nat -> Chunks] /\ on[w + 1] = chunk[t]
      /\ \A j \in Nat : j # w + 1 => on[j] = o[j]
  BY <1>d, <1>p, <1>i
<1>h. First(r)' = First(r) /\ First(r) \in Nat /\ First(r) <= r /\ r <= w
  BY <1>u, <1>i DEF First, Numbers
<1>g. on \in [Nat -> Chunks] /\ s \in [Nat -> Chunks] /\ ln \in Nat
  BY <1>i, <1>o, <1>e
<1>1. Types'
  BY <1>i, <1>u, <1>a, <1>q DEF Types
<1>2. Numbers(r, w, ln)'
  BY <1>i, <1>n, <1>t, <1>u, <1>a, <1>l, <1>b, <1>c, <1>d, <1>e, <1>y DEF Numbers
<1>3. Chained(on, r, ln)'
  <2>1. \A j \in First(r) .. w :
          on[j] = o[j] /\ o[j] \in Chunks /\ o[j] # chunk[t] /\ (j # w => o[j] # o[w])
    BY <1>o, <1>p, <1>y, <1>h, <1>i DEF Queued, Chained
  <2>2. ASSUME NEW j \in First(r) .. w PROVE next'[on[j]] = on[j + 1]
    <3>1. CASE j = w
      BY <3>1, <2>1, <1>q, <1>o
    <3>2. CASE j # w
      <4>1. j \in First(r) .. l - 1 /\ j + 1 \in Nat /\ j + 1 # w + 1
        BY <3>2, <1>y, <1>h
      <4>2. next[o[j]] = o[j + 1] /\ on[j + 1] = o[j + 1]
        BY <4>1, <1>o, <1>i DEF Chained
      <4>3. next'[o[j]] = next[o[j]]
        BY <3>2, <2>1, <1>q, <1>h
      <4> QED
        BY <4>2, <4>3, <2>1, <1>h
    <3> QED
      BY <3>1, <3>2
  <2>3. ASSUME NEW i \in First(r) .. ln, NEW j \in First(r) .. ln, on[i] = on[j] PROVE i = j
    <3>1. \A k \in First(r) .. ln : k = w + 1 \/ k \in First(r) .. l
      BY <1>e, <1>y, <1>h
    <3>2. \A k \in First(r) .. l : on[k] = o[k] /\ on[k] # chunk[t]
      BY <2>1, <1>y, <1>h
    <3>3. CASE i = w + 1
      BY <3>1, <3>2, <3>3, <2>3, <1>o
    <3>4. CASE j = w + 1
      BY <3>1, <3>2, <3>4, <2>3, <1>o
    <3>5. CASE i \in First(r) .. l /\ j \in First(r) .. l
      BY <3>2, <3>5, <2>3, <1>i DEF Chained
    <3> QED
      BY <3>1, <3>3, <3>4, <3>5
  <2> QED
    BY <2>2, <2>3, <1>e, <1>o, <1>q, <1>h DEF Chained
<1>4. Stacked(s, f)'
  <2>1. \A i \in 0 .. f - 1 : s[i] \in Chunks /\ s[i] # chunk[t] /\ s[i] # o[w]
    BY <1>p, <1>i DEF Stack
  <2> QED
    BY <2>1, <1>q, <1>u, <1>i DEF Stacked
<1>5. Placed(on, s, r, ln, f)'
  <2>1. Queued(on, r, ln)' = Queued(o, r, l) \union {chunk[t]}
    <3>1. \A j \in First(r) .. ln : j = w + 1 \/ (j \in First(r) .. l /\ on[j] = o[j])
      BY <1>e, <1>y, <1>h, <1>o
    <3>2. \A j \in First(r) .. l : j \in First(r) .. ln /\ on[j] = o[j]
      BY <1>e, <1>y, <1>h, <1>o
    <3>3. w + 1 \in First(r) .. ln
      BY <1>e, <1>h
    <3> QED
      BY <3>1, <3>2, <3>3, <1>h, <1>o DEF Queued
  <2>2. Stack(s, f)' = Stack(s, f) /\ Given' = Given
    BY <1>u DEF Stack, Given
  <2> QED
    BY <2>1, <2>2, <1>y, <1>u, <1>i DEF Placed, Parted
<1>6. Reading(on, r)'
  <2>1. on[r] = o[r] /\ (cpc = "unchain" => on[r - 1] = o[r - 1])
    BY <1>o, <1>h, <1>i DEF Numbers
  <2> QED
    BY <2>1, <1>u, <1>i DEF Reading
<1>7. Writing(on, w)'
  <2>1. on[w] = o[w]
    BY <1>o
  <2> QED
    BY <2>1, <1>c, <1>u, <1>y, <1>i DEF Writing
<1>8. OneLast'
  BY <1>i, <1>n, <1>t, <1>l, <1>u, <1>b, <1>c DEF OneLast, Full, Reserved, Filling, Last
<1>9. Reserved'
  BY <1>i, <1>n, <1>t, <1>l, <1>u, <1>b DEF Reserved, OneLast, Apart, Filling, Last
<1>10. Apart'
  BY <1>i, <1>n, <1>t, <1>l, <1>u, <1>b DEF Apart, Reserved, Filling, Last
<1>11. LastCell(on, w)'
  BY <1>i, <1>n, <1>t, <1>l, <1>u, <1>b, <1>a DEF LastCell, OneLast, Full, Reserved,
     Filling, Last
<1>12. Written(on, w)'
  <2>1. on[w] = o[w]
    BY <1>o
  <2> QED
    BY <2>1, <1>u, <1>a, <1>i DEF Written
<1>13. Counted'
  BY <1>i, <1>n, <1>t, <1>u, <1>a, <1>l, <1>b, <1>c, <1>d, <1>e, <1>y DEF Counted
<1>14. Contents(on, r, w)'
  <2>1. \A j \in Nat : j <= w => on[j] = o[j]
    BY <1>o
  <2> QED
    BY <2>1, <1>u, <1>i DEF Contents, Unread, Readable
<1> QED
  BY <1>1, <1>2, <1>3, <1>4, <1>5, <1>6, <1>7, <1>8, <1>9, <1>10, <1>11, <1>12, <1>13,
     <1>14, <1>g DEF Inv, IInv

\* m_w goes to the chunk that has just been linked.
LEMMA AdvanceStep ==
  ASSUME SizeAssumption, ChunkAssumption,
         NEW o, NEW s, NEW r \in Nat, NEW w \in Nat, NEW l \in Nat, NEW f \in Nat,
         Inv(o, s, r, w, l, f), NEW t \in Producers, Advance(t)
  PROVE  IInv'
<1>i. /\ o \in [Nat -> Chunks] /\ s \in [Nat -> Chunks]
      /\ Types /\ Numbers(r, w, l) /\ Chained(o, r, l) /\ Stacked(s, f)
      /\ Placed(o, s, r, l, f) /\ Reading(o, r) /\ Writing(o, w) /\ OneLast /\ Reserved /\ Apart
      /\ LastCell(o, w) /\ Written(o, w) /\ Counted /\ Contents(o, r, w)
  BY DEF Inv
<1>n. N \in Nat /\ N > 1 /\ MaxItems \in Nat /\ NIL \notin Chunks
  BY DEF SizeAssumption, ChunkAssumption
<1>t. /\ \A u \in Producers : /\ count[u] \in 0 .. MaxItems /\ slot[u][1] \in Chunks /\ slot[u][2] \in Nat
                              /\ slot[u] = <<slot[u][1], slot[u][2]>>
      /\ wp[1] \in Chunks /\ wp[2] \in 0 .. N - 1 /\ wp = <<wp[1], wp[2]>>
      /\ Len(pushed) \in Nat /\ Len(popped) \in Nat /\ wpos \in Nat /\ rpos \in 0 .. N
  BY <1>i, Parts
<1>a. /\ pc[t] = "advance"
      /\ \A u \in Producers : pc'[u] = IF u = t THEN "switch" ELSE pc[u]
      /\ pc' \in [Producers -> {"idle", "reserve", "wait"} \union Filling \union Last]
  BY <1>i, <1>n DEF Advance, Goto, wvars, rvars, Types, Filling, Last
<1>u. /\ p' = p /\ next' = next /\ fresh' = fresh /\ m_free' = m_free /\ m_c' = m_c
      /\ m_r' = m_r /\ wpos' = wpos /\ wp' = wp /\ rpos' = rpos /\ rp' = rp
      /\ slot' = slot /\ count' = count /\ cpc' = cpc /\ old' = old /\ pushed' = pushed
      /\ popped' = popped
  BY DEF Advance, wvars, rvars
<1>b. /\ wp = slot[t] /\ m_w' = next[m_w]
      /\ \A u \in Producers : chunk'[u] = IF u = t THEN next[m_w] ELSE chunk[u]
      /\ chunk' \in [Producers -> Chunks \union {NIL}]
  BY <1>i, <1>n, <1>t DEF Advance, Goto, wvars, rvars, Types
<1>c. (Full' <=> Full) /\ Linked' /\ Linked /\ ~Moved /\ Moved'
  BY <1>i, <1>a DEF Full, Linked, Moved, Last, OneLast
<1>l. /\ \A u \in Producers : pc'[u] \in Last <=> pc[u] \in Last
      /\ \A u \in Producers : pc'[u] \in Filling <=> pc[u] \in Filling
  BY <1>a DEF Last, Filling
<1>y. m_w = o[w] /\ next[m_w] = o[w + 1] /\ o[w + 1] \in Chunks
  BY <1>i, <1>n, <1>c DEF Writing, Numbers, Chained, First
<1>g. /\ o \in [Nat -> Chunks] /\ s \in [Nat -> Chunks]
      /\ r \in Nat /\ w \in Nat /\ l \in Nat /\ f \in Nat
  BY <1>i, <1>n, <1>t, <1>u, <1>a, <1>l, <1>b, <1>c, <1>u DEF Stacked, Types
<1>1. Types'
  BY <1>i, <1>u, <1>a, <1>b, <1>y DEF Types
<1>2. Numbers(r, w, l)'
  BY <1>i, <1>n, <1>t, <1>u, <1>a, <1>l, <1>b, <1>c DEF Numbers
<1>3. Chained(o, r, l)'
  BY <1>i, <1>n, <1>t, <1>u, <1>a, <1>l, <1>b, <1>c DEF Chained, First
<1>4. Stacked(s, f)'
  BY <1>i, <1>n, <1>t, <1>u, <1>a, <1>l, <1>b, <1>c DEF Stacked
<1>5. Placed(o, s, r, l, f)'
  <2>1. Queued(o, r, l)' = Queued(o, r, l)
    BY <1>i, <1>n, <1>t, <1>u, <1>a, <1>l, <1>b, <1>c DEF Queued, First
  <2>2. Stack(s, f)' = Stack(s, f)
    BY <1>i, <1>n, <1>t, <1>u, <1>a, <1>l, <1>b, <1>c DEF Stack
  <2>3. Taken' = Taken
    BY <1>a, <1>b DEF Taken
  <2>4. Given' = Given
    BY <1>i, <1>n, <1>t, <1>u, <1>a, <1>l, <1>b, <1>c DEF Given
  <2> QED
    BY <2>1, <2>2, <2>3, <2>4, <1>i, <1>u DEF Placed, Parted
<1>6. Reading(o, r)'
  BY <1>i, <1>n, <1>t, <1>u, <1>a, <1>l, <1>b, <1>c DEF Reading
<1>7. Writing(o, w)'
  BY <1>i, <1>u, <1>b, <1>c, <1>y DEF Writing
<1>8. OneLast'
  BY <1>i, <1>n, <1>t, <1>l, <1>u, <1>b, <1>c DEF OneLast, Full, Reserved, Filling, Last
<1>9. Reserved'
  BY <1>i, <1>n, <1>t, <1>l, <1>u, <1>b DEF Reserved, OneLast, Apart, Filling, Last
<1>10. Apart'
  BY <1>i, <1>n, <1>t, <1>l, <1>u, <1>b DEF Apart, Reserved, Filling, Last
<1>11. LastCell(o, w)'
  <2>1. wp[2] = N - 1 /\ chunk'[t] = o[w + 1]
    BY <1>a, <1>b, <1>y, <1>i DEF LastCell, Last
  <2>2. \A u \in Producers : pc[u] \in Last => u = t
    BY <1>a, <1>i DEF OneLast, Last
  <2>3. slot[t][2] = N - 1 /\ pc'[t] = "switch"
    BY <1>a, <1>i DEF LastCell, Last
  <2> QED
    BY <2>1, <2>2, <2>3, <1>a, <1>u DEF LastCell, Last
<1>12. Written(o, w)'
  BY <1>i, <1>n, <1>t, <1>u, <1>a, <1>l, <1>b, <1>c DEF Written
<1>13. Counted'
  BY <1>i, <1>n, <1>t, <1>u, <1>a, <1>l, <1>b, <1>c DEF Counted
<1>14. Contents(o, r, w)'
  BY <1>i, <1>u, SameContents
<1> QED
  BY <1>1, <1>2, <1>3, <1>4, <1>5, <1>6, <1>7, <1>8, <1>9, <1>10, <1>11, <1>12, <1>13,
     <1>14, <1>g DEF Inv, IInv

\* When m_wp leaves the chunk, every cell of it was pushed: no producer is still
\* filling one.
LEMMA SwitchStep ==
  ASSUME SizeAssumption, ChunkAssumption,
         NEW o, NEW s, NEW r \in Nat, NEW w \in Nat, NEW l \in Nat, NEW f \in Nat,
         Inv(o, s, r, w, l, f), NEW t \in Producers, Switch(t)
  PROVE  IInv'
<1>i. /\ o \in [Nat -> Chunks] /\ s \in [Nat -> Chunks]
      /\ Types /\ Numbers(r, w, l) /\ Chained(o, r, l) /\ Stacked(s, f)
      /\ Placed(o, s, r, l, f) /\ Reading(o, r) /\ Writing(o, w) /\ OneLast /\ Reserved /\ Apart
      /\ LastCell(o, w) /\ Written(o, w) /\ Counted /\ Contents(o, r, w)
  BY DEF Inv
<1>n. N \in Nat /\ N > 1 /\ MaxItems \in Nat /\ NIL \notin Chunks
  BY DEF SizeAssumption, ChunkAssumption
<1>t. /\ \A u \in Producers : /\ count[u] \in 0 .. MaxItems /\ slot[u][1] \in Chunks /\ slot[u][2] \in Nat
                              /\ slot[u] = <<slot[u][1], slot[u][2]>>
      /\ wp[1] \in Chunks /\ wp[2] \in 0 .. N - 1 /\ wp = <<wp[1], wp[2]>>
      /\ Len(pushed) \in Nat /\ Len(popped) \in Nat /\ wpos \in Nat /\ rpos \in 0 .. N
  BY <1>i, Parts
<1>a. /\ pc[t] = "switch"
      /\ \A u \in Producers : pc'[u] = IF u = t THEN "reset" ELSE pc[u]
      /\ pc' \in [Producers -> {"idle", "reserve", "wait"} \union Filling \union Last]
  BY <1>i, <1>n DEF Switch, Goto, wvars, rvars, Types, Filling, Last
<1>u. /\ p' = p /\ next' = next /\ fresh' = fresh /\ m_free' = m_free /\ m_c' = m_c
      /\ m_w' = m_w /\ m_r' = m_r /\ wpos' = wpos /\ rpos' = rpos /\ rp' = rp
      /\ slot' = slot /\ chunk' = chunk /\ count' = count /\ cpc' = cpc /\ old' = old
      /\ popped' = popped
  BY DEF Switch, wvars, rvars
<1>b. /\ wp = slot[t] /\ wp' = <<chunk[t], 0>>
      /\ wp'[1] = chunk[t] /\ wp'[2] = 0
      /\ pushed' = Append(pushed, <<t, count[t]>>)
  BY <1>i, <1>n, <1>t DEF Switch, Goto, wvars, rvars, Types
<1>c. (Full' <=> Full) /\ ~Linked' /\ Linked /\ Moved /\ ~Moved'
  BY <1>i, <1>a DEF Full, Linked, Moved, Last, OneLast
<1>l. /\ \A u \in Producers : pc'[u] \in Last <=> pc[u] \in Last
      /\ \A u \in Producers : pc'[u] \in Filling <=> pc[u] \in Filling
  BY <1>a DEF Last, Filling
<1>m. /\ pushed' \in Seq(Items) /\ wp' \in Cells /\ Len(pushed') = Len(pushed) + 1
      /\ \A i \in 1 .. Len(pushed) : pushed'[i] = pushed[i]
      /\ pushed'[Len(pushed) + 1] = <<t, count[t]>>
  <2>1. pc[t] # "idle" /\ count[t] \in 1 .. MaxItems /\ <<t, count[t]>> \in Items
    BY <1>i, <1>a, <1>n, <1>t DEF Counted, Items
  <2>2. wp' \in Cells
    BY <1>i, <1>n, <1>a, <1>b DEF Types, Cells, Reserved, Filling, LastCell
  <2> QED
    BY <2>1, <2>2, <1>i, <1>b DEF Types
<1>y. /\ wp[2] = N - 1
      /\ \A u \in Producers : pc[u] \notin Filling
      /\ \A u \in Producers : pc[u] \in Last => u = t
  <2>1. wp[2] = N - 1
    BY <1>a, <1>i DEF LastCell
  <2>2. ASSUME NEW u \in Producers, pc[u] \in Filling PROVE FALSE
    <3>1. wp[2] <= slot[u][2] /\ slot[u][2] < N - 1
      BY <2>2, <1>i DEF Reserved
    <3> QED
      BY <3>1, <2>1, <1>t, <1>n
  <2>3. \A u \in Producers : pc[u] \in Last => u = t
    BY <1>a, <1>i DEF OneLast, Last
  <2> QED
    BY <2>1, <2>2, <2>3
<1>d. PICK wn : wn = w + 1
  OBVIOUS
<1>g. /\ o \in [Nat -> Chunks] /\ s \in [Nat -> Chunks]
      /\ r \in Nat /\ wn \in Nat /\ l \in Nat /\ f \in Nat
  BY <1>i, <1>n, <1>t, <1>m, <1>u, <1>a, <1>l, <1>b, <1>c, <1>d, <1>u DEF Stacked, Types
<1>1. Types'
  BY <1>i, <1>n, <1>t, <1>m, <1>u, <1>a, <1>l, <1>b, <1>c, <1>d DEF Types
<1>2. Numbers(r, wn, l)'
  BY <1>i, <1>n, <1>t, <1>m, <1>u, <1>a, <1>l, <1>b, <1>c, <1>d DEF Numbers
<1>3. Chained(o, r, l)'
  BY <1>i, <1>n, <1>t, <1>m, <1>u, <1>a, <1>l, <1>b, <1>c, <1>d DEF Chained, First
<1>4. Stacked(s, f)'
  BY <1>i, <1>n, <1>t, <1>m, <1>u, <1>a, <1>l, <1>b, <1>c, <1>d DEF Stacked
<1>5. Placed(o, s, r, l, f)'
  <2>1. Queued(o, r, l)' = Queued(o, r, l)
    BY <1>i, <1>n, <1>t, <1>m, <1>u, <1>a, <1>l, <1>b, <1>c, <1>d DEF Queued, First
  <2>2. Stack(s, f)' = Stack(s, f)
    BY <1>i, <1>n, <1>t, <1>m, <1>u, <1>a, <1>l, <1>b, <1>c, <1>d DEF Stack
  <2>3. Taken' = Taken
    BY <1>a, <1>u DEF Taken
  <2>4. Given' = Given
    BY <1>i, <1>n, <1>t, <1>m, <1>u, <1>a, <1>l, <1>b, <1>c, <1>d DEF Given
  <2> QED
    BY <2>1, <2>2, <2>3, <2>4, <1>i, <1>u DEF Placed, Parted
<1>6. Reading(o, r)'
  BY <1>i, <1>n, <1>t, <1>m, <1>u, <1>a, <1>l, <1>b, <1>c, <1>d DEF Reading
<1>7. Writing(o, wn)'
  <2>1. w * N \in Nat /\ wn * N = w * N + N
    BY <1>n, <1>d
  <2>2. chunk[t] = o[wn] /\ wp[2] = N - 1 /\ m_w = o[wn]
    BY <1>i, <1>a, <1>c, <1>d DEF LastCell, Writing
  <2>3. Len(pushed') = wn * N + wp'[2]
    BY <2>1, <2>2, <1>i, <1>n, <1>m, <1>b DEF Writing
  <2> QED
    BY <2>2, <2>3, <1>u, <1>b, <1>c DEF Writing
<1>8. OneLast'
  BY <1>i, <1>n, <1>t, <1>l, <1>u, <1>b, <1>c DEF OneLast, Full, Reserved, Filling, Last
<1>9. Reserved'
  BY <1>i, <1>n, <1>t, <1>l, <1>u, <1>b DEF Reserved, OneLast, Apart, Filling, Last
<1>10. Apart'
  BY <1>i, <1>n, <1>t, <1>l, <1>u, <1>b DEF Apart, Reserved, Filling, Last
<1>11. LastCell(o, wn)'
  BY <1>y, <1>l, <1>a, <1>b DEF LastCell, Last
<1>12. Written(o, wn)'
  BY <1>y, <1>a DEF Written, Last, Filling
<1>13. Counted'
  BY <1>i, <1>n, <1>t, <1>m, <1>u, <1>a, <1>l, <1>b, <1>c, <1>d DEF Counted
<1>14. Contents(o, r, wn)'
  <2> SUFFICES ASSUME NEW j \in Nat, NEW i \in 0 .. N - 1, Unread(r, j, i)', Readable(wn, j, i)'
               PROVE  p[<<o[j], i>>] = pushed'[(j * N + i) + 1]
    BY <1>u DEF Contents
  <2>1. /\ slot[t] = <<o[w], wp[2]>> /\ Len(pushed) = w * N + wp[2]
        /\ p[slot[t]] = <<t, count[t]>> /\ wp[2] = N - 1 /\ wp'[2] = 0
    BY <1>i, <1>a, <1>b, <1>t DEF Writing, Written, LastCell
  <2>2. Unread(r, j, i)
    BY <1>u DEF Unread
  <2>3. CASE Readable(w, j, i)
    <3>1. (j * N + i) + 1 \in 1 .. Len(pushed)
      <4>1. CASE j < w
        BY <4>1, <2>1, <1>t, InOrder
      <4>2. CASE j = w /\ i < wp[2]
        <5>1. PICK a \in Nat : a = w * N
          BY <1>n
        <5>2. Len(pushed) = a + wp[2]
          BY <5>1, <2>1
        <5>3. (a + i) + 1 \in 1 .. a + wp[2]
          <6>1. i \in Nat /\ wp[2] \in Nat
            BY <1>t, <1>n DEF SizeAssumption
          <6> QED
            BY <4>2, <5>1, <6>1
        <5> QED
          BY <4>2, <5>1, <5>2, <5>3
      <4> QED
        BY <4>1, <4>2, <2>3 DEF Readable
    <3>2. p[<<o[j], i>>] = pushed[(j * N + i) + 1]
      BY <2>2, <2>3, <1>i DEF Contents
    <3> QED
      BY <3>1, <3>2, <1>m
  <2>4. CASE ~Readable(w, j, i)
    <3>1. j <= w /\ (j = w => i <= wp[2])
      <4>1. j < wn \/ (j = wn /\ i < 0)
        BY <1>b DEF Readable
      <4>2. j < w + 1 /\ i <= N - 1 /\ wp[2] = N - 1
        BY <4>1, <2>1, <1>d, <1>n
      <4> QED
        BY <4>2
    <3>2. j = w /\ i = wp[2]
      BY <3>1, <2>4, <1>n, <1>t DEF Readable
    <3> QED
      BY <3>2, <2>1, <1>m
  <2> QED
    BY <2>3, <2>4
<1> QED
  BY <1>1, <1>2, <1>3, <1>4, <1>5, <1>6, <1>7, <1>8, <1>9, <1>10, <1>11, <1>12, <1>13,
     <1>14, <1>g DEF Inv, IInv

\* m_wpos becomes 0 while no producer has a cell, so those that come now get
\* cells of the new chunk only.
LEMMA ResetStep ==
  ASSUME SizeAssumption, ChunkAssumption,
         NEW o, NEW s, NEW r \in Nat, NEW w \in Nat, NEW l \in Nat, NEW f \in Nat,
         Inv(o, s, r, w, l, f), NEW t \in Producers, Reset(t)
  PROVE  IInv'
<1>i. /\ o \in [Nat -> Chunks] /\ s \in [Nat -> Chunks]
      /\ Types /\ Numbers(r, w, l) /\ Chained(o, r, l) /\ Stacked(s, f)
      /\ Placed(o, s, r, l, f) /\ Reading(o, r) /\ Writing(o, w) /\ OneLast /\ Reserved /\ Apart
      /\ LastCell(o, w) /\ Written(o, w) /\ Counted /\ Contents(o, r, w)
  BY DEF Inv
<1>n. N \in Nat /\ N > 1 /\ MaxItems \in Nat /\ NIL \notin Chunks
  BY DEF SizeAssumption, ChunkAssumption
<1>t. /\ \A u \in Producers : /\ count[u] \in 0 .. MaxItems /\ slot[u][1] \in Chunks /\ slot[u][2] \in Nat
                              /\ slot[u] = <<slot[u][1], slot[u][2]>>
      /\ wp[1] \in Chunks /\ wp[2] \in 0 .. N - 1 /\ wp = <<wp[1], wp[2]>>
      /\ Len(pushed) \in Nat /\ Len(popped) \in Nat /\ wpos \in Nat /\ rpos \in 0 .. N
  BY <1>i, Parts
<1>a. /\ pc[t] = "reset"
      /\ \A u \in Producers : pc'[u] = IF u = t THEN "idle" ELSE pc[u]
      /\ pc' \in [Producers -> {"idle", "reserve", "wait"} \union Filling \union Last]
  BY <1>i, <1>n DEF Reset, Goto, wvars, rvars, Types, Filling, Last
<1>u. /\ p' = p /\ next' = next /\ fresh' = fresh /\ m_free' = m_free /\ m_c' = m_c
      /\ m_w' = m_w /\ m_r' = m_r /\ wp' = wp /\ rpos' = rpos /\ rp' = rp
      /\ slot' = slot /\ count' = count /\ cpc' = cpc /\ old' = old /\ pushed' = pushed
      /\ popped' = popped
  BY DEF Reset, wvars, rvars
<1>b. /\ wpos' = 0
      /\ \A u \in Producers : chunk'[u] = IF u = t THEN NIL ELSE chunk[u]
      /\ chunk' \in [Producers -> Chunks \union {NIL}]
  BY <1>i, <1>n, <1>t DEF Reset, Goto, wvars, rvars, Types
<1>c. ~Full' /\ ~Linked' /\ ~Linked /\ ~Moved /\ ~Moved'
  BY <1>i, <1>a DEF Full, Linked, Moved, Last, OneLast
<1>l. /\ pc[t] \in Last /\ \A u \in Producers : pc'[u] \in Last <=> u # t /\ pc[u] \in Last
      /\ \A u \in Producers : pc'[u] \in Filling <=> pc[u] \in Filling
  BY <1>a DEF Last, Filling
<1>g. /\ o \in [Nat -> Chunks] /\ s \in [Nat -> Chunks]
      /\ r \in Nat /\ w \in Nat /\ l \in Nat /\ f \in Nat
  BY <1>i, <1>n, <1>t, <1>u, <1>a, <1>l, <1>b, <1>c, <1>u DEF Stacked, Types
<1>1. Types'
  BY <1>i, <1>n, <1>t, <1>u, <1>a, <1>l, <1>b, <1>c DEF Types
<1>2. Numbers(r, w, l)'
  BY <1>i, <1>n, <1>t, <1>u, <1>a, <1>l, <1>b, <1>c DEF Numbers
<1>3. Chained(o, r, l)'
  BY <1>i, <1>n, <1>t, <1>u, <1>a, <1>l, <1>b, <1>c DEF Chained, First
<1>4. Stacked(s, f)'
  BY <1>i, <1>n, <1>t, <1>u, <1>a, <1>l, <1>b, <1>c DEF Stacked
<1>5. Placed(o, s, r, l, f)'
  <2>1. Queued(o, r, l)' = Queued(o, r, l)
    BY <1>i, <1>n, <1>t, <1>u, <1>a, <1>l, <1>b, <1>c DEF Queued, First
  <2>2. Stack(s, f)' = Stack(s, f)
    BY <1>i, <1>n, <1>t, <1>u, <1>a, <1>l, <1>b, <1>c DEF Stack
  <2>3. Taken' = Taken
    BY <1>a, <1>b DEF Taken
  <2>4. Given' = Given
    BY <1>i, <1>n, <1>t, <1>u, <1>a, <1>l, <1>b, <1>c DEF Given
  <2> QED
    BY <2>1, <2>2, <2>3, <2>4, <1>i, <1>u DEF Placed, Parted
<1>6. Reading(o, r)'
  BY <1>i, <1>n, <1>t, <1>u, <1>a, <1>l, <1>b, <1>c DEF Reading
<1>7. Writing(o, w)'
  BY <1>i, <1>n, <1>t, <1>u, <1>a, <1>l, <1>b, <1>c DEF Writing
<1>8. OneLast'
  <2>1. wp[2] = 0 /\ \A u \in Producers : pc[u] \in Last => u = t
    BY <1>a, <1>i DEF OneLast, LastCell, Last
  <2> QED
    BY <2>1, <1>l, <1>b, <1>c, <1>u, <1>n DEF OneLast
<1>9. Reserved'
  BY <1>a, <1>l, <1>i DEF Reserved, LastCell
<1>10. Apart'
  BY <1>i, <1>n, <1>t, <1>l, <1>u, <1>b DEF Apart, Reserved, Filling, Last
<1>11. LastCell(o, w)'
  BY <1>i, <1>n, <1>t, <1>l, <1>u, <1>b, <1>a DEF LastCell, OneLast, Full, Reserved,
     Filling, Last
<1>12. Written(o, w)'
  BY <1>i, <1>n, <1>t, <1>u, <1>a, <1>l, <1>b, <1>c DEF Written
<1>13. Counted'
  BY <1>i, <1>n, <1>t, <1>u, <1>a, <1>l, <1>b, <1>c DEF Counted
<1>14. Contents(o, r, w)'
  BY <1>i, <1>u, SameContents
<1> QED
  BY <1>1, <1>2, <1>3, <1>4, <1>5, <1>6, <1>7, <1>8, <1>9, <1>10, <1>11, <1>12, <1>13,
     <1>14, <1>g DEF Inv, IInv

\* A producer that came too late starts over.
LEMMA RetryStep ==
  ASSUME SizeAssumption, ChunkAssumption,
         NEW o, NEW s, NEW r \in Nat, NEW w \in Nat, NEW l \in Nat, NEW f \in Nat,
         Inv(o, s, r, w, l, f), NEW t \in Producers, Retry(t)
  PROVE  IInv'
<1>i. /\ o \in [Nat -> Chunks] /\ s \in [Nat -> Chunks]
      /\ Types /\ Numbers(r, w, l) /\ Chained(o, r, l) /\ Stacked(s, f)
      /\ Placed(o, s, r, l, f) /\ Reading(o, r) /\ Writing(o, w) /\ OneLast /\ Reserved /\ Apart
      /\ LastCell(o, w) /\ Written(o, w) /\ Counted /\ Contents(o, r, w)
  BY DEF Inv
<1>n. N \in Nat /\ N > 1 /\ MaxItems \in Nat /\ NIL \notin Chunks
  BY DEF SizeAssumption, ChunkAssumption
<1>t. /\ \A u \in Producers : /\ count[u] \in 0 .. MaxItems /\ slot[u][1] \in Chunks /\ slot[u][2] \in Nat
                              /\ slot[u] = <<slot[u][1], slot[u][2]>>
      /\ wp[1] \in Chunks /\ wp[2] \in 0 .. N - 1 /\ wp = <<wp[1], wp[2]>>
      /\ Len(pushed) \in Nat /\ Len(popped) \in Nat /\ wpos \in Nat /\ rpos \in 0 .. N
  BY <1>i, Parts
<1>a. /\ pc[t] = "wait"
      /\ \A u \in Producers : pc'[u] = IF u = t THEN "reserve" ELSE pc[u]
      /\ pc' \in [Producers -> {"idle", "reserve", "wait"} \union Filling \union Last]
  BY <1>i, <1>n DEF Retry, Goto, wvars, rvars, Types, Filling, Last
<1>u. /\ p' = p /\ next' = next /\ fresh' = fresh /\ m_free' = m_free /\ m_c' = m_c
      /\ m_w' = m_w /\ m_r' = m_r /\ wpos' = wpos /\ wp' = wp /\ rpos' = rpos
      /\ rp' = rp /\ slot' = slot /\ chunk' = chunk /\ count' = count /\ cpc' = cpc
      /\ old' = old /\ pushed' = pushed /\ popped' = popped
  BY DEF Retry, wvars, rvars
<1>b. wpos < N
  BY <1>i, <1>n, <1>t DEF Retry, Goto, wvars, rvars, Types
<1>c. (Full' <=> Full) /\ (Linked' <=> Linked) /\ (Moved' <=> Moved)
  BY <1>i, <1>a DEF Full, Linked, Moved, Last, OneLast
<1>l. /\ \A u \in Producers : pc'[u] \in Last <=> pc[u] \in Last
      /\ \A u \in Producers : pc'[u] \in Filling <=> pc[u] \in Filling
  BY <1>a DEF Last, Filling
<1>g. /\ o \in [Nat -> Chunks] /\ s \in [Nat -> Chunks]
      /\ r \in Nat /\ w \in Nat /\ l \in Nat /\ f \in Nat
  BY <1>i, <1>n, <1>t, <1>u, <1>a, <1>l, <1>b, <1>c, <1>u DEF Stacked, Types
<1>1. Types'
  BY <1>i, <1>n, <1>t, <1>u, <1>a, <1>l, <1>b, <1>c DEF Types
<1>2. Numbers(r, w, l)'
  BY <1>i, <1>n, <1>t, <1>u, <1>a, <1>l, <1>b, <1>c DEF Numbers
<1>3. Chained(o, r, l)'
  BY <1>i, <1>n, <1>t, <1>u, <1>a, <1>l, <1>b, <1>c DEF Chained, First
<1>4. Stacked(s, f)'
  BY <1>i, <1>n, <1>t, <1>u, <1>a, <1>l, <1>b, <1>c DEF Stacked
<1>5. Placed(o, s, r, l, f)'
  <2>1. Queued(o, r, l)' = Queued(o, r, l)
    BY <1>i, <1>n, <1>t, <1>u, <1>a, <1>l, <1>b, <1>c DEF Queued, First
  <2>2. Stack(s, f)' = Stack(s, f)
    BY <1>i, <1>n, <1>t, <1>u, <1>a, <1>l, <1>b, <1>c DEF Stack
  <2>3. Taken' = Taken
    BY <1>a, <1>u DEF Taken
  <2>4. Given' = Given
    BY <1>i, <1>n, <1>t, <1>u, <1>a, <1>l, <1>b, <1>c DEF Given
  <2> QED
    BY <2>1, <2>2, <2>3, <2>4, <1>i, <1>u DEF Placed, Parted
<1>6. Reading(o, r)'
  BY <1>i, <1>n, <1>t, <1>u, <1>a, <1>l, <1>b, <1>c DEF Reading
<1>7. Writing(o, w)'
  BY <1>i, <1>n, <1>t, <1>u, <1>a, <1>l, <1>b, <1>c DEF Writing
<1>8. OneLast'
  BY <1>i, <1>n, <1>t, <1>l, <1>u, <1>b, <1>c DEF OneLast, Full, Reserved, Filling, Last
<1>9. Reserved'
  BY <1>i, <1>n, <1>t, <1>l, <1>u, <1>b DEF Reserved, OneLast, Apart, Filling, Last
<1>10. Apart'
  BY <1>i, <1>n, <1>t, <1>l, <1>u, <1>b DEF Apart, Reserved, Filling, Last
<1>11. LastCell(o, w)'
  BY <1>i, <1>n, <1>t, <1>l, <1>u, <1>b, <1>a DEF LastCell, OneLast, Full, Reserved,
     Filling, Last
<1>12. Written(o, w)'
  BY <1>i, <1>n, <1>t, <1>u, <1>a, <1>l, <1>b, <1>c DEF Written
<1>13. Counted'
  BY <1>i, <1>n, <1>t, <1>u, <1>a, <1>l, <1>b, <1>c DEF Counted
<1>14. Contents(o, r, w)'
  BY <1>i, <1>u, SameContents
<1> QED
  BY <1>1, <1>2, <1>3, <1>4, <1>5, <1>6, <1>7, <1>8, <1>9, <1>10, <1>11, <1>12, <1>13,
     <1>14, <1>g DEF Inv, IInv

\* The next cell of the chunk is read.
LEMMA PopStep ==
  ASSUME SizeAssumption, ChunkAssumption,
         NEW o, NEW s, NEW r \in Nat, NEW w \in Nat, NEW l \in Nat, NEW f \in Nat,
         Inv(o, s, r, w, l, f), Pop
  PROVE  IInv'
<1>i. /\ o \in [Nat -> Chunks] /\ s \in [Nat -> Chunks]
      /\ Types /\ Numbers(r, w, l) /\ Chained(o, r, l) /\ Stacked(s, f)
      /\ Placed(o, s, r, l, f) /\ Reading(o, r) /\ Writing(o, w) /\ OneLast /\ Reserved /\ Apart
      /\ LastCell(o, w) /\ Written(o, w) /\ Counted /\ Contents(o, r, w)
  BY DEF Inv
<1>n. N \in Nat /\ N > 1 /\ MaxItems \in Nat /\ NIL \notin Chunks
  BY DEF SizeAssumption, ChunkAssumption
<1>t. /\ \A u \in Producers : /\ count[u] \in 0 .. MaxItems /\ slot[u][1] \in Chunks /\ slot[u][2] \in Nat
                              /\ slot[u] = <<slot[u][1], slot[u][2]>>
      /\ wp[1] \in Chunks /\ wp[2] \in 0 .. N - 1 /\ wp = <<wp[1], wp[2]>>
      /\ Len(pushed) \in Nat /\ Len(popped) \in Nat /\ wpos \in Nat /\ rpos \in 0 .. N
  BY <1>i, Parts
<1>u. /\ p' = p /\ next' = next /\ fresh' = fresh /\ m_free' = m_free /\ m_c' = m_c
      /\ m_w' = m_w /\ m_r' = m_r /\ wpos' = wpos /\ wp' = wp /\ pc' = pc
      /\ slot' = slot /\ chunk' = chunk /\ count' = count /\ cpc' = cpc /\ old' = old
      /\ pushed' = pushed
  BY DEF Pop, wvars, rvars
<1>b. /\ cpc = "idle" /\ rp # wp /\ rpos + 1 < N
      /\ popped' = Append(popped, p[rp]) /\ rpos' = rpos + 1 /\ rp' = <<m_r, rpos + 1>>
  BY <1>i, <1>n, <1>t DEF Pop, wvars, rvars, Types
<1>c. (Full' <=> Full) /\ (Linked' <=> Linked) /\ (Moved' <=> Moved)
  BY <1>u DEF Full, Linked, Moved
<1>y. /\ r < w \/ (r = w /\ rpos < wp[2])
      /\ Len(popped) = r * N + rpos /\ p[rp] \in Items
  BY <1>b, Front
<1>z. /\ popped' \in Seq(Items) /\ Len(popped') = (r * N + rpos) + 1
  BY <1>b, <1>y, <1>i DEF Types
<1>g. /\ o \in [Nat -> Chunks] /\ s \in [Nat -> Chunks]
      /\ r \in Nat /\ w \in Nat /\ l \in Nat /\ f \in Nat
  BY <1>i, <1>n, <1>t, <1>u, <1>b, <1>c, <1>y, <1>u DEF Stacked, Types
<1>1. Types'
  <2>1. rp' \in Cells
    BY <1>i, <1>n, <1>t, <1>b DEF Types, Cells
  <2> QED
    BY <2>1, <1>i, <1>n, <1>t, <1>u, <1>b, <1>z DEF Types
<1>2. Numbers(r, w, l)'
  BY <1>i, <1>t, <1>u, <1>b, <1>c, <1>y DEF Numbers
<1>3. Chained(o, r, l)'
  BY <1>i, <1>n, <1>t, <1>u, <1>b, <1>c, <1>y DEF Chained, First
<1>4. Stacked(s, f)'
  BY <1>i, <1>n, <1>t, <1>u, <1>b, <1>c, <1>y DEF Stacked
<1>5. Placed(o, s, r, l, f)'
  <2>1. Queued(o, r, l)' = Queued(o, r, l)
    BY <1>i, <1>n, <1>t, <1>u, <1>b, <1>c, <1>y DEF Queued, First
  <2>2. Stack(s, f)' = Stack(s, f)
    BY <1>i, <1>n, <1>t, <1>u, <1>b, <1>c, <1>y DEF Stack
  <2>3. Taken' = Taken
    BY <1>u DEF Taken
  <2>4. Given' = Given
    BY <1>i, <1>n, <1>t, <1>u, <1>b, <1>c, <1>y DEF Given
  <2> QED
    BY <2>1, <2>2, <2>3, <2>4, <1>i, <1>u DEF Placed, Parted
<1>6. Reading(o, r)'
  <2>1. r * N \in Nat
    BY <1>n
  <2> QED
    BY <2>1, <1>i, <1>n, <1>t, <1>u, <1>b, <1>z DEF Reading
<1>7. Writing(o, w)'
  BY <1>i, <1>n, <1>t, <1>u, <1>b, <1>c, <1>y DEF Writing
<1>8. OneLast'
  BY <1>i, <1>n, <1>t, <1>u, <1>b, <1>c, <1>y DEF OneLast
<1>9. Reserved'
  BY <1>i, <1>n, <1>t, <1>u, <1>b, <1>c, <1>y DEF Reserved
<1>10. Apart'
  BY <1>i, <1>n, <1>t, <1>u, <1>b, <1>c, <1>y DEF Apart
<1>11. LastCell(o, w)'
  BY <1>i, <1>n, <1>t, <1>u, <1>b, <1>c, <1>y DEF LastCell
<1>12. Written(o, w)'
  BY <1>i, <1>n, <1>t, <1>u, <1>b, <1>c, <1>y DEF Written
<1>13. Counted'
  BY <1>i, <1>n, <1>t, <1>u, <1>b, <1>c, <1>y DEF Counted
<1>14. Contents(o, r, w)'
  <2> SUFFICES ASSUME NEW j \in Nat, NEW i \in 0 .. N - 1, Unread(r, j, i)', Readable(w, j, i)
               PROVE  p[<<o[j], i>>] = pushed[(j * N + i) + 1]
    BY <1>u DEF Contents, Readable
  <2>1. Unread(r, j, i)
    BY <1>b, <1>t, <1>u DEF Unread
  <2> QED
    BY <2>1, <1>i DEF Contents
<1> QED
  BY <1>1, <1>2, <1>3, <1>4, <1>5, <1>6, <1>7, <1>8, <1>9, <1>10, <1>11, <1>12, <1>13,
     <1>14, <1>g DEF Inv, IInv

\* After the last cell there is a next chunk: m_wp has left this one.
LEMMA PopLastStep ==
  ASSUME SizeAssumption, ChunkAssumption,
         NEW o, NEW s, NEW r \in Nat, NEW w \in Nat, NEW l \in Nat, NEW f \in Nat,
         Inv(o, s, r, w, l, f), PopLast
  PROVE  IInv'
<1>i. /\ o \in [Nat -> Chunks] /\ s \in [Nat -> Chunks]
      /\ Types /\ Numbers(r, w, l) /\ Chained(o, r, l) /\ Stacked(s, f)
      /\ Placed(o, s, r, l, f) /\ Reading(o, r) /\ Writing(o, w) /\ OneLast /\ Reserved /\ Apart
      /\ LastCell(o, w) /\ Written(o, w) /\ Counted /\ Contents(o, r, w)
  BY DEF Inv
<1>n. N \in Nat /\ N > 1 /\ MaxItems \in Nat /\ NIL \notin Chunks
  BY DEF SizeAssumption, ChunkAssumption
<1>t. /\ \A u \in Producers : /\ count[u] \in 0 .. MaxItems /\ slot[u][1] \in Chunks /\ slot[u][2] \in Nat
                              /\ slot[u] = <<slot[u][1], slot[u][2]>>
      /\ wp[1] \in Chunks /\ wp[2] \in 0 .. N - 1 /\ wp = <<wp[1], wp[2]>>
      /\ Len(pushed) \in Nat /\ Len(popped) \in Nat /\ wpos \in Nat /\ rpos \in 0 .. N
  BY <1>i, Parts
<1>u. /\ p' = p /\ next' = next /\ fresh' = fresh /\ m_free' = m_free /\ m_c' = m_c
      /\ m_w' = m_w /\ wpos' = wpos /\ wp' = wp /\ rp' = rp /\ pc' = pc /\ slot' = slot
      /\ chunk' = chunk /\ count' = count /\ pushed' = pushed
  BY DEF PopLast, wvars, rvars
<1>b. /\ cpc = "idle" /\ rp # wp /\ rpos + 1 = N
      /\ popped' = Append(popped, p[rp]) /\ rpos' = N /\ old' = m_r /\ m_r' = next[m_r] /\ cpc' = "unchain"
  BY <1>i, <1>n, <1>t DEF PopLast, wvars, rvars, Types
<1>c. (Full' <=> Full) /\ (Linked' <=> Linked) /\ (Moved' <=> Moved)
  BY <1>u DEF Full, Linked, Moved
<1>d. PICK rn : rn = r + 1
  OBVIOUS
<1>y. /\ r < w \/ (r = w /\ rpos < wp[2])
      /\ Len(popped) = r * N + rpos /\ p[rp] \in Items
  BY <1>b, Front
<1>z. /\ popped' \in Seq(Items) /\ Len(popped') = (r * N + rpos) + 1
  BY <1>b, <1>y, <1>i DEF Types
<1>p. r < w /\ rpos = N - 1 /\ m_r = o[r] /\ next[m_r] = o[rn] /\ o[rn] \in Chunks /\ m_c = o[r]
  <2>1. rpos = N - 1 /\ wp[2] <= N - 1
    BY <1>b, <1>t, <1>n
  <2>5. r < w
    BY <1>y, <2>1, <1>t, <1>n
  <2>2. m_r = o[r] /\ m_c = o[r]
    BY <1>i, <1>b DEF Reading
  <2>3. r \in First(r) .. l - 1
    BY <2>5, <1>i, <1>b DEF Numbers, First
  <2>4. next[o[r]] = o[r + 1] /\ r + 1 \in Nat
    BY <2>3, <1>i DEF Chained
  <2> QED
    BY <2>1, <2>2, <2>4, <2>5, <1>i, <1>d
<1>q. Len(popped') = rn * N
  BY <1>z, <1>p, <1>d, <1>n
<1>h. First(rn)' = r /\ First(r) = r
  BY <1>b, <1>d DEF First
<1>g. o \in [Nat -> Chunks] /\ s \in [Nat -> Chunks] /\ rn \in Nat
  BY <1>i, <1>d
<1>1. Types'
  <2>1. /\ m_r' \in Chunks /\ old' \in Chunks /\ rpos' \in 0 .. N
        /\ cpc' \in {"idle", "unchain", "free"}
    BY <1>b, <1>p, <1>i, <1>n DEF Types
  <2> QED
    BY <2>1, <1>i, <1>u, <1>z DEF Types
<1>2. Numbers(rn, w, l)'
  BY <1>i, <1>u, <1>b, <1>c, <1>d, <1>p DEF Numbers
<1>3. Chained(o, rn, l)'
  BY <1>h, <1>i, <1>u DEF Chained
<1>4. Stacked(s, f)'
  BY <1>i, <1>n, <1>t, <1>u, <1>b, <1>c, <1>d, <1>y DEF Stacked
<1>5. Placed(o, s, rn, l, f)'
  <2>1. Queued(o, rn, l)' = Queued(o, r, l)
    BY <1>h DEF Queued
  <2>2. Stack(s, f)' = Stack(s, f) /\ Taken' = Taken
    BY <1>u DEF Stack, Taken
  <2>3. Given' = Given
    BY <1>b DEF Given
  <2> QED
    BY <2>1, <2>2, <2>3, <1>i, <1>u DEF Placed, Parted
<1>6. Reading(o, rn)'
  <2>1. m_r' = o[rn] /\ old' = o[rn - 1] /\ m_c' = old' /\ cpc' = "unchain"
    BY <1>b, <1>d, <1>p, <1>u
  <2> QED
    BY <2>1, <1>q DEF Reading
<1>7. Writing(o, w)'
  BY <1>i, <1>n, <1>t, <1>u, <1>b, <1>c, <1>d, <1>y DEF Writing
<1>8. OneLast'
  BY <1>i, <1>n, <1>t, <1>u, <1>b, <1>c, <1>d, <1>y DEF OneLast
<1>9. Reserved'
  BY <1>i, <1>n, <1>t, <1>u, <1>b, <1>c, <1>d, <1>y DEF Reserved
<1>10. Apart'
  BY <1>i, <1>n, <1>t, <1>u, <1>b, <1>c, <1>d, <1>y DEF Apart
<1>11. LastCell(o, w)'
  BY <1>i, <1>n, <1>t, <1>u, <1>b, <1>c, <1>d, <1>y DEF LastCell
<1>12. Written(o, w)'
  BY <1>i, <1>n, <1>t, <1>u, <1>b, <1>c, <1>d, <1>y DEF Written
<1>13. Counted'
  BY <1>i, <1>n, <1>t, <1>u, <1>b, <1>c, <1>d, <1>y DEF Counted
<1>14. Contents(o, rn, w)'
  <2> SUFFICES ASSUME NEW j \in Nat, NEW i \in 0 .. N - 1, Unread(rn, j, i)', Readable(w, j, i)
               PROVE  p[<<o[j], i>>] = pushed[(j * N + i) + 1]
    BY <1>u DEF Contents, Readable
  <2>1. Unread(r, j, i)
    <3>1. rn <= j
      BY <1>g DEF Unread
    <3>2. r < j
      BY <3>1, <1>d
    <3> QED
      BY <3>2 DEF Unread
  <2> QED
    BY <2>1, <1>i DEF Contents
<1> QED
  BY <1>1, <1>2, <1>3, <1>4, <1>5, <1>6, <1>7, <1>8, <1>9, <1>10, <1>11, <1>12, <1>13,
     <1>14, <1>g DEF Inv, IInv

\* The chunk that was read leaves the chain.
LEMMA UnchainStep ==
  ASSUME SizeAssumption, ChunkAssumption,
         NEW o, NEW s, NEW r \in Nat, NEW w \in Nat, NEW l \in Nat, NEW f \in Nat,
         Inv(o, s, r, w, l, f), Unchain
  PROVE  IInv'
<1>i. /\ o \in [Nat -> Chunks] /\ s \in [Nat -> Chunks]
      /\ Types /\ Numbers(r, w, l) /\ Chained(o, r, l) /\ Stacked(s, f)
      /\ Placed(o, s, r, l, f) /\ Reading(o, r) /\ Writing(o, w) /\ OneLast /\ Reserved /\ Apart
      /\ LastCell(o, w) /\ Written(o, w) /\ Counted /\ Contents(o, r, w)
  BY DEF Inv
<1>n. N \in Nat /\ N > 1 /\ MaxItems \in Nat /\ NIL \notin Chunks
  BY DEF SizeAssumption, ChunkAssumption
<1>t. /\ \A u \in Producers : /\ count[u] \in 0 .. MaxItems /\ slot[u][1] \in Chunks /\ slot[u][2] \in Nat
                              /\ slot[u] = <<slot[u][1], slot[u][2]>>
      /\ wp[1] \in Chunks /\ wp[2] \in 0 .. N - 1 /\ wp = <<wp[1], wp[2]>>
      /\ Len(pushed) \in Nat /\ Len(popped) \in Nat /\ wpos \in Nat /\ rpos \in 0 .. N
  BY <1>i, Parts
<1>u. /\ p' = p /\ next' = next /\ fresh' = fresh /\ m_free' = m_free /\ m_w' = m_w
      /\ m_r' = m_r /\ wpos' = wpos /\ wp' = wp /\ rpos' = rpos /\ rp' = rp /\ pc' = pc
      /\ slot' = slot /\ chunk' = chunk /\ count' = count /\ old' = old
      /\ pushed' = pushed /\ popped' = popped
  BY DEF Unchain, wvars, rvars
<1>b. /\ cpc = "unchain" /\ cpc' = "free" /\ m_c' = IF old = m_c THEN next[m_c] ELSE m_c
  BY <1>i, <1>n, <1>t DEF Unchain, wvars, rvars, Types
<1>c. (Full' <=> Full) /\ (Linked' <=> Linked) /\ (Moved' <=> Moved)
  BY <1>u DEF Full, Linked, Moved
<1>y. r > 0 /\ old = o[r - 1] /\ m_c = old /\ m_c' = o[r] /\ r <= l /\ First(r) = r - 1 /\ First(r)' = r
  BY <1>i, <1>b DEF Reading, Chained, Numbers, First
<1>g. /\ o \in [Nat -> Chunks] /\ s \in [Nat -> Chunks]
      /\ r \in Nat /\ w \in Nat /\ l \in Nat /\ f \in Nat
  BY <1>i, <1>n, <1>t, <1>u, <1>b, <1>c, <1>y, <1>u DEF Stacked, Types
<1>1. Types'
  BY <1>i, <1>u, <1>b, <1>y DEF Types
<1>2. Numbers(r, w, l)'
  BY <1>i, <1>n, <1>t, <1>u, <1>b, <1>c, <1>y DEF Numbers
<1>3. Chained(o, r, l)'
  BY <1>i, <1>u, <1>y DEF Chained
<1>4. Stacked(s, f)'
  BY <1>i, <1>n, <1>t, <1>u, <1>b, <1>c, <1>y DEF Stacked
<1>5. Placed(o, s, r, l, f)'
  <2>1. Queued(o, r, l) = Queued(o, r, l)' \union {old} /\ old \notin Queued(o, r, l)'
    <3>1. \A j \in r - 1 .. l : j = r - 1 \/ j \in r .. l
      OBVIOUS
    <3>2. \A j \in r .. l : j \in r - 1 .. l /\ o[j] # o[r - 1]
      BY <1>y, <1>i DEF Chained
    <3> QED
      BY <3>1, <3>2, <1>y DEF Queued
  <2>2. Given = {} /\ Given' = {old} /\ Stack(s, f)' = Stack(s, f) /\ Taken' = Taken
    BY <1>u, <1>b DEF Given, Stack, Taken
  <2> QED
    BY <2>1, <2>2, <1>u, <1>i DEF Placed, Parted
<1>6. Reading(o, r)'
  BY <1>i, <1>u, <1>b, <1>y DEF Reading
<1>7. Writing(o, w)'
  BY <1>i, <1>n, <1>t, <1>u, <1>b, <1>c, <1>y DEF Writing
<1>8. OneLast'
  BY <1>i, <1>n, <1>t, <1>u, <1>b, <1>c, <1>y DEF OneLast
<1>9. Reserved'
  BY <1>i, <1>n, <1>t, <1>u, <1>b, <1>c, <1>y DEF Reserved
<1>10. Apart'
  BY <1>i, <1>n, <1>t, <1>u, <1>b, <1>c, <1>y DEF Apart
<1>11. LastCell(o, w)'
  BY <1>i, <1>n, <1>t, <1>u, <1>b, <1>c, <1>y DEF LastCell
<1>12. Written(o, w)'
  BY <1>i, <1>n, <1>t, <1>u, <1>b, <1>c, <1>y DEF Written
<1>13. Counted'
  BY <1>i, <1>n, <1>t, <1>u, <1>b, <1>c, <1>y DEF Counted
<1>14. Contents(o, r, w)'
  BY <1>i, <1>n, <1>t, <1>u, <1>b, <1>c, <1>y DEF Contents, Unread, Readable
<1> QED
  BY <1>1, <1>2, <1>3, <1>4, <1>5, <1>6, <1>7, <1>8, <1>9, <1>10, <1>11, <1>12, <1>13,
     <1>14, <1>g DEF Inv, IInv

\* It becomes the top of the stack of free chunks.
LEMMA FreeStep ==
  ASSUME SizeAssumption, ChunkAssumption,
         NEW o, NEW s, NEW r \in Nat, NEW w \in Nat, NEW l \in Nat, NEW f \in Nat,
         Inv(o, s, r, w, l, f), Free
  PROVE  IInv'
<1>i. /\ o \in [Nat -> Chunks] /\ s \in [Nat -> Chunks]
      /\ Types /\ Numbers(r, w, l) /\ Chained(o, r, l) /\ Stacked(s, f)
      /\ Placed(o, s, r, l, f) /\ Reading(o, r) /\ Writing(o, w) /\ OneLast /\ Reserved /\ Apart
      /\ LastCell(o, w) /\ Written(o, w) /\ Counted /\ Contents(o, r, w)
  BY DEF Inv
<1>n. N \in Nat /\ N > 1 /\ MaxItems \in Nat /\ NIL \notin Chunks
  BY DEF SizeAssumption, ChunkAssumption
<1>t. /\ \A u \in Producers : /\ count[u] \in 0 .. MaxItems /\ slot[u][1] \in Chunks /\ slot[u][2] \in Nat
                              /\ slot[u] = <<slot[u][1], slot[u][2]>>
      /\ wp[1] \in Chunks /\ wp[2] \in 0 .. N - 1 /\ wp = <<wp[1], wp[2]>>
      /\ Len(pushed) \in Nat /\ Len(popped) \in Nat /\ wpos \in Nat /\ rpos \in 0 .. N
  BY <1>i, Parts
<1>u. /\ p' = p /\ fresh' = fresh /\ m_c' = m_c /\ m_w' = m_w /\ m_r' = m_r
      /\ wpos' = wpos /\ wp' = wp /\ pc' = pc /\ slot' = slot /\ chunk' = chunk
      /\ count' = count /\ pushed' = pushed /\ popped' = popped
  BY DEF Free, wvars, rvars
<1>b. /\ cpc = "free" /\ cpc' = "idle" /\ m_free' = old /\ old' = NIL /\ rpos' = 0 /\ rp' = <<m_r, 0>>
      /\ next' = [next EXCEPT ![old] = m_free]
  BY <1>i, <1>n, <1>t DEF Free, wvars, rvars, Types
<1>c. (Full' <=> Full) /\ (Linked' <=> Linked) /\ (Moved' <=> Moved)
  BY <1>u DEF Full, Linked, Moved
<1>d. PICK sn : sn = [s EXCEPT ![f] = old]
  OBVIOUS
<1>e. PICK fn : fn = f + 1
  OBVIOUS
<1>y. /\ old \in Chunks /\ old \notin Queued(o, r, l) /\ old \notin Stack(s, f)
      /\ Given = {old} /\ Given' = {} /\ First(r) = r /\ First(r)' = r
  BY <1>b, <1>i DEF Placed, Parted, Given, First
<1>q. /\ next'[old] = m_free /\ \A x \in Chunks : x # old => next'[x] = next[x]
      /\ next' \in [Chunks -> Chunks \union {NIL}]
  BY <1>b, <1>y, <1>i DEF Types
<1>o. /\ sn \in [Nat -> Chunks] /\ sn[f] = old /\ \A j \in Nat : j # f => sn[j] = s[j]
  BY <1>d, <1>y, <1>i
<1>p. \A j \in r .. l : o[j] \in Chunks /\ o[j] # old
  BY <1>y, <1>i DEF Queued
<1>h. \A i \in 0 .. f - 1 : s[i] \in Chunks /\ s[i] # old /\ sn[i] = s[i]
  BY <1>y, <1>o, <1>i DEF Stack
<1>g. /\ o \in [Nat -> Chunks] /\ sn \in [Nat -> Chunks]
      /\ r \in Nat /\ w \in Nat /\ l \in Nat /\ fn \in Nat
  BY <1>i, <1>n, <1>t, <1>u, <1>b, <1>c, <1>d, <1>e, <1>y, <1>u DEF Stacked, Types
<1>1. Types'
  <2>1. rp' \in Cells
    BY <1>i, <1>n, <1>b DEF Types, Cells
  <2> QED
    BY <2>1, <1>i, <1>n, <1>u, <1>b, <1>q, <1>y DEF Types
<1>2. Numbers(r, w, l)'
  BY <1>i, <1>t, <1>u, <1>b, <1>c DEF Numbers
<1>3. Chained(o, r, l)'
  BY <1>i, <1>p, <1>q, <1>y DEF Chained, Numbers
<1>4. Stacked(sn, fn)'
  <2>1. \A i \in 0 .. fn - 1 : i = f \/ i \in 0 .. f - 1
    BY <1>e
  <2>2. ASSUME NEW i \in 0 .. fn - 1 PROVE next'[sn[i]] = IF i = 0 THEN NIL ELSE sn[i - 1]
    <3>1. CASE i = f
      <4>1. f # 0 => f - 1 \in 0 .. f - 1
        OBVIOUS
      <4> QED
        BY <3>1, <4>1, <1>o, <1>q, <1>h, <1>i DEF Stacked
    <3>2. CASE i \in 0 .. f - 1
      <4>1. i # 0 => i - 1 \in 0 .. f - 1
        BY <3>2
      <4> QED
        BY <3>2, <4>1, <1>h, <1>q, <1>i DEF Stacked
    <3> QED
      BY <2>1, <3>1, <3>2
  <2>3. ASSUME NEW i \in 0 .. fn - 1, NEW j \in 0 .. fn - 1, sn[i] = sn[j] PROVE i = j
    BY <2>1, <2>3, <1>o, <1>h, <1>i DEF Stacked
  <2>4. fn \in Nat /\ fn # 0 /\ fn - 1 = f
    BY <1>e
  <2> QED
    BY <2>2, <2>3, <2>4, <1>o, <1>b DEF Stacked
<1>5. Placed(o, sn, r, l, fn)'
  <2>1. Stack(sn, fn)' = Stack(s, f) \union {old}
    <3>1. \A i \in 0 .. fn - 1 : i = f \/ i \in 0 .. f - 1
      BY <1>e
    <3>2. f \in 0 .. fn - 1 /\ \A i \in 0 .. f - 1 : i \in 0 .. fn - 1
      BY <1>e
    <3> QED
      BY <3>1, <3>2, <1>o, <1>h DEF Stack
  <2>2. Queued(o, r, l)' = Queued(o, r, l) /\ Taken' = Taken
    BY <1>u, <1>y DEF Queued, Taken
  <2> QED
    BY <2>1, <2>2, <1>y, <1>u, <1>i DEF Placed, Parted
<1>6. Reading(o, r)'
  BY <1>i, <1>u, <1>b, <1>n DEF Reading
<1>7. Writing(o, w)'
  BY <1>i, <1>n, <1>t, <1>u, <1>b, <1>c, <1>d, <1>e, <1>y DEF Writing
<1>8. OneLast'
  BY <1>i, <1>n, <1>t, <1>u, <1>b, <1>c, <1>d, <1>e, <1>y DEF OneLast
<1>9. Reserved'
  BY <1>i, <1>n, <1>t, <1>u, <1>b, <1>c, <1>d, <1>e, <1>y DEF Reserved
<1>10. Apart'
  BY <1>i, <1>n, <1>t, <1>u, <1>b, <1>c, <1>d, <1>e, <1>y DEF Apart
<1>11. LastCell(o, w)'
  BY <1>i, <1>n, <1>t, <1>u, <1>b, <1>c, <1>d, <1>e, <1>y DEF LastCell
<1>12. Written(o, w)'
  BY <1>i, <1>n, <1>t, <1>u, <1>b, <1>c, <1>d, <1>e, <1>y DEF Written
<1>13. Counted'
  BY <1>i, <1>n, <1>t, <1>u, <1>b, <1>c, <1>d, <1>e, <1>y DEF Counted
<1>14. Contents(o, r, w)'
  <2> SUFFICES ASSUME NEW j \in Nat, NEW i \in 0 .. N - 1, Unread(r, j, i)', Readable(w, j, i)
               PROVE  p[<<o[j], i>>] = pushed[(j * N + i) + 1]
    BY <1>u DEF Contents, Readable
  <2>1. Unread(r, j, i)
    BY <1>b, <1>t, <1>u DEF Unread
  <2> QED
    BY <2>1, <1>i DEF Contents
<1> QED
  BY <1>1, <1>2, <1>3, <1>4, <1>5, <1>6, <1>7, <1>8, <1>9, <1>10, <1>11, <1>12, <1>13,
     <1>14, <1>g DEF Inv, IInv

----------------------------------------------------------------------------
(* The invariant *)

\* One chunk, in the queue, and nothing in it.
LEMMA InitInv == SizeAssumption /\ ChunkAssumption /\ Init => IInv
<1> SUFFICES ASSUME SizeAssumption, ChunkAssumption, Init
             PROVE  IInv
  OBVIOUS
<1>n. N \in Nat /\ N > 1 /\ MaxItems \in Nat /\ NIL \notin Chunks
  BY DEF SizeAssumption, ChunkAssumption
<1>1. PICK c \in Chunks :
        /\ p = [x \in Cells |-> NoItem] /\ next = [x \in Chunks |-> NIL] /\ fresh = Chunks \ {c}
        /\ m_c = c /\ m_w = c /\ m_r = c /\ m_free = NIL /\ wpos = 0 /\ wp = <<c, 0>>
        /\ rpos = 0 /\ rp = <<c, 0>> /\ pc = [t \in Producers |-> "idle"]
        /\ slot = [t \in Producers |-> <<c, 0>>] /\ chunk = [t \in Producers |-> NIL]
        /\ count = [t \in Producers |-> 0] /\ cpc = "idle" /\ old = NIL
        /\ pushed = <<>> /\ popped = <<>>
  BY DEF Init
<1>2. PICK o : o = [j \in Nat |-> c]
  OBVIOUS
<1>o. o \in [Nat -> Chunks] /\ o[0] = c
  BY <1>2
<1>l. ~Full /\ ~Linked /\ ~Moved /\ \A t \in Producers : pc[t] = "idle"
  BY <1>1 DEF Full, Linked, Moved, Last
<1>w. wp \in Cells /\ wp[1] = c /\ wp[2] = 0
  BY <1>1, <1>n DEF Cells
<1>3. Types
  <2>1. p \in [Cells -> Items \union {NoItem}] /\ next \in [Chunks -> Chunks \union {NIL}]
    BY <1>1
  <2>2. slot \in [Producers -> Chunks \X Nat] /\ pushed \in Seq(Items) /\ popped \in Seq(Items)
    BY <1>1
  <2>3. count \in [Producers -> 0 .. MaxItems] /\ chunk \in [Producers -> Chunks \union {NIL}]
        /\ pc \in [Producers -> {"idle", "reserve", "wait"} \union Filling \union Last]
    BY <1>1, <1>n
  <2> QED
    BY <2>1, <2>2, <2>3, <1>1, <1>w, <1>n DEF Types
<1>4. Numbers(0, 0, 0) /\ First(0) = 0
  BY <1>1, <1>l, <1>w DEF Numbers, First
<1>5. Chained(o, 0, 0) /\ Stacked(o, 0)
  BY <1>1, <1>4, <1>o DEF Chained, Stacked
<1>6. Placed(o, o, 0, 0, 0)
  <2>1. Queued(o, 0, 0) = {c} /\ Stack(o, 0) = {} /\ Given = {}
    BY <1>4, <1>o, <1>1 DEF Queued, Stack, Given
  <2>2. Taken = {}
    BY <1>l DEF Taken
  <2> QED
    BY <2>1, <2>2, <1>1 DEF Placed, Parted
<1>7. Reading(o, 0) /\ Writing(o, 0)
  BY <1>1, <1>l, <1>w, <1>o, <1>n DEF Reading, Writing
<1>8. OneLast /\ Reserved /\ Apart /\ LastCell(o, 0) /\ Written(o, 0) /\ Counted
  BY <1>1, <1>l, <1>w, <1>n DEF OneLast, Reserved, Apart, LastCell, Written, Counted,
     Full, Filling, Last
<1>9. Contents(o, 0, 0)
  BY <1>1, <1>w DEF Contents, Unread, Readable
<1> QED
  BY <1>3, <1>4, <1>5, <1>6, <1>7, <1>8, <1>9, <1>o DEF IInv, Inv

\* Every step of a producer or of the consumer preserves the invariant.
LEMMA NextInv == SizeAssumption /\ ChunkAssumption /\ IInv /\ [Next]_vars => IInv'
<1> SUFFICES ASSUME SizeAssumption, ChunkAssumption, IInv, [Next]_vars
             PROVE  IInv'
  OBVIOUS
<1>1. PICK o, s \in [Nat -> Chunks], r, w, l, f \in Nat : Inv(o, s, r, w, l, f)
  BY DEF IInv
<1>2. CASE UNCHANGED vars
  <2>i. Inv(o, s, r, w, l, f)
    BY <1>1
  <2>u. /\ p' = p /\ next' = next /\ fresh' = fresh /\ m_free' = m_free /\ m_c' = m_c /\ m_w' = m_w
        /\ m_r' = m_r /\ wpos' = wpos /\ wp' = wp /\ rpos' = rpos /\ rp' = rp /\ pc' = pc
        /\ slot' = slot /\ chunk' = chunk /\ count' = count /\ cpc' = cpc /\ old' = old
        /\ pushed' = pushed /\ popped' = popped
    BY <1>2 DEF vars, wvars, rvars
  <2>1. Types'
    BY <2>i, <2>u DEF Inv, Types
  <2>2. Numbers(r, w, l)'
    BY <2>i, <2>u DEF Inv, Numbers, Linked
  <2>3. Chained(o, r, l)'
    BY <2>i, <2>u DEF Inv, Chained, First
  <2>4. Stacked(s, f)'
    BY <2>i, <2>u DEF Inv, Stacked
  <2>5. Placed(o, s, r, l, f)'
    BY <2>i, <2>u, SamePlaces DEF Inv
  <2>6. Reading(o, r)'
    BY <2>i, <2>u DEF Inv, Reading
  <2>7. Writing(o, w)'
    BY <2>i, <2>u DEF Inv, Writing, Moved
  <2>8. OneLast'
    BY <2>i, <2>u DEF Inv, OneLast, Full
  <2>9. Reserved'
    BY <2>i, <2>u DEF Inv, Reserved
  <2>10. Apart'
    BY <2>i, <2>u DEF Inv, Apart
  <2>11. LastCell(o, w)'
    BY <2>i, <2>u DEF Inv, LastCell
  <2>12. Written(o, w)'
    BY <2>i, <2>u DEF Inv, Written
  <2>13. Counted'
    BY <2>i, <2>u DEF Inv, Counted
  <2>14. Contents(o, r, w)'
    BY <2>i, <2>u, SameContents DEF Inv
  <2> QED
    BY <2>i, <2>1, <2>2, <2>3, <2>4, <2>5, <2>6, <2>7, <2>8, <2>9, <2>10, <2>11, <2>12,
       <2>13, <2>14 DEF IInv, Inv
<1>3. ASSUME NEW t \in Producers, Call(t) \/ Step(t) PROVE IInv'
  <2>1. CASE Call(t)
    BY <2>1, <1>1, CallStep
  <2>2. CASE Reserve(t)
    BY <2>2, <1>1, ReserveStep
  <2>3. CASE Write(t)
    BY <2>3, <1>1, WriteStep
  <2>4. CASE Publish(t)
    BY <2>4, <1>1, PublishStep
  <2>5. CASE Cache(t)
    BY <2>5, <1>1, CacheStep
  <2>6. CASE Allocate(t)
    BY <2>6, <1>1, AllocateStep
  <2>7. CASE Link(t)
    BY <2>7, <1>1, LinkStep
  <2>8. CASE Advance(t)
    BY <2>8, <1>1, AdvanceStep
  <2>9. CASE Switch(t)
    BY <2>9, <1>1, SwitchStep
  <2>10. CASE Reset(t)
    BY <2>10, <1>1, ResetStep
  <2>11. CASE Retry(t)
    BY <2>11, <1>1, RetryStep
  <2> QED
    BY <2>1, <2>2, <2>3, <2>4, <2>5, <2>6, <2>7, <2>8, <2>9, <2>10, <2>11, <1>3 DEF Step
<1>4. CASE Consume
  <2>1. CASE Pop
    BY <2>1, <1>1, PopStep
  <2>2. CASE PopLast
    BY <2>2, <1>1, PopLastStep
  <2>3. CASE Unchain
    BY <2>3, <1>1, UnchainStep
  <2>4. CASE Free
    BY <2>4, <1>1, FreeStep
  <2> QED
    BY <2>1, <2>2, <2>3, <2>4, <1>4 DEF Consume
<1> QED
  BY <1>2, <1>3, <1>4 DEF Next

\* The invariant holds in every state, for any number of producers, chunks and
\* cells of a chunk.
THEOREM Invariant == SafeSpec => []IInv
<1>1. Init => IInv
  BY InitInv, SizeAssumption, ChunkAssumption
<1>2. IInv /\ [Next]_vars => IInv'
  BY NextInv, SizeAssumption, ChunkAssumption
<1> QED
  BY <1>1, <1>2, PTL DEF SafeSpec

----------------------------------------------------------------------------
(* What a walk along the links of the chunks meets *)

\* A set of natural numbers that is not empty has a least element.
LEMMA Least ==
  ASSUME NEW T, T \subseteq Nat, T # {}
  PROVE \E m \in T : \A k \in T : m <= k
<1> DEFINE R == OpToRel(<, Nat)
<1>1. IsWellFoundedOn(R, Nat)
  BY NatLessThanWellFounded
<1>2. \A x, y \in Nat : x < y => <<x, y>> \in R
  BY DEF OpToRel
<1> HIDE DEF R
<1>3. PICK m \in T : \A y \in T : ~ (<<y, m>> \in R)
  BY <1>1, WFMin
<1>4. ASSUME NEW k \in T PROVE m <= k
  <2>1. ~ (k < m)
    BY <1>2, <1>3
  <2> QED BY <2>1
<1> QED BY <1>4

\* Induction, for a set
LEMMA NatSet ==
  ASSUME NEW S, 0 \in S, \A n \in Nat : n \in S => n + 1 \in S
  PROVE Nat \subseteq S
<1>1. SUFFICES ASSUME Nat \ S # {} PROVE FALSE
  OBVIOUS
<1>2. PICK m \in Nat \ S : \A k \in Nat \ S : m <= k
  BY <1>1, Least
<1>3. m # 0 /\ m - 1 \in Nat
  BY <1>2
<1>4. m - 1 \in S
  BY <1>2, <1>3
<1> QED BY <1>2, <1>3, <1>4

\* q[a], ..., q[b] are linked one after another, and the last to no node.
IsPath(link, q, a, b) ==
  /\ a <= b
  /\ \A j \in a .. b : q[j] \in DOMAIN link
  /\ \A j \in a .. b - 1 : link[q[j]] = q[j + 1]
  /\ link[q[b]] \notin DOMAIN link
Nodes(q, a, b) == {q[j] : j \in a .. b}

\* A walk along such a sequence meets its nodes and no other.
LEMMA Walk ==
  ASSUME NEW link, NEW q, NEW a \in Nat, NEW b \in Nat, IsPath(link, q, a, b)
  PROVE  Chain(link, q[a]) = Nodes(q, a, b)
<1> USE DEF IsPath
<1> DEFINE Q == {q[j] : j \in a .. b}
<1>1. Chain(link, q[a]) \subseteq Q
  <2>1. Q \in SUBSET DOMAIN link /\ q[a] \in Q
    OBVIOUS
  <2>2. ASSUME NEW m \in Q, link[m] \in DOMAIN link PROVE link[m] \in Q
    <3>1. PICK j \in a .. b : m = q[j]
      OBVIOUS
    <3>2. j # b
      BY <3>1, <2>2
    <3>3. j \in a .. b - 1 /\ j + 1 \in a .. b
      BY <3>2
    <3> QED
      BY <3>1, <3>3
  <2> QED
    BY <2>1, <2>2 DEF Chain
<1>2. ASSUME NEW k \in a .. b PROVE q[k] \in Chain(link, q[a])
  <2> SUFFICES ASSUME NEW S \in SUBSET DOMAIN link, q[a] \in S,
                      \A m \in S : link[m] \in DOMAIN link => link[m] \in S
               PROVE  q[k] \in S
    BY DEF Chain
  <2> DEFINE T == {n \in Nat : a + n <= b => q[a + n] \in S}
  <2>1. 0 \in T
    OBVIOUS
  <2>2. ASSUME NEW n \in Nat, n \in T PROVE n + 1 \in T
    <3>1. SUFFICES ASSUME a + (n + 1) <= b PROVE q[a + (n + 1)] \in S
      OBVIOUS
    <3>2. a + n \in a .. b - 1 /\ a + (n + 1) \in a .. b /\ (a + n) + 1 = a + (n + 1)
      BY <3>1
    <3>3. q[a + n] \in S
      BY <3>2, <2>2
    <3>4. link[q[a + n]] = q[a + (n + 1)]
      BY <3>2
    <3> QED
      BY <3>2, <3>3, <3>4
  <2>3. k - a \in T
    <3> HIDE DEF T
    <3>1. Nat \subseteq T
      BY <2>1, <2>2, NatSet
    <3>2. k - a \in Nat
      OBVIOUS
    <3> QED
      BY <3>1, <3>2
  <2> QED
    BY <2>3
<1> QED
  BY <1>1, <1>2 DEF Nodes

----------------------------------------------------------------------------
(* The chunks are accounted for and nobody shares a cell *)

\* What fin() finds from m_c on and from m_free on.
LEMMA Chains ==
  ASSUME SizeAssumption, ChunkAssumption, NEW o, NEW s,
         NEW r \in Nat, NEW w \in Nat, NEW l \in Nat, NEW f \in Nat, Inv(o, s, r, w, l, f)
  PROVE  Used = Queued(o, r, l) /\ Spare = Stack(s, f)
<1>i. /\ o \in [Nat -> Chunks] /\ s \in [Nat -> Chunks]
      /\ Types /\ Numbers(r, w, l) /\ Chained(o, r, l) /\ Stacked(s, f) /\ Reading(o, r)
  BY DEF Inv
<1>n. NIL \notin Chunks /\ DOMAIN next = Chunks
  BY <1>i DEF ChunkAssumption, Types
<1>1. Used = Queued(o, r, l)
  <2>1. First(r) \in Nat /\ First(r) <= l /\ m_c = o[First(r)]
    BY <1>i DEF First, Numbers, Reading, Types
  <2>2. \A j \in First(r) .. l : o[j] \in DOMAIN next
    BY <2>1, <1>i, <1>n
  <2>3. next[o[l]] \notin DOMAIN next
    BY <1>i, <1>n DEF Chained
  <2>4. \A j \in First(r) .. l - 1 : next[o[j]] = o[j + 1]
    BY <1>i DEF Chained
  <2>5. IsPath(next, o, First(r), l)
    BY <2>1, <2>2, <2>3, <2>4 DEF IsPath
  <2>6. Chain(next, o[First(r)]) = Nodes(o, First(r), l)
    BY <2>1, <2>5, Walk
  <2> QED
    BY <2>1, <2>6 DEF Used, Queued, Nodes
<1>2. Spare = Stack(s, f)
  <2>1. CASE f = 0
    <3>1. m_free = NIL /\ Stack(s, f) = {}
      BY <2>1, <1>i DEF Stacked, Stack
    <3>2. Chain(next, NIL) = {}
      <4>1. {} \in SUBSET DOMAIN next /\ NIL \notin DOMAIN next
        BY <1>n
      <4> QED
        BY <4>1 DEF Chain
    <3> QED
      BY <3>1, <3>2 DEF Spare
  <2>2. CASE f # 0
    <3>1. PICK q : q = [j \in Nat |-> s[f - 1 - j]]
      OBVIOUS
    <3>2. \A j \in 0 .. f - 1 : f - 1 - j \in 0 .. f - 1 /\ q[j] = s[f - 1 - j] /\ q[j] \in Chunks
      BY <3>1, <1>i
    <3>3. \A j \in 0 .. f - 1 : q[j] \in DOMAIN next
      BY <3>2, <1>n
    <3>4. ASSUME NEW j \in 0 .. (f - 1) - 1 PROVE next[q[j]] = q[j + 1]
      <4>1. /\ j \in 0 .. f - 1 /\ j + 1 \in 0 .. f - 1 /\ f - 1 - j # 0
            /\ (f - 1 - j) - 1 = f - 1 - (j + 1)
        OBVIOUS
      <4>2. next[s[f - 1 - j]] = s[(f - 1 - j) - 1]
        BY <4>1, <3>2, <1>i DEF Stacked
      <4> QED
        BY <4>1, <4>2, <3>2
    <3>5. next[q[f - 1]] \notin DOMAIN next
      <4>1. 0 \in 0 .. f - 1 /\ f - 1 \in 0 .. f - 1 /\ f - 1 - (f - 1) = 0
        BY <2>2
      <4>2. next[s[0]] = NIL
        BY <4>1, <1>i DEF Stacked
      <4> QED
        BY <4>1, <4>2, <3>2, <1>n
    <3>6. Chain(next, q[0]) = Nodes(q, 0, f - 1)
      <4>1. 0 \in Nat /\ f - 1 \in Nat /\ 0 <= f - 1
        BY <2>2
      <4>2. IsPath(next, q, 0, f - 1)
        BY <4>1, <3>3, <3>4, <3>5 DEF IsPath
      <4> QED
        BY <4>1, <4>2, Walk
    <3>7. m_free = q[0]
      <4>1. 0 \in 0 .. f - 1 /\ f - 1 - 0 = f - 1
        BY <2>2
      <4> QED
        BY <4>1, <3>2, <2>2, <1>i DEF Stacked
    <3>8. Nodes(q, 0, f - 1) = Stack(s, f)
      <4>1. \A i \in 0 .. f - 1 : f - 1 - i \in 0 .. f - 1 /\ q[f - 1 - i] = s[i]
        <5>1. \A i \in 0 .. f - 1 : f - 1 - i \in 0 .. f - 1 /\ f - 1 - (f - 1 - i) = i
          OBVIOUS
        <5> QED
          BY <5>1, <3>2
      <4>2. ASSUME NEW x \in Nodes(q, 0, f - 1) PROVE x \in Stack(s, f)
        <5>1. PICK j \in 0 .. f - 1 : x = q[j]
          BY DEF Nodes
        <5> QED
          BY <5>1, <3>2 DEF Stack
      <4>3. ASSUME NEW x \in Stack(s, f) PROVE x \in Nodes(q, 0, f - 1)
        <5>1. PICK i \in 0 .. f - 1 : x = s[i]
          BY DEF Stack
        <5> QED
          BY <5>1, <4>1 DEF Nodes
      <4> QED
        BY <4>2, <4>3
    <3> QED
      BY <3>6, <3>7, <3>8 DEF Spare
  <2> QED
    BY <2>1, <2>2
<1> QED
  BY <1>1, <1>2

\* The invariant has the property that the runs check.
LEMMA InvOwnCells == SizeAssumption /\ ChunkAssumption /\ IInv => OwnCells
<1> SUFFICES ASSUME SizeAssumption, ChunkAssumption, IInv
             PROVE  OwnCells
  OBVIOUS
<1>1. PICK o, s \in [Nat -> Chunks], r, w, l, f \in Nat : Inv(o, s, r, w, l, f)
  BY DEF IInv
<1>i. /\ Types /\ Numbers(r, w, l) /\ Chained(o, r, l) /\ Stacked(s, f)
      /\ Placed(o, s, r, l, f) /\ Reading(o, r) /\ Writing(o, w) /\ OneLast /\ Reserved /\ Apart
      /\ LastCell(o, w) /\ Written(o, w) /\ Contents(o, r, w)
  BY <1>1 DEF Inv
<1>n. N \in Nat /\ N > 1 /\ NIL \notin Chunks
  BY DEF SizeAssumption, ChunkAssumption
<1>t. /\ \A u \in Producers : slot[u][2] \in Nat
      /\ wp[2] \in 0 .. N - 1 /\ wpos \in Nat /\ rpos \in 0 .. N
  BY <1>i, <1>n DEF Types, Cells
<1>2. TypeOK
  <2>1. Full <=> \E t \in Producers :
                    pc[t] \in {"last", "expand", "link", "advance", "switch", "reset"}
    BY DEF Full, Last
  <2> QED
    BY <2>1, <1>i DEF TypeOK, Types, OneLast
<1>3. ChunksAccounted
  <2>1. Used = Queued(o, r, l) /\ Spare = Stack(s, f)
    BY <1>1, Chains
  <2>2. /\ First(r) \in Nat /\ First(r) <= r /\ r <= w /\ w <= l /\ l \in Nat
        /\ Linked => l = w + 1
        /\ Moved => Linked
    BY <1>i DEF Numbers, First, Linked, Moved
  <2>3. m_r \in Used /\ m_w \in Used /\ wp[1] \in Used
    <3>1. o[r] \in Used /\ o[w] \in Used /\ (Moved => o[w + 1] \in Used)
      BY <2>1, <2>2 DEF Queued
    <3> QED
      BY <3>1, <1>i DEF Reading, Writing
  <2>4. Used \intersect Spare = {}
    BY <2>1, <1>i DEF Placed, Parted
  <2>5. ASSUME cpc = "idle"
        PROVE  /\ Used \union Spare \union Moving = Chunks \ fresh
               /\ Moving \intersect (Used \union Spare) = {}
    <3>1. Moving = Taken /\ Given = {}
      BY <2>5, <1>i DEF Moving, Taken, Given, Reading
    <3> QED
      BY <2>1, <3>1, <1>i DEF Placed, Parted
  <2> QED
    BY <2>3, <2>4, <2>5 DEF ChunksAccounted
<1>4. ASSUME NEW t \in Producers, NEW u \in Producers, t # u,
             {pc[t], pc[u]} \subseteq {"publish", "expand", "link", "advance", "switch"}
      PROVE  slot[t] # slot[u]
  <2>1. \A x \in {t, u} : pc[x] = "publish" \/ pc[x] \in Last \ {"reset"}
    BY <1>4 DEF Last
  <2>2. slot[t][2] # slot[u][2]
    BY <2>1, <1>4, <1>i, <1>t, <1>n DEF Reserved, Apart, LastCell, OneLast, Filling
  <2> QED
    BY <2>2
<1>5. ASSUME NEW t \in Producers, pc[t] \in {"publish", "expand", "link", "advance"}, cpc = "idle"
      PROVE  ~(slot[t][1] = m_r /\ slot[t][2] < rpos)
  <2>1. slot[t][1] = o[w] /\ m_r = o[r]
    BY <1>5, <1>i DEF Written, Reading
  <2>2. wp[2] <= slot[t][2]
    <3>1. CASE pc[t] = "publish"
      BY <3>1, <1>i DEF Reserved, Filling
    <3>2. CASE pc[t] # "publish"
      BY <3>2, <1>5, <1>i, <1>t, <1>n DEF LastCell, Last
    <3> QED
      BY <3>1, <3>2
  <2>3. o[w] = o[r] => w = r
    <3>1. r \in First(r) .. l /\ w \in First(r) .. l
      BY <1>5, <1>i DEF Numbers, First
    <3> QED
      BY <3>1, <1>i DEF Chained
  <2> QED
    BY <2>1, <2>2, <2>3, <1>5, <1>i, <1>t DEF Numbers
<1> QED
  BY <1>2, <1>3, <1>4, <1>5 DEF OwnCells

\* No chunk is lost or in two places, two producers never have the same cell,
\* and the consumer has not got to a cell that is being written.
THEOREM CellsAndChunks == SafeSpec => []OwnCells
<1>1. IInv => OwnCells
  BY InvOwnCells, SizeAssumption, ChunkAssumption
<1> QED
  BY <1>1, Invariant, PTL

----------------------------------------------------------------------------
(* The queue is a FIFO *)

\* Nothing is pushed or popped at first.
LEMMA FifoInit == Init => Queue!Init
BY DEF Init, Queue!Init

\* Publish and Switch push, Pop and PopLast pop, and the other steps leave the
\* FIFO as it is.
LEMMA FifoStep ==
  SizeAssumption /\ ChunkAssumption /\ IInv /\ [Next]_vars => [Queue!Next]_(Queue!vars)
<1> SUFFICES ASSUME SizeAssumption, ChunkAssumption, IInv, [Next]_vars
             PROVE  [Queue!Next]_(Queue!vars)
  OBVIOUS
<1>1. PICK o, s \in [Nat -> Chunks], r, w, l, f \in Nat : Inv(o, s, r, w, l, f)
  BY DEF IInv
<1>2. ASSUME NEW t \in Producers, Publish(t) \/ Switch(t) PROVE Queue!Next
  <2>1. Types /\ Counted
    BY <1>1 DEF Inv
  <2>2. count[t] \in 0 .. MaxItems /\ count[t] > 0 /\ MaxItems \in Nat
    <3>1. pc[t] # "idle"
      BY <1>2 DEF Publish, Switch
    <3> QED
      BY <3>1, <2>1 DEF Types, Counted, SizeAssumption
  <2>3. pushed' = Append(pushed, <<t, count[t]>>) /\ popped' = popped
    BY <1>2 DEF Publish, Switch, rvars
  <2>4. <<t, count[t]>> \in Items
    BY <2>2 DEF Items
  <2>5. Queue!Push(<<t, count[t]>>)
    BY <2>3 DEF Queue!Push
  <2> QED
    BY <2>4, <2>5 DEF Queue!Next
<1>3. CASE Pop \/ PopLast
  <2>1. cpc = "idle" /\ rp # wp /\ popped' = Append(popped, p[rp]) /\ pushed' = pushed
    BY <1>3 DEF Pop, PopLast, wvars
  <2>2. Len(popped) < Len(pushed) /\ p[rp] = pushed[Len(popped) + 1]
    BY <1>1, <2>1, Front
  <2> QED
    BY <2>1, <2>2 DEF Queue!Next, Queue!Pop
<1>4. CASE Unchain \/ Free \/ UNCHANGED vars
  BY <1>4 DEF Unchain, Free, vars, wvars, rvars, Queue!vars
<1>5. ASSUME NEW t \in Producers,
             Call(t) \/ Reserve(t) \/ Write(t) \/ Cache(t) \/ Allocate(t) \/ Link(t)
               \/ Advance(t) \/ Reset(t) \/ Retry(t)
      PROVE  UNCHANGED Queue!vars
  BY <1>5 DEF Call, Reserve, Write, Cache, Allocate, Link, Advance, Reset, Retry, rvars,
     Queue!vars
<1> QED
  BY <1>2, <1>3, <1>4, <1>5 DEF Next, Consume, Step

\* mpush and pop are the push and pop of a FIFO: what is popped is what was
\* pushed, in that order, nothing twice and nothing left out.
THEOREM Refinement == SafeSpec => Queue!SafeSpec
<1>1. Init => Queue!Init
  BY FifoInit
<1>2. IInv /\ [Next]_vars => [Queue!Next]_(Queue!vars)
  BY FifoStep, SizeAssumption, ChunkAssumption
<1> QED
  BY <1>1, <1>2, Invariant, PTL DEF SafeSpec, Queue!SafeSpec
============================================================================
