----------------------------- MODULE WbufProofs -----------------------------
(***************************************************************************)
(* Theorems about the output of a socket, for any number of workers and of *)
(* senders, any sizes of messages and any number of units.                 *)
(*                                                                         *)
(* That one thread at a time works on curr is not inductive.  What is, is  *)
(* that there is one chain: a sender about to arm the write poller, the    *)
(* armed poller, a queued task and a worker in write_command exclude each  *)
(* other, and m_flag is set while there is one of them (OneChain).  With   *)
(* one worker there may be two chains, but then they take turns (OneTask,  *)
(* Alone).  Held is why a buffer of length 0 has no data although attach,  *)
(* when it fails, takes off the length without the data.                   *)
(***************************************************************************)
EXTENDS Wbuf, SequenceTheorems, TLAPS

\* The worker that establishes the connection has not yet armed the poller.
Opening == {"establish", "detach", "set"}

\* What threads do: workers work and senders send.
Roles ==
  /\ \A w \in Workers : /\ pc[w] \notin {"flag", "attach"}
                        /\ pc[w] \in Opening => w = Opener
  /\ \A s \in Senders : pc[s] \in {"idle", "flag", "attach"}

\* The buffers are records.
Buffer == [data : Seq(1 .. MaxUnits), last : Nat]
Buffers == next \in Buffer /\ curr \in Buffer

\* Nothing of the chain of the worker w is under way.
Idle(w) == que[w] = 0 /\ ~InWrite(w)

\* The socket is entered into the write poller when the opening is over, and
\* no event came before.
Entered ==
  /\ wfd = "out" <=> pc[Opener] \in Opening
  /\ wfd = "out" => ~ready /\ \A w \in Workers : Idle(w)

\* A worker has one task, or is in it.
OneTask == \A w \in Workers : que[w] <= 1 /\ (InWrite(w) => que[w] = 0)

\* A single worker is the opener.
Alone == solo => \A w \in Workers \ {Opener} : Idle(w)

\* With several workers there is one chain, and none while the flag is 0.
OneChain ==
  ~solo =>
    /\ ~ready => mtx = "none" /\ next.last = 0
    /\ wfd = "armed" => \A w \in Workers : Idle(w)
    /\ \A s \in Senders : pc[s] = "attach" => wfd # "armed" /\ \A w \in Workers : Idle(w)
    /\ \A w, v \in Workers : w # v => Idle(w) \/ Idle(v)
    /\ m_flag = 0 /\ ready => /\ wfd # "armed" /\ \A w \in Workers : Idle(w)
                              /\ \A s \in Senders : pc[s] # "attach"

\* A buffer of length 0 has no data, and the part that a sender would take off
\* next again is less than its length.
Held ==
  /\ next.last = 0 => next.data = <<>>
  /\ curr.last = 0 => curr.data = <<>>
  /\ \A s \in Senders : mtx = s => size[s] < next.last

\* What was sent is on the wire or in the buffers, in order.
Sequence == (wire \o curr.data) \o next.data = Numbers(0, total)

\* The inductive invariant
IInv == /\ TypeOK /\ Buffers /\ Roles /\ Entered /\ OneTask /\ Alone /\ OneChain
        /\ Held /\ Sequence

Unit == 1 .. MaxUnits

----------------------------------------------------------------------------
(* Sequences of units *)

\* The numbers after from are a sequence of units.
LEMMA NumbersType ==
  ASSUME NEW m \in Nat, NEW n \in Nat, m + n <= MaxUnits
  PROVE  /\ Numbers(m, n) \in Seq(Unit) /\ Len(Numbers(m, n)) = n
         /\ \A i \in 1 .. n : Numbers(m, n)[i] = m + i
<1>1. Numbers(m, n) \in [1 .. n -> Unit]
  BY SizesAssumption DEF Numbers, Unit
<1>2. Numbers(m, n) \in Seq(Unit)
  BY <1>1, SeqDef
<1> QED
  BY <1>1, <1>2, LenProperties DEF Numbers

\* A message is numbered on from those before it.
LEMMA NumbersConcat ==
  ASSUME NEW n \in Nat, NEW m \in Nat, n + m <= MaxUnits
  PROVE  Numbers(0, n) \o Numbers(n, m) = Numbers(0, n + m)
<1> DEFINE a == Numbers(0, n)
           b == Numbers(n, m)
           c == Numbers(0, n + m)
<1>1. a \in Seq(Unit) /\ Len(a) = n /\ \A i \in 1 .. n : a[i] = i
  <2>1. 0 + n <= MaxUnits /\ \A i \in 1 .. n : 0 + i = i
    BY SizesAssumption
  <2> QED
    BY <2>1, NumbersType
<1>2. b \in Seq(Unit) /\ Len(b) = m /\ \A i \in 1 .. m : b[i] = n + i
  BY NumbersType
<1>3. c \in Seq(Unit) /\ Len(c) = n + m /\ \A i \in 1 .. n + m : c[i] = i
  <2>1. n + m \in Nat /\ 0 + (n + m) <= MaxUnits /\ \A i \in 1 .. n + m : 0 + i = i
    OBVIOUS
  <2> QED
    BY <2>1, NumbersType
<1> HIDE DEF a, b, c
<1>4. /\ a \o b \in Seq(Unit) /\ Len(a \o b) = Len(a) + Len(b)
      /\ \A i \in 1 .. Len(a) + Len(b) :
           (a \o b)[i] = IF i <= Len(a) THEN a[i] ELSE b[i - Len(a)]
  BY <1>1, <1>2, ConcatProperties
<1>5. ASSUME NEW i \in 1 .. n + m PROVE (a \o b)[i] = c[i]
  <2>1. CASE i <= n
    BY <1>1, <1>2, <1>3, <1>4, <2>1
  <2>2. CASE i > n
    <3>1. i - n \in 1 .. m /\ ~(i <= n)
      BY <2>2
    <3>2. (a \o b)[i] = b[i - n]
      BY <1>1, <1>2, <1>4, <3>1
    <3>3. b[i - n] = n + (i - n) /\ n + (i - n) = i
      BY <1>2, <3>1
    <3> QED
      BY <1>3, <3>2, <3>3
  <2>3. i <= n \/ i > n
    OBVIOUS
  <2> QED
    BY <2>1, <2>2, <2>3
<1>6. a \o b = c
  BY <1>1, <1>2, <1>3, <1>4, <1>5, SeqEqual
<1> QED
  BY <1>6 DEF a, b, c

\* Concatenation is associative.
LEMMA Associative ==
  \A s, t, u \in Seq(Unit) : (s \o t) \o u = s \o (t \o u)
BY ConcatAssociative, Z3T(30)

\* A write moves the first part of curr to the end of the wire.
LEMMA Cut ==
  ASSUME NEW s \in Seq(Unit), NEW t \in Seq(Unit), NEW r \in 1 .. Len(t)
  PROVE  /\ SubSeq(t, 1, r) \in Seq(Unit) /\ SubSeq(t, r + 1, Len(t)) \in Seq(Unit)
         /\ (s \o SubSeq(t, 1, r)) \o SubSeq(t, r + 1, Len(t)) = s \o t
         /\ r = Len(t) => s \o SubSeq(t, 1, r) = s \o t
<1> DEFINE a == SubSeq(t, 1, r)
           b == SubSeq(t, r + 1, Len(t))
<1>1. Len(t) \in Nat /\ \A i \in 1 .. Len(t) : t[i] \in Unit
  BY LenProperties, ElementOfSeq
<1>2. a \in Seq(Unit)
  BY <1>1, SubSeqProperties
<1>3. b \in Seq(Unit)
  BY <1>1, SubSeqProperties
<1>4. a \o b = SubSeq(t, 1, Len(t)) /\ SubSeq(t, 1, Len(t)) = t
  <2>1. /\ 1 \in 1 .. Len(t) + 1 /\ r \in 1 - 1 .. Len(t) /\ Len(t) \in r .. Len(t)
    BY <1>1
  <2> QED
    BY <2>1, ConcatAdjacentSubSeq, SubSeqFull
<1> HIDE DEF a, b
<1>5. (s \o a) \o b = s \o (a \o b)
  BY <1>2, <1>3, Associative, ZenonT(20)
<1>6. r = Len(t) => a = t
  BY SubSeqFull DEF a
<1>7. (s \o a) \o b = s \o t
  BY <1>4, <1>5
<1> QED
  BY <1>2, <1>3, <1>6, <1>7 DEF a, b

----------------------------------------------------------------------------
(* Every action keeps the invariant *)

\* The state is changed first, and senders may begin (socket.h:158-163).
LEMMA ChangeStateStep ==
  ASSUME IInv, NEW w \in Workers, ChangeState(w)
  PROVE  IInv'
<1> USE ActorAssumption, SizesAssumption DEF IInv, ChangeState, Goto, hist, sending
<1>1. TypeOK'
  BY DEF TypeOK
<1>2. Buffers'
  BY DEF Buffers, Buffer, TypeOK
<1>3. Roles'
  BY DEF Roles, Opening, TypeOK
<1>4. Entered'
  BY DEF Entered, Roles, Idle, InWrite, Opening, TypeOK
<1>5. OneTask'
  BY DEF OneTask, InWrite, TypeOK
<1>6. Alone'
  BY DEF Alone, Idle, InWrite, Roles, TypeOK
<1>7. OneChain'
  BY DEF OneChain, Idle, InWrite, Entered, Opening, OneTask, Roles, TypeOK
<1>8. Held'
  BY DEF Held, TypeOK
<1>9. Sequence'
  BY DEF Sequence
<1> QED
  BY <1>1, <1>2, <1>3, <1>4, <1>5, <1>6, <1>7, <1>8, <1>9

\* The flag is cleared, perhaps while a sender of the same worker holds it.
LEMMA WriteDetachStep ==
  ASSUME IInv, NEW w \in Workers, WriteDetach(w)
  PROVE  IInv'
<1> USE ActorAssumption, SizesAssumption DEF IInv, WriteDetach, Goto, hist, sending
<1>1. TypeOK'
  BY DEF TypeOK
<1>2. Buffers'
  BY DEF Buffers, Buffer, TypeOK
<1>3. Roles'
  BY DEF Roles, Opening, TypeOK
<1>4. Entered'
  BY DEF Entered, Roles, Idle, InWrite, Opening, TypeOK
<1>5. OneTask'
  BY DEF OneTask, InWrite, TypeOK
<1>6. Alone'
  BY DEF Alone, Idle, InWrite, Roles, TypeOK
<1>7. OneChain'
  BY DEF OneChain, Idle, InWrite, Entered, Opening, OneTask, Roles, TypeOK
<1>8. Held'
  BY DEF Held, TypeOK
<1>9. Sequence'
  BY DEF Sequence
<1> QED
  BY <1>1, <1>2, <1>3, <1>4, <1>5, <1>6, <1>7, <1>8, <1>9

\* The write poller is armed for the first time: nothing is under way.
LEMMA SetWbufStep ==
  ASSUME IInv, NEW w \in Workers, SetWbuf(w)
  PROVE  IInv'
<1> USE ActorAssumption, SizesAssumption DEF IInv, SetWbuf, Goto, hist, sending
<1>1. TypeOK'
  BY DEF TypeOK
<1>2. Buffers'
  BY DEF Buffers, Buffer, TypeOK
<1>3. Roles'
  BY DEF Roles, Opening, TypeOK
<1>4. Entered'
  BY DEF Entered, Roles, Idle, InWrite, Opening, TypeOK
<1>5. OneTask'
  BY DEF OneTask, InWrite, TypeOK
<1>6. Alone'
  BY DEF Alone, Idle, InWrite, Roles, TypeOK
<1>7. OneChain'
  BY DEF OneChain, Idle, InWrite, Entered, Opening, OneTask, Roles, TypeOK
<1>8. Held'
  BY DEF Held, TypeOK
<1>9. Sequence'
  BY DEF Sequence
<1> QED
  BY <1>1, <1>2, <1>3, <1>4, <1>5, <1>6, <1>7, <1>8, <1>9

\* A sender that sets the flag finds nothing under way (wbuf.h:370).
LEMMA WriteAttachStep ==
  ASSUME IInv, NEW s \in Senders, WriteAttach(s)
  PROVE  IInv'
<1> USE ActorAssumption, SizesAssumption DEF IInv, WriteAttach, Goto, hist, sending
<1>1. TypeOK'
  <2>1. /\ s \in DOMAIN pc /\ pc[s] # "idle" /\ mtx = s
        /\ \A t \in Senders \ {s} : pc[t] = "idle"
    BY DEF TypeOK
  <2>2. m_flag' \in {0, 1} /\ mtx' \in Senders \union {"none"}
    BY <2>1
  <2>3. pc' \in [Workers \union Senders ->
                   {"idle", "establish", "detach", "set", "read", "write", "call", "flag",
                    "attach"}]
    BY DEF TypeOK
  <2>4. \A t \in Senders : pc'[t] # "idle" <=> mtx' = t
    <3>1. CASE mtx' = s /\ pc' = [pc EXCEPT ![s] = "attach"]
      BY <2>1, <3>1
    <3>2. CASE mtx' = "none" /\ pc' = [pc EXCEPT ![s] = "idle"]
      BY <2>1, <3>2
    <3> QED
      BY <2>1, <3>1, <3>2
  <2> QED
    BY <2>2, <2>3, <2>4 DEF TypeOK
<1>2. Buffers'
  BY DEF Buffers, Buffer, TypeOK
<1>3. Roles'
  BY DEF Roles, Opening, TypeOK
<1>4. Entered'
  BY DEF Entered, Roles, Idle, InWrite, Opening, TypeOK
<1>5. OneTask'
  BY DEF OneTask, InWrite, TypeOK
<1>6. Alone'
  BY DEF Alone, Idle, InWrite, Roles, TypeOK
<1>7. OneChain'
  BY DEF OneChain, Idle, InWrite, Entered, Opening, OneTask, Roles, TypeOK
<1>8. Held'
  BY DEF Held, TypeOK
<1>9. Sequence'
  BY DEF Sequence
<1> QED
  BY <1>1, <1>2, <1>3, <1>4, <1>5, <1>6, <1>7, <1>8, <1>9

\* The poller is armed, or what Held says is left is taken off (wbuf.h:372-383).
LEMMA AttachStep ==
  ASSUME IInv, NEW s \in Senders, Attach(s)
  PROVE  IInv'
<1> USE ActorAssumption, SizesAssumption DEF IInv, Attach, Goto, hist, sending
<1>n. /\ next' \in Buffer /\ next'.data = next.data /\ mtx = s /\ mtx' = "none"
      /\ next'.last = next.last \/ next'.last = next.last - size[s]
      /\ next'.last \in Nat \ {0} /\ UNCHANGED <<curr, wire, total>>
  <2>1. size[s] \in Nat /\ size[s] < next.last /\ mtx = s
    BY DEF TypeOK, Held, Roles
  <2>2. next \in Buffer /\ next.last \in Nat
    BY DEF Buffers, Buffer
  <2>3. next.last \in Nat \ {0} /\ next.last - size[s] \in Nat \ {0}
    BY <2>1, <2>2
  <2>4. [next EXCEPT !.last = @ - size[s]] \in Buffer
    BY <2>2, <2>3 DEF Buffer
  <2>5. /\ [next EXCEPT !.last = @ - size[s]].data = next.data
        /\ [next EXCEPT !.last = @ - size[s]].last = next.last - size[s]
    BY <2>2 DEF Buffer
  <2> QED
    BY <2>1, <2>2, <2>3, <2>4, <2>5
<1>1. TypeOK'
  BY <1>n DEF TypeOK, Buffer
<1>2. Buffers'
  BY <1>n DEF Buffers
<1>3. Roles'
  BY DEF Roles, Opening, TypeOK
<1>4. Entered'
  BY DEF Entered, Roles, Idle, InWrite, Opening, TypeOK
<1>5. OneTask'
  BY DEF OneTask, InWrite, TypeOK
<1>6. Alone'
  BY DEF Alone, Idle, InWrite, Roles, TypeOK
<1>7. OneChain'
  <2>1. /\ s \in DOMAIN pc /\ s \notin Workers /\ pc'[s] = "idle"
        /\ \A t \in Senders \ {s} : pc'[t] = pc[t]
        /\ \A w \in Workers : pc'[w] = pc[w] /\ que'[w] = que[w]
    BY DEF TypeOK
  <2>2. \A w \in Workers : Idle(w)' <=> Idle(w)
    BY <2>1 DEF Idle, InWrite
  <2>3. \A t \in Senders : pc'[t] # "attach"
    BY <1>n, <2>1 DEF TypeOK
  <2> SUFFICES ASSUME ~solo PROVE OneChain'
    BY DEF OneChain
  <2>4. \A w \in Workers : Idle(w)
    BY DEF OneChain
  <2>5. ready
    BY <1>n, ActorAssumption DEF OneChain
  <2>6. wfd # "out"
    BY <2>5 DEF Entered
  <2>7. m_flag # 0
    BY <2>5 DEF OneChain
  <2> QED
    BY <2>2, <2>3, <2>4, <2>5, <2>6, <2>7 DEF OneChain
<1>8. Held'
  BY <1>n DEF Held
<1>9. Sequence'
  BY <1>n DEF Sequence
<1> QED
  BY <1>1, <1>2, <1>3, <1>4, <1>5, <1>6, <1>7, <1>8, <1>9

\* The event of the poller goes to a worker without tasks.
LEMMA WriteEventStep ==
  ASSUME IInv, NEW w \in Workers, WriteEvent(w)
  PROVE  IInv'
<1> USE ActorAssumption, SizesAssumption DEF IInv, WriteEvent, Goto, Waits, hist, sending
<1>1. TypeOK'
  BY DEF TypeOK
<1>2. Buffers'
  BY DEF Buffers, Buffer, TypeOK
<1>3. Roles'
  BY DEF Roles, Opening, TypeOK
<1>4. Entered'
  BY DEF Entered, Roles, Idle, InWrite, Opening, TypeOK
<1>5. OneTask'
  BY DEF OneTask, InWrite, TypeOK
<1>6. Alone'
  BY DEF Alone, Idle, InWrite, Roles, TypeOK
<1>7. OneChain'
  BY DEF OneChain, Idle, InWrite, Entered, Opening, OneTask, Roles, TypeOK
<1>8. Held'
  BY DEF Held, TypeOK
<1>9. Sequence'
  BY DEF Sequence
<1> QED
  BY <1>1, <1>2, <1>3, <1>4, <1>5, <1>6, <1>7, <1>8, <1>9

\* A task of the chain.
LEMMA TaskStep ==
  ASSUME IInv, NEW w \in Workers, Task(w)
  PROVE  IInv'
<1> USE ActorAssumption, SizesAssumption DEF IInv, Task, Goto, hist, sending
<1>1. TypeOK'
  BY DEF TypeOK
<1>2. Buffers'
  BY DEF Buffers, Buffer, TypeOK
<1>3. Roles'
  BY DEF Roles, Opening, TypeOK
<1>4. Entered'
  BY DEF Entered, Roles, Idle, InWrite, Opening, TypeOK
<1>5. OneTask'
  BY DEF OneTask, InWrite, TypeOK
<1>6. Alone'
  BY DEF Alone, Idle, InWrite, Roles, TypeOK
<1>7. OneChain'
  BY DEF OneChain, Idle, InWrite, Entered, Opening, OneTask, Roles, TypeOK
<1>8. Held'
  BY DEF Held, TypeOK
<1>9. Sequence'
  BY DEF Sequence
<1> QED
  BY <1>1, <1>2, <1>3, <1>4, <1>5, <1>6, <1>7, <1>8, <1>9

\* A worker looks at curr.
LEMMA LookStep ==
  ASSUME IInv, NEW w \in Workers, Look(w)
  PROVE  IInv'
<1> USE ActorAssumption, SizesAssumption DEF IInv, Look, Goto, hist, sending
<1>1. TypeOK'
  BY DEF TypeOK
<1>2. Buffers'
  BY DEF Buffers, Buffer, TypeOK
<1>3. Roles'
  BY DEF Roles, Opening, TypeOK
<1>4. Entered'
  BY DEF Entered, Roles, Idle, InWrite, Opening, TypeOK
<1>5. OneTask'
  BY DEF OneTask, InWrite, TypeOK
<1>6. Alone'
  BY DEF Alone, Idle, InWrite, Roles, TypeOK
<1>7. OneChain'
  BY DEF OneChain, Idle, InWrite, Entered, Opening, OneTask, Roles, TypeOK
<1>8. Held'
  BY DEF Held, TypeOK
<1>9. Sequence'
  BY DEF Sequence
<1> QED
  BY <1>1, <1>2, <1>3, <1>4, <1>5, <1>6, <1>7, <1>8, <1>9

\* Nothing is written, and the chain may end.
LEMMA WriteAgainStep ==
  ASSUME IInv, NEW w \in Workers, WriteAgain(w)
  PROVE  IInv'
<1> USE ActorAssumption, SizesAssumption DEF IInv, WriteAgain, Done, Goto, sending
<1>1. TypeOK'
  BY DEF TypeOK
<1>2. Buffers'
  BY DEF Buffers, Buffer, TypeOK
<1>3. Roles'
  BY DEF Roles, Opening, TypeOK
<1>4. Entered'
  BY DEF Entered, Roles, Idle, InWrite, Opening, TypeOK
<1>5. OneTask'
  BY DEF OneTask, InWrite, TypeOK
<1>6. Alone'
  BY DEF Alone, Idle, InWrite, Roles, TypeOK
<1>7. OneChain'
  BY DEF OneChain, Idle, InWrite, Entered, Opening, OneTask, Roles, TypeOK
<1>8. Held'
  BY DEF Held, TypeOK
<1>9. Sequence'
  BY DEF Sequence
<1> QED
  BY <1>1, <1>2, <1>3, <1>4, <1>5, <1>6, <1>7, <1>8, <1>9

\* The chain ends.
LEMMA WriteBrokenStep ==
  ASSUME IInv, NEW w \in Workers, WriteBroken(w)
  PROVE  IInv'
<1> USE ActorAssumption, SizesAssumption DEF IInv, WriteBroken, Done, Goto, hist, sending
<1>1. TypeOK'
  BY DEF TypeOK
<1>2. Buffers'
  BY DEF Buffers, Buffer, TypeOK
<1>3. Roles'
  BY DEF Roles, Opening, TypeOK
<1>4. Entered'
  BY DEF Entered, Roles, Idle, InWrite, Opening, TypeOK
<1>5. OneTask'
  BY DEF OneTask, InWrite, TypeOK
<1>6. Alone'
  BY DEF Alone, Idle, InWrite, Roles, TypeOK
<1>7. OneChain'
  BY DEF OneChain, Idle, InWrite, Entered, Opening, OneTask, Roles, TypeOK
<1>8. Held'
  BY DEF Held, TypeOK
<1>9. Sequence'
  BY DEF Sequence
<1> QED
  BY <1>1, <1>2, <1>3, <1>4, <1>5, <1>6, <1>7, <1>8, <1>9

\* A read, between two tasks.
LEMMA ReadEventStep ==
  ASSUME IInv, NEW w \in Workers, ReadEvent(w)
  PROVE  IInv'
<1> USE ActorAssumption, SizesAssumption DEF IInv, ReadEvent, Goto, Waits, hist, sending
<1>1. TypeOK'
  BY DEF TypeOK
<1>2. Buffers'
  BY DEF Buffers, Buffer, TypeOK
<1>3. Roles'
  BY DEF Roles, Opening, TypeOK
<1>4. Entered'
  BY DEF Entered, Roles, Idle, InWrite, Opening, TypeOK
<1>5. OneTask'
  BY DEF OneTask, InWrite, TypeOK
<1>6. Alone'
  BY DEF Alone, Idle, InWrite, Roles, TypeOK
<1>7. OneChain'
  BY DEF OneChain, Idle, InWrite, Entered, Opening, OneTask, Roles, TypeOK
<1>8. Held'
  BY DEF Held, TypeOK
<1>9. Sequence'
  BY DEF Sequence
<1> QED
  BY <1>1, <1>2, <1>3, <1>4, <1>5, <1>6, <1>7, <1>8, <1>9

\* The end of a read.
LEMMA EndReadStep ==
  ASSUME IInv, NEW w \in Workers, EndRead(w)
  PROVE  IInv'
<1> USE ActorAssumption, SizesAssumption DEF IInv, EndRead, Goto, hist, sending
<1>1. TypeOK'
  BY DEF TypeOK
<1>2. Buffers'
  BY DEF Buffers, Buffer, TypeOK
<1>3. Roles'
  BY DEF Roles, Opening, TypeOK
<1>4. Entered'
  BY DEF Entered, Roles, Idle, InWrite, Opening, TypeOK
<1>5. OneTask'
  BY DEF OneTask, InWrite, TypeOK
<1>6. Alone'
  BY DEF Alone, Idle, InWrite, Roles, TypeOK
<1>7. OneChain'
  BY DEF OneChain, Idle, InWrite, Entered, Opening, OneTask, Roles, TypeOK
<1>8. Held'
  BY DEF Held, TypeOK
<1>9. Sequence'
  BY DEF Sequence
<1> QED
  BY <1>1, <1>2, <1>3, <1>4, <1>5, <1>6, <1>7, <1>8, <1>9

\* The mutex is taken, and what is sent comes behind what waits.
LEMMA PutStep ==
  ASSUME IInv, NEW s \in Senders, NEW n \in Sizes, Put(s, n)
  PROVE  IInv'
<1> USE ActorAssumption, SizesAssumption DEF IInv, Put, Goto, hist, sending
<1>b. next \in Buffer /\ next.data \in Seq(Unit) /\ next.last \in Nat
  BY DEF Buffers, Buffer, Unit
<1>t. total \in Nat /\ n \in Nat \ {0} /\ total + n <= MaxUnits /\ total + n \in 0 .. MaxUnits
  <2>1. total \in Nat /\ n \in Nat \ {0} /\ total + n <= MaxUnits
    BY DEF TypeOK
  <2> QED
    BY <2>1
<1>m. Numbers(total, n) \in Seq(Unit)
  BY <1>t, NumbersType
<1>n. /\ next' \in Buffer /\ next'.data = next.data \o Numbers(total, n)
      /\ next'.data \in Seq(Unit)
      /\ next'.last = next.last + IF next.last = 0 THEN 2 + n ELSE n
      /\ next'.last \in Nat \ {0}
  <2>1. next.data \o Numbers(total, n) \in Seq(Unit)
    BY <1>b, <1>m, ConcatProperties
  <2>2. next.last + (IF next.last = 0 THEN 2 + n ELSE n) \in Nat \ {0}
    BY <1>b, <1>t
  <2>3. next' = [data |-> next.data \o Numbers(total, n),
                 last |-> next.last + IF next.last = 0 THEN 2 + n ELSE n]
    OBVIOUS
  <2>4. /\ next'.data = next.data \o Numbers(total, n)
        /\ next'.last = next.last + IF next.last = 0 THEN 2 + n ELSE n
    BY <2>3
  <2>5. next' \in Buffer
    BY <2>1, <2>2, <2>3 DEF Buffer, Unit
  <2> QED
    BY <2>1, <2>2, <2>4, <2>5
<1>s. size' \in [Senders -> Nat] /\ size'[s] < next'.last
  <2> DEFINE x == IF next.last = 0 THEN 1 + n ELSE n
  <2>1. x \in Nat /\ x < next.last + IF next.last = 0 THEN 2 + n ELSE n
    BY <1>b, <1>t
  <2>2. size \in [Senders -> Nat] /\ size' = [size EXCEPT ![s] = x]
    BY DEF TypeOK
  <2> HIDE DEF x
  <2>3. size' \in [Senders -> Nat] /\ size'[s] = x
    BY <2>1, <2>2
  <2> QED
    BY <2>1, <2>3, <1>n
<1>1. TypeOK'
  <2>1. s \in DOMAIN pc /\ \A t \in Senders : pc[t] = "idle"
    BY DEF TypeOK
  <2>2. \A b \in {next', curr'} : b.data \in Seq(1 .. MaxUnits) /\ b.last \in Nat
    BY <1>n DEF TypeOK, Unit
  <2>3. pc' \in [Workers \union Senders ->
                   {"idle", "establish", "detach", "set", "read", "write", "call", "flag",
                    "attach"}]
    BY DEF TypeOK
  <2>4. \A t \in Senders : pc'[t] # "idle" <=> mtx' = t
    BY <2>1
  <2>5. total' \in 0 .. MaxUnits /\ mtx' \in Senders \union {"none"}
    BY <1>t
  <2> QED
    BY <1>s, <2>2, <2>3, <2>4, <2>5 DEF TypeOK
<1>2. Buffers'
  BY <1>n DEF Buffers
<1>3. Roles'
  BY DEF Roles, Opening, TypeOK
<1>4. Entered'
  BY DEF Entered, Roles, Idle, InWrite, Opening, TypeOK
<1>5. OneTask'
  BY DEF OneTask, InWrite, TypeOK
<1>6. Alone'
  BY DEF Alone, Idle, InWrite, Roles, TypeOK
<1>7. OneChain'
  <2>1. /\ s \in DOMAIN pc /\ s \notin Workers /\ pc'[s] = "flag"
        /\ \A u \in Senders \ {s} : pc'[u] = pc[u]
        /\ \A w \in Workers : pc'[w] = pc[w] /\ que'[w] = que[w]
    BY DEF TypeOK
  <2>2. \A w \in Workers : Idle(w)' <=> Idle(w)
    BY <2>1 DEF Idle, InWrite
  <2>3. \A u \in Senders : pc'[u] = "attach" => pc[u] = "attach"
    BY <2>1
  <2>4. /\ wfd' = wfd /\ m_flag' = m_flag /\ ready' = ready /\ solo' = solo
        /\ solo \/ ready
    OBVIOUS
  <2> QED
    BY <2>2, <2>3, <2>4 DEF OneChain
<1>8. Held'
  BY <1>n, <1>s DEF Held, TypeOK
<1>9. Sequence'
  <2> DEFINE a == wire \o curr.data
             b == next.data
             c == Numbers(total, n)
  <2>1. a \in Seq(Unit) /\ b \in Seq(Unit) /\ c \in Seq(Unit)
    BY <1>b, <1>m, ConcatProperties DEF TypeOK, Buffers, Buffer, Unit
  <2>2. a \o b = Numbers(0, total)
    BY DEF Sequence
  <2>3. Numbers(0, total) \o c = Numbers(0, total + n)
    BY <1>t, NumbersConcat
  <2>4. Sequence' <=> a \o (b \o c) = Numbers(0, total + n)
    BY <1>n DEF Sequence
  <2> HIDE DEF a, b, c
  <2>5. (a \o b) \o c = a \o (b \o c)
    BY <2>1, Associative
  <2> QED
    BY <2>2, <2>3, <2>4, <2>5
<1> QED
  BY <1>1, <1>2, <1>3, <1>4, <1>5, <1>6, <1>7, <1>8, <1>9

\* The buffers change places when nobody appends to next.
LEMMA SwapStep ==
  ASSUME IInv, NEW w \in Workers, Swap(w)
  PROVE  IInv'
<1> USE ActorAssumption, SizesAssumption DEF IInv, Swap, Goto, Done, Keep, sending
<1>n. curr' = next /\ next' = curr /\ curr.last = 0 /\ curr.data = <<>>
  BY DEF Held
<1>q. /\ w \in DOMAIN que /\ que[w] = 0 /\ que' \in [Workers -> Nat] /\ que'[w] \in {0, 1}
      /\ \A v \in Workers \ {w} : que'[v] = que[v]
  BY DEF TypeOK, OneTask, InWrite
<1>i. /\ pc'[w] = "idle" /\ \A v \in Workers \ {w} : Idle(v)' <=> Idle(v)
      /\ \A s \in Senders : pc'[s] = pc[s]
      /\ ~Idle(w) /\ (~solo => wfd # "armed" /\ \A s \in Senders : pc[s] # "attach")
  BY <1>q DEF TypeOK, Idle, InWrite, OneChain
<1>1. TypeOK'
  BY <1>n, <1>q, <1>i DEF TypeOK
<1>2. Buffers'
  BY DEF Buffers
<1>3. Roles'
  BY DEF Roles, Opening, TypeOK
<1>4. Entered'
  BY DEF Entered, Roles, Idle, InWrite, Opening, TypeOK
<1>5. OneTask'
  BY DEF OneTask, InWrite, TypeOK
<1>6. Alone'
  BY DEF Alone, Idle, InWrite, Roles, TypeOK
<1>7. OneChain'
  <2>1. \A v \in Workers \ {w} : ~solo => Idle(v) /\ Idle(v)'
    BY <1>i DEF OneChain
  <2>2. ~solo /\ m_flag' = 0 => que'[w] = 0 /\ Idle(w)'
    <3>1. CASE next.last = 0
      BY <3>1, <1>q, <1>i DEF Idle, InWrite, TypeOK
    <3>2. CASE next.last > 0
      BY <3>2, <1>i DEF OneChain
    <3> QED
      BY <3>1, <3>2 DEF Buffers, Buffer
  <2>3. ~solo => mtx = "none"
    OBVIOUS
  <2> QED
    BY <1>i, <2>1, <2>2, <2>3 DEF OneChain
<1>8. Held'
  BY DEF Held, TypeOK
<1>9. Sequence'
  <2>1. wire \in Seq(Unit) /\ next.data \in Seq(Unit)
    BY DEF TypeOK, Buffers, Buffer, Unit
  <2>2. wire \o <<>> = wire
    BY <2>1, ConcatEmptySeq
  <2>3. wire \o next.data \in Seq(Unit)
    BY <2>1, ConcatProperties
  <2>4. (wire \o next.data) \o <<>> = wire \o next.data
    BY <2>3, ConcatEmptySeq
  <2> QED
    BY <1>n, <2>2, <2>4 DEF Sequence
<1> QED
  BY <1>1, <1>2, <1>3, <1>4, <1>5, <1>6, <1>7, <1>8, <1>9

\* What the kernel takes goes from curr to the wire; a buffer that is given back
\* had nothing more in it.
LEMMA WriteStep ==
  ASSUME IInv, NEW w \in Workers, Write(w)
  PROVE  IInv'
<1> USE ActorAssumption, SizesAssumption DEF IInv
<1>k. /\ pc[w] = "call" /\ ~gone /\ que' = [que EXCEPT ![w] = @ + 1]
      /\ wp' = (wp \/ ctx[w] = "event") /\ pc' = [pc EXCEPT ![w] = "idle"]
      /\ UNCHANGED <<m_flag, mtx, next, wfd, rfd, ctx, gone, solo, ready, refused, size,
                     total>>
  BY DEF Write, Goto, Done, Keep, sending
<1>r. PICK r \in 1 .. Len(curr.data) :
        /\ wire' = wire \o SubSeq(curr.data, 1, r)
        /\ curr' = IF r = Len(curr.data) THEN Empty
                   ELSE [curr EXCEPT !.data = SubSeq(@, r + 1, Len(@))]
  BY DEF Write
<1>b. /\ curr \in Buffer /\ curr.data \in Seq(Unit) /\ curr.last \in Nat
      /\ wire \in Seq(Unit) /\ next.data \in Seq(Unit)
  BY DEF Buffers, Buffer, Unit, TypeOK
<1>c. /\ SubSeq(curr.data, 1, r) \in Seq(Unit)
      /\ SubSeq(curr.data, r + 1, Len(curr.data)) \in Seq(Unit)
      /\ (wire \o SubSeq(curr.data, 1, r)) \o SubSeq(curr.data, r + 1, Len(curr.data))
           = wire \o curr.data
      /\ r = Len(curr.data) => wire \o SubSeq(curr.data, 1, r) = wire \o curr.data
  BY <1>b, Cut
<1>w. wire' \in Seq(Unit)
  BY <1>r, <1>b, <1>c, ConcatProperties
<1>d. \/ r = Len(curr.data) /\ curr' = Empty
      \/ curr' = [curr EXCEPT !.data = SubSeq(curr.data, r + 1, Len(curr.data))]
  BY <1>r, <1>b DEF Buffer
<1>e. curr' \in Buffer /\ curr'.last \in Nat /\ curr'.data \in Seq(Unit)
  <2>1. Empty \in Buffer
    BY EmptySeq DEF Empty, Buffer
  <2>2. [curr EXCEPT !.data = SubSeq(curr.data, r + 1, Len(curr.data))] \in Buffer
    BY <1>b, <1>c DEF Buffer, Unit
  <2> QED
    BY <1>d, <2>1, <2>2 DEF Buffer, Unit
<1>f. curr'.last = 0 => curr'.data = <<>>
  <2>1. CASE curr' = Empty
    BY <2>1 DEF Empty
  <2>2. CASE curr' = [curr EXCEPT !.data = SubSeq(curr.data, r + 1, Len(curr.data))]
    <3>1. curr'.last = curr.last
      BY <1>b, <2>2 DEF Buffer
    <3>2. curr.last # 0
      <4>1. curr.data # <<>>
        BY <1>r, <1>b, EmptySeq
      <4> QED
        BY <4>1 DEF Held
    <3> QED
      BY <3>1, <3>2
  <2> QED
    BY <1>d, <2>1, <2>2
<1>g. wire' \o curr'.data = wire \o curr.data
  <2>1. CASE r = Len(curr.data) /\ curr' = Empty
    <3>1. wire' = wire \o curr.data /\ curr'.data = <<>>
      BY <1>r, <1>c, <2>1 DEF Empty
    <3> QED
      BY <1>w, <3>1, ConcatEmptySeq
  <2>2. CASE curr' = [curr EXCEPT !.data = SubSeq(curr.data, r + 1, Len(curr.data))]
    <3>1. curr'.data = SubSeq(curr.data, r + 1, Len(curr.data))
      BY <1>b, <2>2 DEF Buffer
    <3> QED
      BY <1>r, <1>c, <3>1
  <2> QED
    BY <1>d, <2>1, <2>2
<1>q. /\ w \in DOMAIN que /\ que[w] = 0 /\ que' \in [Workers -> Nat] /\ que'[w] \in {0, 1}
      /\ \A v \in Workers \ {w} : que'[v] = que[v]
  BY <1>k DEF TypeOK, OneTask, InWrite
<1>i. /\ pc'[w] = "idle" /\ \A v \in Workers \ {w} : Idle(v)' <=> Idle(v)
      /\ \A s \in Senders : pc'[s] = pc[s]
      /\ ~Idle(w) /\ (~solo => wfd # "armed" /\ \A s \in Senders : pc[s] # "attach")
  BY <1>k, <1>q DEF TypeOK, Idle, InWrite, OneChain
<1>1. TypeOK'
  BY <1>k, <1>w, <1>e, <1>q, <1>i DEF TypeOK, Unit
<1>2. Buffers'
  BY <1>k, <1>e DEF Buffers
<1>3. Roles'
  BY <1>k DEF Roles, Opening, TypeOK
<1>4. Entered'
  BY <1>k DEF Entered, Roles, Idle, InWrite, Opening, TypeOK
<1>5. OneTask'
  BY <1>k DEF OneTask, InWrite, TypeOK
<1>6. Alone'
  BY <1>k DEF Alone, Idle, InWrite, Roles, TypeOK
<1>7. OneChain'
  <2>1. \A v \in Workers \ {w} : ~solo => Idle(v) /\ Idle(v)'
    BY <1>k, <1>i DEF OneChain
  <2>2. ~solo /\ ready => m_flag # 0
    BY <1>k, <1>i DEF OneChain
  <2> QED
    BY <1>k, <1>i, <2>1, <2>2 DEF OneChain
<1>8. Held'
  BY <1>k, <1>f DEF Held
<1>9. Sequence'
  BY <1>k, <1>g DEF Sequence
<1> QED
  BY <1>1, <1>2, <1>3, <1>4, <1>5, <1>6, <1>7, <1>8, <1>9

----------------------------------------------------------------------------

\* A new socket satisfies the invariant.
LEMMA Initial == Init => IInv
<1> SUFFICES ASSUME Init PROVE IInv
  OBVIOUS
<1> USE ActorAssumption, SizesAssumption DEF Init
<1>e. Empty \in Buffer /\ Empty.data = <<>> /\ Empty.last = 0 /\ <<>> \in Seq(1 .. MaxUnits)
  BY EmptySeq DEF Empty, Buffer
<1>p. /\ \A w \in Workers : pc[w] = IF w = Opener THEN "establish" ELSE "idle"
      /\ \A s \in Senders : pc[s] = "idle"
  OBVIOUS
<1>1. TypeOK
  <2>1. pc \in [Workers \union Senders -> {"idle", "establish"}]
    OBVIOUS
  <2>2. \A s \in Senders : pc[s] = "idle" /\ mtx # s
    BY <1>p
  <2>3. /\ que \in [Workers -> Nat] /\ ctx \in [Workers -> {"event", "task"}]
        /\ size \in [Senders -> Nat] /\ 0 \in 0 .. MaxUnits
    OBVIOUS
  <2> QED
    BY <1>e, <2>1, <2>2, <2>3 DEF TypeOK
<1>2. Buffers
  BY <1>e DEF Buffers
<1>3. Roles
  BY <1>p DEF Roles, Opening
<1>4. Entered /\ OneTask /\ Alone /\ OneChain
  BY <1>e, <1>p DEF Entered, OneTask, Alone, OneChain, Idle, InWrite, Opening
<1>5. Held
  BY <1>e DEF Held
<1>6. Sequence
  <2>1. (<<>> \o <<>>) \o <<>> = <<>>
    BY EmptySeq, ConcatEmptySeq
  <2>2. Numbers(0, 0) = <<>>
    BY DEF Numbers
  <2> QED
    BY <1>e, <2>1, <2>2 DEF Sequence
<1> QED
  BY <1>1, <1>2, <1>3, <1>4, <1>5, <1>6 DEF IInv

\* That the peer goes away changes nothing else, and a stutter nothing at all.
LEMMA GoneStep ==
  ASSUME IInv, gone' \in BOOLEAN,
         UNCHANGED <<m_flag, mtx, next, curr, wfd, wp, rfd, que, pc, ctx, hist, sending>>
  PROVE  IInv'
<1>u. /\ m_flag' = m_flag /\ mtx' = mtx /\ next' = next /\ curr' = curr /\ wfd' = wfd
      /\ wp' = wp /\ rfd' = rfd /\ que' = que /\ pc' = pc /\ ctx' = ctx /\ size' = size
      /\ total' = total /\ solo' = solo /\ ready' = ready /\ refused' = refused /\ wire' = wire
  BY DEF hist, sending
<1>i. \A w \in Workers : Idle(w)' <=> Idle(w)
  BY <1>u DEF Idle, InWrite
<1>1. TypeOK'
  <2>1. TypeOK
    BY DEF IInv
  <2> QED
    BY <1>u, <2>1 DEF TypeOK
<1>2. Buffers'
  BY <1>u DEF IInv, Buffers
<1>3. Roles'
  BY <1>u DEF IInv, Roles
<1>4. Entered'
  BY <1>u, <1>i DEF IInv, Entered
<1>5. OneTask'
  BY <1>u DEF IInv, OneTask, InWrite
<1>6. Alone'
  BY <1>u, <1>i DEF IInv, Alone
<1>7. OneChain'
  <2>1. OneChain
    BY DEF IInv
  <2> QED
    BY <1>u, <1>i, <2>1 DEF OneChain
<1>8. Held'
  BY <1>u DEF IInv, Held
<1>9. Sequence'
  BY <1>u DEF IInv, Sequence
<1> QED
  BY <1>1, <1>2, <1>3, <1>4, <1>5, <1>6, <1>7, <1>8, <1>9 DEF IInv

\* Every step keeps it.
LEMMA Inductive == IInv /\ [Next]_vars => IInv'
<1>1. ASSUME IInv, PeerGone PROVE IInv'
  BY <1>1, GoneStep DEF PeerGone
<1>2. ASSUME IInv, UNCHANGED vars PROVE IInv'
  <2>1. gone' \in BOOLEAN
    BY <1>2 DEF vars, IInv, TypeOK
  <2> QED
    BY <1>2, <2>1, GoneStep DEF vars
<1>3. ASSUME IInv, NEW w \in Workers, Establish(w) \/ Output(w) \/ ReadEvent(w) \/ EndRead(w)
      PROVE  IInv'
  BY <1>3, ChangeStateStep, WriteDetachStep, SetWbufStep, WriteEventStep, TaskStep, SwapStep,
     LookStep, WriteStep, WriteAgainStep, WriteBrokenStep, ReadEventStep, EndReadStep
     DEF Establish, Output
<1>4. ASSUME IInv, NEW s \in Senders, Send(s) \/ \E n \in Sizes : Put(s, n)
      PROVE  IInv'
  BY <1>4, WriteAttachStep, AttachStep, PutStep DEF Send
<1> QED
  BY <1>1, <1>2, <1>3, <1>4 DEF Next

\* The invariant holds at all times.
THEOREM Invariant == SafeSpec => []IInv
<1> QED
  BY Initial, Inductive, PTL DEF SafeSpec

\* What went out, what is in curr and what is in next are what was sent, in order
\* and nothing twice, and one thread at a time works on curr, wherever the kernel
\* cuts the writes (write_command, sendraw and write_poller::write).
THEOREM SentInOrder == SafeSpec => []InOrder
<1>1. IInv => InOrder
  <2> SUFFICES ASSUME IInv PROVE InOrder
    OBVIOUS
  <2>1. TypeOK /\ \A w, v \in Workers : InWrite(w) => ~(w # v /\ InWrite(v)) /\ que[v] = 0
    BY ActorAssumption DEF IInv, OneTask, Alone, OneChain, Idle, TypeOK
  <2>2. wire \o curr.data \o next.data = Numbers(0, total)
    BY DEF IInv, Sequence
  <2> QED
    BY <2>1, <2>2 DEF InOrder, OneWriter
<1> QED
  BY <1>1, Invariant, PTL
=============================================================================
