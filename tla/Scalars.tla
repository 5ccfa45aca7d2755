------------------------------ MODULE Scalars ------------------------------
(***************************************************************************)
(* Numbers of every width on the wire (serializer/mpak/mpak.h) and options *)
(* in a received table (serializer/serializer.h): what one side packs and  *)
(* the other one reads.  Each packing or lookup of a small domain is a     *)
(* state.                                                                  *)
(*                                                                         *)
(* A byte has Base values, 256 in the program; marks in front of a number  *)
(* are names.  A float or double is its bits.  A number of a Lua table is  *)
(* a double, counted here in halves.  There is room for what is packed     *)
(* (module Codec has the buffers).                                         *)
(*                                                                         *)
(* Definitions marked "Slip" are wrong variants of the definition that     *)
(* follows them; the properties are required to notice each of them.       *)
(***************************************************************************)
EXTENDS Integers, Sequences, SequencesExt

CONSTANTS
  Base,      \* values of a byte, a multiple of 8
  MaxOption  \* bound on the size of an option's number, in halves

VARIABLE passed  \* what was packed or looked up, and what became of it

Size ==
  [U8 |-> 1, S8 |-> 1, U16 |-> 2, S16 |-> 2, U32 |-> 4, S32 |-> 4, U64 |-> 8, S64 |-> 8,
   float |-> 4, double |-> 8]

Signed == {"S8", "S16", "S32", "S64"}

Mark ==
  [U8 |-> "UINT_8BIT", U16 |-> "UINT_16BIT", U32 |-> "UINT_32BIT", U64 |-> "UINT_64BIT",
   S8 |-> "SINT_8BIT", S16 |-> "SINT_16BIT", S32 |-> "SINT_32BIT", S64 |-> "SINT_64BIT",
   float |-> "FLOAT", double |-> "DOUBLE_TYPE"]

P_FIXNUM_END == Base \div 2 - 1
N_FIXNUM_START == Base - Base \div 8

\* The integer of a type that has the same bits as v.
Cast(v, t) ==
  LET all == Base^Size[t] low == v % all
  IN IF t \in Signed /\ low >= all \div 2 THEN low - all ELSE low

\* Slip: the bytes in the order of the machine.
WordHost(v, n) == [i \in 1 .. n |-> (v \div Base^(i - 1)) % Base]

\* push of n bytes: the high one first.
Word(v, n) == [i \in 1 .. n |-> (v \div Base^(n - i)) % Base]

\* cast_to, the number of these bytes.
Number(bytes) == FoldLeft(LAMBDA n, b : n * Base + b, 0, bytes)

----------------------------------------------------------------------------
(* operator << *)

Small(v, t) ==
  \/ t = "U8" /\ v <= P_FIXNUM_END
  \/ t = "S8" /\ v % Base >= N_FIXNUM_START

Pack(v, t) ==
  IF Small(v, t) THEN [mark |-> "", bytes |-> Word(v, 1)]
  ELSE [mark |-> Mark[t], bytes |-> Word(v, Size[t])]

\* unpack: a mark tells how many bytes follow, not whether they are signed.
Unpack(wire) ==
  LET n == Number(wire.bytes) IN
  CASE wire.mark \in {"FLOAT", "DOUBLE_TYPE"} -> [kind |-> "DOUBLE", via |-> n]
    [] wire.mark = "" /\ n >= N_FIXNUM_START -> [kind |-> "INTEGER", via |-> n - Base]
    [] OTHER -> [kind |-> "INTEGER", via |-> Cast(n, "S64")]

\* The conversions of data.
As(d, t) == Cast(d.via, t)

\* Received data packed again: an integer as an int, whatever it was.
PackAgain(d) ==
  IF d.kind = "INTEGER" THEN Pack(As(d, "S32"), "S32") ELSE Pack(d.via, "double")

----------------------------------------------------------------------------
(* Options *)

\* Slip: the length is not compared.
SameKeyPrefix(k, key) == IsPrefix(key, k)

SameKey(k, key) == Len(k) = Len(key) /\ IsPrefix(key, k)

\* object::operator []: the first entry with this key, or 0.
Entry_(o, k) ==
  LET at == {i \in DOMAIN o : SameKey(k, o[i].key)}
  IN IF at = {} THEN 0 ELSE CHOOSE i \in at : \A j \in at : i <= j

\* A double becomes an integer towards zero.
Truncated(halves) ==
  IF halves < 0 THEN -((-halves) \div 2) ELSE halves \div 2

\* operator () for an int.
IntOption(o, k, def) ==
  LET i == Entry_(o, k) IN IF i = 0 THEN def ELSE Truncated(o[i].val)

----------------------------------------------------------------------------

\* Values around what changes the form or the sign.
Edges(t) ==
  LET all == Base^Size[t]
      near == {0, 1, P_FIXNUM_END, P_FIXNUM_END + 1, N_FIXNUM_START - 1, N_FIXNUM_START,
               Base - 1, Base, Base^2 - 2, Base^4 \div 2, all \div 2 - 1, all \div 2, all - 1}
  IN {Cast(v, t) : v \in near}

OptionKeys == {<<1>>, <<2>>, <<1, 2>>}

\* Tables with one or two of the options.
Options ==
  LET e == [key : OptionKeys, val : -MaxOption .. MaxOption]
  IN {<<x>> : x \in e} \union {<<x, y>> : x, y \in e}

Nothing == [f |-> "none", t |-> <<>>, v |-> 0, got |-> 0, again |-> 0]

Init == passed = Nothing

PackAndRead ==
  \E t \in DOMAIN Size : \E v \in Edges(t) :
    LET got == Unpack(Pack(v, t))
    IN passed' = [f |-> "pack", t |-> t, v |-> v, got |-> got, again |-> Unpack(PackAgain(got))]

LookUp ==
  \E o \in Options, k \in OptionKeys :
    passed' = [f |-> "option", t |-> o, v |-> k, got |-> IntOption(o, k, MaxOption),
               again |-> Entry_(o, k)]

Next == passed.f = "none" /\ (PackAndRead \/ LookUp)

Spec == Init /\ [][Next]_passed

----------------------------------------------------------------------------

\* A number that was packed is read as the same number by who reads it as the
\* type it had: mpak.h, operator << and unpack, and the conversions of data.
\* Only negative numbers of one and two bytes that are no small ones come back
\* as positive ones.  Packed again it keeps its lower 32 bits, and a double all.
ReadsBack ==
  LET t == passed.t v == passed.v d == passed.got IN
  passed.f = "pack" =>
    /\ d.kind = (IF t \in {"float", "double"} THEN "DOUBLE" ELSE "INTEGER")
    /\ IF t \in {"float", "double"} THEN d.via = v ELSE As(d, t) = v
    /\ (v >= 0 \/ Size[t] >= 4) /\ t \in Signed => As(d, IF Size[t] = 8 THEN "S64" ELSE "S32") = v
    /\ passed.again.kind = d.kind
    /\ IF d.kind = "INTEGER" THEN As(passed.again, "U32") = As(d, "U32") ELSE passed.again.via = v

\* An option is found by its whole name in whatever order the table has its
\* entries, as an integer not larger than the number that was given, and the
\* default stands for no other option: serializer.h, operator [] and ().
OptionsMean ==
  LET o == passed.t k == passed.v i == passed.again IN
  passed.f = "option" =>
    /\ (i = 0) <=> (\A j \in DOMAIN o : o[j].key # k)
    /\ IF i = 0 THEN passed.got = MaxOption
       ELSE o[i].key = k /\ 2 * passed.got - o[i].val \in -1 .. 1 /\ passed.got * o[i].val >= 0
=============================================================================
