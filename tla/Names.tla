------------------------------- MODULE Names -------------------------------
(***************************************************************************)
(* What a name means in a Lua VM (ll/lua/yue.lua): the namespaces that     *)
(* hold the functions a peer may call and the callbacks of events, the     *)
(* names of calls with their modifiers, and the classes of errors.         *)
(*                                                                         *)
(* A namespace is a table whose fields are looked for in its table __sym   *)
(* and then kept in the namespace itself; only assignments to fields the   *)
(* namespace does not hold yet go through its metatable.  A name is the    *)
(* sequence of its parts between the dots.                                 *)
(*                                                                         *)
(* Definitions marked "Slip" are wrong variants of the definition that     *)
(* follows them; the properties are required to notice each of them.       *)
(***************************************************************************)
EXTENDS Naturals, Sequences, FiniteSets

CONSTANTS
  Functions,  \* Lua functions
  Tables,     \* Lua tables that are put into the namespace
  MaxChanges  \* bound on the assignments

VARIABLES
  space,   \* "protect" or "raw"
  sym,     \* __sym: what each key stands for
  own,     \* the fields the namespace itself holds, by name
  member,  \* member[t]: the fields of table t
  bound,   \* the callback list of the event
  latest,  \* history: what each key was last assigned
  changes, \* history: assignments so far
  astray,  \* history: names with dots whose meaning changed after they were kept
  asked    \* the last question and its answer

vars == <<space, sym, own, member, bound, latest, changes, astray, asked>>

\* A public and a protected name, a callback's name, and one for a table.
Symbols == {"a", "_a", "__e", "t"}
Hidden == {"_a", "__e"}  \* they begin with "_"
Fields == {"a", "_a"}
Paths == {<<k>> : k \in Symbols} \union {<<"t", f>> : f \in Fields}

Init ==
  /\ space \in {"protect", "raw"}
  /\ sym = [k \in Symbols |-> "nil"]
  /\ own = [p \in Paths |-> "nil"]
  /\ member = [t \in Tables |-> [f \in Fields |-> "nil"]]
  /\ bound = {}
  /\ latest = [k \in Symbols |-> "nil"] /\ changes = 0 /\ astray = {}
  /\ asked = [of |-> "nothing"]

----------------------------------------------------------------------------
(* Namespaces *)

\* Slip: only the first part of a name is looked at.
fetcherFirst(path, local_call) ==
  IF ~local_call /\ path[1] \in Hidden THEN "nil"
  ELSE LET r == sym[path[1]] IN
       CASE Len(path) = 1 -> r
         [] r \in Tables -> member[r][path[2]]
         [] r = "nil" -> "nil"
         [] OTHER -> "error"

\* Part after part is looked for; a part that begins with "_" is not found by
\* a peer, and a part of something that is no table is an error.
fetcher(path, local_call) ==
  LET r == sym[path[1]] IN
  CASE ~local_call /\ path[1] \in Hidden -> "nil"
    [] Len(path) = 1 -> r
    [] r = "nil" -> "nil"
    [] r \notin Tables -> "error"
    [] ~local_call /\ path[2] \in Hidden -> "nil"
    [] OTHER -> member[r][path[2]]

\* The names with dots whose meaning changes unseen, because the namespace
\* keeps them or the table they begin with.
Dotted == {<<"t", f>> : f \in Fields}
Strays(ps) == {p \in ps \intersect Dotted : own[p] # "nil" \/ own[<<"t">>] # "nil"}

\* Slip: an assignment always goes to __sym.
AssignBehind(k, v) ==
  /\ sym' = [sym EXCEPT ![k] = v]
  /\ astray' = astray \union Strays({p \in Dotted : k = "t"})
  /\ UNCHANGED <<own, bound>>

\* namespace[k] = v: a field the namespace holds is simply replaced; a function
\* under a callback's name is bound to the event, into a list that is made for
\* it; anything else goes to __sym.
Assign(k, v) ==
  IF own[<<k>>] # "nil"
  THEN /\ own' = [own EXCEPT ![<<k>>] = v]
       /\ astray' = astray \union {p \in Dotted : k = "t"}
       /\ UNCHANGED <<sym, bound>>
  ELSE IF k = "__e" /\ v \in Functions /\ sym[k] \in {"nil", "list"}
  THEN /\ bound' = bound \union {v}
       /\ sym' = [sym EXCEPT ![k] = "list"]
       /\ UNCHANGED <<own, astray>>
  ELSE /\ sym' = [sym EXCEPT ![k] = v]
       /\ astray' = astray \union Strays({p \in Dotted : k = "t"})
       /\ UNCHANGED <<own, bound>>

\* A symbol is imported: functions and tables a file defines, or the functions
\* of a table.
import(k, v) ==
  /\ changes < MaxChanges /\ changes' = changes + 1
  /\ k = "t" <=> v \in Tables
  /\ Assign(k, v)
  /\ latest' = [latest EXCEPT ![k] = v]
  /\ asked' = [of |-> "assign", key |-> k, value |-> v]
  /\ UNCHANGED <<space, member>>

\* A table in the namespace gets a field, which the namespace does not see.
Extend(t, f, v) ==
  /\ changes < MaxChanges /\ changes' = changes + 1
  /\ member' = [member EXCEPT ![t][f] = v]
  /\ astray' = astray \union {p \in Strays({<<"t", f>>}) : sym["t"] = t}
  /\ asked' = [of |-> "nothing"]
  /\ UNCHANGED <<space, sym, own, bound, latest>>

\* A function is looked for by its name: what the namespace holds, or what it
\* finds and keeps.  Callbacks are taken from __sym directly.
Find(path) ==
  LET found == IF own[path] # "nil" THEN own[path] ELSE fetcher(path, space = "raw") IN
  /\ path # <<"__e">> \/ space = "protect"
  /\ changes > 0
  /\ own' = [own EXCEPT ![path] = IF found = "error" THEN @ ELSE found]
  /\ asked' = [of |-> "name", path |-> path, answer |-> found]
  /\ UNCHANGED <<space, sym, member, bound, latest, changes, astray>>

----------------------------------------------------------------------------
(* Names of calls, the sequences of the words they are made of *)

Modifiers == {"async_", "timed_", "mcast_"}
Words == Modifiers \union {"_", "x"}

\* Slip: a modifier is taken off once only, whichever it is.
parseOnce(name) ==
  LET found == {i \in DOMAIN name : name[i] \in Modifiers}
      first == {i \in found : \A j \in found : i <= j}
      Rest[i \in 0 .. Len(name)] ==
        IF i = 0 THEN <<>> ELSE IF i \in first THEN Rest[i - 1] ELSE Append(Rest[i - 1], name[i])
  IN [name |-> Rest[Len(name)], flag |-> {name[i] : i \in first}]

\* Each modifier is taken off once, where it comes first; a name that then
\* begins with "_" is protected.
parse(name) ==
  LET found == {i \in DOMAIN name :
                  /\ name[i] \in Modifiers
                  /\ \A j \in 1 .. i - 1 : name[j] # name[i]}
      Rest[i \in 0 .. Len(name)] ==
        IF i = 0 THEN <<>> ELSE IF i \in found THEN Rest[i - 1] ELSE Append(Rest[i - 1], name[i])
      rest == Rest[Len(name)]
  IN [name |-> rest,
      flag |-> {name[i] : i \in found} \union
               (IF rest # <<>> /\ rest[1] = "_" THEN {"PROTECTED"} ELSE {})]

\* The method of an emitter, or of a method: the flags are those of the last
\* part, and its call goes to a fiber of its own when it is async or mcast.
method_index(outer, name) ==
  LET p == parse(name) IN
  [name |-> IF outer = <<>> THEN p.name ELSE parse(outer).name \o <<".">> \o p.name,
   flag |-> p.flag,
   fiber |-> p.flag \intersect {"async_", "mcast_"} # {}]

Method(outer, name) ==
  /\ asked' = [of |-> "method", outer |-> outer, name |-> name, answer |-> method_index(outer, name)]
  /\ UNCHANGED <<space, sym, own, member, bound, latest, changes, astray>>

----------------------------------------------------------------------------
(* Errors *)

\* The classes and what they are made from.
super ==
  [Error |-> "none", RPCError |-> "Error", TimeoutError |-> "RPCError",
   ClientError |-> "RPCError", TransportError |-> "ClientError",
   NetworkUnreachableError |-> "TransportError", ConnectionRefusedError |-> "TransportError",
   ConnectionTimeoutError |-> "TransportError", MessageRefusedError |-> "ClientError",
   MessageTooLargeError |-> "MessageRefusedError", CallError |-> "ClientError",
   NoMethodError |-> "CallError", ArgumentError |-> "CallError", ServerError |-> "RPCError",
   ServerBusyError |-> "ServerError", RuntimeError |-> "RPCError"]

\* rpcerrors.inc, without the signs
codes ==
  [Error |-> 1000, RPCError |-> 100, TimeoutError |-> 60, TransportError |-> 50,
   NetworkUnreachableError |-> 51, ConnectionRefusedError |-> 52,
   ConnectionTimeoutError |-> 53, MessageRefusedError |-> 40, MessageTooLargeError |-> 41,
   CallError |-> 20, NoMethodError |-> 21, ArgumentError |-> 22, ServerError |-> 30,
   ServerBusyError |-> 31, RuntimeError |-> 10]

\* Slip: the class itself is not looked at.
is_aAbove(type, error) ==
  LET above[n \in Nat, c \in DOMAIN super \union {"none"}] ==
        c # "none" /\ n > 0 /\ (super[c] = error \/ above[n - 1, super[c]])
  IN above[Cardinality(DOMAIN super), type]

\* The class and those above it are compared, one after the other.
is_a(type, error) ==
  LET up[n \in Nat, c \in DOMAIN super \union {"none"}] ==
        c # "none" /\ n > 0 /\ (c = error \/ up[n - 1, super[c]])
  IN up[Cardinality(DOMAIN super), type]

\* The class of an error: one that came from a peer names it, one from this
\* side has a code.  A text "Class@..." is cut behind the "@", so that no class
\* has the name that is looked for and it is an Error.
ClassOf(e) ==
  CASE e.kind = "wire" -> e.type
    [] e.kind = "code" ->
         LET named == {c \in DOMAIN codes : codes[c] = e.code}
         IN IF named = {} THEN "Error" ELSE CHOOSE c \in named : TRUE
    [] OTHER -> "Error"

\* A call fails: the error is raised, and one of time is told to the object if
\* there is still one.
Fail(e, exists) ==
  /\ asked' = [of |-> "error", error |-> e,
               answer |-> [raised |-> ClassOf(e),
                           timeout |-> exists /\ is_a(ClassOf(e), "TimeoutError")]]
  /\ UNCHANGED <<space, sym, own, member, bound, latest, changes, astray>>

Failures ==
  {[kind |-> "wire", type |-> c] : c \in DOMAIN super} \union
  {[kind |-> "code", code |-> c] : c \in {codes[n] : n \in DOMAIN codes} \union {7}} \union
  {[kind |-> "text", type |-> c] : c \in {"TimeoutError", "CallError"}}

----------------------------------------------------------------------------

NameTexts == UNION {[1 .. n -> Words] : n \in 1 .. 4}

\* Names of calls and errors do not depend on the namespace.
Next ==
  \/ \E k \in Symbols, v \in Functions \union Tables : import(k, v)
  \/ \E t \in Tables, f \in Fields, v \in Functions : Extend(t, f, v)
  \/ \E p \in Paths : Find(p)
  \/ /\ changes = 0 /\ space = "raw" /\ asked.of = "nothing"
     /\ \/ \E n \in NameTexts, o \in {<<>>, <<"x">>, <<"async_", "x">>} : Method(o, n)
        \/ \E e \in Failures, exists \in BOOLEAN : Fail(e, exists)

Spec == Init /\ [][Next]_vars

----------------------------------------------------------------------------

Spoken(of) == asked.of = of

\* What a name finds is what it means at the time, except a name with dots that
\* was kept before; a peer finds nothing that is protected: yue.lua, fetcher
\* and create_namespace.
FindsTheLast ==
  Spoken("name") =>
    LET path == asked.path
        hidden == space = "protect" /\ \E i \in DOMAIN path : path[i] \in Hidden
    IN /\ hidden => asked.answer \in {"nil", "error"}
       /\ ~hidden /\ Len(path) = 1 => asked.answer = latest[path[1]]
       /\ ~hidden /\ Len(path) > 1 /\ path \notin astray /\ latest["t"] \in Tables =>
            asked.answer = member[latest["t"]][path[2]]

\* A function given under an event's name is called when the event comes:
\* yue.lua, newindex.
Binds == Spoken("assign") /\ asked.key = "__e" => asked.value \in bound

\* A method is called by its name without modifiers, each of which is told
\* by a flag: yue.lua, parse.
NamesPlain ==
  Spoken("method") =>
    LET name == asked.name
        mods == {name[i] : i \in DOMAIN name} \intersect Modifiers
        twice == \E i, j \in DOMAIN name : i # j /\ name[i] = name[j] /\ name[i] \in Modifiers
        plain == SelectSeq(name, LAMBDA w : w \notin Modifiers)
        n == Len(asked.answer.name)
    IN /\ asked.answer.flag \ {"PROTECTED"} = mods
       /\ ~twice => /\ SubSeq(asked.answer.name, n - Len(plain) + 1, n) = plain
                    /\ "PROTECTED" \in asked.answer.flag <=> plain # <<>> /\ plain[1] = "_"

\* An error is raised as the class its sender named or its code stands for, and
\* the object hears of an error of time and of no other: yue.lua, errors.
RaisesItsClass ==
  Spoken("error") =>
    LET e == asked.error raised == asked.answer.raised IN
    /\ e.kind = "wire" => raised = e.type
    /\ e.kind = "code" /\ (\E c \in DOMAIN codes : codes[c] = e.code) => codes[raised] = e.code
    /\ asked.answer.timeout => raised = "TimeoutError"
    /\ raised = "TimeoutError" => is_a(raised, "RPCError") /\ is_a(raised, raised)
    /\ ~is_a("Error", raised) \/ raised = "Error"

\* Names mean what they were given for.
NamesMean == FindsTheLast /\ Binds /\ NamesPlain /\ RaisesItsClass
=============================================================================
