-------------------------------- MODULE Text --------------------------------
(***************************************************************************)
(* The text functions of util/util.cpp and util/util.h and the sieve that  *)
(* sizes hash tables: numbers, urls, comparison, words, hexadecimal digits *)
(* and primes.  A string is the sequence of its characters' codes without  *)
(* the terminating zero.  Every function is called on every input of a     *)
(* small domain; the call and what it returned are the state.              *)
(***************************************************************************)
EXTENDS Integers, Sequences, FiniteSets

CONSTANTS
  IntBits, BigBits,  \* widths of int and S64
  MaxDigits,         \* length of the numbers that are read
  MaxText,           \* length of the texts that are compared, searched and split
  MaxPrime           \* largest number given to prime

VARIABLE call  \* the last call: its function, its arguments and its result

ERR == -1      \* a negative result: the text was refused
None == <<>>   \* a null pointer, or a buffer nothing was written to

----------------------------------------------------------------------------
(* Numbers *)

Digit == [c \in 48 .. 57 |-> c - 48]
HexDigit == [c \in 48 .. 57 \cup 97 .. 102 \cup 65 .. 70 |->
               IF c <= 57 THEN c - 48 ELSE IF c >= 97 THEN c - 87 ELSE c - 55]

Wrap(n, w) == ((n + 2^(w - 1)) % 2^w) - 2^(w - 1)

\* The loop of the four readers: digits up to the terminator, refused at a
\* character that is none or as soon as max characters are consumed.
ReadNumber(str, digit, base, max, w) ==
  LET minus == str # <<>> /\ str[1] = 45
      first == IF minus THEN 2 ELSE 1
      value[i \in 0 .. Len(str)] ==
        IF i < first THEN 0 ELSE Wrap(value[i - 1] * base + digit[str[i]], w)
  IN IF /\ \A i \in first .. Len(str) : str[i] \in DOMAIN digit
        /\ Len(str) >= first => Len(str) < max
     THEN [r |-> 0, n |-> Wrap((IF minus THEN -1 ELSE 1) * value[Len(str)], w)]
     ELSE [r |-> ERR, n |-> 0]

_atobn(str, max) == ReadNumber(str, Digit, 10, max, BigBits)
_atoiSlip(str, max) == ReadNumber(str, Digit, 10, max + 1, IntBits)
_atoi(str, max) == ReadNumber(str, Digit, 10, max, IntBits)
htoi(str, max) == ReadNumber(str, HexDigit, 16, max, IntBits)
htobn(str, max) == ReadNumber(str, HexDigit, 16, max, BigBits)

----------------------------------------------------------------------------
(* Urls.  A host that ends the text is left without its terminator, and a  *)
(* path that is not there leaves its buffer as it was.                     *)

FirstOf(str, from, set) ==  \* where a character of the set comes first, or past the end
  LET at == {i \in from .. Len(str) : str[i] \in set}
  IN IF at = {} THEN Len(str) + 1 ELSE CHOOSE i \in at : \A j \in at : i <= j

NewLine == 10
Path(str) ==
  IF str[Len(str)] = NewLine THEN SubSeq(str, 1, Len(str) - 1) ELSE str

parse_url(in, max) ==
  LET colon == FirstOf(in, 2, {58, 47})      \* the first character is not looked at
      host == SubSeq(in, 1, colon - 1)
      Ported == colon <= Len(in) /\ in[colon] = 58
      slash == IF Ported THEN FirstOf(in, colon + 1, {47}) ELSE colon
      digits == SubSeq(in, colon + 1, slash - 1)
      number == _atoi(digits, 256)
      Result(r, port, path) ==
        [r |-> r, host |-> host, port |-> port, path |-> path, ends |-> colon <= Len(in)]
      port == IF Ported /\ colon < Len(in) THEN number.n % 2^IntBits ELSE 80
  IN IF in = <<>> THEN [Result(ERR, 80, None) EXCEPT !.ends = FALSE]
     ELSE IF Ported /\ colon < Len(in) /\ number.r < 0 THEN Result(ERR, 80, None)
     ELSE IF slash > Len(in) THEN Result(IF Ported /\ colon \in max + 1 .. Len(in) - 1 THEN ERR ELSE 0, port, None)
     ELSE Result(IF Len(in) > max \/ slash - 1 > max THEN ERR ELSE 0,
                 port, Path(SubSeq(in, slash, Len(in))))

----------------------------------------------------------------------------
(* Comparison.  A limit of n compares n + 1 characters. *)

ToLower(str) == [i \in DOMAIN str |-> IF str[i] \in 65 .. 90 THEN str[i] + 32 ELSE str[i]]

At(str, i) == IF i <= Len(str) THEN str[i] ELSE 0

_cmp(a, al, b, bl) ==
  LET differ == {i \in 1 .. Len(a) + Len(b) + 1 : At(a, i) # At(b, i)}
      at == CHOOSE i \in differ : \A j \in differ : i <= j
      least == IF al < bl THEN al ELSE bl
  IN IF differ # {} /\ at <= least + 1 THEN IF At(a, at) > At(b, at) THEN 1 ELSE -1
     ELSE IF (Len(a) <= least /\ Len(b) <= least) \/ al = bl THEN 0
     ELSE IF al < bl THEN -1 ELSE 1

cmp_nocaseSlip(a, b, len) == _cmp(ToLower(a), len, b, len)
cmp_nocase(a, b, len) == _cmp(ToLower(a), len, ToLower(b), len)

Tail_(str, len) == SubSeq(str, Len(str) - len + 1, Len(str))

cmp_tail(a, b, len, max) ==
  IF Len(a) > max THEN 1 ELSE IF Len(b) > max THEN -1
  ELSE IF Len(b) < len \/ Len(a) < len THEN _cmp(a, Len(a), b, Len(b))
  ELSE _cmp(Tail_(a, len), len, Tail_(b, len), len)

----------------------------------------------------------------------------
(* Words *)

rchr(in, sep, max) ==
  LET at == {i \in DOMAIN in : in[i] = sep}
  IN IF Len(in) > max + 1 \/ at = {} THEN 0 ELSE CHOOSE i \in at : \A j \in at : j <= i

\* At most bl characters, and at most al with the terminator.
_copy(al, b, bl) ==
  LET k == CHOOSE n \in {Len(b), al, bl} : n <= Len(b) /\ n <= al /\ n <= bl
  IN [r |-> k, a |-> SubSeq(b, 1, IF k = al THEN al - 1 ELSE k)]

\* The part before the separator and the part behind it; nothing without one,
\* or when the part before it exceeds the limit.
divide_tag_and_val(sep, line, taglen) ==
  LET at == FirstOf(line, 1, {sep})
  IN IF at > Len(line) \/ at - 1 > taglen THEN [r |-> ERR, tag |-> None, val |-> None]
     ELSE [r |-> 0, tag |-> SubSeq(line, 1, at - 1), val |-> SubSeq(line, at + 1, Len(line))]

\* strtok's words; with more than bufsize of them the rest are not returned.
split(src, delim, bufsize) ==
  LET word[i \in 1 .. Len(src) + 1] ==
        IF i > Len(src) THEN <<>>
        ELSE IF src[i] \in delim THEN word[i + 1]
        ELSE LET end == FirstOf(src, i, delim) IN
             <<SubSeq(src, i, end - 1)>> \o (IF end > Len(src) THEN <<>> ELSE word[end + 1])
      words == word[1]
  IN SubSeq(words, 1, IF Len(words) < bufsize THEN Len(words) ELSE bufsize)

bin2hex(bin) ==
  LET list(n) == IF n < 10 THEN 48 + n ELSE 87 + n
  IN [i \in 1 .. 2 * Len(bin) |->
        list(IF i % 2 = 1 THEN bin[(i + 1) \div 2] \div 16 ELSE bin[i \div 2] % 16)]

----------------------------------------------------------------------------
(* The sieve: p[n - 1] is set once n is known to be composite *)

prime(given) ==
  LET cross[i \in 1 .. given] ==  \* what is crossed out when i was looked at
        IF i = 1 THEN {}
        ELSE IF i > given \div i \/ i \in cross[i - 1] THEN cross[i - 1]
        ELSE cross[i - 1] \cup {j \in 2 * i .. given : j % i = 0}
      left == (2 .. given) \ cross[given]
  IN IF given <= 3 THEN given ELSE CHOOSE n \in left : \A m \in left : m <= n

----------------------------------------------------------------------------
(* The calls.  In numbers: a sign, decimal and hexadecimal digits and a    *)
(* letter that is none; in urls: one to three characters of a host, a port *)
(* and a path, each but the first possibly missing.                        *)

Texts(set, n) == UNION {[1 .. k -> set] : k \in 0 .. n}

Called(f, args, result) == call' = [f |-> f, args |-> args, result |-> result]

ReadsNumber ==
  \E str \in Texts({45, 48, 49, 55, 97, 70, 120}, MaxDigits), max \in {2, MaxDigits + 1} :
    \/ Called("atobn", <<str, max>>, _atobn(str, max))
    \/ Called("atoi", <<str, max>>, _atoi(str, max))
    \/ Called("htoi", <<str, max>>, htoi(str, max))
    \/ Called("htobn", <<str, max>>, htobn(str, max))

Hosts == {<<104>>, <<104, 49>>, <<104, 46, 49>>}
Ports == {<<>>, <<58, 55>>, <<58, 49, 55>>, <<58, 55, 55, 55>>, <<58, 120>>}
Paths == {<<>>, <<47>>, <<47, 97, 58, 98>>, <<47, 47, 97>>, <<47, 97, NewLine>>}

ReadsUrl ==
  \E host \in Hosts, port \in Ports, path \in Paths, max \in {3, 16} :
    Called("url", <<host, port, path, max>>, parse_url(host \o port \o path, max))

Compares ==
  \E a, b \in Texts({65, 97, 98}, MaxText), n \in {1, MaxText} :
    \/ Called("cmp", <<a, b, n>>, _cmp(a, n, b, n))
    \/ Called("nocase", <<a, b, n>>, cmp_nocase(a, b, n))
    \/ Called("tail", <<a, b, n>>, cmp_tail(a, b, n, MaxText))

Words ==
  \E str \in Texts({32, 44, 97}, MaxText + 1), n \in 1 .. 2 :
    \/ Called("rchr", <<str>>, rchr(str, 44, MaxText + 1))
    \/ Called("divide", <<str, n>>, divide_tag_and_val(44, str, n))
    \/ Called("copy", <<str, n>>, _copy(n, str, MaxText))
    \/ Called("split", <<str, n>>, split(str, {32, 44}, n))

Encodes == \E bin \in Texts({0, 9, 10, 166, 255}, MaxText) : Called("hex", <<bin>>, bin2hex(bin))

Primes == \E given \in 0 .. MaxPrime : Called("prime", <<given>>, prime(given))

Nothing == [f |-> "none", args |-> <<>>, result |-> 0]

Init == call = Nothing

Next ==
  /\ call.f = "none"
  /\ \/ ReadsNumber \/ ReadsUrl \/ Compares \/ Words \/ Encodes \/ Primes

Spec == Init /\ [][Next]_call

----------------------------------------------------------------------------
(* What the functions are for *)

Calls(fs) == call.f \in fs
Arg(i) == call.args[i]

\* The value a text denotes in a base, or nothing.
Denotes(str, base) ==
  LET minus == str # <<>> /\ str[1] = 45
      digits == IF minus THEN Tail(str) ELSE str
      digit == IF base = 10 THEN Digit ELSE HexDigit
      sum[i \in 0 .. Len(digits)] ==
        IF i = 0 THEN 0
        ELSE sum[i - 1] + digit[digits[i]] * base^(Len(digits) - i)
  IN IF \A i \in DOMAIN digits : digits[i] \in DOMAIN digit
     THEN {IF minus THEN -sum[Len(digits)] ELSE sum[Len(digits)]} ELSE {}

Fits(n, w) == -(2^(w - 1)) <= n /\ n < 2^(w - 1)

\* A text that is a number shorter than the limit and fits the type is read as
\* that number; a text that is none is refused, and so is one whose digits
\* reach the limit: util.cpp, _atobn, _atoi, htoi and htobn.
ReadsNumbers ==
  Calls({"atobn", "atoi", "htoi", "htobn"}) =>
    LET base == IF Calls({"atobn", "atoi"}) THEN 10 ELSE 16
        width == IF Calls({"atoi", "htoi"}) THEN IntBits ELSE BigBits
        read == call.result
        size == Len(Arg(1))
    IN /\ Denotes(Arg(1), base) = {} => read.r < 0
       /\ size > 1 /\ size >= Arg(2) => read.r < 0
       /\ \A n \in Denotes(Arg(1), base) :
            Fits(n, width) /\ size < Arg(2) => read = [r |-> 0, n |-> n]

\* A url taken apart gives its host, its port or 80, and its path without the
\* line's end: util.cpp, parse_url.
TakesUrlsApart ==
  Calls({"url"}) =>
    LET host == Arg(1) port == Arg(2) path == Arg(3)
        url == call.result
    IN url.r = 0 =>
         /\ url.host = host
         /\ url.ends = (port \o path # <<>>)
         /\ IF port = <<>> THEN url.port = 80
            ELSE \A n \in Denotes(Tail(port), 10) : url.port = n % 2^IntBits
         /\ url.path = IF path # <<>> /\ path[Len(path)] = NewLine
                       THEN SubSeq(path, 1, Len(path) - 1) ELSE path

Prefix(str, n) == SubSeq(str, 1, IF n < Len(str) THEN n ELSE Len(str))

\* Texts are equal exactly when their compared parts are, and two texts are
\* ordered the other way round when they change places: util.h, _cmp, and
\* util.cpp, cmp_nocase and cmp_tail.
ComparesTexts ==
  LET a == Arg(1) b == Arg(2) n == Arg(3) r == call.result
      Same(x, y) == Prefix(x, n + 1) = Prefix(y, n + 1)
  IN /\ Calls({"cmp"}) => (r = 0 <=> Same(a, b)) /\ _cmp(b, n, a, n) = -r
     /\ Calls({"nocase"}) =>
          (r = 0 <=> Same(ToLower(a), ToLower(b))) /\ cmp_nocase(b, a, n) = -r
     /\ Calls({"tail"}) /\ Len(a) >= n /\ Len(b) >= n =>
          (r = 0 <=> Tail_(a, n) = Tail_(b, n))

\* The words of a text have no separator, lie in the text one behind the other
\* and leave nothing but separators between them; a divided line is its parts
\* around the first separator, and a copy ends inside its buffer: util.h, split
\* and _copy, and util.cpp, divide_tag_and_val and rchr.
FindsWords ==
  LET str == Arg(1) r == call.result
      Join[i \in 0 .. Len(str)] ==  \* the words one behind the other
        IF i = 0 \/ i > Len(r) THEN <<>> ELSE Join[i - 1] \o r[i]
      sep == {32, 44}
  IN /\ Calls({"split"}) =>
          /\ \A i \in DOMAIN r : r[i] # <<>> /\ \A j \in DOMAIN r[i] : r[i][j] \notin sep
          /\ Len(r) < Arg(2) => Join[Len(r)] = SelectSeq(str, LAMBDA c : c \notin sep)
     /\ Calls({"divide"}) /\ r.r = 0 =>
          str = r.tag \o <<44>> \o r.val /\ \A i \in DOMAIN r.tag : r.tag[i] # 44
     /\ Calls({"copy"}) =>
          /\ Len(r.a) < Arg(2) /\ r.a = Prefix(str, Len(r.a))
          /\ Len(str) < Arg(2) => r.a = str
     /\ Calls({"rchr"}) =>
          IF r = 0 THEN \A i \in DOMAIN str : str[i] # 44
          ELSE str[r] = 44 /\ \A i \in r + 1 .. Len(str) : str[i] # 44
     /\ Calls({"hex"}) =>
          \A i \in DOMAIN str :
            HexDigit[r[2 * i - 1]] * 16 + HexDigit[r[2 * i]] = str[i]

IsPrime(n) == n > 1 /\ \A d \in 2 .. n - 1 : n % d # 0

\* A hash table gets the largest prime that is not larger than the size asked
\* for: util.cpp, prime, for map.h, init.
LargestPrime ==
  Calls({"prime"}) /\ Arg(1) > 1 =>
    /\ IsPrime(call.result) /\ call.result <= Arg(1)
    /\ \A n \in call.result + 1 .. Arg(1) : ~IsPrime(n)

\* Numbers and the sizes of tables: util.cpp, _atoi and prime.
Numbers == ReadsNumbers /\ LargestPrime

\* Urls, comparison and words: util.cpp, parse_url and cmp_nocase.
Strings == TakesUrlsApart /\ ComparesTexts /\ FindsWords
============================================================================
