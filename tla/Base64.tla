------------------------------- MODULE Base64 -------------------------------
(***************************************************************************)
(* Base64 as the keys of a websocket handshake are written (util.cpp,      *)
(* base64::encode and decode, and the b64 library in util/exlib): bytes    *)
(* are encoded block by block, and what came out is decoded block by       *)
(* block, cut anywhere.                                                    *)
(*                                                                         *)
(* A letter of the code is the number 0 .. 63 that it stands for.          *)
(***************************************************************************)
EXTENDS Integers, Sequences, SequencesExt

CONSTANTS
  Octet,           \* the bytes that occur
  MaxPlain,        \* bound on the bytes that are encoded
  CHARS_PER_LINE   \* letters of a line

VARIABLES
  plain,    \* what was encoded so far
  coder,    \* base64_encodestate: step, result and stepcount
  code,     \* what came out
  ended,    \* the end was written
  decoder,  \* base64_decodestate: step and plainchar
  text,     \* what was decoded
  ofs       \* letters of the code that were decoded

vars == <<plain, coder, code, ended, decoder, text, ofs>>

\* What base64_decode_value says of the sign of the end and of a line break
PAD == -2
BREAK == -1

Init ==
  /\ plain = <<>> /\ code = <<>> /\ text = <<>>
  /\ coder = [step |-> "A", result |-> 0, stepcount |-> 0]
  /\ ended = FALSE
  /\ decoder = [step |-> "a", plainchar |-> 0]
  /\ ofs = 0

\* One byte: the letter it completes, in step C one more, and what is left.
Encode(at, b) ==
  CASE at.c.step = "A" ->
         [c |-> [at.c EXCEPT !.step = "B", !.result = (b % 4) * 16],
          out |-> Append(at.out, b \div 4)]
    [] at.c.step = "B" ->
         [c |-> [at.c EXCEPT !.step = "C", !.result = (b % 16) * 4],
          out |-> Append(at.out, at.c.result + (b \div 16))]
    [] at.c.step = "C" ->
         LET full == at.c.stepcount + 1 = CHARS_PER_LINE \div 4 IN
         [c |-> [step |-> "A", result |-> b % 64,
                 stepcount |-> IF full THEN 0 ELSE at.c.stepcount + 1],
          out |-> at.out \o <<at.c.result + (b \div 64), b % 64>>
                         \o (IF full THEN <<BREAK>> ELSE <<>>)]

encode_block(block) ==
  LET at == FoldLeft(Encode, [c |-> coder, out |-> code], block)
  IN  /\ ~ended /\ Len(plain) + Len(block) <= MaxPlain
      /\ plain' = plain \o block
      /\ coder' = at.c /\ code' = at.out
      /\ UNCHANGED <<ended, decoder, text, ofs>>

\* Slip: what is left over is not written.
encode_blockendShort ==
  /\ ~ended /\ ended' = TRUE
  /\ code' = code \o (CASE coder.step = "A" -> <<>>
                        [] coder.step = "B" -> <<PAD, PAD>>
                        [] coder.step = "C" -> <<PAD>>)
  /\ UNCHANGED <<plain, coder, decoder, text, ofs>>

\* The last letter, and signs for the bytes that are missing.  The line break
\* that comes last is replaced by the end of the string.
encode_blockend ==
  /\ ~ended /\ ended' = TRUE
  /\ code' = code \o (CASE coder.step = "A" -> <<>>
                        [] coder.step = "B" -> <<coder.result, PAD, PAD>>
                        [] coder.step = "C" -> <<coder.result, PAD>>)
  /\ UNCHANGED <<plain, coder, decoder, text, ofs>>

\* One letter; what is none is passed over.
Decode(at, v) ==
  IF v < 0 THEN at
  ELSE CASE at.d.step = "a" -> [at EXCEPT !.d = [step |-> "b", plainchar |-> v * 4]]
         [] at.d.step = "b" -> [d |-> [step |-> "c", plainchar |-> (v % 16) * 16],
                                out |-> Append(at.out, at.d.plainchar + (v \div 16))]
         [] at.d.step = "c" -> [d |-> [step |-> "d", plainchar |-> (v % 4) * 64],
                                out |-> Append(at.out, at.d.plainchar + (v \div 4))]
         [] at.d.step = "d" -> [d |-> [step |-> "a", plainchar |-> 0],
                                out |-> Append(at.out, at.d.plainchar + v)]

decode_block(n) ==
  LET at == FoldLeft(Decode, [d |-> decoder, out |-> text], SubSeq(code, ofs + 1, ofs + n))
  IN  /\ ofs + n <= Len(code)
      /\ decoder' = at.d /\ text' = at.out
      /\ ofs' = ofs + n
      /\ UNCHANGED <<plain, coder, code, ended>>

Next ==
  \/ \E n \in 1 .. 3 : (\E block \in [1 .. n -> Octet] : encode_block(block)) \/ decode_block(n)
  \/ encode_blockend

Spec == Init /\ [][Next]_vars

buffsize(n) == ((3 + (((2 + n) * 4) \div 3) + 1 + 1) \div 4) * 4

\* What is decoded is what was encoded, all of it once the code is read to its
\* end, however both were cut; and the code with the zero behind it has room in
\* the buffer it is given: util.cpp, encode and decode, and util.h, buffsize.
DecodesBack ==
  /\ IsPrefix(text, plain)
  /\ ended /\ ofs = Len(code) => text = plain
  /\ ended => Len(code) + 1 <= buffsize(Len(plain))
============================================================================
