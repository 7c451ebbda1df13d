--------------------------------- MODULE Base64 ---------------------------------
(***************************************************************************)
(* base64_decode and base64_encode, on sequences of bytes and of           *)
(* characters (their codes).                                               *)
(***************************************************************************)
EXTENDS Integers, Sequences, SequencesExt

\* The characters in the order of their values: A-Z a-z 0-9 + /
Alphabet == [v \in 0 .. 63 |-> IF v <= 25 THEN v + 65
                               ELSE IF v <= 51 THEN v + 71
                               ELSE IF v <= 61 THEN v - 4
                               ELSE IF v = 62 THEN 43 ELSE 47]

\* map2: the value of a character, none for those that are not in the alphabet.
Values(c) == {v \in 0 .. 63 : Alphabet[v] = c}

End == {0, 61}   \* the end of the string, and '='

-----------------------------------------------------------------------------
(* base64_decode *)

\* Mutant: the first character of four gives a byte of its own.
GivesByteAlways(i) == TRUE

GivesByte(i) == i % 4 # 0

\* v >> (6 - 2 * (i & 3))
Shifted(v, i) == v \div <<64, 16, 4, 1>>[(i % 4) + 1]

\* The i-th character (from 0) joins the last bits that were read.  Only the
\* bits that can still reach a byte are kept of them.
DecodeChar(d, i, c, room) ==
  IF d.done \/ c \in End THEN [d EXCEPT !.done = TRUE]
  ELSE IF Values(c) = {} THEN [d EXCEPT !.done = TRUE, !.rc = -1]
  ELSE LET v == (64 * d.bits + (CHOOSE v \in Values(c) : TRUE)) % 4096
       IN  [d EXCEPT !.bits = v,
                     !.out = IF GivesByte(i) /\ Len(@) < room THEN Append(@, Shifted(v, i) % 256)
                             ELSE @]

\* What is written into a buffer of room bytes, and the result.
Decode(in, room) ==
  LET d[i \in 0 .. Len(in)] ==
        IF i = 0 THEN [bits |-> 0, out |-> <<>>, done |-> FALSE, rc |-> 0]
        ELSE DecodeChar(d[i - 1], i - 1, in[i], room)
      end == d[Len(in)]
  IN  [out |-> end.out, rc |-> IF end.rc = -1 THEN -1 ELSE Len(end.out)]

-----------------------------------------------------------------------------
(* base64_encode *)

EncodedSize(n) == ((n + 2) \div 3) * 4 + 1   \* BASE64_SIZE

\* Two[n] is 2 to the n.
Two == <<2, 4, 8, 16, 32, 64, 128, 256, 512, 1024, 2048, 4096, 8192, 16384>>

\* How many characters a byte gives, when there are shift bits with it: the loop
\* goes on while they are more than 6, or any after the last byte.
Characters(shift, last) == IF last THEN (shift + 5) \div 6 ELSE (shift - 1) \div 6

EncodeByte(e, byte, last) ==
  LET bits == (256 * e.bits + byte) % 65536
      shift == e.shift + 8
      chars == Characters(shift, last)
  IN  [bits |-> bits,
       shift |-> shift - 6 * chars,
       out |-> e.out \o [k \in 1 .. chars |-> Alphabet[((64 * bits) \div Two[shift - 6 * (k - 1)]) % 64]]]

\* The string, or nothing when it does not fit in room bytes.
Encode(in, room) ==
  LET e[i \in 0 .. Len(in)] ==
        IF i = 0 THEN [bits |-> 0, shift |-> 0, out |-> <<>>]
        ELSE EncodeByte(e[i - 1], in[i], i = Len(in))
      out == e[Len(in)].out
  IN  IF room < EncodedSize(Len(in)) THEN <<>> ELSE out \o [k \in 1 .. (-Len(out)) % 4 |-> 61]
=============================================================================
