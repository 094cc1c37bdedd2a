------------------------------ MODULE GujiUtf8 ------------------------------
(***************************************************************************)
(* How bytes become text: runtime_prologue.c 335-419 turns what comes from *)
(* outside into a Str, 750-795 takes a Str apart into its characters, and  *)
(* 10195-10351 moves over the runes of a Str.                              *)
(*                                                                         *)
(* A Str is a sequence of bytes.  A position in it is the number of bytes  *)
(* before it.                                                              *)
(***************************************************************************)
EXTENDS Integers, Sequences

CONSTANT External      \* what comes from outside

Byte == 0 .. 255

VARIABLES input,
          at,       \* "repair", "characters" or "done"; "off" without a call
          pos,      \* how much of input, or of out, has been read
          out,      \* the Str
          chars     \* its characters

utf8Vars == <<input, at, pos, out, chars>>

Continuation == 128 .. 191

\* The bytes of s from pos on, at most n.
Taken(s, from, n) == SubSeq(s, from + 1, from + n)

----------------------------------------------------------------------------
\* guji_utf8_valid_width.

LeadWidth(b) ==
    CASE b <= 127 -> 1
      [] b \in 194 .. 223 -> 2
      [] b \in 224 .. 239 -> 3
      [] b \in 240 .. 244 -> 4
      [] OTHER -> 0

\* Mutant: surrogates pass.
SecondLoose(b) ==
    CASE b = 224 -> 160 .. 191
      [] b = 240 -> 144 .. 191
      [] b = 244 -> 128 .. 143
      [] OTHER -> Continuation
\* The second byte after b: no overlong form, no surrogate, nothing past U+10FFFF.
Second(b) ==
    CASE b = 224 -> 160 .. 191
      [] b = 237 -> 128 .. 159
      [] b = 240 -> 144 .. 191
      [] b = 244 -> 128 .. 143
      [] OTHER -> Continuation

\* The width of the scalar at a position, 0 if there is none.
ValidWidth(s, p) ==
    LET w == LeadWidth(s[p + 1])
    IN IF /\ p + w <= Len(s)
          /\ w > 1 => s[p + 2] \in Second(s[p + 1])
          /\ w > 2 => s[p + 3] \in Continuation
          /\ w > 3 => s[p + 4] \in Continuation
       THEN w ELSE 0

Replacement == <<239, 191, 189>>

----------------------------------------------------------------------------
\* guji_str_from_external, a turn of its loop at a time, and the characters of
\* the Str it returns, as split with an empty separator gives them.

Utf8Init ==
    /\ input \in External
    /\ at = "repair" /\ pos = 0 /\ out = <<>> /\ chars = <<>>

Repair ==
    /\ at = "repair" /\ pos < Len(input)
    /\ LET w == ValidWidth(input, pos)
       IN IF w > 0 THEN out' = out \o Taken(input, pos, w) /\ pos' = pos + w
                   ELSE out' = out \o Replacement /\ pos' = pos + 1
    /\ UNCHANGED <<input, at, chars>>

Repaired ==
    /\ at = "repair" /\ pos = Len(input)
    /\ at' = "characters" /\ pos' = 0
    /\ UNCHANGED <<input, out, chars>>

\* The width of the character that a byte begins; a Str is not checked again.
CharWidth(b) ==
    CASE b < 128 -> 1
      [] b \in 192 .. 223 -> 2
      [] b \in 224 .. 239 -> 3
      [] b \in 240 .. 247 -> 4
      [] OTHER -> 1

Character ==
    /\ at = "characters" /\ pos < Len(out)
    /\ LET left == Len(out) - pos
           w == IF CharWidth(out[pos + 1]) > left THEN left ELSE CharWidth(out[pos + 1])
       IN chars' = Append(chars, Taken(out, pos, w)) /\ pos' = pos + w
    /\ UNCHANGED <<input, at, out>>

Split ==
    /\ at = "characters" /\ pos = Len(out)
    /\ at' = "done"
    /\ UNCHANGED <<input, pos, out, chars>>

Utf8Next == Repair \/ Repaired \/ Character \/ Split

----------------------------------------------------------------------------
\* Moving over a Str.

\* guji_rx_utf8_first: the size of a sequence and the range of its second byte,
\* by its first; size 0 stands for ASCII, -1 for no first byte.
Utf8First(b) ==
    CASE b < 128 -> <<0, 0>>
      [] b \in 128 .. 193 -> <<-1, 0>>
      [] b \in 194 .. 223 -> <<2, 0>>
      [] b = 224 -> <<3, 1>>
      [] b \in 225 .. 236 -> <<3, 0>>
      [] b = 237 -> <<3, 2>>
      [] b \in 238 .. 239 -> <<3, 0>>
      [] b = 240 -> <<4, 3>>
      [] b \in 241 .. 243 -> <<4, 0>>
      [] b = 244 -> <<4, 4>>
      [] b > 244 -> <<-1, 0>>
Accept == << <<160, 191>>, <<128, 159>>, <<144, 191>>, <<128, 143>> >>

RuneError == 65533

\* guji_regex_read_rune: the rune at a position before the end, and where the
\* next one begins.
ReadRune(s, p) ==
    LET first == Utf8First(s[p + 1])
        size == first[1]
        range == IF first[2] = 0 THEN <<128, 191>> ELSE Accept[first[2]]
        B(k) == s[p + 1 + k]
        Low(k) == B(k) % 64
        error == [r |-> RuneError, next |-> p + 1]
    IN IF size = 0 THEN [r |-> B(0), next |-> p + 1]
       ELSE IF size < 0 \/ Len(s) - p < size \/ B(1) < range[1] \/ B(1) > range[2] THEN error
       ELSE IF size = 2 THEN [r |-> (B(0) % 32) * 64 + Low(1), next |-> p + 2]
       ELSE IF B(2) \notin Continuation THEN error
       ELSE IF size = 3 THEN [r |-> ((B(0) % 16) * 64 + Low(1)) * 64 + Low(2), next |-> p + 3]
       ELSE IF B(3) \notin Continuation THEN error
       ELSE [r |-> (((B(0) % 8) * 64 + Low(1)) * 64 + Low(2)) * 64 + Low(3), next |-> p + 4]

IsRuneStart(b) == b \notin Continuation

ClampStart(s, p) ==
    IF p >= Len(s) THEN Len(s)
    ELSE CHOOSE q \in p .. Len(s) : /\ q = Len(s) \/ IsRuneStart(s[q + 1])
                                    /\ \A r \in p .. q - 1 : ~IsRuneStart(s[r + 1])

NextStart(s, p) == IF p >= Len(s) THEN Len(s) ELSE ReadRune(s, p).next

\* Mutant: one byte back.
PrevByte(s, p) == IF p <= 0 THEN -1 ELSE p - 1
PrevRuneStart(s, p) ==
    IF p <= 0 THEN -1
    ELSE CHOOSE q \in 0 .. p - 1 : /\ q = 0 \/ IsRuneStart(s[q + 1])
                                   /\ \A r \in q + 1 .. p - 1 : ~IsRuneStart(s[r + 1])

\* As many runes back, or to the beginning.
WalkBack(s, p, w) ==
    LET back[k \in 0 .. w] == IF k = 0 THEN p
                              ELSE IF back[k - 1] > 0 THEN PrevRuneStart(s, back[k - 1]) ELSE back[k - 1]
    IN IF back[w] < 0 THEN 0 ELSE back[w]

----------------------------------------------------------------------------
\* Properties.  The reference is the arithmetic of UTF-8: a sequence of bytes
\* is an encoding if it is the encoding of the scalar value it decodes to.

IsScalar(c) == c \in 0 .. 55295 \/ c \in 57344 .. 1114111

Encode(c) ==
    IF c < 128 THEN <<c>>
    ELSE IF c < 2048 THEN <<192 + c \div 64, 128 + (c % 64)>>
    ELSE IF c < 65536 THEN <<224 + c \div 4096, 128 + ((c \div 64) % 64), 128 + (c % 64)>>
    ELSE <<240 + c \div 262144, 128 + ((c \div 4096) % 64), 128 + ((c \div 64) % 64), 128 + (c % 64)>>

Decode(b) ==
    CASE Len(b) = 1 -> b[1]
      [] Len(b) = 2 -> (b[1] - 192) * 64 + b[2] - 128
      [] Len(b) = 3 -> ((b[1] - 224) * 64 + b[2] - 128) * 64 + b[3] - 128
      [] Len(b) = 4 -> (((b[1] - 240) * 64 + b[2] - 128) * 64 + b[3] - 128) * 64 + b[4] - 128

IsEncoding(b) == IsScalar(Decode(b)) /\ Encode(Decode(b)) = b

\* The text of bytes: the scalars they encode, one at a time, and U+FFFD for
\* each byte that begins none.
TextOf(s) ==
    LET widths(p) == {w \in 1 .. 4 : p + w <= Len(s) /\ IsEncoding(Taken(s, p, w))}
        text[p \in 0 .. Len(s)] ==
            IF p = Len(s) THEN <<>>
            ELSE IF widths(p) = {} THEN <<RuneError>> \o text[p + 1]
            ELSE LET w == CHOOSE v \in widths(p) : TRUE IN <<Decode(Taken(s, p, w))>> \o text[p + w]
    IN text[0]

\* What comes from outside becomes the text it encodes, with U+FFFD for each byte
\* that is not part of an encoding, and the characters of the Str are the
\* encodings of its scalars (guji-spec.md 3.1).
TextRepaired ==
    at = "done" => chars = [k \in DOMAIN TextOf(input) |-> Encode(TextOf(input)[k])]

\* The runes of a Str are its scalars, though two functions of the runtime decode
\* them; going back undoes going on, from wherever a rune begins and by any
\* number of runes; and a position inside a rune is moved past it.
RunesAgree ==
    at = "done" =>
        LET n == Len(chars)
            start[k \in 0 .. n] == IF k = 0 THEN 0 ELSE start[k - 1] + Len(chars[k])
        IN /\ \A k \in 1 .. n : ReadRune(out, start[k - 1]) = [r |-> Decode(chars[k]), next |-> start[k]]
           /\ \A k \in 1 .. n : PrevRuneStart(out, NextStart(out, start[k - 1])) = start[k - 1]
           /\ \A k \in 0 .. n, w \in 0 .. n : WalkBack(out, start[k], w) = start[IF w > k THEN 0 ELSE k - w]
           /\ \A k \in 1 .. n, p \in 1 .. Len(out) :
                  start[k - 1] < p /\ p <= start[k] => ClampStart(out, p) = start[k]
=============================================================================
