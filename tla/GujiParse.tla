------------------------------ MODULE GujiParse ------------------------------
(***************************************************************************)
(* parse_int: guji_parse_int of src/selfhost/rt/runtime_prologue.c, which  *)
(* reads a Str as a C string, digit by digit.                              *)
(***************************************************************************)
EXTENDS GujiInt, Sequences, SequencesExt

CONSTANTS Input,                     \* the Strs that are parsed
          Minus, Plus, Space, Nul,   \* characters that are not digits
          Letter,
          Err                        \* the result Err("invalid integer")

Digit == 0 .. 9

VARIABLES stage,   \* "start", "digits" or "done"; "off" without a call
          str,     \* the argument
          rest,    \* what is still to be read, p to q
          neg, val,
          res      \* the result

parseVars == <<stage, str, rest, neg, val, res>>

ParseInit ==
  /\ stage = "start" /\ str \in Input
  /\ rest = <<>> /\ neg = FALSE /\ val = 0 /\ res = 0

\* What strlen sees of s.
CString(s) ==
  IF Contains(s, Nul) THEN SubSeq(s, 1, (CHOOSE n \in DOMAIN s : s[n] = Nul /\
                                         \A k \in 1 .. n - 1 : s[k] # Nul) - 1)
                      ELSE s

\* s without the spaces at its ends.
Trim(s) ==
  LET ink == {n \in DOMAIN s : s[n] # Space} IN
  IF ink = {} THEN <<>>
  ELSE SubSeq(s, CHOOSE n \in ink : \A k \in ink : n <= k, CHOOSE n \in ink : \A k \in ink : k <= n)

Signed(s)   == s # <<>> /\ Head(s) \in {Minus, Plus}
Unsigned(s) == IF Signed(s) THEN Tail(s) ELSE s

Return(r) == stage' = "done" /\ res' = r

\* The text is trimmed and its sign is read.
Start ==
  /\ stage = "start"
  /\ LET text == Trim(CString(str)) IN
       /\ rest' = Unsigned(text)
       /\ neg' = (text # <<>> /\ Head(text) = Minus)
       /\ IF Unsigned(text) = <<>> THEN Return(Err) ELSE stage' = "digits" /\ UNCHANGED res
  /\ UNCHANGED <<str, val>>

Fits(v, d) == v <= (IntMax - d) \div 10

ReadDigit ==
  /\ stage = "digits" /\ rest # <<>>
  /\ LET d == Head(rest) IN
       IF d \in Digit /\ Fits(val, d)
       THEN /\ val' = Wrap(val * 10 + d) /\ rest' = Tail(rest)
            /\ UNCHANGED <<stage, res>>
       ELSE Return(Err) /\ UNCHANGED <<val, rest>>
  /\ UNCHANGED <<str, neg>>

\* Faulty: the sign is lost.
ValueUnsigned == val

SignedValue == IF neg THEN Wrap(-val) ELSE val

Finish ==
  /\ stage = "digits" /\ rest = <<>>
  /\ Return(SignedValue)
  /\ UNCHANGED <<str, rest, neg, val>>

Ready == stage = "done" /\ UNCHANGED parseVars

ParseNext == Start \/ ReadDigit \/ Finish \/ Ready

ParseSpec == ParseInit /\ [][ParseNext]_parseVars

-----------------------------------------------------------------------------
(* Properties.                                                             *)

\* The value of a sequence of digits.
Value(ds) == FoldLeft(LAMBDA v, d : v * 10 + d, 0, ds)

\* A base-10 integer, with its sign and with spaces around it, is its value
\* if that is an Int.  Anything else is an error.
Parsed(s) ==
  LET text == Trim(s)
      ds   == Unsigned(text)
      n    == IF text # <<>> /\ Head(text) = Minus THEN -Value(ds) ELSE Value(ds)
  IN  IF ds = <<>> \/ ~(ToSet(ds) \subseteq Digit) THEN Err
      ELSE IF n \in Int64 THEN n ELSE Err

IsLeast(s) == Parsed(s) = IntMin
HasNul(s)  == Contains(s, Nul)

\* Every Str is parsed right, but for the least integer and for Strs that
\* contain U+0000: near the ends of the range as well as far beyond them, with
\* leading zeros, or with a sign and nothing after it.
ParsedRight == stage = "done" /\ ~IsLeast(str) /\ ~HasNul(str) => res = Parsed(str)

=============================================================================
