------------------------------- MODULE GujiInt -------------------------------
(***************************************************************************)
(* int64_t, at any width: the integers from -IntMax - 1 to IntMax.  C      *)
(* arithmetic on them wraps round (programs are compiled with -fwrapv, see *)
(* src/selfhost/compile_driver.guji), and the checked operations of        *)
(* src/selfhost/rt/runtime_prologue.c.  Each of them computes the wrapped  *)
(* result and looks at it, or at the operands, to find out whether it has  *)
(* wrapped.  A panic is a value of its own.                                *)
(***************************************************************************)
EXTENDS Integers

CONSTANTS IntMax,    \* INT64_MAX
          Panic      \* the process has panicked

ASSUME WidthAssumption == IntMax \in Nat \ {0}

IntMin == -IntMax - 1               \* INT64_MIN
Int64  == IntMin .. IntMax

ASSUME PanicAssumption == Panic \notin Int64

Wrap(n) == IntMin + ((n - IntMin) % (2 * (IntMax + 1)))

Magnitude(n) == IF n < 0 THEN -n ELSE n

\* The operators / and % of C, which round towards zero.
Quot(a, b) == LET q == Magnitude(a) \div Magnitude(b)
              IN  IF (a < 0) = (b < 0) THEN q ELSE -q
Rem(a, b) == a - b * Quot(a, b)

\* What the language promises: the integer itself, or a panic.
OrPanic(n) == IF n \in Int64 THEN n ELSE Panic

-----------------------------------------------------------------------------
Add(a, b) ==
  LET r == Wrap(a + b) IN
  IF (a > 0 /\ b > 0 /\ r < 0) \/ (a < 0 /\ b < 0 /\ r > 0) THEN Panic ELSE r

Sub(a, b) ==
  LET r == Wrap(a - b) IN
  IF (a >= 0 /\ b < 0 /\ r < 0) \/ (a < 0 /\ b > 0 /\ r >= 0) THEN Panic ELSE r

\* Faulty: an overflow is recognised by its sign.
MulBySign(a, b) ==
  LET p == Wrap(a * b) IN
  IF a # 0 /\ b # 0 /\ (p < 0) # ((a < 0) # (b < 0)) THEN Panic ELSE p

Mul(a, b) ==
  IF a = 0 \/ b = 0 THEN 0
  ELSE IF (a = IntMin /\ b = -1) \/ (b = IntMin /\ a = -1) THEN Panic
  ELSE LET p == Wrap(a * b) IN IF Quot(p, b) # a THEN Panic ELSE p

\* Division by zero panics too.
Div(a, b) ==
  IF b = 0 \/ (a = IntMin /\ b = -1) THEN Panic ELSE Quot(a, b)

Mod(a, b) ==
  IF b = 0 THEN Panic ELSE IF a = IntMin /\ b = -1 THEN 0 ELSE Rem(a, b)

Neg(a) == IF a = IntMin THEN Panic ELSE -a
=============================================================================
