------------------------------ MODULE GujiArith ------------------------------
(***************************************************************************)
(* A call of one of the integer operations on any two integers.  guji_pow  *)
(* (src/selfhost/rt/runtime_prologue.c) is a loop, a round of which is a   *)
(* step.                                                                   *)
(***************************************************************************)
EXTENDS GujiInt

Operators == {"add", "sub", "mul", "div", "mod", "neg"}

Apply(o, x, y) ==
  CASE o = "add" -> Add(x, y) [] o = "sub" -> Sub(x, y) [] o = "mul" -> Mul(x, y)
    [] o = "div" -> Div(x, y) [] o = "mod" -> Mod(x, y) [] o = "neg" -> Neg(x)

-----------------------------------------------------------------------------
VARIABLES pc,          \* "idle", "pow" (in the loop of guji_pow), "done"; "off" without a call
          op, a, b,    \* the call
          result,      \* its result, in guji_pow what is accumulated so far
          base, exp    \* the locals of guji_pow

arithVars == <<pc, op, a, b, result, base, exp>>

ArithInit ==
  /\ pc = "idle"
  /\ op \in Operators \cup {"pow"} /\ a \in Int64 /\ b \in Int64
  /\ result = 1 /\ base = a /\ exp = b

Compute ==
  /\ pc = "idle" /\ op \in Operators
  /\ result' = Apply(op, a, b)
  /\ pc' = "done"
  /\ UNCHANGED <<op, a, b, base, exp>>

EnterPow ==
  /\ pc = "idle" /\ op = "pow"
  /\ pc' = IF exp > 0 THEN "pow" ELSE "done"
  /\ result' = IF exp < 0 THEN Panic ELSE result
  /\ UNCHANGED <<op, a, b, base, exp>>

Accumulated == IF exp % 2 = 1 THEN Mul(result, base) ELSE result

LastRound(e) == e \div 2 = 0

\* A round of the loop.  The base is not squared for nothing: that could panic.
PowRound ==
  /\ pc = "pow"
  /\ LET square == IF LastRound(exp) THEN base ELSE Mul(base, base)
         panics == Panic \in {Accumulated, square}
     IN /\ result' = IF panics THEN Panic ELSE Accumulated
        /\ base' = IF panics THEN base ELSE square
        /\ exp' = exp \div 2
        /\ pc' = IF panics \/ exp \div 2 = 0 THEN "done" ELSE "pow"
  /\ UNCHANGED <<op, a, b>>

Returned == pc = "done" /\ UNCHANGED arithVars

ArithNext == Compute \/ EnterPow \/ PowRound \/ Returned

ArithSpec == ArithInit /\ [][ArithNext]_arithVars

-----------------------------------------------------------------------------
(* Properties.                                                             *)

\* x to the power of n, or, if that is not an Int, a number that is none
\* either: a power that has left Int64 does not come back.
Power(x, n) ==
  LET f[k \in 0 .. n] == IF k = 0 THEN 1
                         ELSE IF f[k - 1] \in Int64 THEN f[k - 1] * x ELSE f[k - 1]
  IN  f[n]

\* What each operation should return: guji-spec.md 5.1.
Expected ==
  CASE op = "add" -> OrPanic(a + b)
    [] op = "sub" -> OrPanic(a - b)
    [] op = "mul" -> OrPanic(a * b)
    [] op = "div" -> IF b = 0 THEN Panic ELSE OrPanic(Quot(a, b))
    [] op = "mod" -> IF b = 0 THEN Panic ELSE OrPanic(Rem(a, b))
    [] op = "neg" -> OrPanic(-a)
    [] op = "pow" -> IF b < 0 THEN Panic ELSE OrPanic(Power(a, b))

\* The sum of the two least integers, which guji_add gets wrong.
LeastSum == op = "add" /\ a = IntMin /\ b = IntMin

\* Every operation returns the exact result or panics, and it panics only
\* when the result is not an integer of the language; an intermediate product
\* of a power never panics on behalf of one that would fit.
Exact == pc = "done" /\ ~LeastSum => result = Expected

\* The same of a sum: "Int arithmetic that overflows the 64-bit range panics
\* rather than wrapping silently" (guji-spec.md 273).
SumExact == pc = "done" /\ op = "add" => result = OrPanic(a + b)
=============================================================================
