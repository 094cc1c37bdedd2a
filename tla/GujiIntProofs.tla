---------------------------- MODULE GujiIntProofs -----------------------------
(***************************************************************************)
(* The checked integer operations and the range loop, at every width.      *)
(***************************************************************************)
EXTENDS GujiRange, SequenceTheorems, TLAPS

\* The number of integers of the width.
Modulus == 2 * (IntMax + 1)

LEMMA WidthFacts ==
  /\ IntMax \in Nat /\ IntMax >= 1 /\ IntMin \in Int /\ IntMin = -IntMax - 1
  /\ Modulus \in Nat /\ Modulus = 2 * IntMax + 2 /\ Modulus = IntMax - IntMin + 1
BY WidthAssumption DEF IntMin, Modulus

LEMMA InInt64 == ASSUME NEW n \in Int PROVE n \in Int64 <=> IntMin <= n /\ n <= IntMax
BY WidthFacts DEF Int64

\* Division with remainder is unique.
LEMMA Remainder ==
  ASSUME NEW m \in Nat, m # 0, NEW q \in Int, NEW r \in 0 .. m - 1
  PROVE  (m * q + r) % m = r
OBVIOUS

\* Wrapping adds or subtracts the modulus as often as necessary.
LEMMA WrapBy ==
  ASSUME NEW n \in Int, NEW q \in Int, n - Modulus * q \in Int64
  PROVE  Wrap(n) = n - Modulus * q
<1>1. Modulus * q \in Int
  BY WidthFacts
<1>2. PICK r \in 0 .. Modulus - 1 : n - IntMin = Modulus * q + r
  <2>1. n - Modulus * q - IntMin \in 0 .. Modulus - 1
    BY <1>1, WidthFacts, InInt64
  <2>2. n - IntMin = Modulus * q + (n - Modulus * q - IntMin)
    BY <1>1, WidthFacts
  <2>3. QED
    BY <2>1, <2>2
<1>3. (Modulus * q + r) % Modulus = r
  <2>1. Modulus \in Nat /\ Modulus # 0
    BY WidthFacts
  <2>2. QED
    BY <2>1, Remainder
<1>4. Wrap(n) = IntMin + r
  BY <1>2, <1>3 DEF Wrap, Modulus
<1>5. QED
  BY <1>1, <1>2, <1>4, WidthFacts

LEMMA WrapFits == ASSUME NEW n \in Int64 PROVE Wrap(n) = n
<1>1. n \in Int /\ n - Modulus * 0 = n
  BY WidthFacts, InInt64 DEF Int64
<1>2. QED
  BY <1>1, WrapBy

LEMMA WrapOnce ==
  ASSUME NEW n \in Int
  PROVE  /\ n > IntMax /\ n - Modulus <= IntMax => Wrap(n) = n - Modulus
         /\ n < IntMin /\ n + Modulus >= IntMin => Wrap(n) = n + Modulus
<1>1. n - Modulus * 1 = n - Modulus /\ n - Modulus * (-1) = n + Modulus
  BY WidthFacts
<1>2. ASSUME n > IntMax, n - Modulus <= IntMax PROVE Wrap(n) = n - Modulus
  <2>1. n - Modulus \in Int64
    BY <1>2, WidthFacts, InInt64
  <2>2. QED
    BY <1>1, <2>1, WrapBy
<1>3. ASSUME n < IntMin, n + Modulus >= IntMin PROVE Wrap(n) = n + Modulus
  <2>1. n + Modulus \in Int64
    BY <1>3, WidthFacts, InInt64
  <2>2. -1 \in Int
    OBVIOUS
  <2>3. n - Modulus * (-1) \in Int64
    BY <1>1, <2>1
  <2>4. Wrap(n) = n - Modulus * (-1)
    BY <2>2, <2>3, WrapBy
  <2>5. QED
    BY <1>1, <2>4
<1>4. QED
  BY <1>2, <1>3

LEMMA Division ==
  ASSUME NEW m \in Nat, m # 0, NEW x \in Int
  PROVE  x % m \in 0 .. m - 1 /\ x \div m \in Int /\ x = m * (x \div m) + (x % m)
OBVIOUS

\* What is wrapped is off by a multiple of the modulus.
LEMMA WrapMultiple ==
  ASSUME NEW n \in Int
  PROVE  Wrap(n) \in Int64 /\ \E k \in Int : n = Modulus * k + Wrap(n)
<1>1. PICK x \in Int : x = n - IntMin
  BY WidthFacts
<1>2. Modulus \in Nat /\ Modulus # 0
  BY WidthFacts
<1>3. /\ x % Modulus \in 0 .. Modulus - 1
      /\ \E k \in Int : x = Modulus * k + (x % Modulus)
  BY <1>2, Division
<1>4. PICK r \in 0 .. Modulus - 1, k \in Int : r = x % Modulus /\ x = Modulus * k + r
  BY <1>3
<1>5. Wrap(n) = IntMin + r
  BY <1>1, <1>4 DEF Wrap, Modulus
<1>6. Modulus * k \in Int
  BY <1>2
<1>7. n = Modulus * k + Wrap(n)
  BY <1>1, <1>4, <1>5, <1>6, WidthFacts
<1>8. Wrap(n) \in Int64
  BY <1>5, WidthFacts, InInt64
<1>9. QED
  BY <1>7, <1>8

-----------------------------------------------------------------------------
\* guji_add is exact, but for the sum of the two least integers
\* (runtime_prologue.c 596).
THEOREM AddExact ==
  ASSUME NEW x \in Int64, NEW y \in Int64, ~(x = IntMin /\ y = IntMin)
  PROVE  Add(x, y) = OrPanic(x + y)
<1>1. /\ x \in Int /\ y \in Int /\ IntMin <= x /\ x <= IntMax /\ IntMin <= y /\ y <= IntMax
  BY InInt64 DEF Int64
<1>2. CASE x + y \in Int64
  BY <1>1, <1>2, WrapFits, InInt64, WidthFacts DEF Add, OrPanic
<1>3. CASE x + y > IntMax
  <2>1. Wrap(x + y) = x + y - Modulus
    BY <1>1, <1>3, WrapOnce, WidthFacts
  <2>2. QED
    BY <1>1, <1>3, <2>1, WidthFacts, InInt64 DEF Add, OrPanic
<1>4. CASE x + y < IntMin
  <2>1. Wrap(x + y) = x + y + Modulus
    BY <1>1, <1>4, WrapOnce, WidthFacts
  <2>2. QED
    BY <1>1, <1>4, <2>1, WidthFacts, InInt64 DEF Add, OrPanic
<1>5. QED
  BY <1>1, <1>2, <1>3, <1>4, InInt64, WidthFacts

\* guji_sub is exact (runtime_prologue.c 604).
THEOREM SubExact ==
  ASSUME NEW x \in Int64, NEW y \in Int64
  PROVE  Sub(x, y) = OrPanic(x - y)
<1>1. /\ x \in Int /\ y \in Int /\ IntMin <= x /\ x <= IntMax /\ IntMin <= y /\ y <= IntMax
  BY InInt64 DEF Int64
<1>2. CASE x - y \in Int64
  BY <1>1, <1>2, WrapFits, InInt64, WidthFacts DEF Sub, OrPanic
<1>3. CASE x - y > IntMax
  <2>1. Wrap(x - y) = x - y - Modulus
    BY <1>1, <1>3, WrapOnce, WidthFacts
  <2>2. QED
    BY <1>1, <1>3, <2>1, WidthFacts, InInt64 DEF Sub, OrPanic
<1>4. CASE x - y < IntMin
  <2>1. Wrap(x - y) = x - y + Modulus
    BY <1>1, <1>4, WrapOnce, WidthFacts
  <2>2. QED
    BY <1>1, <1>4, <2>1, WidthFacts, InInt64 DEF Sub, OrPanic
<1>5. QED
  BY <1>1, <1>2, <1>3, <1>4, InInt64, WidthFacts

\* guji_neg is exact (runtime_prologue.c 666).
THEOREM NegExact == ASSUME NEW x \in Int64 PROVE Neg(x) = OrPanic(-x)
<1>1. x \in Int /\ IntMin <= x /\ x <= IntMax
  BY InInt64 DEF Int64
<1>2. QED
  BY <1>1, WidthFacts, InInt64 DEF Neg, OrPanic

\* C's remainder has the divisor's magnitude as its bound.
LEMMA QuotRemainder ==
  ASSUME NEW x \in Int, NEW y \in Int, y # 0
  PROVE  /\ Quot(x, y) \in Int
         /\ \E r \in Int : x = y * Quot(x, y) + r /\ Magnitude(r) < Magnitude(y)
<1>1. PICK v \in Nat : v = Magnitude(x)
  BY DEF Magnitude
<1>2. PICK w \in Nat : w = Magnitude(y) /\ w # 0
  BY DEF Magnitude
<1>3. PICK q \in Int, r \in 0 .. w - 1 : q = v \div w /\ v = w * q + r
  <2>1. v % w \in 0 .. w - 1 /\ v \div w \in Int /\ v = w * (v \div w) + (v % w)
    <3>1. v \in Int /\ w \in Nat /\ w # 0
      BY <1>2
    <3>2. QED
      BY <3>1, Division, Zenon
  <2>2. QED
    BY <2>1
<1>4. Quot(x, y) = IF (x < 0) = (y < 0) THEN q ELSE -q
  BY <1>1, <1>2, <1>3 DEF Quot
<1>5. (-y) * q = -(y * q) /\ y * (-q) = -(y * q) /\ y * q \in Int
  OBVIOUS
<1>6. PICK yq \in Int : yq = y * q
  BY <1>5
<1>7. CASE y > 0
  <2>1. w = y /\ v = yq + r
    <3>1. w = y
      BY <1>2, <1>7 DEF Magnitude
    <3>2. QED
      BY <1>3, <1>6, <3>1
  <2>2. CASE x < 0
    <3>1. Quot(x, y) = -q /\ x = y * (-q) + (-r) /\ Magnitude(-r) < Magnitude(y)
      BY <1>1, <1>2, <1>3, <1>4, <1>5, <1>6, <1>7, <2>1, <2>2 DEF Magnitude
    <3>2. QED
      BY <3>1, <1>3
  <2>3. CASE x >= 0
    <3>1. Quot(x, y) = q /\ x = y * q + r /\ Magnitude(r) < Magnitude(y)
      BY <1>1, <1>2, <1>3, <1>4, <1>5, <1>6, <1>7, <2>1, <2>3 DEF Magnitude
    <3>2. QED
      BY <3>1, <1>3
  <2>4. QED
    BY <2>2, <2>3
<1>8. CASE y < 0
  <2>1. w = -y /\ v = -yq + r
    BY <1>2, <1>3, <1>5, <1>6, <1>8 DEF Magnitude
  <2>2. CASE x < 0
    <3>1. Quot(x, y) = q /\ x = y * q + (-r) /\ Magnitude(-r) < Magnitude(y)
      BY <1>1, <1>2, <1>3, <1>4, <1>5, <1>6, <1>8, <2>1, <2>2 DEF Magnitude
    <3>2. QED
      BY <3>1, <1>3
  <2>3. CASE x >= 0
    <3>1. Quot(x, y) = -q /\ x = y * (-q) + r /\ Magnitude(r) < Magnitude(y)
      BY <1>1, <1>2, <1>3, <1>4, <1>5, <1>6, <1>8, <2>1, <2>3 DEF Magnitude
    <3>2. QED
      BY <3>1, <1>3
  <2>4. QED
    BY <2>2, <2>3
<1>9. QED
  BY <1>7, <1>8

\* A multiple of y that is smaller in magnitude than y is zero.
LEMMA SmallMultiple ==
  ASSUME NEW y \in Int, NEW d \in Int, Magnitude(y * d) < Magnitude(y)
  PROVE  d = 0
<1>1. SUFFICES ASSUME d # 0 PROVE FALSE
  OBVIOUS
<1>2. y * d \in Int
  OBVIOUS
<1>3. CASE y >= 0
  <2>1. CASE d >= 1
    <3>1. y * d >= y
      BY <1>3, <2>1
    <3>2. QED
      BY <1>2, <1>3, <3>1 DEF Magnitude
  <2>2. CASE d <= -1
    <3>1. y * d <= -y
      BY <1>3, <2>2
    <3>2. QED
      BY <1>2, <1>3, <3>1 DEF Magnitude
  <2>3. QED
    BY <1>1, <2>1, <2>2
<1>4. CASE y < 0
  <2>1. CASE d >= 1
    <3>1. y * d <= y
      BY <1>4, <2>1
    <3>2. QED
      BY <1>2, <1>4, <3>1 DEF Magnitude
  <2>2. CASE d <= -1
    <3>1. y * d >= -y
      BY <1>4, <2>2
    <3>2. QED
      BY <1>2, <1>4, <3>1 DEF Magnitude
  <2>3. QED
    BY <1>1, <2>1, <2>2
<1>5. QED
  BY <1>3, <1>4

LEMMA QuotOfProduct ==
  ASSUME NEW x \in Int, NEW y \in Int, y # 0
  PROVE  Quot(x * y, y) = x
<1>1. PICK z \in Int : z = x * y
  OBVIOUS
<1>2. PICK q \in Int, r \in Int : q = Quot(z, y) /\ z = y * q + r /\ Magnitude(r) < Magnitude(y)
  BY QuotRemainder
<1>3. PICK d \in Int : d = x - q
  OBVIOUS
<1>4. y * x = y * d + y * q /\ y * d \in Int /\ y * q \in Int /\ x * y = y * x
  BY <1>3
<1>5. r = y * d
  BY <1>1, <1>2, <1>4
<1>6. d = 0
  BY <1>2, <1>5, SmallMultiple
<1>7. QED
  BY <1>1, <1>2, <1>3, <1>6

\* guji_mul is exact: a product that wraps is never mistaken for one that
\* does not (runtime_prologue.c 612).
THEOREM MulExact ==
  ASSUME NEW x \in Int64, NEW y \in Int64
  PROVE  Mul(x, y) = OrPanic(x * y)
<1>1. /\ x \in Int /\ y \in Int /\ IntMin <= x /\ x <= IntMax /\ IntMin <= y /\ y <= IntMax
  BY InInt64 DEF Int64
<1>2. PICK z \in Int : z = x * y
  BY <1>1
<1>3. CASE x = 0 \/ y = 0
  <2>1. z = 0
    BY <1>1, <1>2, <1>3
  <2>2. QED
    BY <1>2, <1>3, <2>1, InInt64, WidthFacts DEF Mul, OrPanic
<1>4. CASE (x = IntMin /\ y = -1) \/ (y = IntMin /\ x = -1)
  <2>1. z = IntMax + 1
    BY <1>2, <1>4, WidthFacts
  <2>2. z \notin Int64
    BY <2>1, InInt64, WidthFacts
  <2>3. x # 0 /\ y # 0
    BY <1>4, WidthFacts
  <2>4. QED
    BY <1>2, <1>4, <2>2, <2>3 DEF Mul, OrPanic
<1>5. CASE x # 0 /\ y # 0 /\ ~((x = IntMin /\ y = -1) \/ (y = IntMin /\ x = -1))
  <2>1. Mul(x, y) = IF Quot(Wrap(z), y) # x THEN Panic ELSE Wrap(z)
    BY <1>2, <1>5 DEF Mul
  <2>2. CASE z \in Int64
    <3>1. Wrap(z) = z
      BY <2>2, WrapFits
    <3>2. Quot(z, y) = x
      BY <1>1, <1>2, <1>5, QuotOfProduct
    <3>3. QED
      BY <1>2, <2>1, <2>2, <3>1, <3>2 DEF OrPanic
  <2>3. CASE z \notin Int64
    <3>1. PICK p \in Int64, k \in Int : p = Wrap(z) /\ z = Modulus * k + p
      BY WrapMultiple
    <3>2. p \in Int /\ Modulus * k \in Int /\ Modulus * k # 0
      BY <2>3, <3>1, InInt64, WidthFacts DEF Int64
    <3>3. Modulus * k >= Modulus \/ Modulus * k <= -Modulus
      <4>1. k # 0
        BY <3>2, WidthFacts
      <4>2. QED
        BY <4>1, WidthFacts
    <3>4. ASSUME Quot(p, y) = x PROVE FALSE
      <4>1. PICK r \in Int : p = y * x + r /\ Magnitude(r) < Magnitude(y)
        BY <1>1, <1>5, <3>2, <3>4, QuotRemainder
      <4>2. p = z + r
        BY <1>1, <1>2, <4>1
      <4>3. Magnitude(y) < Modulus
        BY <1>1, WidthFacts DEF Magnitude
      <4>4. r = -(Modulus * k)
        BY <3>1, <3>2, <4>2
      <4>5. r < Modulus /\ -r < Modulus
        BY <1>1, <4>1, <4>3, WidthFacts DEF Magnitude
      <4>6. QED
        BY <3>2, <3>3, <4>4, <4>5, WidthFacts
    <3>5. QED
      BY <1>2, <2>1, <2>3, <3>1, <3>4 DEF OrPanic
  <2>4. QED
    BY <2>2, <2>3
<1>6. QED
  BY <1>3, <1>4, <1>5

-----------------------------------------------------------------------------
(* The range loop.  While it runs, its counter stays between its bounds    *)
(* (so that the increment cannot panic) and what it has seen is the part   *)
(* of the range up to the counter.                                         *)

Ascending(first, n) == [k \in 1 .. n |-> first + k - 1]

LoopInv ==
  /\ halfOpen \in BOOLEAN /\ rangeFrom \in Int64 /\ rangeTo \in Int64
  /\ rangeAt \in {"bounds", "body", "test", "done"}
  /\ rangeAt = "bounds" => seen = Ascending(rangeFrom, 0)
  /\ rangeAt \in {"body", "test"} =>
       /\ counter \in Int /\ rangeFrom <= counter /\ counter <= loopHi /\ loopHi = Upto /\ loopHi <= IntMax
       /\ seen = Ascending(rangeFrom, IF rangeAt = "body" THEN counter - rangeFrom ELSE counter - rangeFrom + 1)
  /\ EveryOnce

LEMMA AscendingSeq ==
  ASSUME NEW first \in Int, NEW n \in Nat
  PROVE  Ascending(first, n) \in Seq(Int) /\ Len(Ascending(first, n)) = n
<1>1. Ascending(first, n) \in [1 .. n -> Int]
  BY DEF Ascending
<1>2. QED
  BY <1>1

LEMMA AscendingGrows ==
  ASSUME NEW first \in Int, NEW n \in Nat
  PROVE  Append(Ascending(first, n), first + n) = Ascending(first, n + 1)
<1>1. PICK s \in Seq(Int) : s = Ascending(first, n)
  BY AscendingSeq
<1>2. PICK t \in Seq(Int) : t = Ascending(first, n + 1)
  BY AscendingSeq
<1>3. Len(s) = n /\ Len(t) = n + 1
  BY <1>1, <1>2, AscendingSeq
<1>4. PICK u \in Seq(Int) : u = Append(s, first + n)
  <2>1. first + n \in Int
    OBVIOUS
  <2>2. Append(s, first + n) \in Seq(Int)
    BY <2>1, AppendProperties
  <2>3. QED
    BY <2>2
<1>5. Len(u) = n + 1 /\ (\A k \in 1 .. n : u[k] = s[k]) /\ u[n + 1] = first + n
  BY <1>3, <1>4, AppendProperties
<1>6. ASSUME NEW k \in 1 .. n + 1 PROVE u[k] = t[k]
  <2>1. CASE k \in 1 .. n
    BY <1>1, <1>2, <1>5, <2>1 DEF Ascending
  <2>2. CASE k = n + 1
    BY <1>2, <1>5, <2>2 DEF Ascending
  <2>3. QED
    BY <2>1, <2>2
<1>7. u = t
  BY <1>3, <1>5, <1>6, SeqEqual
<1>8. QED
  BY <1>1, <1>2, <1>4, <1>7

\* A range loop executes its body once for every integer of the range, in
\* order, and its counter never overflows, at every width.
THEOREM RangeLoop == RangeSpec => []EveryOnce
<1>1. RangeInit => LoopInv
  <2>1. ASSUME RangeInit PROVE seen = Ascending(rangeFrom, 0)
    BY <2>1 DEF RangeInit, Ascending
  <2>2. QED
    BY <2>1 DEF RangeInit, LoopInv, EveryOnce
<1>2. LoopInv /\ [RangeNext]_rangeVars => LoopInv'
  <2> SUFFICES ASSUME LoopInv, [RangeNext]_rangeVars PROVE LoopInv'
    OBVIOUS
  <2>1. /\ rangeFrom \in Int /\ IntMin <= rangeFrom /\ rangeFrom <= IntMax /\ rangeTo \in Int /\ IntMin <= rangeTo /\ rangeTo <= IntMax
        /\ halfOpen \in BOOLEAN /\ rangeFrom \in Int64 /\ rangeTo \in Int64
    BY InInt64 DEF LoopInv, Int64
  <2>2. 0 \in Int64 /\ 0 # Panic /\ Panic \notin Int64
    BY InInt64, WidthFacts, PanicAssumption
  <2>3. CASE Bounds
    <3>1. seen' = Ascending(rangeFrom, 0) /\ rangeFrom' = rangeFrom /\ rangeTo' = rangeTo /\ halfOpen' = halfOpen /\ seen = <<>>
      BY <2>3 DEF Bounds, LoopInv, Ascending
    <3>2. CASE Empty
      <4>1. rangeAt' = "done" /\ counter' = 0
        BY <2>3, <3>2 DEF Bounds
      <4>2. Upto < rangeFrom
        BY <2>1, <3>2, WidthFacts DEF Upto, Empty
      <4>3. EveryOnce'
        BY <2>2, <3>1, <4>1, <4>2 DEF EveryOnce, Upto, Ascending
      <4>4. QED
        BY <2>1, <3>1, <4>1, <4>3 DEF LoopInv
    <3>3. CASE ~Empty
      <4>1. loopHi' = Upto /\ loopHi' \in Int64
        <5>1. CASE halfOpen
          <6>1. rangeTo - 1 \in Int64
            BY <2>1, <3>3, <5>1, InInt64, WidthFacts DEF Empty
          <6>2. QED
            BY <2>3, <3>3, <5>1, <6>1, WrapFits DEF Bounds, Upto
        <5>2. CASE ~halfOpen
          BY <2>1, <2>3, <3>3, <5>2 DEF Bounds, Upto
        <5>3. QED
          BY <5>1, <5>2
      <4>2. counter' = rangeFrom /\ loopLo' = rangeFrom /\ rangeAt' = IF rangeFrom <= loopHi' THEN "body" ELSE "done"
        BY <2>3, <3>3 DEF Bounds
      <4>3. Upto' = Upto /\ loopHi' \in Int /\ loopHi' <= IntMax
        BY <3>1, <4>1, InInt64 DEF Upto, Int64
      <4>4. CASE rangeFrom <= loopHi'
        BY <2>1, <3>1, <4>1, <4>2, <4>3, <4>4 DEF LoopInv, EveryOnce
      <4>5. CASE ~(rangeFrom <= loopHi')
        <5>1. EveryOnce'
          BY <2>1, <2>2, <3>1, <4>1, <4>2, <4>3, <4>5 DEF EveryOnce, Ascending
        <5>2. QED
          BY <2>1, <3>1, <4>2, <4>5, <5>1 DEF LoopInv
      <4>6. QED
        BY <4>4, <4>5
    <3>4. QED
      BY <3>2, <3>3
  <2>4. CASE Body
    <3>1. counter \in Int /\ rangeFrom <= counter /\ counter <= loopHi /\ loopHi = Upto /\ loopHi <= IntMax /\ seen = Ascending(rangeFrom, counter - rangeFrom)
      BY <2>4 DEF LoopInv, Body
    <3>2. seen' = Ascending(rangeFrom, counter - rangeFrom + 1)
      <4>1. counter - rangeFrom \in Nat /\ rangeFrom + (counter - rangeFrom) = counter
        BY <2>1, <3>1
      <4>2. QED
        BY <2>1, <2>4, <3>1, <4>1, AscendingGrows DEF Body
    <3>3. rangeAt' = "test" /\ counter' = counter /\ loopHi' = loopHi /\ rangeFrom' = rangeFrom /\ rangeTo' = rangeTo /\ halfOpen' = halfOpen /\ Upto' = Upto
      BY <2>4 DEF Body, Upto
    <3>4. QED
      BY <2>1, <3>1, <3>2, <3>3 DEF LoopInv, EveryOnce
  <2>5. CASE Test
    <3>1. counter \in Int /\ rangeFrom <= counter /\ counter <= loopHi /\ loopHi = Upto /\ loopHi <= IntMax /\ seen = Ascending(rangeFrom, counter - rangeFrom + 1)
      BY <2>5 DEF LoopInv, Test
    <3>2. seen' = seen /\ loopHi' = loopHi /\ rangeFrom' = rangeFrom /\ rangeTo' = rangeTo /\ halfOpen' = halfOpen /\ Upto' = Upto
      BY <2>5 DEF Test, Upto
    <3>3. CASE counter = loopHi
      <4>1. rangeAt' = "done" /\ counter' = counter
        BY <2>5, <3>3 DEF Test, Leave
      <4>2. counter \in Int64
        <5>1. Upto \in Int
          BY <2>1 DEF Upto
        <5>2. IntMin <= counter /\ counter <= IntMax
          BY <2>1, <3>1, <5>1, WidthFacts
        <5>3. QED
          BY <3>1, <5>2, InInt64
      <4>3. EveryOnce'
        BY <2>1, <2>2, <3>1, <3>2, <3>3, <4>1, <4>2 DEF EveryOnce, Ascending
      <4>4. QED
        BY <2>1, <3>2, <4>1, <4>3 DEF LoopInv
    <3>4. CASE counter # loopHi
      <4>1. Upto \in Int /\ loopHi \in Int
        BY <2>1, <3>1 DEF Upto
      <4>2. counter \in Int64 /\ counter + 1 \in Int64 /\ 1 \in Int64 /\ 1 # IntMin
        BY <2>1, <3>1, <3>4, <4>1, InInt64, WidthFacts
      <4>3. Add(counter, 1) = counter + 1 /\ counter + 1 # Panic
        BY <2>2, <4>2, AddExact DEF OrPanic
      <4>4. rangeAt' = "body" /\ counter' = counter + 1
        BY <2>5, <3>4, <4>3 DEF Test, Leave
      <4>5. counter' - rangeFrom = counter - rangeFrom + 1
        BY <2>1, <3>1, <4>4
      <4>6. QED
        BY <2>1, <3>1, <3>2, <3>4, <4>1, <4>4, <4>5 DEF LoopInv, EveryOnce
    <3>5. QED
      BY <3>3, <3>4
  <2>6. CASE Finished
    BY <2>6 DEF Finished, LoopInv, EveryOnce, Upto, rangeVars
  <2>7. CASE UNCHANGED rangeVars
    BY <2>7 DEF LoopInv, EveryOnce, Upto, rangeVars
  <2>8. QED
    BY <2>3, <2>4, <2>5, <2>6, <2>7 DEF RangeNext
<1>3. LoopInv => EveryOnce
  BY DEF LoopInv
<1>4. QED
  BY <1>1, <1>2, <1>3, PTL DEF RangeSpec
=============================================================================
