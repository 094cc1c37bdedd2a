------------------------------ MODULE GujiRange ------------------------------
(***************************************************************************)
(* The loop that the compiler emits for `for $i in from .. to' and         *)
(* `from ..< to': g5_emit_for_range in src/selfhost/lexer.guji.            *)
(***************************************************************************)
EXTENDS GujiInt, Sequences

VARIABLES rangeAt,   \* "bounds", "body", "test" or "done"; "off" if there is no loop
          halfOpen,
          rangeFrom, rangeTo,
          loopLo, loopHi, counter,   \* the locals of the loop
          seen       \* the values of counter for which the body was executed

rangeVars == <<rangeAt, halfOpen, rangeFrom, rangeTo, loopLo, loopHi, counter, seen>>

RangeInit ==
  /\ rangeAt = "bounds" /\ halfOpen \in BOOLEAN /\ rangeFrom \in Int64 /\ rangeTo \in Int64
  /\ loopLo = rangeFrom /\ loopHi = rangeTo /\ counter = 0 /\ seen = <<>>

\* Nothing precedes the least integer: the range is made empty.
Empty == halfOpen /\ rangeTo = IntMin

Bounds ==
  /\ rangeAt = "bounds"
  /\ loopLo' = IF Empty THEN 0 ELSE rangeFrom
  /\ loopHi' = IF Empty THEN -1 ELSE IF halfOpen THEN Wrap(rangeTo - 1) ELSE rangeTo
  /\ counter' = loopLo'
  /\ rangeAt' = IF loopLo' <= loopHi' THEN "body" ELSE "done"
  /\ UNCHANGED <<halfOpen, rangeFrom, rangeTo, seen>>

Body ==
  /\ rangeAt = "body"
  /\ seen' = Append(seen, counter)
  /\ rangeAt' = "test"
  /\ UNCHANGED <<halfOpen, rangeFrom, rangeTo, loopLo, loopHi, counter>>

\* Faulty: the loop is left when the counter has gone past its bound.
LeaveLate == counter > loopHi

Leave == counter = loopHi

\* The test after the body, before the counter is incremented.
Test ==
  /\ rangeAt = "test"
  /\ rangeAt' = IF Leave \/ Add(counter, 1) = Panic THEN "done" ELSE "body"
  /\ counter' = IF Leave THEN counter ELSE Add(counter, 1)
  /\ UNCHANGED <<halfOpen, rangeFrom, rangeTo, loopLo, loopHi, seen>>

Finished == rangeAt = "done" /\ UNCHANGED rangeVars

RangeNext == Bounds \/ Body \/ Test \/ Finished

RangeSpec == RangeInit /\ [][RangeNext]_rangeVars

-----------------------------------------------------------------------------
(* Properties.                                                             *)

Upto == IF halfOpen THEN rangeTo - 1 ELSE rangeTo

\* When the loop is over its body has been executed once for every integer of
\* the range, in ascending order, and nothing has panicked: also for ranges
\* that end at the greatest integer or that are empty (guji-spec.md 5.4).
EveryOnce ==
  rangeAt = "done" =>
    /\ counter # Panic
    /\ seen = [k \in 1 .. (IF Upto < rangeFrom THEN 0 ELSE Upto - rangeFrom + 1) |-> rangeFrom + k - 1]
=============================================================================
