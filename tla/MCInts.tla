------------------------------- MODULE MCInts --------------------------------
(* One call of an integer operation, one range loop or one call of          *)
(* parse_int.                                                               *)
EXTENDS GujiArith, GujiRange, GujiParse

\* Short Strs around the ends of a five-bit integer, -16 to 15.
Alphabet  == {0, 1, 5, 6, Minus, Plus, Space, Nul, Letter}
UptoFour  == UNION {[1 .. k -> Alphabet] : k \in 0 .. 4}
WithFifth == UptoFour \cup {s \o <<d>> : s \in [1 .. 4 -> Alphabet], d \in {5, 6, Space}}

\* The other two components are off.
NoArith ==
  pc = "off" /\ op = "add" /\ a = 0 /\ b = 0 /\ result = 1 /\ base = 0 /\ exp = 0
NoRange ==
  /\ rangeAt = "off" /\ halfOpen = FALSE /\ rangeFrom = 0 /\ rangeTo = 0
  /\ loopLo = 0 /\ loopHi = 0 /\ counter = 0 /\ seen = <<>>
NoParse ==
  /\ stage = "off" /\ str = <<>>
  /\ rest = <<>> /\ neg = FALSE /\ val = 0 /\ res = 0

Init == \/ ArithInit /\ NoRange /\ NoParse
        \/ NoArith /\ RangeInit /\ NoParse
        \/ NoArith /\ NoRange /\ ParseInit

Next == \/ ArithNext /\ UNCHANGED <<rangeVars, parseVars>>
        \/ RangeNext /\ UNCHANGED <<arithVars, parseVars>>
        \/ ParseNext /\ UNCHANGED <<arithVars, rangeVars>>

Spec == Init /\ [][Next]_<<arithVars, rangeVars, parseVars>>

=============================================================================
