------------------------------ MODULE GujiText ------------------------------
(***************************************************************************)
(* Functions on Strs, runtime_prologue.c 741-846: split with a separator,  *)
(* and lines.  A Str is a sequence of characters; what a function does     *)
(* with the bytes of one it does with the whole of it, as no encoding      *)
(* begins inside of another (GujiUtf8).                                    *)
(***************************************************************************)
EXTENDS Integers, Sequences, SequencesExt

CONSTANTS TextCall,            \* the calls: records with op, s, and sep for split
          CR, LF           \* characters

VARIABLES call,
          turn,            \* "call", "split" or "done"; "off" without a call
          start,           \* where the piece that is read begins
          pieces           \* what is returned, or will be

textVars == <<call, turn, start, pieces>>

TextInit == call \in TextCall /\ turn = "call" /\ start = 0 /\ pieces = <<>>

Part(s, from, to) == SubSeq(s, from + 1, to)

----------------------------------------------------------------------------
\* guji_split with a separator.

\* Mutant: the last place in which the needle would fit is not looked at.
FoundShort(s, from, needle) ==
    {p \in from .. (Len(s) - Len(needle) - 1) : Part(s, p, p + Len(needle)) = needle}
\* Where guji_find_bytes may find the needle from a position on.
Found(s, from, needle) ==
    {p \in from .. (Len(s) - Len(needle)) : Part(s, p, p + Len(needle)) = needle}

First(S) == CHOOSE p \in S : \A q \in S : p <= q

SplitCall ==
    /\ turn = "call" /\ call.op = "split"
    /\ turn' = "split"
    /\ UNCHANGED <<call, start, pieces>>

SplitTurn ==
    /\ turn = "split"
    /\ LET found == Found(call.s, start, call.sep)
           end == IF found = {} THEN Len(call.s) ELSE First(found)
       IN /\ pieces' = Append(pieces, Part(call.s, start, end))
          /\ start' = IF found = {} THEN start ELSE end + Len(call.sep)
          /\ turn' = IF found = {} THEN "done" ELSE "split"
    /\ UNCHANGED call

----------------------------------------------------------------------------
\* guji_lines: CR LF and CR become LF, one LF at the end is dropped, and the
\* rest is split.

Normal(s) ==
    FlattenSeq([k \in DOMAIN s |->
        IF s[k] = CR THEN <<LF>>
        ELSE IF s[k] = LF /\ k > 1 /\ s[k - 1] = CR THEN <<>> ELSE <<s[k]>>])

Chomped(s) == IF s # <<>> /\ Last(s) = LF THEN Front(s) ELSE s

LinesOf(s) ==
    LET t == Chomped(Normal(s))
        ends == SelectSeq([k \in 1 .. Len(t) |-> k], LAMBDA k : t[k] = LF)
        from(k) == IF k = 1 THEN 0 ELSE ends[k - 1]
        to(k) == IF k > Len(ends) THEN Len(t) ELSE ends[k] - 1
    IN IF s = <<>> THEN <<>> ELSE [k \in 1 .. (Len(ends) + 1) |-> Part(t, from(k), to(k))]

Return(result) == turn' = "done" /\ pieces' = result /\ UNCHANGED <<call, start>>

LinesCall == turn = "call" /\ call.op = "lines" /\ Return(LinesOf(call.s))

TextNext == SplitCall \/ SplitTurn \/ LinesCall

----------------------------------------------------------------------------
\* Properties.

\* The pieces put together with the separator give the text, and each of them
\* ends at the first separator from its beginning on.
SplitApart ==
    turn = "done" /\ call.op = "split" =>
        LET n == Len(pieces)
            closed(k) == IF k = n THEN pieces[k] ELSE pieces[k] \o call.sep
            Ends(k) == {p \in Len(call.sep) .. Len(closed(k)) : Part(closed(k), p - Len(call.sep), p) = call.sep}
        IN /\ FlattenSeq([k \in 1 .. n |-> closed(k)]) = call.s
           /\ \A k \in 1 .. n : Ends(k) = IF k = n THEN {} ELSE {Len(closed(k))}

\* A line for each terminator, which is LF, CR or both, and one for what follows
\* the last; none has a part of a terminator in it (guji-spec.md 15.3).
LinesApart ==
    turn = "done" /\ call.op = "lines" =>
        LET s == call.s
            Ends(k) == s[k] = LF \/ (s[k] = CR /\ ~(k < Len(s) /\ s[k + 1] = LF))
            ends == SelectSeq([k \in 1 .. Len(s) |-> k], Ends)
            before(k) == SubSeq(s, IF k = 1 THEN 1 ELSE ends[k - 1] + 1, IF k > Len(ends) THEN Len(s) ELSE ends[k])
            whole == Len(ends) > 0 /\ Last(ends) = Len(s)
        IN /\ Len(pieces) = Len(ends) + (IF s = <<>> \/ whole THEN 0 ELSE 1)
           /\ \A k \in DOMAIN pieces : pieces[k] = SelectSeq(before(k), LAMBDA c : c \notin {CR, LF})

\* split and lines give the pieces that are meant, in their order.
PiecesMeant == SplitApart /\ LinesApart
=============================================================================
