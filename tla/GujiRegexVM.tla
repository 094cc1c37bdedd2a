---------------------------- MODULE GujiRegexVM ----------------------------
(***************************************************************************)
(* The backtracking machine of regular expressions, runtime_prologue.c     *)
(* 10356-10763.                                                            *)
(*                                                                         *)
(* A position in a subject s is the number of runes before it, 0..Len(s).  *)
(* The runtime counts bytes; as every Str is valid UTF-8 the positions it  *)
(* reaches are the ends of runes.                                          *)
(***************************************************************************)
EXTENDS GujiRegexCode

Unset == -1
NoAnchor == -1
MaxSpans == 64        \* the spans that guji_regex_match_t has room for
Running == [state |-> "running"]
NoMatch == [state |-> "no match"]

\* The runes on both sides of a position.
RuneAt(s, pos) == IF pos \in 0..(Len(s) - 1) THEN s[pos + 1] ELSE EOF
Between(s, start, end) == SubSeq(s, start + 1, IF end > Len(s) THEN Len(s) ELSE end)

ClassMatch(cls, r) == IF cls.neg THEN ~InRanges(r, cls.ranges) ELSE InRanges(r, cls.ranges)

WordRune(r, ascii) == r # EOF /\ IF Code[r] < 128 \/ ascii THEN r \in NameChars ELSE IsWordRune(r)
WordAt(s, pos, ascii) == WordRune(RuneAt(s, pos), ascii)
Boundary(s, pos, ascii) == WordAt(s, pos - 1, ascii) # WordAt(s, pos, ascii)

SameFold(a, b) == b = a \/ b \in FoldOrbit(a)

\* Where a backreference to the span in slot takes the machine: nowhere if the
\* span is unset, or was opened but its end is still that of an earlier turn.
BackrefEnds(s, pos, caps, slot, fold) ==
    LET start == caps[slot]
        n == caps[slot + 1] - start
        Same(a, b) == IF fold THEN SameFold(a, b) ELSE a = b
    IN {pos + n : ok \in {x \in {TRUE} : start >= 0 /\ n >= 0 /\ pos + n <= Len(s)
                             /\ \A j \in 1..n : Same(s[pos + j], s[start + j])}}

----------------------------------------------------------------------------
\* Grapheme clusters.

GState == [prev |-> "none", ri |-> 0, extend |-> FALSE, zwj |-> FALSE]
GAccept(st, r) ==
    LET Next(cat, pict) ==
            [prev |-> cat, ri |-> IF cat = "RI" THEN st.ri + 1 ELSE 0,
             extend |-> pict \/ (st.extend /\ cat = "Extend"),
             zwj |-> ~pict /\ st.extend /\ cat = "ZWJ"]
    IN Next(GraphemeBreak(r), IsExtPict(r))

GBreakBefore(st, r) ==
    LET Control == {"Control", "CR", "LF"}
        Between2(cat) ==
            /\ ~(st.prev = "CR" /\ cat = "LF")
            /\ \/ st.prev \in Control \/ cat \in Control
               \/ /\ ~(st.prev = "L" /\ cat \in {"L", "V", "LV", "LVT"})
                  /\ ~(st.prev \in {"LV", "V"} /\ cat \in {"V", "T"})
                  /\ ~(st.prev \in {"LVT", "T"} /\ cat = "T")
                  /\ cat \notin {"Extend", "ZWJ", "SpacingMark"}
                  /\ st.prev # "Prepend"
                  /\ ~(st.zwj /\ IsExtPict(r))
                  /\ ~(st.prev = "RI" /\ cat = "RI" /\ st.ri % 2 = 1)
    IN Between2(GraphemeBreak(r))

\* The end of the cluster that starts at start.
GraphemeEnd(s, start) ==
    LET after(j) == FoldLeft(GAccept, GState, Between(s, start, j))
    IN Min({j \in (start + 1)..Len(s) : j = Len(s) \/ GBreakBefore(after(j), s[j + 1])})

\* The first emoji sequence of the table that the subject has at pos.
RgiEnds(s, pos) ==
    LET hit == {j \in DOMAIN RgiEmoji : Between(s, pos, pos + Len(RgiEmoji[j])) = RgiEmoji[j]}
    IN IF hit = {} THEN {} ELSE {pos + Len(RgiEmoji[Min(hit)])}

----------------------------------------------------------------------------
\* States of the machine.

\* guji_regex_state_t: seen holds the <<pc, pos>> of the path so far, cuts the
\* heights of the stack at the atomic groups that are open.
State(prog, start, inherit) ==
    [pc |-> 1, pos |-> start, seen |-> {}, cuts |-> <<>>,
     caps |-> [slot \in 0..(2 * prog.ncap + 1) |->
                 IF slot = 0 THEN start ELSE IF slot \in DOMAIN inherit THEN inherit[slot] ELSE Unset]]

\* A machine about to match prog at start.
Machine(prog, start, inherit) ==
    [st |-> State(prog, start, inherit), stack |-> <<>>,
     out |-> IF prog.ncap + 1 > MaxSpans THEN NoMatch ELSE Running]

Spans(prog, caps) == [g \in 0..prog.ncap |-> <<caps[2 * g], caps[2 * g + 1]>>]

Backtrack(m) ==
    IF m.stack = <<>> THEN [m EXCEPT !.out = NoMatch]
    ELSE [m EXCEPT !.st = Last(m.stack), !.stack = Front(m.stack)]

Moving == {"char", "class", "any", "anynl", "grapheme", "rgi", "backref",
           "bot", "eot", "bol", "eol", "eotabs", "word", "notword", "lookend"}

\* The positions that an instruction which tests or reads the subject leads to.
Ends(prog, i, s, st) ==
    LET pos == st.pos
        r == RuneAt(s, pos)
        If(test, end) == IF test THEN {end} ELSE {}
    IN CASE i.op = "char" -> If(r = i.rune, pos + 1)
         [] i.op = "class" -> If(r # EOF /\ ClassMatch(prog.classes[i.cls], r), pos + 1)
         [] i.op = "any" -> If(r \notin {EOF, "\n"}, pos + 1)
         [] i.op = "anynl" -> If(r # EOF, pos + 1)
         [] i.op = "grapheme" -> IF r = EOF THEN {} ELSE {GraphemeEnd(s, pos)}
         [] i.op = "rgi" -> RgiEnds(s, pos)
         [] i.op = "backref" -> BackrefEnds(s, pos, st.caps, i.slot, i.fold)
         [] i.op = "bot" -> If(pos = 0, pos)
         [] i.op = "eot" -> If(pos = Len(s), pos)
         [] i.op = "bol" -> If(pos = 0 \/ RuneAt(s, pos - 1) = "\n", pos)
         [] i.op = "eol" -> If(pos = Len(s) \/ r = "\n", pos)
         [] i.op = "eotabs" -> If(pos = Len(s) \/ (pos + 1 = Len(s) /\ r = "\n"), pos)
         [] i.op = "word" -> If(Boundary(s, pos, i.ascii), pos)
         [] i.op = "notword" -> If(~Boundary(s, pos, i.ascii), pos)
         [] i.op = "lookend" -> {pos}

RECURSIVE Run(_, _, _, _)

\* What the body of a lookaround finds at pos: ahead, from pos on; behind, in
\* the widths it may have, the least one first, from as many runes back.
LookResult(prog, i, s, st) ==
    LET look == prog.looks[i.cls]
        From(start, anchor) ==
            With(prog.subs[i.cls], LAMBDA sub : Run(sub, s, anchor, Machine(sub, start, st.caps)))
        Behind(found) ==
            With({w \in DOMAIN found : found[w] # NoMatch}, LAMBDA hits :
                IF hits = {} THEN NoMatch ELSE found[Min(hits)])
    IN IF look.kind \in {"ahead", "notahead"} THEN From(st.pos, NoAnchor)
       ELSE Behind([w \in look.minw..look.maxw |-> From(IF w > st.pos THEN 0 ELSE st.pos - w, st.pos)])

\* A positive lookaround keeps the captures of its body, a negative one none.
Look(prog, i, s, m) ==
    LET positive == prog.looks[i.cls].kind \in {"ahead", "behind"}
        Kept(found) ==
            [slot \in DOMAIN m.st.caps |->
                IF positive /\ slot > 1 THEN found.spans[slot \div 2][(slot % 2) + 1]
                ELSE m.st.caps[slot]]
    IN With(LookResult(prog, i, s, m.st), LAMBDA found :
           IF positive = (found # NoMatch)
           THEN [m EXCEPT !.st.caps = Kept(found), !.st.pc = prog.looks[i.cls].after]
           ELSE Backtrack(m))

\* An atomic group drops the alternatives its body left.

\* Mutant: none of them.
CutNone(m) ==
    IF m.st.cuts = <<>> THEN [m EXCEPT !.st.pc = @ + 1]
    ELSE [m EXCEPT !.st.cuts = Front(@), !.st.pc = @ + 1]
Cut(m) ==
    IF m.st.cuts = <<>> THEN [m EXCEPT !.st.pc = @ + 1]
    ELSE [m EXCEPT !.stack = SubSeq(@, 1, Last(m.st.cuts)), !.st.cuts = Front(@), !.st.pc = @ + 1]

Exec(prog, s, anchor, m) ==
    LET st == m.st
        i == prog.insts[st.pc]
        Move(ends) == IF ends = {} THEN Backtrack(m)
                      ELSE [m EXCEPT !.st.pos = CHOOSE e \in ends : TRUE, !.st.pc = @ + 1]
    IN CASE i.op \in Moving -> Move(Ends(prog, i, s, st))
         [] i.op = "split" -> [m EXCEPT !.stack = Append(@, [st EXCEPT !.pc = i.out1]), !.st.pc = i.out]
         [] i.op = "jmp" -> [m EXCEPT !.st.pc = i.out]
         [] i.op = "save" -> [m EXCEPT !.st.caps[i.slot] = st.pos, !.st.pc = @ + 1]
         [] i.op = "mark" -> [m EXCEPT !.st.cuts = Append(@, Len(m.stack)), !.st.pc = @ + 1]
         [] i.op = "cut" -> Cut(m)
         [] i.op = "look" -> Look(prog, i, s, m)
         [] i.op = "match" ->
              IF anchor # NoAnchor /\ st.pos # anchor THEN Backtrack(m)
              ELSE [m EXCEPT !.out = [state |-> "match", ncap |-> prog.ncap,
                                      spans |-> Spans(prog, [st.caps EXCEPT ![1] = st.pos])]]

\* A path does not come back to where it was.
Spent(prog, st) == st.pc \notin DOMAIN prog.insts \/ <<st.pc, st.pos>> \in st.seen

\* One turn of the loop of guji_regex_match_at_caps.
Step(prog, s, anchor, m) ==
    LET here == <<m.st.pc, m.st.pos>>
    IN IF Spent(prog, m.st) THEN Backtrack(m)
       ELSE Exec(prog, s, anchor, [m EXCEPT !.st.seen = @ \cup {here}])

Run(prog, s, anchor, m) ==
    IF m.out # Running THEN m.out ELSE Run(prog, s, anchor, Step(prog, s, anchor, m))
=============================================================================
