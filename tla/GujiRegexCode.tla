--------------------------- MODULE GujiRegexCode ---------------------------
(***************************************************************************)
(* The compiler of regular expressions, runtime_prologue.c 12580-13047: a  *)
(* tree becomes the instructions of a backtracking machine.                *)
(*                                                                         *)
(* Program counters start at 1.  Compile(b, n) is the builder after the    *)
(* code of the node n has been emitted into the builder b.                 *)
(***************************************************************************)
EXTENDS GujiRegexSyntax

\* guji_rec_builder_t: ncap is shared with the programs of the lookarounds.
Builder(ncap) == [insts |-> <<>>, classes |-> <<>>, looks |-> <<>>, subs |-> <<>>, ncap |-> ncap]

Here(b) == Len(b.insts) + 1
Emit(b, inst) == [b EXCEPT !.insts = Append(@, inst)]
Op(op) == [op |-> op]
Split == [op |-> "split", out |-> 0, out1 |-> 0]
Jump(out) == [op |-> "jmp", out |-> out]

\* The split at pc, taking the first branch first, or the second if lazy.
Branch(b, pc, first, second, greedy) ==
    [b EXCEPT !.insts[pc].out = IF greedy THEN first ELSE second,
              !.insts[pc].out1 = IF greedy THEN second ELSE first]

----------------------------------------------------------------------------
\* Classes.

\* The union of ranges, in order and with neighbours joined.
MergeRanges(ranges) ==
    LET Before(r, t) == r[1] < t[1]
        Join(done, r) ==
            IF done = <<>> \/ r[1] > Last(done)[2] + 1 THEN Append(done, r)
            ELSE IF r[2] > Last(done)[2] THEN [done EXCEPT ![Len(done)][2] = r[2]]
            ELSE done
    IN FoldLeft(Join, <<>>, SortSeq(ranges, Before))

AddClass(b, neg, ranges) == [b EXCEPT !.classes = Append(@, [neg |-> neg, ranges |-> ranges])]
UseClass(b, neg, ranges) ==
    Emit(AddClass(b, neg, ranges), [op |-> "class", cls |-> Len(b.classes) + 1])

OrbitRanges(r) == SetToSeq({One(t) : t \in FoldOrbit(r)})

\* (?i): the runes of the ranges and the rest of their folding orbits.
CloseUnderFold(ranges) ==
    With(MergeRanges(ranges), LAMBDA base :
        MergeRanges(FoldSet(LAMBDA r, all : all \o OrbitRanges(r), base,
                            {r \in DOMAIN FoldPairs : InRanges(r, base)})))

ClassRanges(n) == IF n.raw THEN n.ranges
                  ELSE IF n.fold THEN CloseUnderFold(n.ranges) ELSE MergeRanges(n.ranges)

AnchorOp(n) ==
    CASE n.kind = "bol" -> Op(IF n.multi THEN "bol" ELSE "bot")
      [] n.kind = "eol" -> Op(IF n.multi THEN "eol" ELSE "eot")
      [] n.kind \in {"bot", "eot", "eotabs"} -> Op(n.kind)
      [] n.kind \in {"word", "notword"} -> [op |-> n.kind, ascii |-> n.ascii]

----------------------------------------------------------------------------
RECURSIVE Compile(_, _)

CompileAll(b, nodes) == FoldLeft(Compile, b, nodes)

\* All the splits come first, then the arms; each arm but the last ends in a
\* jump past the whole.  Split i is left for arm i and for what follows the
\* jump of arm i, which is arm i + 1 and not split i + 1.
CompileAlternate(b, arms) ==
    LET first == Here(b)
        last == Len(arms)
        splits == FoldLeft(LAMBDA c, arm : Emit(c, Split), b, Tail(arms))
        Arm(a, i) ==
            With(Compile(a.b, arms[i]), LAMBDA body :
                IF i = last THEN [a EXCEPT !.b = body]
                ELSE [b |-> Branch(Emit(body, Jump(0)), first + i - 1, Here(a.b), Here(body) + 1, TRUE),
                      ends |-> a.ends \cup {Here(body)}])
    IN With(FoldLeft(Arm, [b |-> splits, ends |-> {}], [i \in 1..last |-> i]), LAMBDA done :
           [done.b EXCEPT !.insts = [pc \in DOMAIN @ |->
               IF pc \in done.ends THEN Jump(Here(done.b)) ELSE @[pc]]])

CompileStar(b, sub, greedy) ==
    With(Compile(Emit(b, Split), sub), LAMBDA body :
        Branch(Emit(body, Jump(Here(b))), Here(b), Here(b) + 1, Here(body) + 1, greedy))

CompilePlus(b, sub, greedy) ==
    With(Compile(b, sub), LAMBDA body :
        Branch(Emit(body, Split), Here(body), Here(b), Here(body) + 1, greedy))

CompileQuest(b, sub, greedy) ==
    With(Compile(Emit(b, Split), sub), LAMBDA body :
        Branch(body, Here(b), Here(b) + 1, Here(body), greedy))

\* {n,m} is unrolled.
CompileQuantifier(b, n) ==
    LET Optional(c) == FoldLeft(LAMBDA d, i : CompileQuest(d, n.sub, n.greedy), c, [i \in 1..(n.max - n.min) |-> i])
        Beyond(c) == IF n.max = Inf THEN CompileStar(c, n.sub, n.greedy) ELSE Optional(c)
    IN IF n.min = 1 /\ n.max = Inf THEN CompilePlus(b, n.sub, n.greedy)
       ELSE Beyond(FoldLeft(LAMBDA c, i : Compile(c, n.sub), b, [i \in 1..n.min |-> i]))

\* The body is a program of its own, which ends in a match.
CompileLookaround(b, n) ==
    LET sub == Emit(Compile(Builder(b.ncap), n.sub), Op("match"))
        look == [kind |-> n.kind, minw |-> n.minw, maxw |-> n.maxw, after |-> Here(b) + 2]
        c == [b EXCEPT !.looks = Append(@, look), !.subs = Append(@, sub)]
    IN Emit(Emit(c, [op |-> "look", cls |-> Len(c.looks)]), Op("lookend"))

SaveStart(b, n) == Emit(b, [op |-> "save", slot |-> 2 * n.index])
SaveEnd(b, n) == Emit(b, [op |-> "save", slot |-> 2 * n.index + 1])

Compile(b, n) ==
    CASE n.k = "empty" -> b
      [] n.k = "literal" -> IF n.fold THEN UseClass(b, FALSE, MergeRanges(<< One(n.rune) >> \o OrbitRanges(n.rune)))
                            ELSE Emit(b, [op |-> "char", rune |-> n.rune])
      [] n.k = "any" -> Emit(b, Op(IF n.dotall THEN "anynl" ELSE "any"))
      [] n.k = "anchor" -> Emit(b, AnchorOp(n))
      [] n.k = "class" -> UseClass(b, n.neg, ClassRanges(n))
      [] n.k = "concat" -> CompileAll(b, n.subs)
      [] n.k = "alternate" -> CompileAlternate(b, n.subs)
      [] n.k = "quantifier" -> CompileQuantifier(b, n)
      [] n.k = "backref" -> Emit(b, [op |-> "backref", slot |-> 2 * n.index, fold |-> n.fold])
      [] n.k = "group" /\ n.cap # 0 -> SaveEnd(Compile(SaveStart(b, n), n.sub), n)
      [] n.k = "group" /\ n.cap = 0 -> Compile(b, n.sub)
      [] n.k = "atomic" -> Emit(Compile(Emit(b, Op("mark")), n.sub), Op("cut"))
      [] n.k = "lookaround" -> CompileLookaround(b, n)
      [] n.k \in {"grapheme", "rgi"} -> Emit(b, Op(n.k))
      [] n.k = "splice" -> Compile(b, n.sub)

----------------------------------------------------------------------------
\* Programs.

\* guji_rec_hide_spliced_captures: the groups of a splice become private, and
\* its slots follow those of the host and of the splices before it.
RECURSIVE HideCaptures(_, _)
HideCaptures(n, offset) ==
    CASE n.k \in {"concat", "alternate"} ->
           [n EXCEPT !.subs = [j \in DOMAIN @ |-> HideCaptures(@[j], offset)]]
      [] n.k = "group" /\ n.cap # 0 ->
           [n EXCEPT !.cap = 2, !.index = @ + offset, !.sub = HideCaptures(@, offset)]
      [] n.k \in {"quantifier", "atomic", "lookaround", "splice"} \/ (n.k = "group" /\ n.cap = 0) ->
           [n EXCEPT !.sub = HideCaptures(@, offset)]
      [] n.k = "backref" -> [n EXCEPT !.index = @ + offset]
      [] OTHER -> n

\* A splice node of the tree, by its number, with its captures hidden.
RECURSIVE PlaceSplices(_, _)
PlaceSplices(n, hidden) ==
    CASE n.k \in {"concat", "alternate"} ->
           [n EXCEPT !.subs = [j \in DOMAIN @ |-> PlaceSplices(@[j], hidden)]]
      [] n.k = "splice" -> hidden[n.number]
      [] n.k \in {"quantifier", "group", "atomic", "lookaround"} ->
           [n EXCEPT !.sub = PlaceSplices(@, hidden)]
      [] OTHER -> n

NoProgram == [ok |-> FALSE]

\* guji_rec_finish: what the parser p gives is a program, its captures that the
\* user sees, and its names; or the first error.
Offset(p, caps, k) == FoldLeft(LAMBDA sum, sp : sum + sp.caps, caps, SubSeq(p.splices, 1, k))
Placed(p, r) ==
    PlaceSplices(r.n, [k \in DOMAIN p.splices |->
        [p.splices[k] EXCEPT !.sub = HideCaptures(@, Offset(p, r.p.caps, k - 1))]])
Refused(r) == NoProgram @@ [err |-> r.p.err, at |-> r.p.at]
Program(b, root, r) ==
    [ok |-> TRUE, prog |-> Emit(Compile(b, root), Op("match")), tree |-> root,
     public |-> r.p.public, names |-> r.p.names]
Finish(p) ==
    With(ParsePattern(p), LAMBDA r :
        IF Failed(r) THEN Refused(r)
        ELSE With(Placed(p, r), LAMBDA root :
                 Program(Builder(Offset(p, r.p.caps, Len(p.splices))), root, r)))

\* guji_regex_compile, and guji_regex_compile_internal for a private value.
CompilePattern(pattern, private) == Finish(Parser(pattern, private, <<>>))

\* guji_regex_compile_spliced: a part is a text of the host or a Regex value,
\* which is parsed by itself and stands in the source as a marker.
TextPart(text) == [pattern |-> FALSE, text |-> text, private |-> FALSE]
ValuePart(text, private) == [pattern |-> TRUE, text |-> text, private |-> private]
IsValue(part) == part.pattern

ParsePart(part) == ParsePattern(Parser(part.text, part.private, <<>>))
SpliceNode(r, k) == [k |-> "splice", sub |-> r.n, caps |-> r.p.caps, number |-> k]
WithMarkers(parts) ==
    FoldLeft(LAMBDA a, part : IF part.pattern THEN [src |-> Append(a.src, Marker[a.k]), k |-> a.k + 1]
                              ELSE [a EXCEPT !.src = @ \o part.text],
             [src |-> <<>>, k |-> 1], parts).src
FinishAround(parts, parsed, bad) ==
    IF bad # {} THEN Refused(parsed[Min(bad)])
    ELSE Finish(Parser(WithMarkers(parts), FALSE, [k \in DOMAIN parsed |-> SpliceNode(parsed[k], k)]))
CompileSpliced(parts) ==
    With([k \in DOMAIN SelectSeq(parts, IsValue) |-> ParsePart(SelectSeq(parts, IsValue)[k])], LAMBDA parsed :
        FinishAround(parts, parsed, {k \in DOMAIN parsed : Failed(parsed[k])}))
=============================================================================
