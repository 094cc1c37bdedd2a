-------------------------- MODULE GujiRegexSyntax --------------------------
(***************************************************************************)
(* The parser of regular expressions, runtime_prologue.c 10789-12580: a    *)
(* recursive descent over the runes of a pattern that builds a tree.       *)
(*                                                                         *)
(* Each guji_rec_parse_* function is an operator from a parser state (and  *)
(* the flags in force) to a pair [p, n]: the state after it and the node,  *)
(* which means nothing once p.err is set.                                  *)
(***************************************************************************)
EXTENDS GujiUnicode

EOF == "EOF"
NoErr == ""
Inf == -1                       \* the upper bound of *, + and {n,}

NoFlags == [i |-> FALSE, m |-> FALSE, s |-> FALSE, a |-> FALSE, x |-> FALSE]

\* guji_rec_parser_t.  caps counts the capture groups opened so far; public
\* lists those that the user can see; names lists <<name, index>>.
Parser(src, hidden, splices) ==
    [src |-> src, pos |-> 1, caps |-> 0, public |-> <<>>, hidden |-> hidden,
     names |-> <<>>, err |-> NoErr, at |-> 0, flags |-> NoFlags, applied |-> FALSE,
     splices |-> splices]

Give(p, n) == [p |-> p, n |-> n]

\* The first error is kept (guji_rec_set_error).
Fail(p, at, msg) == IF p.err = NoErr THEN [p EXCEPT !.err = msg, !.at = at] ELSE p
Bad(p, at, msg) == Give(Fail(p, at, msg), [k |-> "none"])
Failed(r) == r.p.err # NoErr

\* What f makes of what was parsed, if that has not failed, and of its node.
Then(r, f(_)) == IF Failed(r) THEN r ELSE f(r)
Map(r, f(_)) == Then(r, LAMBDA done : Give(done.p, f(done.n)))

At(p, off) == IF p.pos + off <= Len(p.src) THEN p.src[p.pos + off] ELSE EOF
Peek(p) == At(p, 0)
Skip(p, n) == [p EXCEPT !.pos = @ + n]

\* The first position from i on that has none of S, and the first that has one.
First(s, i, Is(_)) == CHOOSE j \in i..(IF i > Len(s) THEN i ELSE Len(s) + 1) :
                          /\ j > Len(s) \/ Is(s[j])
                          /\ \A k \in i..(j - 1) : ~Is(s[k])
After(s, i, S) == First(s, i, LAMBDA c : c \notin S)
Find(s, i, S) == First(s, i, LAMBDA c : c \in S)

Digits == ToSet(Chars("0123456789"))
Letters == ToSet(UpperLetters) \cup ToSet(LowerLetters)
NameChars == Digits \cup Letters \cup {"_"}
HexDigits == Digits \cup ToSet(Chars("abcdefABCDEF"))
HexVal == Numbered(Chars("0123456789abcdef"), 0) @@ Numbered(Chars("ABCDEF"), 10)
Value(digits, base) == FoldLeft(LAMBDA v, d : v * base + HexVal[d], 0, digits)

\* (?x): white space and comments outside classes and escapes.
Blank == {" ", "\t", "\n", "\r", "FF", "VT"}
RECURSIVE Solid(_, _)
Solid(s, i) == IF i > Len(s) THEN i
               ELSE IF s[i] \in Blank THEN Solid(s, i + 1)
               ELSE IF s[i] = "#" THEN Solid(s, Find(s, i, {"\n"}))
               ELSE i
SkipVerbose(p, fl) == IF fl.x THEN [p EXCEPT !.pos = Solid(p.src, p.pos)] ELSE p

----------------------------------------------------------------------------
\* Nodes.

Empty == [k |-> "empty"]
Literal(r, fl) == [k |-> "literal", rune |-> r, fold |-> fl.i]
Anchor(kind, fl) == [k |-> "anchor", kind |-> kind, multi |-> fl.m, ascii |-> fl.a]
Class(neg, fold, raw, ranges) ==
    [k |-> "class", neg |-> neg, fold |-> fold, raw |-> raw, ranges |-> ranges]
Quantifier(sub, min, max, greedy) ==
    [k |-> "quantifier", sub |-> sub, min |-> min, max |-> max, greedy |-> greedy]
Backref(index, fl) == [k |-> "backref", index |-> index, fold |-> fl.i]
\* cap is 0 for (?:...), 1 for a group the user sees, 2 for a private one.
Group(sub, cap, index) == [k |-> "group", sub |-> sub, cap |-> cap, index |-> index]
Lookaround(sub, kind, minw, maxw) ==
    [k |-> "lookaround", sub |-> sub, kind |-> kind, minw |-> minw, maxw |-> maxw]
\* A lone item is itself; none at all is the empty pattern.
Concat(subs) == IF subs = <<>> THEN Empty
                ELSE IF Len(subs) = 1 THEN subs[1] ELSE [k |-> "concat", subs |-> subs]

----------------------------------------------------------------------------
\* Ranges of code points, and the classes made of them.

Complement(base) ==
    LET step == FoldLeft(LAMBDA a, r :
                    [out |-> IF r[1] > a.next THEN Append(a.out, <<a.next, r[1] - 1>>) ELSE a.out,
                     next |-> IF r[2] + 1 > a.next THEN r[2] + 1 ELSE a.next],
                    [out |-> <<>>, next |-> 0], base)
    IN IF step.next <= MaxRune THEN Append(step.out, <<step.next, MaxRune>>) ELSE step.out

One(c) == With(Code[c], LAMBDA v : <<v, v>>)
Span(c, d) == <<Code[c], Code[d]>>

Shorthand == {"d", "D", "w", "W", "s", "S"}
Negated(c) == c \in {"D", "W", "S", "P"}
ShorthandBase(c, ascii) ==
    CASE c \in {"d", "D"} -> IF ascii THEN << <<48, 57>> >> ELSE Nd
      [] c \in {"w", "W"} -> IF ascii THEN << <<48, 57>>, <<65, 90>>, <<95, 95>>, <<97, 122>> >> ELSE WordRanges
      [] c \in {"s", "S"} -> IF ascii THEN << <<9, 9>>, <<10, 10>>, <<11, 11>>, <<12, 12>>, <<13, 13>>, <<32, 32>> >>
                             ELSE WhiteSpace

Posix ==
    ("ascii" :> << <<0, 127>> >>) @@ ("digit" :> << <<48, 57>> >>)
    @@ ("upper" :> << <<65, 90>> >>) @@ ("lower" :> << <<97, 122>> >>)
    @@ ("alpha" :> << <<65, 90>>, <<97, 122>> >>)
    @@ ("alnum" :> << <<48, 57>>, <<65, 90>>, <<97, 122>> >>)
    @@ ("word" :> << <<48, 57>>, <<65, 90>>, <<97, 122>>, <<95, 95>> >>)
    @@ ("space" :> << <<9, 9>>, <<10, 10>>, <<12, 12>>, <<13, 13>>, <<32, 32>> >>)
    @@ ("blank" :> << <<9, 9>>, <<32, 32>> >>)
    @@ ("punct" :> << <<33, 47>>, <<58, 64>>, <<91, 96>>, <<123, 126>> >>)
    @@ ("xdigit" :> << <<48, 57>>, <<65, 70>>, <<97, 102>> >>)
    @@ ("cntrl" :> << <<0, 31>>, <<127, 127>> >>)
    @@ ("graph" :> << <<33, 126>> >>) @@ ("print" :> << <<32, 126>> >>)

\* Property names are compared without case, blanks, hyphens and underscores.
Lowered(c) ==
    CASE c = "U+0130" -> "i" [] c = "U+212A" -> "k"
      [] c \in ToSet(UpperLetters) -> FoldPairs[c] [] OTHER -> c
Loose(name) ==
    With(SelectSeq(name, LAMBDA c : c \notin {" ", "_", "-"}), LAMBDA kept :
        [j \in DOMAIN kept |-> Lowered(kept[j])])
Named(name, S) == {t \in S : Loose(Chars(t)) = Loose(name)}

\* guji_rec_resolve_property: a script after Script= or sc=, else any property.
PropertiesNamed(name, eq) ==
    IF eq > Len(name) THEN Named(name, DOMAIN Property)
    ELSE IF Loose(SubSeq(name, 1, eq - 1)) \in {<<"s", "c", "r", "i", "p", "t">>, <<"s", "c">>}
    THEN Named(SubSeq(name, eq + 1, Len(name)), Script) ELSE {}
ResolveProperty(p, bs, name) ==
    IF Loose(name) = Chars("rgiemoji") THEN Give(p, "rgi")
    ELSE With(PropertiesNamed(name, Find(name, 1, {"="})), LAMBDA found :
             IF found = {} THEN Bad(p, bs, "unknown Unicode property")
             ELSE Give(p, Property[CHOOSE t \in found : TRUE]))

\* \p{Name} and \P{Name}: gives a table, or "rgi".
UnicodeProperty(p, bs, negated) ==
    LET start == p.pos + 2
        end == Find(p.src, start, {"}", "\n"})
    IN IF At(p, 1) # "{" THEN Bad(Skip(p, 1), bs, "invalid Unicode property syntax")
       ELSE IF end > Len(p.src) \/ p.src[end] = "\n" THEN Bad(p, bs, "missing } in property")
       ELSE IF end = start THEN Bad(p, bs, "empty Unicode property")
       ELSE Then(ResolveProperty([p EXCEPT !.pos = end + 1], bs, SubSeq(p.src, start, end - 1)), LAMBDA r :
                IF r.n = "rgi" /\ negated THEN Bad(r.p, bs, "cannot negate string property") ELSE r)

\* [:name:]; the negation of [:^name:] is read and ignored.
PosixClass(p, open) ==
    LET start == p.pos + 2 + IF At(p, 2) = "^" THEN 1 ELSE 0
        end == Find(p.src, start, {":", "]"})
        Table(name, table) ==
            IF \E t \in DOMAIN table : Chars(t) = name
            THEN Give([p EXCEPT !.pos = end + 2], table[CHOOSE t \in DOMAIN table : Chars(t) = name])
            ELSE Bad(p, start, "unknown POSIX class")
    IN IF \/ end + 1 > Len(p.src) \/ p.src[end] # ":" \/ p.src[end + 1] # "]"
       THEN Bad(p, open, "invalid POSIX character class")
       ELSE Table(SubSeq(p.src, start, end - 1), Posix)

----------------------------------------------------------------------------
\* Escapes.

\* The rune of an escape; the backslash, at bs, has been read.
RuneEscape(p, bs) ==
    LET c == Peek(p)
        Plain == ("n" :> "\n") @@ ("r" :> "\r") @@ ("t" :> "\t") @@ ("f" :> "FF")
                 @@ ("v" :> "VT") @@ ("a" :> "BEL") @@ ("0" :> "NUL")
        Hex(q, digits, ok, end) ==
            With(Value(digits, 16), LAMBDA v :
                IF ok /\ v <= MaxRune THEN Give(q, RuneOf(v)) 
                ELSE Bad(p, IF ok THEN p.pos + 2 ELSE end, "invalid hexadecimal escape"))
        Braced(end) ==
            With(SubSeq(p.src, p.pos + 2, end - 1), LAMBDA digits :
                Hex([p EXCEPT !.pos = end + 1], digits,
                    end <= Len(p.src) /\ p.src[end] = "}" /\ digits # <<>>, end))
        Short(digits) ==
            With(\A j \in {1, 2} : digits[j] \in HexDigits, LAMBDA ok :
                Hex(Skip(p, 3), IF ok THEN digits ELSE <<>>, ok, p.pos))
    IN CASE c \in {"n", "r", "t", "f", "v", "a", "0"} -> Give(Skip(p, 1), Plain[c])
         [] c = "x" -> IF At(p, 1) = "{" THEN Braced(After(p.src, p.pos + 2, HexDigits))
                       ELSE Short(<<At(p, 1), At(p, 2)>>)
         [] c \in Letters \ {"n", "r", "t", "f", "v", "a", "x"} -> Bad(p, bs, "invalid escape sequence")
         [] OTHER -> Give(Skip(p, 1), c)

\* One member of a class, or an end of a range.
ClassMember(p) ==
    LET bs == p.pos
        q == Skip(p, 1)
    IN IF Peek(p) # "\\" THEN Give(q, Peek(p))
       ELSE CASE Peek(q) \in Shorthand -> Bad(q, bs, "invalid character class range")
              [] Peek(q) \in {"p", "P"} ->
                   Then(UnicodeProperty(q, bs, Peek(q) = "P"), LAMBDA prop :
                       Bad(prop.p, bs, "invalid character class range"))
              [] Peek(q) = "b" -> Give(Skip(q, 1), "BS")
              [] OTHER -> RuneEscape(q, bs)

\* A member, or a range of them: its ends.
ClassRange(p, open) ==
    Then(ClassMember(p), LAMBDA lo :
        IF Peek(lo.p) = "-" /\ At(lo.p, 1) \notin {"]", EOF}
        THEN Then(ClassMember(Skip(lo.p, 1)), LAMBDA hi :
                 IF Code[hi.n] < Code[lo.n] THEN Bad(hi.p, open, "invalid character class range")
                 ELSE Give(hi.p, << Span(lo.n, hi.n) >>))
        ELSE Give(lo.p, IF lo.n = EOF THEN <<>> ELSE << One(lo.n) >>))

Signed(base, negated) == IF negated THEN Complement(base) ELSE base
ClassItem(p, fl, open) ==
    LET c == Peek(p)
        d == At(p, 1)
    IN CASE c = "[" /\ d = ":" -> PosixClass(p, open)
         [] c = "\\" /\ d \in Shorthand -> Give(Skip(p, 2), Signed(ShorthandBase(d, fl.a), Negated(d)))
         [] c = "\\" /\ d \in {"p", "P"} ->
              Map(UnicodeProperty(Skip(p, 1), p.pos, d = "P"), LAMBDA base :
                  IF base = "rgi" THEN <<>> ELSE Signed(base, Negated(d)))
         [] OTHER -> ClassRange(p, open)

\* The members of [...] up to the closing bracket, which is a member itself if
\* it comes first.
RECURSIVE ClassItems(_, _, _, _, _)
ClassItems(p, fl, open, ranges, first) ==
    IF Peek(p) = EOF THEN Bad(p, open, "missing closing ]")
    ELSE IF Peek(p) = "]" /\ ~first THEN Give(Skip(p, 1), ranges)
    ELSE Then(ClassItem(p, fl, open), LAMBDA r : ClassItems(r.p, fl, open, ranges \o r.n, FALSE))

BracketClass(p, fl) ==
    LET neg == At(p, 1) = "^"
    IN Map(ClassItems(Skip(p, IF neg THEN 2 ELSE 1), fl, p.pos, <<>>, TRUE),
           LAMBDA ranges : Class(neg, fl.i, FALSE, ranges))

----------------------------------------------------------------------------
\* Names of groups.

HiddenName(name) == Len(name) >= 3 /\ name[1] = "0" /\ name[2] = "H"
IndexOf(p, name) == {p.names[j][2] : j \in {j \in DOMAIN p.names : p.names[j][1] = name}}

\* What stands between the < at the current position and the next >.
NameAt(p, at) ==
    LET start == p.pos + 1
        end == After(p.src, start, NameChars)
        c == At(p, end - p.pos)
    IN IF c = ">" THEN Give([p EXCEPT !.pos = end + 1], SubSeq(p.src, start, end - 1))
       ELSE IF c \in {EOF, ")"} THEN Bad(p, at, "missing closing >")
       ELSE Bad(p, end, "invalid character in capture name")

\* guji_rec_record_name.
RecordName(p, open, start, name) ==
    IF name = <<>> THEN Fail(p, open, "empty capture name")
    ELSE IF name[1] \in Digits /\ ~(p.hidden /\ HiddenName(name))
    THEN Fail(p, start, "capture name must not start with a digit")
    ELSE IF IndexOf(p, name) # {} THEN Fail(p, open, "duplicate capture name")
    ELSE [p EXCEPT !.names = Append(@, <<name, p.caps + 1>>)]

\* A new capture group; a public one is added to what the user sees.
OpenGroup(p, isPublic) ==
    [p EXCEPT !.caps = @ + 1, !.public = IF isPublic THEN Append(@, p.caps + 1) ELSE @]

NamedBackref(p, fl, bs) ==
    IF At(p, 1) # "<" THEN Bad(p, bs, "invalid named backreference syntax")
    ELSE Then(NameAt(Skip(p, 1), bs), LAMBDA r :
             IF r.n = <<>> THEN Bad(r.p, bs, "empty capture name")
             ELSE IF IndexOf(r.p, r.n) = {} THEN Bad(r.p, bs, "unknown capture name")
             ELSE Give(r.p, Backref(CHOOSE j \in IndexOf(r.p, r.n) : TRUE, fl)))

\* An escape outside a class.
Escape(p, fl) ==
    LET bs == p.pos
        q == Skip(p, 1)
        c == Peek(q)
        next == Skip(q, 1)
        index == Code[c] - Code["0"]
    IN CASE c = EOF -> Bad(q, bs, "trailing backslash")
         [] c \in Shorthand -> Give(next, Class(Negated(c), FALSE, TRUE, ShorthandBase(c, fl.a)))
         [] c = "b" -> Give(next, Anchor("word", fl))
         [] c = "B" -> Give(next, Anchor("notword", fl))
         [] c = "A" -> Give(next, Anchor("bot", fl))
         [] c = "z" -> Give(next, Anchor("eot", fl))
         [] c = "Z" -> Give(next, Anchor("eotabs", fl))
         [] c = "X" -> Give(next, [k |-> "grapheme"])
         [] c = "k" -> NamedBackref(q, fl, bs)
         [] c \in {"p", "P"} ->
              Map(UnicodeProperty(q, bs, c = "P"), LAMBDA base :
                  IF base = "rgi" THEN [k |-> "rgi"] ELSE Class(c = "P", FALSE, TRUE, base))
         [] c \in Digits \ {"0"} ->
              IF index > Len(q.public) THEN Bad(next, bs, "invalid backreference")
              ELSE Give(next, Backref(q.public[index], fl))
         [] OTHER -> Map(RuneEscape(q, bs), LAMBDA r : Literal(r, fl))

----------------------------------------------------------------------------
\* {n}, {n,} and {n,m}: the number of runes, 0 if that is not what follows.  The
\* first number ends before position a of s, and what is counted before b.

\* Mutant: {n,} is read as {n}.
UpperCountExact(s, a, b, lo) == IF b <= a + 1 THEN lo ELSE Value(SubSeq(s, a + 1, b - 1), 10)
UpperCount(s, a, b, lo) ==
    IF b = a THEN lo ELSE IF b = a + 1 THEN Inf ELSE Value(SubSeq(s, a + 1, b - 1), 10)

Counted(p) ==
    LET s == p.src
        Read(a, b) ==
            IF Peek(p) = "{" /\ a > p.pos + 1 /\ b <= Len(s) /\ s[b] = "}"
            THEN With(Value(SubSeq(s, p.pos + 1, a - 1), 10), LAMBDA lo :
                     [n |-> b + 1 - p.pos, lo |-> lo, hi |-> UpperCount(s, a, b, lo)])
            ELSE [n |-> 0, lo |-> 0, hi |-> 0]
    IN With(After(s, p.pos + 1, Digits), LAMBDA a :
           Read(a, IF a <= Len(s) /\ s[a] = "," THEN After(s, a + 1, Digits) ELSE a))

\* A quantifier and its bounds; n is 0 if there is none.
Times(p) ==
    LET c == Peek(p)
    IN CASE c = "*" -> [n |-> 1, lo |-> 0, hi |-> Inf]
         [] c = "+" -> [n |-> 1, lo |-> 1, hi |-> Inf]
         [] c = "?" -> [n |-> 1, lo |-> 0, hi |-> 1]
         [] OTHER -> Counted(p)

\* The width in runes of what a tree matches, for lookbehind (guji_rec_ast_width).
RECURSIVE Width(_)
Width(n) ==
    LET W(j) == Width(n.subs[j])
        w == Width(n.sub)
        Join(a, b) ==     \* of an alternative
            [min |-> IF b.min < a.min THEN b.min ELSE a.min,
             max |-> IF a.bd /\ b.bd /\ b.max > a.max THEN b.max ELSE a.max,
             bd |-> a.bd /\ b.bd]
        Follow(a, b) == [min |-> a.min + b.min, max |-> IF a.bd /\ b.bd THEN a.max + b.max ELSE a.max,
                       bd |-> a.bd /\ b.bd]
    IN CASE n.k \in {"empty", "anchor"} -> [min |-> 0, max |-> 0, bd |-> TRUE]
         [] n.k \in {"literal", "any", "class"} -> [min |-> 1, max |-> 1, bd |-> TRUE]
         [] n.k \in {"grapheme", "rgi"} -> [min |-> 1, max |-> Inf, bd |-> FALSE]
         [] n.k = "backref" -> [min |-> 0, max |-> 0, bd |-> FALSE]
         [] n.k = "concat" -> FoldLeft(LAMBDA a, m : Follow(a, Width(m)),
                                       [min |-> 0, max |-> 0, bd |-> TRUE], n.subs)
         [] n.k = "alternate" -> FoldLeft(LAMBDA a, m : Join(a, Width(m)), W(1), Tail(n.subs))
         [] n.k = "quantifier" ->
              [min |-> n.min * w.min, max |-> IF n.max = Inf THEN Inf ELSE n.max * w.max,
               bd |-> w.bd /\ n.max # Inf]
         [] OTHER -> w      \* groups, atomic groups, lookarounds, splices

----------------------------------------------------------------------------
\* Groups, atoms, quantifiers, sequences and alternatives.

RECURSIVE Alternate(_, _), Items(_, _, _), Branches(_, _, _), FlagGroup(_, _, _, _, _)

\* An alternation and the parenthesis that closes it.
Enclosed(p, fl, open) ==
    Then(Alternate(p, fl), LAMBDA r :
        IF Peek(r.p) # ")" THEN Bad(r.p, open, "missing closing )") ELSE Give(Skip(r.p, 1), r.n))

NamedGroup(p, fl, open) ==
    Then(NameAt(p, open), LAMBDA r :
        LET hidden == r.p.hidden /\ HiddenName(r.n)
        IN With(RecordName(SkipVerbose(r.p, fl), open, p.pos + 1, r.n), LAMBDA q :
               IF q.err # NoErr THEN Give(q, [k |-> "none"])
               ELSE Map(Enclosed(OpenGroup(q, ~hidden), fl, open), LAMBDA sub :
                        Group(sub, IF hidden THEN 2 ELSE 1, q.caps + 1))))

\* (?flags) holds to the end of the enclosing group, (?flags:...) inside.
FlagGroup(p0, fl, open, neg, saw) ==
    LET p == SkipVerbose(p0, fl)
        c == Peek(p)
        next == Skip(p, 1)
    IN CASE c \in DOMAIN NoFlags -> FlagGroup(next, [fl EXCEPT ![c] = ~neg], open, neg, TRUE)
         [] c = "-" -> IF neg THEN Bad(p, p.pos, "invalid flag group")
                       ELSE FlagGroup(next, fl, open, TRUE, FALSE)
         [] c = ":" -> Map(Enclosed(SkipVerbose(next, fl), fl, open), LAMBDA sub : Group(sub, 0, 0))
         [] c = ")" -> IF neg /\ ~saw THEN Bad(p, p.pos, "invalid flag group")
                       ELSE Give([next EXCEPT !.flags = fl, !.applied = TRUE], Empty)
         [] c = EOF -> Bad(p, open, "missing closing )")
         [] OTHER -> Bad(p, p.pos, "invalid flag in group")

\* What follows "(?".
GroupSpecial(p0, fl, open) ==
    LET p == SkipVerbose(p0, fl)
        c == Peek(p)
        d == At(p, 1)
        Body(k) == Enclosed(SkipVerbose(Skip(p, k), fl), fl, open)
        Behind(r, w) ==
            IF ~w.bd THEN Bad(r.p, open, "lookbehind requires bounded width")
            ELSE Give(r.p, Lookaround(r.n, IF d = "=" THEN "behind" ELSE "notbehind", w.min, w.max))
    IN CASE c = ":" -> Map(Body(1), LAMBDA sub : Group(sub, 0, 0))
         [] c = ">" -> Map(Body(1), LAMBDA sub : [k |-> "atomic", sub |-> sub])
         [] c \in {"=", "!"} ->
              Map(Body(1), LAMBDA sub : Lookaround(sub, IF c = "=" THEN "ahead" ELSE "notahead", 0, 0))
         [] c = "<" /\ d \in {"=", "!"} -> Then(Body(2), LAMBDA r : Behind(r, Width(r.n)))
         [] c = "<" /\ d \notin {"=", "!"} -> NamedGroup(p, fl, open)
         [] c = "P" -> IF d = "<" THEN NamedGroup(Skip(p, 1), fl, open)
                       ELSE Bad(p, open, "invalid named group syntax")
         [] c \in DOMAIN NoFlags \cup {"U", "-"} -> FlagGroup(p, fl, open, FALSE, FALSE)
         [] OTHER -> Bad(p, open, "invalid group syntax")

ParenGroup(p, fl) ==
    LET q == SkipVerbose(Skip(p, 1), fl)
    IN IF Peek(q) = "?" THEN GroupSpecial(Skip(q, 1), fl, p.pos)
       ELSE Map(Enclosed(OpenGroup(q, TRUE), fl, p.pos), LAMBDA sub : Group(sub, 1, q.caps + 1))

Marker == <<"U+E000", "U+E001">>

Atom(p, fl) ==
    LET c == Peek(p)
        next == Skip(p, 1)
    IN CASE c = "(" -> ParenGroup(p, fl)
         [] c = "[" -> BracketClass(p, fl)
         [] c = "." -> Give(next, [k |-> "any", dotall |-> fl.s])
         [] c = "^" -> Give(next, Anchor("bol", fl))
         [] c = "$" -> Give(next, Anchor("eol", fl))
         [] c = "\\" -> Escape(p, fl)
         [] c \in {"*", "+", "?", "{"} ->
              IF Times(p).n > 0 THEN Bad(p, p.pos, "missing argument to repetition operator")
              ELSE Give(next, Literal(c, fl))
         [] c = "<" /\ At(p, 1) = "{" -> Bad(p, p.pos, "regex splicing requires host-provided parts")
         [] c = ")" -> Bad(p, p.pos, "unexpected )")
         [] \E j \in DOMAIN p.splices : c = Marker[j] ->
              Give(next, p.splices[CHOOSE j \in DOMAIN p.splices : c = Marker[j]])
         [] OTHER -> Give(next, Literal(c, fl))

\* A quantifier after sub: possessive is an atomic group around it.
Repeat(sub, t, suffix) ==
    With(Quantifier(sub, t.lo, t.hi, suffix # "?"), LAMBDA node :
        IF suffix = "+" THEN [k |-> "atomic", sub |-> node] ELSE node)
Suffixed(q, sub, fl, t, suffix) ==
    With(SkipVerbose(IF suffix \in {"?", "+"} THEN Skip(q, 1) ELSE q, fl), LAMBDA r :
        IF Times(r).n > 0 THEN Bad(r, r.pos, "bad repetition operator") ELSE Give(r, Repeat(sub, t, suffix)))
Quantified(p, sub, fl, t) ==
    IF t.n = 0 THEN Give(p, sub)
    ELSE IF sub.k = "anchor" THEN Bad(p, p.pos, "missing argument to repetition operator")
    ELSE IF t.hi # Inf /\ t.hi < t.lo THEN Bad(p, p.pos, "invalid repetition count")
    ELSE With(SkipVerbose(Skip(p, t.n), fl), LAMBDA q : Suffixed(q, sub, fl, t, Peek(q)))
MaybeQuantifier(p0, sub, fl) ==
    With(SkipVerbose(p0, fl), LAMBDA p : Quantified(p, sub, fl, Times(p)))

\* guji_rec_parse_concat: gives [subs, fl], with the flags set on the way.
Items(p0, fl, subs) ==
    With(SkipVerbose(p0, fl), LAMBDA p :
        IF Peek(p) \in {EOF, "|", ")"} THEN Give(p, [subs |-> subs, fl |-> fl])
        ELSE Then(Atom(p, fl), LAMBDA a :
                 IF a.p.applied THEN Items([a.p EXCEPT !.applied = FALSE], a.p.flags, subs)
                 ELSE Then(MaybeQuantifier(a.p, a.n, fl), LAMBDA q : Items(q.p, fl, Append(subs, q.n)))))

\* An alternative and those after it: flags set in one hold in the next.
Branches(p, fl, subs) ==
    LET After1(r, q, all) ==
            IF Peek(q) = "|" THEN Branches(Skip(q, 1), r.n.fl, all)
            ELSE Give(q, IF Len(all) = 1 THEN all[1] ELSE [k |-> "alternate", subs |-> all])
    IN Then(Items(p, fl, <<>>), LAMBDA r :
           After1(r, SkipVerbose(r.p, r.n.fl), Append(subs, Concat(r.n.subs))))

Alternate(p, fl) == Branches(p, fl, <<>>)

\* A whole pattern.
ParsePattern(p) ==
    Then(Alternate(p, p.flags), LAMBDA r :
        IF r.p.pos <= Len(r.p.src) THEN Bad(r.p, r.p.pos, "unexpected )") ELSE r)
=============================================================================
