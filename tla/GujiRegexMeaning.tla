-------------------------- MODULE GujiRegexMeaning --------------------------
(***************************************************************************)
(* What a regular expression means, to compare the machine with: the ways  *)
(* in which a tree matches from a position on, the preferred one first.    *)
(*                                                                         *)
(* A way is [pos, caps]: where it ends and the spans it has set.  Nothing  *)
(* here is compiled, stacked, cut or remembered.                           *)
(***************************************************************************)
EXTENDS GujiRegexVM, GujiSplice

Nothing == [state |-> "none"]

\* In place of a tree: the text is not a pattern.
NoPattern == [state |-> "refused"]

Way(pos, caps) == [pos |-> pos, caps |-> caps]
Only(test, way) == IF test THEN <<way>> ELSE <<>>

\* A rune is in a class under (?i) if one it folds with is.
InClass(n, r) ==
    LET in == \/ InRanges(r, n.ranges)
              \/ ~n.raw /\ n.fold /\ \E t \in FoldOrbit(r) : InRanges(t, n.ranges)
    IN in # n.neg

AtAnchor(n, s, pos) ==
    CASE n.kind = "bol" -> pos = 0 \/ (n.multi /\ s[pos] = "\n")
      [] n.kind = "eol" -> pos = Len(s) \/ (n.multi /\ s[pos + 1] = "\n")
      [] n.kind = "bot" -> pos = 0
      [] n.kind = "eot" -> pos = Len(s)
      [] n.kind = "eotabs" -> Between(s, pos, Len(s)) \in {<<>>, <<"\n">>}
      [] n.kind = "word" -> Boundary(s, pos, n.ascii)
      [] n.kind = "notword" -> ~Boundary(s, pos, n.ascii)

RECURSIVE Ways(_, _, _), Turns(_, _, _, _)

\* The ways of each of the given ways, in their order.
Each(n, s, ways) == FlattenSeq([j \in DOMAIN ways |-> Ways(n, s, ways[j])])

\* From min to max turns of n.sub; a turn that nothing bounds must move on.
Turns(n, s, w, done) ==
    LET Useful(again) == IF done < n.min \/ n.max # Inf THEN again ELSE SelectSeq(again, LAMBDA v : v.pos # w.pos)
        Beyond(ways) == FlattenSeq([j \in DOMAIN ways |-> Turns(n, s, ways[j], done + 1)])
        more == IF n.max # Inf /\ done >= n.max THEN <<>>
                ELSE With(Useful(Ways(n.sub, s, w)), LAMBDA ways : Beyond(ways))
    IN With(more, LAMBDA all :
           IF done < n.min THEN all
           ELSE IF n.greedy THEN Append(all, w) ELSE <<w>> \o all)

\* What a lookaround's body finds: from here on, or from the nearest place
\* behind from which it ends here.
Looking(n, s, w) ==
    LET Behind(found) ==
            With({k \in DOMAIN found : found[k] # <<>>}, LAMBDA hits : IF hits = {} THEN <<>> ELSE found[Min(hits)])
        EndingHere(k) == SelectSeq(Ways(n.sub, s, [w EXCEPT !.pos = w.pos - k]), LAMBDA v : v.pos = w.pos)
        ways == IF n.kind \in {"ahead", "notahead"} THEN Ways(n.sub, s, w)
                ELSE Behind([k \in 0..w.pos |-> EndingHere(k)])
    IN With(ways, LAMBDA found :
           IF n.kind \in {"notahead", "notbehind"} THEN Only(found = <<>>, w)
           ELSE Only(found # <<>>, [w EXCEPT !.caps = found[1].caps]))

Ways(n, s, w) ==
    LET r == RuneAt(s, w.pos)
        step == [w EXCEPT !.pos = @ + 1]
        span == w.caps[n.index]
        Set(v) == [v EXCEPT !.caps[n.index] = <<w.pos, v.pos>>]
        Same(here, text) ==
            /\ Len(here) = Len(text)
            /\ \A j \in DOMAIN text : here[j] = text[j] \/ (n.fold /\ here[j] \in FoldOrbit(text[j]))
        Again(text) == Only(Same(Between(s, w.pos, w.pos + Len(text)), text), [w EXCEPT !.pos = @ + Len(text)])
        To(ends) == IF ends = {} THEN <<>> ELSE << [w EXCEPT !.pos = CHOOSE e \in ends : TRUE] >>
    IN CASE n.k = "empty" -> <<w>>
         [] n.k = "literal" -> Only(r # EOF /\ (r = n.rune \/ (n.fold /\ r \in FoldOrbit(n.rune))), step)
         [] n.k = "any" -> Only(r # EOF /\ (n.dotall \/ r # "\n"), step)
         [] n.k = "class" -> Only(r # EOF /\ InClass(n, r), step)
         [] n.k = "anchor" -> Only(AtAnchor(n, s, w.pos), w)
         [] n.k = "grapheme" -> IF r = EOF THEN <<>> ELSE To({GraphemeEnd(s, w.pos)})
         [] n.k = "rgi" -> To(RgiEnds(s, w.pos))
         [] n.k = "concat" -> FoldLeft(LAMBDA ways, sub : Each(sub, s, ways), <<w>>, n.subs)
         [] n.k = "alternate" -> FlattenSeq([j \in DOMAIN n.subs |-> Ways(n.subs[j], s, w)])
         [] n.k = "quantifier" -> Turns(n, s, w, 0)
         [] n.k \in {"group", "atomic", "splice"} ->
              With(Ways(n.sub, s, w), LAMBDA ended :
                  CASE n.k = "group" /\ n.cap # 0 -> [j \in DOMAIN ended |-> Set(ended[j])]
                    [] n.k = "atomic" -> Only(ended # <<>>, ended[1])
                    [] OTHER -> ended)
         [] n.k = "lookaround" -> Looking(n, s, w)
         [] n.k = "backref" ->
              IF span = <<Unset, Unset>> THEN <<>>
              ELSE Again(Between(s, span[1], span[2]))

----------------------------------------------------------------------------
\* The leftmost match from a position on: the preferred way from there.

Fresh(ncap, pos) == Way(pos, [g \in 1..ncap |-> <<Unset, Unset>>])
MatchAt(tree, ncap, s, pos) ==
    With(Ways(tree, s, Fresh(ncap, pos)), LAMBDA ways :
        IF ways = <<>> THEN NoMatch
        ELSE [state |-> "match", ncap |-> ncap,
              spans |-> [g \in 0..ncap |-> IF g = 0 THEN <<pos, ways[1].pos>> ELSE ways[1].caps[g]]])
\* found[p] is the match from p on, or NoMatch.
Least(found) ==
    With({p \in DOMAIN found : found[p] # NoMatch}, LAMBDA starts :
        IF starts = {} THEN NoMatch ELSE found[Min(starts)])
Leftmost(tree, ncap, s, from) ==
    With([p \in from..Len(s) |-> MatchAt(tree, ncap, s, p)], Least)

\* Whether n can match nothing, and whether it repeats something that can.
RECURSIVE Plain(_)
Plain(n) ==
    CASE n.k \in {"concat", "alternate"} -> \A j \in DOMAIN n.subs : Plain(n.subs[j])
      [] n.k = "quantifier" -> Plain(n.sub) /\ (n.max = Inf => Width(n.sub).min > 0)
      [] n.k \in {"group", "atomic", "lookaround", "splice"} -> Plain(n.sub)
      [] OTHER -> TRUE

----------------------------------------------------------------------------
\* The matches that a replace takes, and the gaps between them: the next one is
\* the leftmost from the end of the one before, but not an empty one right there.
RECURSIVE MatchesFrom(_, _, _, _)
MatchesFrom(tree, ncap, s, end) ==
    LET All(next) == IF next = NoMatch THEN <<>>
                     ELSE <<next>> \o MatchesFrom(tree, ncap, s, next.spans[0][2])
        Next(near, beyond) ==
            IF near = NoMatch \/ near.spans[0] # <<end, end>> THEN near ELSE beyond
        found == [p \in 0..Len(s) |-> IF p < end THEN NoMatch ELSE MatchAt(tree, ncap, s, p)]
    IN With(found, LAMBDA at :
           With(Next(Least(at), Least([p \in (end + 1)..Len(s) |-> at[p]])), All))

\* Each match m of a sequence replaced by New(m).
Replaced(s, matches, New(_)) ==
    LET end(j) == IF j = 0 THEN 0 ELSE matches[j].spans[0][2]
    IN FlattenSeq([j \in DOMAIN matches |-> Between(s, end(j - 1), matches[j].spans[0][1]) \o New(matches[j])])
       \o Between(s, end(Len(matches)), Len(s))

----------------------------------------------------------------------------
\* A pattern that means a tree: what the parser has to read back.
RECURSIVE Shown(_)
Shown(n) ==
    LET sub == Shown(n.sub)
        Intro == ("ahead" :> "(?=") @@ ("notahead" :> "(?!") @@ ("behind" :> "(?<=") @@ ("notbehind" :> "(?<!")
        count == Digit(n.min) \o <<",">> \o (IF n.max = Inf THEN <<>> ELSE Digit(n.max))
        sign == CASE n.min = 0 /\ n.max = Inf -> <<"*">>
                  [] n.min = 1 /\ n.max = Inf -> <<"+">>
                  [] n.min = 0 /\ n.max = 1 -> <<"?">>
                  [] n.min = n.max -> <<"{">> \o Digit(n.min) \o <<"}">>
                  [] OTHER -> <<"{">> \o count \o <<"}">>
    IN CASE n.k = "empty" -> <<>>
         [] n.k = "literal" -> IF n.rune \in Meta THEN <<"\\", n.rune>> ELSE <<n.rune>>
         [] n.k = "any" -> <<".">>
         [] n.k = "anchor" -> <<IF n.kind = "bol" THEN "^" ELSE "$">>
         [] n.k = "concat" -> FlattenSeq([j \in DOMAIN n.subs |-> Shown(n.subs[j])])
         [] n.k = "alternate" -> FlattenSeq([j \in DOMAIN n.subs |->
                                    IF j = 1 THEN Shown(n.subs[j]) ELSE <<"|">> \o Shown(n.subs[j])])
         [] n.k = "group" -> (IF n.cap = 0 THEN Chars("(?:") ELSE <<"(">>) \o sub \o <<")">>
         [] n.k = "atomic" -> Chars("(?>") \o sub \o <<")">>
         [] n.k = "lookaround" -> Chars(Intro[n.kind]) \o sub \o <<")">>
         [] n.k = "quantifier" -> sub \o sign \o (IF n.greedy THEN <<>> ELSE <<"?">>)
=============================================================================
