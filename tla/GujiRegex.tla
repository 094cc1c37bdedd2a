------------------------------ MODULE GujiRegex ------------------------------
(***************************************************************************)
(* The operations on regular expressions, runtime_prologue.c 13380-14066:  *)
(* match a subject, replace in it, and match a terminal of a grammar.      *)
(*                                                                         *)
(* A request is one of Requests:                                           *)
(*   op       "match", "replace" or "terminal"                             *)
(*   form     "literal" (a pattern known at compile time), "parts" (a      *)
(*            literal with splices) or "value" (a Regex made of parts)     *)
(*   parts    its parts; a literal has one                                 *)
(*   subject  the text to match; at, the position for a terminal           *)
(*   template the template of a replace, a text                            *)
(* A step is one turn of the loop of the machine, or what the caller does  *)
(* between two runs of it.                                                 *)
(***************************************************************************)
EXTENDS GujiRegexMeaning

CONSTANT Requests

VARIABLES
    request,    \* the call
    stage,      \* "off", "compile", "search", "done"
    compiled,   \* what the compiler returned
    machine,    \* the backtracking machine
    trying,     \* the position at which this run of the machine started
    replacing,  \* pos, last, prev_end and out of a replace
    answer      \* what the call returned

regexVars == <<request, stage, compiled, machine, trying, replacing, answer>>

\* The whole library is one composition: while another part of it works, this
\* one is off.
NoRegex ==
    /\ stage = "off" /\ request = Nothing /\ compiled = Nothing /\ machine = Nothing
    /\ trying = 0 /\ replacing = Nothing /\ answer = Nothing

RegexInit ==
    /\ request \in Requests
    /\ stage = "compile"
    /\ compiled = Nothing /\ machine = Nothing /\ trying = 0 /\ answer = Nothing
    /\ replacing = [pos |-> 0, last |-> 0, prevEnd |-> Unset, out |-> <<>>]

----------------------------------------------------------------------------
\* The three ways to a program.  A value that parts made is private: hidden
\* names are allowed in its source.
CompileRequest(q) ==
    CASE q.form = "literal" -> CompilePattern(q.parts[1].text, q.parts[1].private)
      [] q.form = "parts" -> CompileSpliced(q.parts)
      [] q.form = "value" -> With(ValueFromParts(q.parts), LAMBDA v :
                                 IF v.ok THEN CompilePattern(v.value, TRUE) ELSE v)

Return(what) == stage' = "done" /\ answer' = what

\* A literal that does not compile is a panic, one with splices a run-time
\* error at its place in the program.
Refuse(c) == Return([state |-> IF request.form = "literal" THEN "panic" ELSE "runtime error"])

CompileCall ==
    /\ stage = "compile"
    /\ \E c \in {CompileRequest(request)} :
           /\ compiled' = c
           /\ IF c.ok
              THEN /\ stage' = "search" /\ answer' = answer
                   /\ trying' = request.at
                   /\ machine' = Machine(c.prog, request.at, <<>>)
              ELSE Refuse(c) /\ UNCHANGED <<trying, machine>>
    /\ UNCHANGED <<request, replacing>>

\* One turn of the machine.
Turn ==
    /\ stage = "search" /\ machine.out = Running
    /\ machine' = Step(compiled.prog, request.subject, NoAnchor, machine)
    /\ UNCHANGED <<request, stage, compiled, trying, replacing, answer>>

\* A match is searched for, a terminal stands where it stands.
Searches == request.op # "terminal"

Try(pos) == trying' = pos /\ machine' = Machine(compiled.prog, pos, <<>>)

\* guji_regex_find: after a failure, from the next rune on.
NextStart ==
    /\ stage = "search" /\ machine.out = NoMatch
    /\ Searches /\ trying < Len(request.subject)
    /\ Try(trying + 1)
    /\ UNCHANGED <<request, stage, compiled, replacing, answer>>

Exhausted ==
    /\ machine.out = NoMatch
    /\ ~Searches \/ trying >= Len(request.subject)

----------------------------------------------------------------------------
\* guji_match_from_regex_match: the text that matched, and the text and the
\* name of each public capture.

Text(span) == Between(request.subject, span[1], span[2])
GroupText(index) ==
    IF machine.out.spans[index][1] < 0 THEN <<"unset">> ELSE Text(machine.out.spans[index])
NameOf(index) ==
    LET names == {compiled.names[j][1] : j \in {j \in DOMAIN compiled.names : compiled.names[j][2] = index}}
    IN IF names = {} THEN <<>> ELSE CHOOSE name \in names : TRUE

MatchValue ==
    [state |-> "match", text |-> Text(machine.out.spans[0]),
     groups |-> [k \in DOMAIN compiled.public |-> GroupText(compiled.public[k])],
     names |-> [k \in DOMAIN compiled.public |-> NameOf(compiled.public[k])]]

ReturnMatch ==
    /\ stage = "search" /\ request.op = "match" /\ machine.out # Running
    /\ \/ Exhausted /\ Return([state |-> "no match"])
       \/ machine.out # NoMatch /\ Return(MatchValue)
    /\ UNCHANGED <<request, compiled, machine, trying, replacing>>

\* guji_peg_regex: the end of the match of a terminal, or -1.
ReturnTerminal ==
    /\ stage = "search" /\ request.op = "terminal" /\ machine.out # Running
    /\ Return([state |-> "end", end |-> IF machine.out = NoMatch THEN -1 ELSE machine.out.spans[0][2]])
    /\ UNCHANGED <<request, compiled, machine, trying, replacing>>

----------------------------------------------------------------------------
\* replace.

\* guji_re_expand_template: $0 to $9, $<name> and $$; any other $ is a $.
\* The span of a public group in a match, by its number; 0 is the whole.
GroupSpan(m, k) == IF k = 0 THEN m.spans[0]
                   ELSE IF k \in DOMAIN compiled.public THEN m.spans[compiled.public[k]]
                   ELSE <<Unset, Unset>>
RECURSIVE Expand(_, _)
Expand(template, j) ==
    LET c == IF j + 1 <= Len(template) THEN template[j + 1] ELSE EOF
        close == Find(template, j + 2, {">"})
        Named2(name) == {k \in DOMAIN compiled.public : NameOf(compiled.public[k]) = name /\ name # <<>>}
        TextOf(k) == LET span == GroupSpan(machine.out, k) IN IF span[1] < 0 THEN <<>> ELSE Text(span)
    IN CASE j > Len(template) -> <<>>
         [] j <= Len(template) /\ template[j] # "$" -> <<template[j]>> \o Expand(template, j + 1)
         [] OTHER ->
              CASE c = "$" -> <<"$">> \o Expand(template, j + 2)
                [] c \in Digits -> TextOf(Code[c] - Code["0"]) \o Expand(template, j + 2)
                [] c = "<" /\ close <= Len(template) ->
                     With(Named2(SubSeq(template, j + 2, close - 1)), LAMBDA named :
                         IF named = {} THEN <<>> ELSE TextOf(Min(named))) \o Expand(template, close + 1)
                [] OTHER -> <<"$">> \o Expand(template, j + 1)

\* After a match: one that is empty where the search began takes the search past
\* the next rune, and does not count if the match before it ended there.

\* Mutant: the search goes on from the end of any match.
MovedToEnd(start, end) == end
Moved(start, end) == IF start = replacing.pos /\ end = replacing.pos THEN end + 1 ELSE end

\* Mutant: every match counts.
AgainNever(start, end) == FALSE
Again(start, end) == start = replacing.pos /\ end = replacing.pos /\ start = replacing.prevEnd

AfterMatch ==
    LET start == machine.out.spans[0][1]
        end == machine.out.spans[0][2]
        moved == [replacing EXCEPT !.pos = Moved(start, end), !.prevEnd = end]
    IN IF Again(start, end) THEN moved
       ELSE [moved EXCEPT !.last = end,
                          !.out = @ \o Between(request.subject, replacing.last, start)
                                  \o Expand(request.template, 1)]

ReplaceOne ==
    /\ stage = "search" /\ request.op = "replace" /\ machine.out \notin {Running, NoMatch}
    /\ AfterMatch.pos <= Len(request.subject)
    /\ replacing' = AfterMatch
    /\ Try(AfterMatch.pos)
    /\ UNCHANGED <<request, stage, compiled, answer>>

Rest(r) == r.out \o Between(request.subject, r.last, Len(request.subject))

ReturnReplaced ==
    /\ stage = "search" /\ request.op = "replace" /\ machine.out # Running
    /\ \/ Exhausted /\ Return([state |-> "text", text |-> Rest(replacing)])
       \/ /\ machine.out # NoMatch /\ AfterMatch.pos > Len(request.subject)
          /\ Return([state |-> "text", text |-> Rest(AfterMatch)])
    /\ UNCHANGED <<request, compiled, machine, trying, replacing>>

RegexNext ==
    CompileCall \/ Turn \/ NextStart \/ ReturnMatch \/ ReturnTerminal \/ ReplaceOne \/ ReturnReplaced

\* A call that has not returned takes its next step: weak fairness of RegexNext,
\* with its ENABLED spelled out (a call that could not would be a deadlock).
Working == stage \in {"compile", "search"}
RegexFairness == []<>~Working \/ []<><<RegexNext>>_regexVars

----------------------------------------------------------------------------
\* Properties.  A request may come with the tree that its pattern was written
\* from (GujiRegexMeaning!Shown) and with the template's pieces.

Answered == stage = "done" /\ compiled.ok

\* The parser reads back the tree that a pattern was written from: precedence,
\* the extent of a quantifier, the order of groups, a brace that is only a
\* brace; and it refuses bounds in the wrong order and bounds of nothing.
ParsedBack ==
    stage = "done" /\ request.tree # Nothing =>
        IF request.tree = NoPattern THEN ~compiled.ok ELSE compiled.ok /\ compiled.tree = request.tree

\* What the request means: the tree of its parts, each spliced value in its
\* place as a tree of its own.
MeantProgram == IF request.form = "value" THEN CompileSpliced(request.parts) ELSE compiled
PublicOf(spans, public) == [k \in DOMAIN public |-> spans[public[k]]]

\* A match is the leftmost one, the preferred one there, with the captures of
\* its last turns, although the machine gives up on what it has seen, cuts its
\* stack and runs lookarounds on a stack of their own.  Where an unbounded
\* repetition can match nothing, only the start is certain.  A terminal of a
\* grammar matches where it stands or not at all.
RightMatch(means) ==
    With(Leftmost(means.tree, compiled.prog.ncap, request.subject, 0), LAMBDA meant :
        /\ (answer.state = "match") = (meant # NoMatch)
        /\ meant # NoMatch =>
             /\ machine.out.spans[0][1] = meant.spans[0][1]
             /\ Plain(means.tree) =>
                  /\ machine.out.spans[0] = meant.spans[0]
                  /\ PublicOf(machine.out.spans, compiled.public) = PublicOf(meant.spans, means.public))
RightEnd(means) ==
    With(MatchAt(means.tree, compiled.prog.ncap, request.subject, request.at), LAMBDA meant :
        IF meant = NoMatch THEN answer.end = -1
        ELSE answer.end >= request.at /\ (Plain(means.tree) => answer.end = meant.spans[0][2]))
FirstMatch ==
    Answered => /\ request.op = "match" => RightMatch(MeantProgram)
                /\ request.op = "terminal" => RightEnd(MeantProgram)

\* The captures a match exposes are those written in the host, in their order
\* and under their names, whatever is spliced in.
HostGroups == CompileSpliced([k \in DOMAIN request.parts |->
    IF request.parts[k].pattern THEN TextPart(Chars("(?:)")) ELSE request.parts[k]])
HostCaptures ==
    Answered => With(HostGroups, LAMBDA host :
        /\ Len(compiled.public) = Len(host.public)
        /\ host.ok => [j \in DOMAIN compiled.public |-> NameOf(compiled.public[j])]
                = [j \in DOMAIN host.public |->
                     FoldLeft(LAMBDA name, entry : IF entry[2] = host.public[j] THEN entry[1] ELSE name,
                              <<>>, host.names)])

\* A replace puts its template, filled in, for each of the matches that Go's
\* FindAll finds, and keeps the text between them.
Piece(piece, m) ==
    LET named == {j \in DOMAIN compiled.public : NameOf(compiled.public[j]) = piece.name}
        span == IF piece.k = "group" THEN GroupSpan(m, piece.n)
                ELSE IF named = {} THEN <<Unset, Unset>> ELSE GroupSpan(m, Min(named))
    IN IF piece.k = "text" THEN piece.text
       ELSE IF span[1] = Unset THEN <<>> ELSE Text(span)
Filled(m) == FlattenSeq([j \in DOMAIN request.pieces |-> Piece(request.pieces[j], m)])
ReplacedAll ==
    Answered /\ request.op = "replace" => With(MeantProgram.tree, LAMBDA tree :
        Plain(tree) => answer.text = With(MatchesFrom(tree, compiled.prog.ncap, request.subject, Unset),
                                          LAMBDA matches : Replaced(request.subject, matches, Filled)))

\* Every call returns: repetitions of nothing, empty matches and the end of the
\* subject do not keep the search where it is.
EveryCallReturns == <>~Working
=============================================================================
