---------------------------- MODULE MCAlternation ----------------------------
(* Alternations of up to four letters, matched with up to two letters.      *)
EXTENDS GujiRegex, RegexCalls

AtoD == {"a", "b", "c", "d"}
Arms == UNION {[1 .. n -> AtoD] : n \in 2 .. 4}
Alternation(arms) == [k |-> "alternate", subs |-> [j \in DOMAIN arms |-> Literal(arms[j], NoFlags)]]
Pattern(arms) == Shown(Alternation(arms))
Alternations ==
    {[Call("match", "literal", << TextPart(Pattern(arms)) >>, subject) EXCEPT !.tree = Alternation(arms)] :
        arms \in {a \in Arms : \A i, j \in DOMAIN a : a[i] = a[j] => i = j},
        subject \in UNION {[1 .. n -> AtoD] : n \in 1 .. 2}}

\* Every step is one of the machine's, and it goes on while it can.
Spec ==
    /\ RegexInit
    /\ [][RegexNext \/ (~Working /\ UNCHANGED regexVars)]_regexVars

\* An alternation matches what one of its arms matches: a letter that the subject
\* has (guji-spec.md 898, "Alternation"; runtime_prologue.c 10770).
EveryArm ==
    Answered =>
        (answer.state = "match") = \E j \in DOMAIN request.tree.subs :
            \E k \in DOMAIN request.subject : request.subject[k] = request.tree.subs[j].rune
=============================================================================
