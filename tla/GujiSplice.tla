----------------------------- MODULE GujiSplice -----------------------------
(***************************************************************************)
(* Regex values made of parts: runtime_prologue.c 13492-13807 writes the   *)
(* source of a value that stands for a literal with splices, renaming the  *)
(* captures of what is spliced in; 13851 escapes a text.                   *)
(***************************************************************************)
EXTENDS GujiRegexCode

Digit(n) == Chars(ToString(n))
ScopePrefix(scope) == Chars("0H") \o Digit(scope) \o <<"_">>
\* Mutant: a name that is public.
PublicName(scope, index) == Tail(ScopePrefix(scope)) \o Digit(index)
HiddenNameOf(scope, index) == ScopePrefix(scope) \o Digit(index)

HasText(text, part) ==
    \E j \in 0..(Len(text) - Len(part)) : SubSeq(text, j + 1, j + Len(part)) = part

\* The first scope of hidden names that neither source uses.
ValueScope(out, pattern) ==
    CHOOSE n \in 0..(Len(out) + Len(pattern)) :
        /\ ~HasText(out, ScopePrefix(n)) /\ ~HasText(pattern, ScopePrefix(n))
        /\ \A k \in 0..(n - 1) : HasText(out, ScopePrefix(k)) \/ HasText(pattern, ScopePrefix(k))

----------------------------------------------------------------------------
\* The scanner that renames captures.  phase counts the runes since the [ of a
\* class: a ] is a member until one other than ^ has been read.

Scanner(src) ==
    [src |-> src, pos |-> 1, out |-> <<>>, class |-> FALSE, phase |-> 0, count |-> 0,
     public |-> <<>>, names |-> <<>>, verbose |-> FALSE, modes |-> <<>>]

Ahead(a, off) == IF a.pos + off <= Len(a.src) THEN a.src[a.pos + off] ELSE EOF
Copy(a, n) == [a EXCEPT !.out = @ \o SubSeq(a.src, a.pos, a.pos + n - 1), !.pos = @ + n]
Write(a, text, pos) == [a EXCEPT !.out = @ \o text, !.pos = pos]

CommentEnd(src, pos) ==
    With(Find(src, pos, {"\n"}), LAMBDA end : IF end > Len(src) THEN end ELSE end + 1)

NamedRef(scope, index) == Chars("\\k<") \o HiddenNameOf(scope, index) \o <<">">>
OpenNamed(scope, index) == Chars("(?<") \o HiddenNameOf(scope, index) \o <<">">>

EnterGroup(a) == [a EXCEPT !.modes = Append(@, a.verbose)]
\* A capture; the hidden number of each of the first nine public ones is kept.
Capture(a, isPublic) ==
    [a EXCEPT !.count = @ + 1,
              !.public = IF isPublic THEN Append(@, a.count + 1) ELSE @]

\* A reference to the capture of a name, which ends before the > at close.
ScanNamedRef(a, scope, close) ==
    LET name == SubSeq(a.src, a.pos + 3, close - 1)
        found == {a.names[j][2] : j \in {j \in DOMAIN a.names : a.names[j][1] = name}}
    IN IF close > Len(a.src) \/ found = {} THEN Copy(a, 2)
       ELSE Write(a, NamedRef(scope, Min(found)), close + 1)

ScanEscape(a, scope) ==
    LET c == Ahead(a, 1)
        index == Code[c] - Code["0"]
        width == IF c = EOF THEN 1 ELSE 2
    IN IF a.class THEN [Copy(a, width) EXCEPT !.phase = 2]
       ELSE IF c \in Digits \ {"0"} /\ index <= Len(a.public)
       THEN Write(a, NamedRef(scope, a.public[index]), a.pos + 2)
       ELSE IF c = "k" /\ Ahead(a, 2) = "<" THEN ScanNamedRef(a, scope, Find(a.src, a.pos + 3, {">"}))
       ELSE Copy(a, width)

ScanClass(a) ==
    LET c == Ahead(a, 0)
    IN IF c = "]" /\ a.phase = 2 THEN [Copy(a, 1) EXCEPT !.class = FALSE]
       ELSE [Copy(a, 1) EXCEPT !.phase = IF a.phase = 0 /\ c = "^" THEN 1 ELSE 2]

\* What a "(?" at pos is, if it only sets flags or groups: where it ends, whether
\* it opens a group, and whether blanks count after it.
NoFlagGroup == [matched |-> FALSE]
RECURSIVE FlagInfo(_, _, _, _)
FlagInfo(src, pos, verbose, neg) ==
    LET c == IF pos <= Len(src) THEN src[pos] ELSE EOF
        More(v, n) == FlagInfo(src, pos + 1, v, n)
    IN CASE verbose /\ c \in Blank -> More(verbose, neg)
         [] verbose /\ c = "#" -> FlagInfo(src, CommentEnd(src, pos), verbose, neg)
         [] c = "x" -> More(~neg, neg)
         [] c \in {"a", "i", "m", "s"} -> More(verbose, neg)
         [] c = "-" -> More(verbose, TRUE)
         [] c \in {":", ")"} -> [matched |-> TRUE, next |-> pos + 1, scoped |-> c = ":", verbose |-> verbose]
         [] OTHER -> NoFlagGroup

\* A group whose name starts at start, 0 if it has none, and ends before close.
ScanNamed(a, scope, start, close) ==
    LET name == SubSeq(a.src, start, close - 1)
        hidden == Len(name) >= 2 /\ name[1] = "0" /\ name[2] = "H"
        Opened(b) == Write([b EXCEPT !.names = Append(@, <<name, b.count>>)],
                           OpenNamed(scope, b.count), close + 1)
    IN IF start = 0 \/ close > Len(a.src) THEN Copy(EnterGroup(a), 1)
       ELSE Opened(Capture(EnterGroup(a), ~hidden))

ScanGroup(a, scope) ==
    LET start == IF Ahead(a, 2) = "<" /\ Ahead(a, 3) \notin {"=", "!"} THEN a.pos + 3
                 ELSE IF Ahead(a, 2) = "P" /\ Ahead(a, 3) = "<" THEN a.pos + 4 ELSE 0
        Flagged(flags) ==
            IF flags.matched
            THEN [Copy(IF flags.scoped THEN EnterGroup(a) ELSE a, flags.next - a.pos)
                    EXCEPT !.verbose = flags.verbose]
            ELSE With(start, LAMBDA at : ScanNamed(a, scope, at, Find(a.src, at, {">"})))
    IN IF Ahead(a, 1) # "?"
       THEN Write(Capture(EnterGroup(a), TRUE), OpenNamed(scope, a.count + 1), a.pos + 1)
       ELSE Flagged(FlagInfo(a.src, a.pos + 2, a.verbose, FALSE))

ScanClose(a) ==
    IF a.modes = <<>> THEN [Copy(a, 1) EXCEPT !.verbose = FALSE]
    ELSE [Copy(a, 1) EXCEPT !.verbose = Last(a.modes), !.modes = Front(@)]

ScanOne(a, scope) ==
    LET c == Ahead(a, 0)
    IN CASE c = "\\" -> ScanEscape(a, scope)
         [] c # "\\" /\ a.class -> ScanClass(a)
         [] c = "#" /\ a.verbose /\ ~a.class -> Copy(a, CommentEnd(a.src, a.pos) - a.pos)
         [] c = "[" /\ ~a.class -> [Copy(a, 1) EXCEPT !.class = TRUE, !.phase = 0]
         [] c = "(" /\ ~a.class -> ScanGroup(a, scope)
         [] c = ")" /\ ~a.class -> ScanClose(a)
         [] OTHER -> Copy(a, 1)

RECURSIVE Scan(_, _)
Scan(a, scope) == IF a.pos > Len(a.src) THEN a.out ELSE Scan(ScanOne(a, scope), scope)

\* guji_regex_value_append_demoted.
Demoted(pattern, scope) == Scan(Scanner(pattern), scope)

----------------------------------------------------------------------------
\* guji_regex_value_from_parts: the source of a private value, or the error.
IfCompiles(text, private, value) ==
    With(CompilePattern(text, private), LAMBDA c :
        IF c.ok THEN [ok |-> TRUE, value |-> value] ELSE [ok |-> FALSE, err |-> c.err])
Unit(out, text) == Chars("(?:") \o Demoted(text, ValueScope(out, text)) \o <<")">>
AddPart(a, part) ==
    IF ~a.ok THEN a
    ELSE IF ~part.pattern THEN [a EXCEPT !.value = @ \o part.text]
    ELSE IfCompiles(part.text, part.private, a.value \o Unit(a.value, part.text))
ValueFromParts(parts) ==
    With(FoldLeft(AddPart, [ok |-> TRUE, value |-> <<>>], parts), LAMBDA all :
        IF all.ok THEN IfCompiles(all.value, TRUE, all.value) ELSE all)

\* Regex.escape and Regex.literal.
Meta == ToSet(Chars("\\.*+?()|[]{}^$/"))
EscapeLiteral(text) ==
    FlattenSeq([j \in DOMAIN text |-> IF text[j] \in Meta THEN <<"\\", text[j]>> ELSE <<text[j]>>])
=============================================================================
