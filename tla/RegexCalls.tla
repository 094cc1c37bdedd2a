---------------------------- MODULE RegexCalls -----------------------------
(* Requests to the library of regular expressions.                         *)
EXTENDS GujiRegexMeaning

Call(op, form, parts, subject) ==
    [op |-> op, form |-> form, parts |-> parts, subject |-> subject, at |-> 0,
     template |-> <<>>, tree |-> Nothing, pieces |-> <<>>]
Lit(pattern) == << TextPart(Chars(pattern)) >>
Texts(strings) == {Chars(t) : t \in strings}

----------------------------------------------------------------------------
\* Patterns written from trees: every combination of a few operators, matched
\* with subjects that make the alternatives and the turns differ.

A == Literal("a", NoFlags)
B == Literal("b", NoFlags)
Then2(x, y) == [k |-> "concat", subs |-> <<x, y>>]
Alt(x, y) == [k |-> "alternate", subs |-> <<x, y>>]
Bodies == {A, Then2(A, B), Alt(A, Then2(A, B)), Alt(A, Empty), Quantifier(A, 0, Inf, TRUE),
           Quantifier(A, 0, Inf, FALSE), [k |-> "any", dotall |-> FALSE]}
Grouped == {Group(x, 0, 0) : x \in Bodies} \cup {Group(x, 1, 1) : x \in Bodies}
           \cup {[k |-> "atomic", sub |-> x] : x \in Bodies}
Around == {Lookaround(x, kind, 0, 0) : x \in {A, Then2(A, B)}, kind \in {"ahead", "notahead"}}
          \cup {Lookaround(A, kind, 1, 1) : kind \in {"behind", "notbehind"}}
Turns4 == { <<0, Inf>>, <<1, Inf>>, <<0, 1>>, <<2, 2>>, <<1, 2>> }
Repeated == {Quantifier(x, t[1], t[2], greedy) : x \in Grouped, t \in Turns4, greedy \in BOOLEAN}
Atomic == Grouped \cup Around \cup {Quantifier(A, 2, Inf, TRUE)} \cup {Anchor("bol", NoFlags), Anchor("eol", NoFlags)} \cup Repeated
Trees == Atomic \cup {Then2(x, B) : x \in Atomic} \cup {Then2(B, x) : x \in Atomic} \cup {Alt(x, B) : x \in Atomic}

FromTrees(trees, subjects) ==
    {[Call("match", "literal", << TextPart(Shown(tree)) >>, s) EXCEPT !.tree = tree] :
        tree \in trees, s \in Texts(subjects)}

\* Escaped texts match themselves.
Letters2(text) == IF Len(text) = 1 THEN Literal(text[1], NoFlags)
                  ELSE [k |-> "concat", subs |-> [j \in DOMAIN text |-> Literal(text[j], NoFlags)]]
Escaped ==
    {[Call("match", "literal", << TextPart(EscapeLiteral(text)) >>, text) EXCEPT !.tree = Letters2(text)] :
        text \in Texts({"a.b", "(", "a|b", "[a]", "{2}", "x*?+", "^a$", "\\d", "/", "<a>", "#-"})}

\* A brace that begins no bounds is a letter; bounds are in order, and of something.
Braces ==
    {[Call("match", "literal", Lit(text), Chars(text)) EXCEPT !.tree = Letters2(Chars(text))] :
        text \in {"{", "{a", "a{", "a{}", "a{,2}", "a{1", "a{1,", "a{b}", "a{1,b}", "a{1 }", "a}"}}
    \cup {[Call("match", "literal", Lit(bounds[1]), Chars("aaa")) EXCEPT !.tree = bounds[2]] :
        bounds \in { <<"a{0,0}", Quantifier(A, 0, 0, TRUE)>>, <<"a{1,1}", Quantifier(A, 1, 1, TRUE)>>,
                     <<"a{02,}", Quantifier(A, 2, Inf, TRUE)>>, <<"a{9,10}", Quantifier(A, 9, 10, TRUE)>> }}
    \cup {[Call("match", "literal", Lit(text), Chars("a")) EXCEPT !.tree = NoPattern] :
        text \in {"a{2,1}", "a{1,0}", "a{10,9}", "{1}", "({1})", "|{0,}", "^{1}", "a{1}{2}", "a{1}+{2}"}}

----------------------------------------------------------------------------
\* The rest of the language, on subjects picked for it.

Features ==
    { <<"(a)(b)?\\1", {"aa", "aba", "ab"}>>, <<"(?i)(k)\\1", {"kK", "ka"}>>, <<"(?<x>a|b)\\k<x>", {"abb", "ab"}>>,
      <<"(?i)[^a]b", {"Ab", "cB"}>>, <<"(?s).", {"\n"}>>, <<".", {"\n", "\na"}>>, <<"(?m)^b$", {"a\nb", "b\na", "ab"}>>,
      <<"a\\Z", {"a\n", "a\n\n"}>>, <<"\\Aa\\z", {"a", "a\n"}>>, <<"\\bb\\B", {"a b", "bb", "a bb"}>>,
      <<"(?x) a b # c", {"ab", "a b"}>>, <<"(?:(a)|b)*", {"ab", "aba", "ba"}>>, <<"(?=(a))a\\1", {"aa", "ab"}>>,
      <<"(?<=(a))\\1", {"aa", "ba"}>>, <<"(?<!b|a)b", {"ab", "bb", "cb"}>>, <<"(?<=a|bb)c", {"abc", "bbc", "ac"}>>,
      <<"((?>a+)b)*", {"aabab", "aa"}>>, <<"(?>a|ab)b", {"ab", "abb"}>>, <<"a++a", {"aaa"}>>,
      <<"(?!(a))\\w", {"ab"}>>, <<"a(?i)b|c", {"aB", "C"}>>, <<"[[:alpha:]-]+", {"a-1"}>>, <<"[^]a]", {"]ab"}>>,
      <<"\\d\\s\\w", {"1 a", "1_a"}>>, <<"(?a)\\w", {"a"}>>, <<"x{0}a{1,}", {"xaa"}>>, <<"\\x{61}\\x62", {"ab"}>>,
      <<"(?i:A)b", {"ab", "aB"}>>, <<"((a)|b)+", {"ab"}>>, <<"(?=ab|a)a", {"ab"}>>, <<"(a*)*", {"aab"}>>,
      <<"(a*?)*", {"aa"}>>, <<"(a|b*)*c", {"abbc", "ab"}>>, <<"(?:a?){2,}b", {"ab", "aab"}>>, <<"\\p{Lu}\\P{Lu}", {"Aa", "aA"}>> }

Marked == { <<"\\X", <<"U+1F1E6", "U+1F1E8">> >>, <<"\\X\\X", <<"a", "U+0301", "b">> >>, <<"\\p{RGI_Emoji}", <<"U+1F468", "U+200D", "U+1F466">> >>,
            <<"\\X", <<"U+1100", "U+1161", "U+11A8">> >>, <<"(?i)k", <<"U+212A">> >>, <<"(?i)\\x{17f}", <<"a", "S">> >>,
            <<"\\w+", <<"U+00E9", "U+1F468">> >>, <<"(?a)\\w", <<"U+00E9">> >>, <<"\\p{Script=Greek}", <<"U+0370">> >> }

Errors == { "(", ")", "*a", "a**", "[a", "[b-a]", "\\q", "(?<n>a)(?<n>b)", "(?<1>a)", "\\1", "(?<=a*)b", "(?z)",
            "a{2,1}", "\\p{Foo}", "\\k<x>", "^*", "(?<0H0_1>a)", "a\\" }

Picked == UNION {{Call("match", "literal", Lit(f[1]), s) : s \in Texts(f[2])} : f \in Features}
          \cup {Call("match", "literal", Lit(f[1]), f[2]) : f \in Marked}
          \cup {Call("match", "literal", Lit(e), Chars("ab")) : e \in Errors}
          \cup {[Call("terminal", "literal", Lit(f), Chars("abab")) EXCEPT !.at = pos] :
                  f \in {"(?:ab)*", "b", "(?<=a)b", "a*?", "(?!b)."}, pos \in 0..4}

----------------------------------------------------------------------------
\* Replacing: matches that are empty, adjacent, or at either end.

T(text) == [k |-> "text", text |-> Chars(text)]
G(n) == [k |-> "group", n |-> n]
N(name) == [k |-> "name", name |-> Chars(name)]
Template(pieces) ==
    FlattenSeq([j \in DOMAIN pieces |->
        CASE pieces[j].k = "group" -> <<"$">> \o Digit(pieces[j].n)
          [] pieces[j].k = "name" -> <<"$", "<">> \o pieces[j].name \o <<">">>
          [] pieces[j].k = "text" -> FlattenSeq([c \in DOMAIN pieces[j].text |->
                 IF pieces[j].text[c] = "$" THEN <<"$", "$">> ELSE <<pieces[j].text[c]>>])])

Replaces ==
    {[Call("replace", "literal", Lit(p), s) EXCEPT !.template = Template(pieces), !.pieces = pieces] :
        p \in {"", "a*", "a*?", "b|", "(a)(b)?", "(?<n>b)|a", "^", "$", "\\b", "(?<=a)", "a(?=b)", "x"},
        s \in Texts({"", "a", "ab", "baab", "aabab"}),
        pieces \in { <<>>, << T("-") >>, << T("["), G(0), T("]$") >>, << G(2), N("n"), N("o"), G(9), G(1) >> }}

----------------------------------------------------------------------------
\* Splices: values between, around and inside the host's own groups.

Value1(pattern) == ValuePart(Chars(pattern), FALSE)
Nested(pattern) == ValuePart(ValueFromParts(<< TextPart(Chars("b?")), Value1(pattern) >>).value, TRUE)
Values == {Value1(p) : p \in {"a", "(a)", "(a|b)\\1", "(?<n>.)\\k<n>", "(?i)a", "(?x) ( a ) b", "[(a]", "\\(?(a)", "(?:b)(a)\\1",
                              "(?<!a)(b)", "((a)b)\\2"}}
          \cup {Nested(p) : p \in {"(a)\\1", "(?<n>a)(b)"}}
Hosts(v) == { <<v>>, << TextPart(Chars("(")), v, TextPart(Chars(")+")) >>, << TextPart(Chars("(?<w>")), v, TextPart(Chars(")\\1")) >>,
              << TextPart(Chars("(b)?")), v, TextPart(Chars("\\1")) >>, << v, v >>, << v, TextPart(Chars("{2}|(?<q>x)")) >>,
              << TextPart(Chars("(?>")), v, TextPart(Chars("|b)b")) >> }
SplicedIn(all) ==
    {Call("match", form, parts, s) : form \in {"parts", "value"}, parts \in all, s \in Texts({"a", "aa", "bab", "abbb"})}
    \cup {[Call("replace", "parts", parts, Chars("baab")) EXCEPT !.template = Template(<<G(1)>>), !.pieces = <<G(1)>>] :
            parts \in all}
Spliced == SplicedIn(UNION {Hosts(v) : v \in Values})

\* A value that does not compile cannot exist, but a host that does not can.
Unspliceable == {Call("match", form, << TextPart(Chars("(")), Value1("a") >>, Chars("a")) : form \in {"parts", "value"}}

AllRequests == FromTrees(Trees, {"", "ab", "aab", "bab"}) \cup Escaped \cup Braces \cup Picked \cup Replaces \cup Spliced \cup Unspliceable
=============================================================================
