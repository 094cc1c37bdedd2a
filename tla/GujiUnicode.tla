---------------------------- MODULE GujiUnicode ----------------------------
(***************************************************************************)
(* The runes of the models of text, and the Unicode tables of the runtime  *)
(* restricted to them (runtime_prologue.c 1968-10010).                     *)
(*                                                                         *)
(* A rune is a string: an ASCII character stands for itself, any other     *)
(* rune is named by its code point.  A text is a sequence of runes.        *)
(***************************************************************************)
EXTENDS Integers, Sequences, SequencesExt, TLC

\* The characters of a TLA+ string, as a text.
Chars(text) == [i \in 1..Len(text) |-> SubSeq(text, i, i)]

\* What f makes of a value.
With(v, f(_)) == f(v)

\* The number of each member of a text, from first on.
Numbered(text, first) == [c \in ToSet(text) |-> first - 1 + CHOOSE i \in DOMAIN text : text[i] = c]

\* U+0020 to U+007E; a TLA+ string cannot hold U+0060.
Printable ==
    Chars(" !\"#$%&'()*+,-./0123456789:;<=>?@ABCDEFGHIJKLMNOPQRSTUVWXYZ[\\]^_")
    \o <<"GRAVE">> \o Chars("abcdefghijklmnopqrstuvwxyz{|}~")

\* Code points of the runes that are not printable ASCII: controls, one rune
\* of each kind that the tables tell apart, and the markers of splices.
Other ==
    ("NUL" :> 0) @@ ("BEL" :> 7) @@ ("BS" :> 8) @@ ("\t" :> 9) @@ ("\n" :> 10)
    @@ ("VT" :> 11) @@ ("FF" :> 12) @@ ("\r" :> 13)
    @@ ("U+00A0" :> 160) @@ ("U+00C9" :> 201) @@ ("U+00E9" :> 233)
    @@ ("U+0130" :> 304) @@ ("U+017F" :> 383) @@ ("U+0301" :> 769) @@ ("U+0370" :> 880)
    @@ ("U+0600" :> 1536) @@ ("U+0660" :> 1632) @@ ("U+0903" :> 2307)
    @@ ("U+1100" :> 4352) @@ ("U+1161" :> 4449) @@ ("U+11A8" :> 4520)
    @@ ("U+200D" :> 8205) @@ ("U+212A" :> 8490) @@ ("U+AC00" :> 44032)
    @@ ("U+AC01" :> 44033) @@ ("U+E000" :> 57344) @@ ("U+E001" :> 57345)
    @@ ("U+FFFD" :> 65533) @@ ("U+1F1E6" :> 127462) @@ ("U+1F1E8" :> 127464)
    @@ ("U+1F466" :> 128102) @@ ("U+1F468" :> 128104)

Code == Numbered(Printable, 32) @@ Other

Rune == DOMAIN Code
MaxRune == 1114111

\* The rune with a code point; one that the model has no name for is U+FFFD.
RuneOf(v) ==
    LET coded(code) == {r \in DOMAIN code : code[r] = v}
    IN With(coded(Code), LAMBDA all : IF all = {} THEN "U+FFFD" ELSE CHOOSE r \in all : TRUE)

----------------------------------------------------------------------------
\* A table is a sequence of ranges of code points, in ascending order.

InRanges(r, ranges) ==
    With(Code[r], LAMBDA c : \E i \in DOMAIN ranges : ranges[i][1] <= c /\ c <= ranges[i][2])

Nd == << <<48, 57>>, <<1632, 1641>> >>
WhiteSpace == << <<9, 13>>, <<32, 32>>, <<133, 133>>, <<160, 160>> >>
ExtPict == << <<169, 169>>, <<128000, 128317>> >>
Lu == << <<65, 90>>, <<192, 214>>, <<216, 222>>, <<304, 304>>, <<880, 880>>, <<8490, 8490>> >>
Greek == << <<880, 883>>, <<885, 887>> >>
WordRanges ==
    << <<48, 57>>, <<65, 90>>, <<95, 95>>, <<97, 122>>, <<192, 214>>, <<216, 246>>,
       <<248, 705>>, <<768, 884>>, <<1568, 1641>>, <<2275, 2403>>, <<4348, 4680>>,
       <<8490, 8493>>, <<44032, 55203>> >>

\* guji_unicode_property and the names it knows: a general category, a script,
\* a binary property.
Property == ("Nd" :> Nd) @@ ("White_Space" :> WhiteSpace)
            @@ ("Extended_Pictographic" :> ExtPict) @@ ("Lu" :> Lu) @@ ("Greek" :> Greek)
Script == {"Greek"}

IsWordRune(r) == InRanges(r, WordRanges)

----------------------------------------------------------------------------
\* Simple case folding: the next rune of the orbit of r, r itself if r folds to
\* nothing else.

UpperLetters == Chars("ABCDEFGHIJKLMNOPQRSTUVWXYZ")
LowerLetters == Chars("abcdefghijklmnopqrstuvwxyz")

FoldPairs ==
    LET Paired(from, to) == [c \in ToSet(from) |-> to[CHOOSE i \in DOMAIN from : from[i] = c]]
    IN ("k" :> "U+212A") @@ ("U+212A" :> "K") @@ ("s" :> "U+017F") @@ ("U+017F" :> "S")
       @@ ("U+00C9" :> "U+00E9") @@ ("U+00E9" :> "U+00C9")
       @@ Paired(UpperLetters, LowerLetters) @@ Paired(LowerLetters, UpperLetters)

SimpleFold(r) == With(FoldPairs, LAMBDA pair : IF r \in DOMAIN pair THEN pair[r] ELSE r)

\* The other runes of the orbit of r (guji_rec_fold_orbit_push): an orbit has
\* at most three.
FoldOrbit(r) == With(SimpleFold(r), LAMBDA t : {t, SimpleFold(t)}) \ {r}

----------------------------------------------------------------------------
\* Grapheme cluster breaks (UAX #29).

Gcb == ("\r" :> "CR") @@ ("\n" :> "LF") @@ ("NUL" :> "Control") @@ ("\t" :> "Control")
       @@ ("U+0301" :> "Extend") @@ ("U+200D" :> "ZWJ") @@ ("U+1F1E6" :> "RI") @@ ("U+1F1E8" :> "RI")
       @@ ("U+0600" :> "Prepend") @@ ("U+0903" :> "SpacingMark") @@ ("U+1100" :> "L")
       @@ ("U+1161" :> "V") @@ ("U+11A8" :> "T") @@ ("U+AC00" :> "LV") @@ ("U+AC01" :> "LVT")

GraphemeBreak(r) == With(Gcb, LAMBDA break : IF r \in DOMAIN break THEN break[r] ELSE "Other")
IsExtPict(r) == InRanges(r, ExtPict)

\* The emoji sequences recommended for interchange, longest first.
RgiEmoji == << <<"U+1F468", "U+200D", "U+1F466">>, <<"U+1F1E6", "U+1F1E8">>, <<"U+1F468">> >>
=============================================================================
