----------------------------- MODULE ValueCalls -----------------------------
(* The values that are copied and compared in a run, as terms, type by type. *)
EXTENDS GujiValue

Upto(S, n) == UNION {[1 .. k -> S] : k \in 0 .. n}

\* "", "a" and "a" with a NUL after it: the shorter is less, and strcmp would not
\* tell the last two apart.
Texts == {<<>>, <<97>>, <<97, 0>>}
S(text) == Str(text, FALSE)
A == S(<<97>>)
B == S(<<98>>)
N(n) == [k |-> "scalar", n |-> n]

Ints == {N(0), N(1)}
Strs == {S(text) : text \in Texts} \cup {Str(<<97>>, TRUE)}
IntLists == {List("scalar", of, spare) : of \in Upto(Ints, 2), spare \in BOOLEAN}
StrLists == {List("strs", of, FALSE) : of \in Upto(Strs, 2)} \cup {List("strs", of, TRUE) : of \in Upto({A, S(<<97, 0>>)}, 2)}

TwoKeys == {<<A, S(<<97, 0>>)>>, <<S(<<97, 0>>), A>>, <<S(<<>>), A>>, <<A, S(<<>>)>>}
IntMaps ==
    {MapOf("scalar", <<>>, <<>>, FALSE)}
        \cup {MapOf("scalar", <<key>>, <<n>>, spare) : key \in Strs, n \in Ints, spare \in BOOLEAN}
        \cup {MapOf("scalar", keys, of, FALSE) : keys \in TwoKeys, of \in Ints \X Ints}
\* Three entries in each of the orders in which they may have been put in.
ThreeEntries ==
    {MapOf("scalar", [i \in 1 .. 3 |-> <<A, B, S(<<99>>)>>[order[i]]], [i \in 1 .. 3 |-> N(order[i])], FALSE) :
        order \in {f \in [1 .. 3 -> 1 .. 3] : \A i, j \in 1 .. 3 : f[i] = f[j] => i = j}}

SomeMaps == {MapOf("scalar", <<>>, <<>>, FALSE), MapOf("scalar", <<A, S(<<>>)>>, <<N(0), N(1)>>, FALSE),
             MapOf("scalar", <<S(<<>>), A>>, <<N(1), N(0)>>, TRUE)}
Rows(some) == {List("slice", of, spare) : of \in Upto(some, 2), spare \in BOOLEAN}
IntRows == Rows({List("scalar", <<>>, FALSE), List("scalar", <<N(0)>>, TRUE), List("scalar", <<N(1), N(0)>>, FALSE)})
StrRows == Rows({List("strs", <<A>>, TRUE), List("strs", <<Str(<<97>>, TRUE), A>>, FALSE)})
MapRows == {List("map", of, FALSE) : of \in Upto(SomeMaps, 2)}

BothOrders == {<<A, B>>, <<B, A>>}
MapsOfMaps == {MapOf("map", keys, of, FALSE) : keys \in BothOrders, of \in SomeMaps \X SomeMaps}
MapsOfLists ==
    {MapOf("slice", keys, of, TRUE) :
        keys \in BothOrders, of \in [1 .. 2 -> {List("strs", <<>>, TRUE), List("strs", <<A>>, FALSE)}]}

\* A group that took no part, one that matched nothing, and names or none.
Groups == Upto({None, A, S(<<>>)}, 2)
Matches ==
    {MatchOf(A, groups, <<>>) : groups \in Groups}
        \cup {MatchOf(text, groups, names) : text \in {A, S(<<97, 0>>)},
                                             groups \in {<<None, A>>, <<S(<<>>), A>>, <<A, A>>},
                                             names \in {<<None, None>>, <<B, None>>}}

Leaf(text) == Bush(S(text), <<>>, <<>>)
Bushes ==
    {Bush(A, [i \in DOMAIN of |-> 1], of) :
        of \in Upto({Leaf(<<>>), Leaf(<<97>>), Bush(A, <<2>>, <<Leaf(<<97>>)>>)}, 2)}

Compared == {IntLists, StrLists, IntMaps, ThreeEntries, IntRows, StrRows, MapRows, MapsOfMaps, MapsOfLists, Matches}
AllWork ==
    UNION {[op : {"compare"}, x : type, y : type] : type \in Compared}
        \cup {[op |-> "copy", x |-> v, y |-> v] : v \in UNION Compared \cup Bushes \cup Strs}
=============================================================================
