----------------------------- MODULE GujiValue ------------------------------
(***************************************************************************)
(* Strs, lists, maps, matches and trees of a grammar on the counted heap:  *)
(* runtime_prologue.c 30-580, 955-1290, 1807-1945.  They are copied when   *)
(* they are sent to another task, dropped, compared, shown and put in      *)
(* order.                                                                  *)
(*                                                                         *)
(* An object is [kind, rc, immortal, slots]; its address is its place in   *)
(* the heap, 0 is NULL.  What a slot holds depends on the kind:            *)
(*   str           a character          scalar  a number                   *)
(*   strs, ptr     an address           match   text, groups, names        *)
(*   slice         [data, len]          bush    text, names of captures,   *)
(*   map           [keys, vals, len]            captures                   *)
(*   names         a name, which is never counted                          *)
(* Storage may have more slots than a list has elements: those are zero.   *)
(***************************************************************************)
EXTENDS Integers, Sequences, SequencesExt

CONSTANT Work      \* what is done: records with op and terms x and y

VARIABLES heap,
          work,
          now,     \* "start", "copied", "done"; "off" without work
          original, copy,      \* a slot; at most one
          result   \* of a comparison

valueVars == <<heap, work, now, original, copy, result>>

NULL == 0
Empty == [data |-> NULL, keys |-> NULL, vals |-> NULL, len |-> 0]

\* guji_alloc.
Object(kind, slots) == [kind |-> kind, rc |-> 1, immortal |-> FALSE, slots |-> slots]
Alloc(h, o) == [h |-> Append(h, o), at |-> Len(h) + 1]

----------------------------------------------------------------------------
\* guji_retain, guji_release and the table of drops.

Retain(h, p) == IF p = NULL \/ h[p].immortal THEN h ELSE [h EXCEPT ![p].rc = @ + 1]

\* Mutant: the values of the maps in a list are not dropped.
DroppedKeys(o) ==
    CASE o.kind \in {"str", "scalar", "names", "freed"} -> <<>>
      [] o.kind \in {"strs", "ptr", "match", "bush"} -> o.slots
      [] o.kind = "slice" -> [i \in DOMAIN o.slots |-> o.slots[i].data]
      [] o.kind = "map" -> [i \in DOMAIN o.slots |-> o.slots[i].keys]
\* What an object drops when it is dropped.
Dropped(o) ==
    CASE o.kind \in {"str", "scalar", "names", "freed"} -> <<>>
      [] o.kind \in {"strs", "ptr", "match", "bush"} -> o.slots
      [] o.kind = "slice" -> [i \in DOMAIN o.slots |-> o.slots[i].data]
      [] o.kind = "map" -> FlattenSeq([i \in DOMAIN o.slots |-> <<o.slots[i].keys, o.slots[i].vals>>])

Freed == [kind |-> "freed", rc |-> 0, immortal |-> FALSE, slots |-> <<>>]

RECURSIVE Release(_, _)
Release(h, p) ==
    IF p = NULL \/ h[p].immortal THEN h
    ELSE IF h[p].rc # 1 THEN [h EXCEPT ![p].rc = @ - 1]
    ELSE [FoldLeft(Release, h, Dropped(h[p])) EXCEPT ![p] = Freed]

----------------------------------------------------------------------------
\* guji_str_copy, guji_copy_value, guji_copy_arr, guji_match_copy and
\* guji_bush_copy: what an object has copied for its copy, and the copy with that
\* in its place.

\* Mutant: the rows of a list of lists are shared.
CopiedRows(o) ==
    CASE o.kind \in {"str", "scalar", "names", "slice"} -> <<>>
      [] o.kind \in {"strs", "ptr", "match", "bush"} -> o.slots
      [] o.kind = "map" -> FlattenSeq([i \in DOMAIN o.slots |-> <<o.slots[i].keys, o.slots[i].vals>>])
Copied(o) ==
    CASE o.kind \in {"str", "scalar", "names", "freed"} -> <<>>
      [] o.kind \in {"strs", "ptr", "match", "bush"} -> o.slots
      [] o.kind = "slice" -> [i \in DOMAIN o.slots |-> o.slots[i].data]
      [] o.kind = "map" -> FlattenSeq([i \in DOMAIN o.slots |-> <<o.slots[i].keys, o.slots[i].vals>>])

With(o, to) ==
    IF to = <<>> THEN o.slots
    ELSE CASE o.kind \in {"strs", "ptr", "match", "bush"} -> to
           [] o.kind = "slice" -> [i \in DOMAIN o.slots |-> [o.slots[i] EXCEPT !.data = to[i]]]
           [] o.kind = "map" -> [i \in DOMAIN o.slots |-> [o.slots[i] EXCEPT !.keys = to[2 * i - 1], !.vals = to[2 * i]]]

RECURSIVE Copy(_, _)
CopyEach(h, ps) ==
    FoldLeft(LAMBDA c, p : LET d == Copy(c.h, p) IN [h |-> d.h, to |-> Append(c.to, d.at)],
             [h |-> h, to |-> <<>>], ps)
Copy(h, p) ==
    LET inner == CopyEach(h, Copied(h[p]))
    IN IF p = NULL THEN [h |-> h, at |-> NULL]
       ELSE Alloc(inner.h, Object(h[p].kind, With(h[p], inner.to)))

\* What a slot owns, by the kind of the storage it is in; and with something else.
Owns(kind, v) == Dropped([kind |-> kind, slots |-> <<v>>])
CopySlot(h, kind, v) ==
    LET slot == [kind |-> kind, slots |-> <<v>>]
        c == CopyEach(h, Copied(slot))
    IN [h |-> c.h, v |-> With(slot, c.to)[1]]

----------------------------------------------------------------------------
\* Comparing.  Characters are numbers, as bytes are.

\* guji_str_compare.
Compare(h, p, q) ==
    LET a == h[p].slots
        b == h[q].slots
        differ == {i \in 1 .. (IF Len(a) < Len(b) THEN Len(a) ELSE Len(b)) : a[i] # b[i]}
        i == CHOOSE i \in differ : \A j \in differ : i <= j
    IN IF p = q THEN 0
       ELSE IF p = NULL \/ q = NULL THEN (IF p = NULL THEN -1 ELSE 1)
       ELSE IF differ # {} THEN (IF a[i] < b[i] THEN -1 ELSE 1)
       ELSE IF Len(a) < Len(b) THEN -1 ELSE IF Len(a) > Len(b) THEN 1 ELSE 0

RECURSIVE SlotEqual(_, _, _, _)

\* guji_list_equal; the kind of the storage of a list that is empty is not read.
ListEqual(h, v, w) ==
    /\ v.len = w.len
    /\ v.len # 0 =>
         /\ h[v.data].kind = h[w.data].kind
         /\ \A i \in 1 .. v.len : SlotEqual(h, h[v.data].kind, h[v.data].slots[i], h[w.data].slots[i])

\* Mutant: keys are taken to be stored in the same order.
KeysEqualInPlace(h, v, w, i, j) ==
    i = j /\ Compare(h, h[v.keys].slots[i], h[w.keys].slots[j]) = 0
KeysEqual(h, v, w, i, j) == Compare(h, h[v.keys].slots[i], h[w.keys].slots[j]) = 0

\* guji_map_equal: the first entry of w with the key has to have the value.
MapEqual(h, v, w) ==
    /\ v.len = w.len
    /\ v.len # 0 =>
         /\ h[v.vals].kind = h[w.vals].kind
         /\ \A i \in 1 .. v.len :
                LET with == {j \in 1 .. w.len : KeysEqual(h, v, w, i, j)}
                IN with # {} /\ SlotEqual(h, h[v.vals].kind, h[v.vals].slots[i],
                                          h[w.vals].slots[CHOOSE j \in with : \A k \in with : j <= k])

\* guji_match_equal: a group that took no part is NULL, and so is one without a
\* name; without names at all no group has one.
MatchEqual(h, p, q) ==
    LET a == h[p].slots
        b == h[q].slots
        groups(m) == h[m[2]].slots
        name(m, i) == IF m[3] = NULL THEN NULL ELSE h[m[3]].slots[i]
        Same(r, s) == (r = NULL) = (s = NULL) /\ (r # NULL => Compare(h, r, s) = 0)
    IN \/ p = q
       \/ /\ p # NULL /\ q # NULL
          /\ Compare(h, a[1], b[1]) = 0
          /\ Len(groups(a)) = Len(groups(b))
          /\ \A i \in DOMAIN groups(a) : Same(groups(a)[i], groups(b)[i]) /\ Same(name(a, i), name(b, i))

\* guji_elem_equal.
SlotEqual(h, kind, v, w) ==
    CASE kind = "scalar" -> v = w
      [] kind = "strs" -> Compare(h, v, w) = 0
      [] kind = "slice" -> ListEqual(h, v, w)
      [] kind = "map" -> MapEqual(h, v, w)
      [] kind = "ptr" -> MatchEqual(h, v, w)

----------------------------------------------------------------------------
\* The order in which the entries of a map are visited (guji_map_order, an
\* insertion sort that moves the greater ones up; guji_disp_map exchanges
\* neighbours), and what print shows of a value: a sequence of characters, numbers
\* and signs.

InsertAfter(h, keys, order, new) ==
    LET greater == {j \in DOMAIN order : Compare(h, keys[order[j]], keys[new]) > 0}
        from == CHOOSE j \in 1 .. (Len(order) + 1) :
                    (j .. Len(order)) \subseteq greater /\ (j = 1 \/ j - 1 \notin greater)
    IN SubSeq(order, 1, from - 1) \o <<new>> \o SubSeq(order, from, Len(order))
MapOrder(h, keys, len) ==
    FoldLeft(LAMBDA order, new : InsertAfter(h, keys, order, new), <<>>, [i \in 1 .. len |-> i])

Separated(parts) == FlattenSeq([i \in DOMAIN parts |-> IF i = 1 THEN parts[i] ELSE <<", ">> \o parts[i]])

RECURSIVE Shown(_, _, _)
Shown(h, kind, v) ==
    LET order == MapOrder(h, h[v.keys].slots, v.len)
        entry(i) == <<"quote">> \o h[h[v.keys].slots[i]].slots \o <<"quote", ": ">>
                    \o Shown(h, h[v.vals].kind, h[v.vals].slots[i])
    IN CASE kind = "scalar" -> <<v>>
         [] kind = "strs" -> IF v = NULL THEN <<>> ELSE h[v].slots
         [] kind = "slice" ->
              <<"[">> \o (IF v.len = 0 THEN <<>>
                          ELSE Separated([i \in 1 .. v.len |-> Shown(h, h[v.data].kind, h[v.data].slots[i])])) \o <<"]">>
         [] kind = "map" ->
              <<"{">> \o (IF v.len = 0 THEN <<>> ELSE Separated([i \in 1 .. v.len |-> entry(order[i])])) \o <<"}">>

----------------------------------------------------------------------------
\* Terms, from which the values of the program are made: a number, a Str, a list,
\* a map, a match or a tree, in storage with spare slots or without.

Str(text, literal) == [k |-> "strs", text |-> text, literal |-> literal]
None == [k |-> "none"]      \* the NULL of a group or a name
List(elem, of, spare) == [k |-> "slice", elem |-> elem, of |-> of, spare |-> spare]
MapOf(elem, keys, of, spare) == [k |-> "map", elem |-> elem, keys |-> keys, of |-> of, spare |-> spare]
MatchOf(text, groups, names) == [k |-> "ptr", text |-> text, groups |-> groups, names |-> names]
Bush(text, names, captures) == [k |-> "bush", text |-> text, names |-> names, of |-> captures]
Spare(term) == term.spare \/ term.of = <<>>      \* the storage of an empty list has a slot
KindOf(term) == IF term.k = "bush" THEN "ptr" ELSE term.k

\* An alias of a Str that is there shares it.
MakeStr(h, t) ==
    LET same == {p \in DOMAIN h : h[p].kind = "str" /\ h[p].slots = t.text /\ h[p].immortal = t.literal}
        p == CHOOSE p \in same : TRUE
    IN IF same # {} THEN [h |-> Retain(h, p), v |-> p]
       ELSE [h |-> Append(h, [Object("str", t.text) EXCEPT !.immortal = t.literal]), v |-> Len(h) + 1]

RECURSIVE Make(_, _)
\* guji_arr_alloc or guji_alloc, and a store into each slot.
MakeArray(h, kind, terms, spare) ==
    LET zero == CASE kind = "slice" -> [data |-> NULL, len |-> 0]
                  [] kind = "map" -> [keys |-> NULL, vals |-> NULL, len |-> 0]
                  [] OTHER -> 0
        Add(c, t) == LET m == Make(c.h, t) IN [h |-> m.h, slots |-> Append(c.slots, m.v)]
        all == FoldLeft(Add, [h |-> h, slots |-> <<>>], terms)
        slots == IF spare THEN Append(all.slots, zero) ELSE all.slots
    IN Alloc(all.h, Object(kind, slots))
Make(h, t) ==
    CASE t.k = "scalar" -> [h |-> h, v |-> t.n]
      [] t.k = "none" -> [h |-> h, v |-> NULL]
      [] t.k = "strs" -> MakeStr(h, t)
      [] t.k = "slice" -> LET a == MakeArray(h, t.elem, t.of, Spare(t))
                          IN [h |-> a.h, v |-> [data |-> a.at, len |-> Len(t.of)]]
      [] t.k = "map" -> LET a == MakeArray(h, "strs", t.keys, Spare(t))
                            b == MakeArray(a.h, t.elem, t.of, Spare(t))
                        IN [h |-> b.h, v |-> [keys |-> a.at, vals |-> b.at, len |-> Len(t.keys)]]
      [] t.k = "ptr" -> LET a == MakeStr(h, t.text)
                            b == MakeArray(a.h, "strs", t.groups, FALSE)
                            c == IF t.names = <<>> THEN [h |-> b.h, at |-> NULL] ELSE MakeArray(b.h, "ptr", t.names, FALSE)
                            m == Alloc(c.h, Object("match", <<a.v, b.at, c.at>>))
                        IN [h |-> m.h, v |-> m.at]
      [] t.k = "bush" -> LET a == MakeStr(h, t.text)
                             b == MakeArray(a.h, "ptr", t.of, FALSE)
                             c == Alloc(b.h, Object("names", t.names))
                             m == Alloc(c.h, Object("bush", <<a.v, c.at, b.at>>))
                         IN [h |-> m.h, v |-> m.at]

----------------------------------------------------------------------------
\* What a task does with values: it compares two, or it copies one to send it,
\* and the copy and the original are dropped, in any order, by their owners.

ValueInit ==
    /\ work \in Work
    /\ now = "start" /\ copy = <<>> /\ result = Empty
    /\ \E x \in {Make(<<>>, work.x)} :
           IF work.op = "copy" THEN heap = x.h /\ original = x.v
           ELSE \E y \in {Make(x.h, work.y)} : heap = y.h /\ original = <<x.v, y.v>>

Kind == KindOf(work.x)

CopyCall ==
    /\ now = "start" /\ work.op = "copy"
    /\ LET c == CopySlot(heap, Kind, original) IN heap' = c.h /\ copy' = <<c.v>>
    /\ now' = "copied"
    /\ UNCHANGED <<work, original, result>>

Drop(v) == heap' = FoldLeft(Release, heap, Owns(Kind, v))

DropOriginal ==
    /\ now \in {"copied", "copy dropped"} /\ Drop(original)
    /\ now' = IF now = "copied" THEN "original dropped" ELSE "done"
    /\ UNCHANGED <<work, original, copy, result>>

DropCopy ==
    /\ now \in {"copied", "original dropped"} /\ Drop(copy[1])
    /\ now' = IF now = "copied" THEN "copy dropped" ELSE "done"
    /\ UNCHANGED <<work, original, copy, result>>

CompareCall ==
    /\ now = "start" /\ work.op = "compare"
    /\ result' = [equal |-> SlotEqual(heap, Kind, original[1], original[2]),
                  shown |-> IF Kind = "ptr" THEN <<>> ELSE
                            <<Shown(heap, Kind, original[1]), Shown(heap, Kind, original[2])>>]
    /\ now' = "done"
    /\ UNCHANGED <<heap, work, original, copy>>

ValueNext == CopyCall \/ DropOriginal \/ DropCopy \/ CompareCall

----------------------------------------------------------------------------
\* Properties.

\* The term that the value in a slot stands for, without what the program cannot
\* see of it.
RECURSIVE Read(_, _, _), Seen(_)
NoText == <<NULL>>
Read(h, kind, v) ==
    LET all(p, n) == [i \in 1 .. n |-> Read(h, h[p].kind, h[p].slots[i])]
        keys == [i \in 1 .. v.len |-> h[h[v.keys].slots[i]].slots]
        parts == h[v].slots
    IN CASE kind \in {"scalar", "names"} -> v
         [] kind = "slice" -> IF v.len = 0 THEN <<>> ELSE all(v.data, v.len)
         [] kind = "map" -> [key \in ToSet(keys) |->
                LET i == CHOOSE i \in DOMAIN keys : keys[i] = key IN Read(h, h[v.vals].kind, h[v.vals].slots[i])]
         [] kind \in {"strs", "ptr"} ->
                IF v = NULL THEN NoText
                ELSE IF h[v].kind = "str" THEN parts
                ELSE LET n == Len(h[parts[2]].slots)
                     IN <<Read(h, "strs", parts[1]), all(parts[2], n),
                          IF parts[3] = NULL THEN [i \in 1 .. n |-> NoText] ELSE all(parts[3], n)>>
Seen(t) ==
    LET all(ts) == [i \in DOMAIN ts |-> Seen(ts[i])]
        keys == all(t.keys)
    IN CASE t.k = "scalar" -> t.n
         [] t.k = "none" -> NoText
         [] t.k = "strs" -> t.text
         [] t.k = "slice" -> all(t.of)
         [] t.k = "map" -> [key \in ToSet(keys) |-> Seen(t.of[CHOOSE i \in DOMAIN keys : keys[i] = key])]
         [] t.k = "ptr" -> <<Seen(t.text), all(t.groups),
                             IF t.names = <<>> THEN [i \in DOMAIN t.groups |-> NoText] ELSE all(t.names)>>
         [] t.k = "bush" -> <<Seen(t.text), t.names, all(t.of)>>

\* Nothing that is there, and neither a slot, has the address of what was dropped.
Intact(v) ==
    LET live(ps) == \A p \in ToSet(ps) : p = NULL \/ heap[p].kind # "freed"
    IN live(Owns(Kind, v)) /\ \A p \in DOMAIN heap : live(Dropped(heap[p]))

\* A value that was sent is the one that was copied, whatever becomes of the
\* original, and the original is what it was, whatever becomes of the copy.
CopyStands ==
    work.op = "copy" =>
        /\ now \in {"start", "copied", "copy dropped"} => Intact(original) /\ Read(heap, Kind, original) = Seen(work.x)
        /\ now \in {"copied", "original dropped"} => Intact(copy[1]) /\ Read(heap, Kind, copy[1]) = Seen(work.x)

\* When both are gone nothing is left on the heap but literals, and nothing was
\* dropped once too often.
NothingKept ==
    /\ \A p \in DOMAIN heap : heap[p].rc >= 0
    /\ work.op = "copy" /\ now = "done" => \A p \in DOMAIN heap : heap[p].immortal \/ heap[p] = Freed

\* Values are equal when they mean the same: the order in which a map has its
\* entries, spare slots and shared Strs make no difference (guji-spec.md 15.2);
\* and values that are equal are shown alike.
EqualAsMeant ==
    work.op = "compare" /\ now = "done" =>
        /\ result.equal = (Seen(work.x) = Seen(work.y))
        /\ result.equal /\ Kind # "ptr" => result.shown[1] = result.shown[2]
=============================================================================
