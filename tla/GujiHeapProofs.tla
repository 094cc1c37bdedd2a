--------------------------- MODULE GujiHeapProofs ---------------------------
(***************************************************************************)
(* The code that the compiler emits keeps the counts right, for any number *)
(* of tasks, bindings, objects and constructs and every interleaving of    *)
(* the statements: nothing is used after it was freed, nothing but a       *)
(* channel is shared, and nothing leaks - in a program that neither says   *)
(* x = x of a mutable binding nor captures a function value in a hatch.    *)
(***************************************************************************)
EXTENDS GujiHeap, FiniteSetTheorems, TLAPS

-----------------------------------------------------------------------------
(* The invariant.                                                          *)

Kinds == {"retain", "addOne", "release", "subOne", "drop", "share", "assign", "detach",
          "send", "recv", "close", "spawn", "done"}
Stmt  == [s : Kinds, o : Obj \cup {Null}, at : Task \X Local]

HeapTypeOK ==
  /\ mem \in [Obj -> {"none", "live", "freed"}]
  /\ rc \in [Obj -> Nat]
  /\ queue \in [Chan -> Seq(Obj \ Chan)]
  /\ closed \in [Chan -> BOOLEAN]
  /\ local \in [Task -> [Local -> Obj \cup {Null}]]
  /\ code \in [Task -> Seq(Stmt)]
  /\ reg \in [Task -> Nat]
  /\ life \in [Task -> {"unborn", "running", "ended"}]

Taking   == {"retain", "addOne"}                                    \* a reference is taken
Needing  == Taking \cup {"share", "detach", "send", "recv", "close"}  \* of an object that somebody else owns
Writing  == {"release", "assign", "share", "detach", "send", "recv"}  \* a local is written
Halves   == {"addOne", "subOne", "drop"}                            \* the rest of a statement
Leaving  == {"release", "subOne", "drop", "done"}                   \* a task ends

At1(p) == local[p[1]][p[2]]

\* The i-th statement of t.
Is(t, i, K) == code[t][i].s \in K
Steps(t) == DOMAIN code[t]

Spawns(t, u) == \E i \in Steps(t) : code[t][i] = Spawn(u)

\* Where statements stand and what they are about.
PlacedAt(t, i) ==
  LET st == code[t][i] IN
  /\ st.s \in Halves => i = 1
  /\ st.s = "spawn" => i = Len(code[t]) /\ st = Spawn(st.at[1]) /\ life[st.at[1]] = "unborn"
  /\ st.s = "done" => i = Len(code[t]) /\ \A j \in Steps(t) : Is(t, j, Leaving)
  /\ st.o = Null <=> st.s \in {"spawn", "done"}
  /\ st.s \in {"share", "send", "recv", "close"} => st.o \in Chan
  /\ st.s \in {"detach", "addOne", "subOne"} => st.o \notin Chan
  /\ st.s = "send" => st.at = <<t, "msg">>
  /\ st.s \in {"share", "recv"} => st.at[2] \in Var
  /\ st.s \in {"release", "assign"} => st.at[2] # "msg"
  /\ st.s = "detach" => st.at[2] # "src"
  /\ st.s \in Writing =>
       \/ st.at[1] = t
       \/ /\ st.s \in {"share", "detach"} \/ (st.s = "assign" /\ st.o \in Chan)
          /\ st.at[2] \in Var /\ Spawns(t, st.at[1])
Placed ==
  /\ \A t \in Task : /\ code[t] # <<>> => life[t] = "running"
                     /\ \A i \in Steps(t) : PlacedAt(t, i)
  /\ \A t, v, u \in Task : Spawns(t, u) /\ Spawns(v, u) => t = v

\* What a statement needs is owned by a binding that stays as it is.
Backed(t, i) == \E y \in Var : local[t][y] = code[t][i].o /\ \A j \in Steps(t) : code[t][j].at # <<t, y>>
Supported == \A t \in Task : \A i \in Steps(t) : Is(t, i, Needing) => Backed(t, i)

\* Whether a local is bound when a statement gets to write it.
Before(t, i, s) == \E k \in 1 .. i - 1 : code[t][k].s = s /\ code[t][k].at = code[t][i].at
Follows(s, r) ==
  \/ s.s = "release" /\ r.s = "assign"
  \/ s.s = "assign" /\ r.s = "release" /\ s.o = r.o
  \/ s.s = "detach" /\ r.s = "send"
AimedAt(t, i) ==
  LET st == code[t][i] IN
  /\ st.s \in {"share", "detach", "recv"} => At1(st.at) = Null
  /\ st.s = "assign" => At1(st.at) = Null \/ Before(t, i, "release")
  /\ st.s = "release" => At1(st.at) = st.o \/ Before(t, i, "assign")
  /\ st.s = "send" => At1(st.at) # Null \/ Before(t, i, "detach")
  /\ \A k \in 1 .. i - 1 :
       code[t][k].s \in Writing /\ st.s \in Writing /\ code[t][k].at = st.at => Follows(code[t][k], st)
Aimed == \A t \in Task : \A i \in Steps(t) : AimedAt(t, i)

\* One reference at most is taken at a time, and it is stored later.
Single(t) ==
  \A i, j \in Steps(t) :
    /\ Is(t, i, Taking) /\ Is(t, j, Taking) => i = j
    /\ Is(t, i, {"assign"}) /\ Is(t, j, {"assign"}) => i = j
    /\ Is(t, i, Taking) /\ Is(t, j, {"assign"}) => i < j /\ code[t][i].o = code[t][j].o
    /\ Is(t, i, {"share"}) /\ Is(t, j, Taking \cup {"assign"}) => j < i
Stored == \A t \in Task : /\ Single(t)
                          /\ (\E i \in Steps(t) : Is(t, i, Taking)) => \E j \in Steps(t) : Is(t, j, {"assign"})

\* What is stored in a temporary is taken from it later.
Later(t, i, s) == \E k \in i + 1 .. Len(code[t]) : code[t][k].s = s /\ code[t][k].at = code[t][i].at
Passing ==
  \A t \in Task : \A i \in Steps(t) :
    /\ code[t][i].s = "assign" /\ code[t][i].at[2] = "src" => Later(t, i, "release")
    /\ code[t][i].s = "detach" /\ code[t][i].at[2] = "msg" => Later(t, i, "send")

\* Who is bound: temporaries within their construct only, nothing of a task
\* that has ended, or that nobody has filled yet.
Releases(t, x) == \E i \in Steps(t) : Is(t, i, {"release"}) /\ code[t][i].at = <<t, x>>
Tidy ==
  \A t \in Task :
    /\ local[t]["src"] # Null => Releases(t, "src")
    /\ local[t]["msg"] # Null => \E i \in Steps(t) : Is(t, i, {"send"})
    /\ \A i \in Steps(t) : Is(t, i, {"done"}) => \A x \in Var : local[t][x] # Null => Releases(t, x)
    /\ life[t] = "ended" \/ (life[t] = "unborn" /\ \A v \in Task : ~Spawns(v, t)) =>
         \A x \in Local : local[t][x] = Null

\* The owners of an object: locals, queues, references that are taken and not
\* stored yet, and references that are about to be given back.
InLocals(o) == {p \in Task \X Local : At1(p) = o}
InQueues(o) == {c \in Chan : \E i \in DOMAIN queue[c] : queue[c][i] = o}
Holds(t, o) ==
  /\ \E i \in Steps(t) : Is(t, i, {"assign"}) /\ code[t][i].o = o
  /\ \A i \in Steps(t) : ~Is(t, i, Taking)
Starts(t, s, o) == code[t] # <<>> /\ code[t][1].s = s /\ code[t][1].o = o
InHands(o) == {t \in Task : Holds(t, o)}
InReturn(o) == {t \in Task : Starts(t, "subOne", o)}

Owners(o) == Cardinality(InLocals(o)) + Cardinality(InQueues(o)) + Cardinality(InHands(o)) + Cardinality(InReturn(o))
Ownerless(o) == InLocals(o) = {} /\ InQueues(o) = {} /\ InHands(o) = {} /\ InReturn(o) = {}

Counted ==
  \A o \in Obj :
    /\ mem[o] = "live" => rc[o] = Owners(o) /\ (rc[o] = 0 => \E t \in Task : Starts(t, "drop", o))
    /\ mem[o] # "live" => Ownerless(o)

\* The halves of a statement agree.
Halved ==
  \A t \in Task, o \in Obj :
    /\ Starts(t, "addOne", o) \/ Starts(t, "subOne", o) => reg[t] = rc[o]
    /\ Starts(t, "drop", o) =>
         mem[o] = "live" /\ rc[o] = 0 /\ \A u \in Task : Starts(u, "drop", o) => t = u

\* A message has one owner, before it is sent and while it waits.
Queued ==
  /\ \A t \in Task : local[t]["msg"] # Null => local[t]["msg"] \notin Chan /\ rc[local[t]["msg"]] = 1
  /\ \A c \in Chan :
       /\ queue[c] # <<>> => mem[c] = "live"
       /\ \A i, j \in DOMAIN queue[c] : queue[c][i] = queue[c][j] => i = j
       /\ \A i \in DOMAIN queue[c] : rc[queue[c][i]] = 1

\* What is no channel belongs to one task.
Has(t, o) == Holds(t, o) \/ Starts(t, "subOne", o) \/ \E x \in Local : local[t][x] = o
Apart == \A o \in Obj \ Chan, t, u \in Task : Has(t, o) /\ Has(u, o) => t = u

HeapInv ==
  /\ HeapTypeOK /\ Placed /\ Supported /\ Aimed /\ Stored /\ Passing /\ Tidy
  /\ Counted /\ Halved /\ Queued /\ Apart

-----------------------------------------------------------------------------
(* What a step does to the code.                                           *)

\* Task t executes its first statement, and n others take its place.
Runs(t, n) ==
  /\ code[t] # <<>>
  /\ code' \in [Task -> Seq(Stmt)]
  /\ \A v \in Task \ {t} : code'[v] = code[v]
  /\ Len(code'[t]) = Len(code[t]) - 1 + n
  /\ \A i \in n + 1 .. Len(code'[t]) : code'[t][i] = code[t][i + 1 - n]

LEMMA HeapSets ==
  /\ Null \notin Obj /\ Chan \subseteq Obj /\ Text \subseteq Obj /\ Closure \subseteq Obj
  /\ Chan \cap Text = {} /\ Chan \cap Closure = {} /\ Text \cap Closure = {}
  /\ Var \subseteq Local /\ "src" \in Local /\ "msg" \in Local /\ "src" \notin Var /\ "msg" \notin Var
  /\ Main \in Task
BY HeapAssumption DEF HeapAssumption, Obj, Local

LEMMA StepsFacts ==
  ASSUME code \in [Task -> Seq(Stmt)], NEW t \in Task
  PROVE  /\ Len(code[t]) \in Nat /\ Steps(t) = 1 .. Len(code[t])
         /\ code[t] = <<>> <=> Len(code[t]) = 0
         /\ code[t] # <<>> => 1 \in Steps(t) /\ Len(code[t]) \in Steps(t)
         /\ \A i \in Steps(t) : /\ code[t][i] \in Stmt
                                /\ code[t][i].s \in Kinds /\ code[t][i].o \in Obj \cup {Null}
                                /\ code[t][i].at \in Task \X Local
                                /\ code[t][i].at[1] \in Task /\ code[t][i].at[2] \in Local
                                /\ code[t][i].at = <<code[t][i].at[1], code[t][i].at[2]>>
<1>1. code[t] \in Seq(Stmt)
  OBVIOUS
<1>2. Len(code[t]) \in Nat /\ Steps(t) = 1 .. Len(code[t]) /\ \A i \in Steps(t) : code[t][i] \in Stmt
  BY <1>1 DEF Steps
<1>3. code[t] = <<>> <=> Len(code[t]) = 0
  BY <1>1
<1>4. \A i \in Steps(t) : /\ code[t][i].s \in Kinds /\ code[t][i].o \in Obj \cup {Null}
                          /\ code[t][i].at \in Task \X Local
  BY <1>2 DEF Stmt
<1>5. QED
  BY <1>2, <1>3, <1>4

LEMMA AdvanceRuns ==
  ASSUME code \in [Task -> Seq(Stmt)], NEW t \in Task, code[t] # <<>>, Advance(t)
  PROVE  Runs(t, 0)
<1>1. code[t] \in Seq(Stmt) /\ Tail(code[t]) \in Seq(Stmt) /\ Len(Tail(code[t])) = Len(code[t]) - 1
  OBVIOUS
<1>2. \A i \in 1 .. Len(code[t]) - 1 : Tail(code[t])[i] = code[t][i + 1]
  BY <1>1
<1>3. code' \in [Task -> Seq(Stmt)] /\ code'[t] = Tail(code[t]) /\ \A v \in Task \ {t} : code'[v] = code[v]
  BY <1>1 DEF Advance
<1>4. QED
  BY <1>1, <1>2, <1>3 DEF Runs

LEMMA ReplaceRuns ==
  ASSUME code \in [Task -> Seq(Stmt)], NEW t \in Task, code[t] # <<>>, NEW st \in Stmt,
         code' = [code EXCEPT ![t] = <<st>> \o Tail(@)]
  PROVE  Runs(t, 1) /\ code'[t][1] = st
<1>1. code[t] \in Seq(Stmt) /\ Tail(code[t]) \in Seq(Stmt) /\ Len(Tail(code[t])) = Len(code[t]) - 1
  OBVIOUS
<1>2. \A i \in 1 .. Len(code[t]) - 1 : Tail(code[t])[i] = code[t][i + 1]
  BY <1>1
<1> DEFINE new == <<st>> \o Tail(code[t])
<1>3. /\ new \in Seq(Stmt) /\ Len(new) = Len(code[t]) /\ new[1] = st
      /\ \A i \in 2 .. Len(new) : new[i] = Tail(code[t])[i - 1]
  BY <1>1
<1>4. code' \in [Task -> Seq(Stmt)] /\ code'[t] = new /\ \A v \in Task \ {t} : code'[v] = code[v]
  BY <1>3
<1>5. \A i \in 2 .. Len(new) : new[i] = code[t][i]
  <2> HIDE DEF new
  <2>1. QED
    BY <1>1, <1>2, <1>3
<1>6. QED
  <2> HIDE DEF new
  <2>1. QED
    BY <1>1, <1>3, <1>4, <1>5 DEF Runs

LEMMA ReplaceTwoRuns ==
  ASSUME code \in [Task -> Seq(Stmt)], NEW t \in Task, code[t] # <<>>, NEW s1 \in Stmt, NEW s2 \in Stmt,
         code' = [code EXCEPT ![t] = <<s1, s2>> \o Tail(@)]
  PROVE  Runs(t, 2) /\ code'[t][1] = s1 /\ code'[t][2] = s2
<1>1. code[t] \in Seq(Stmt) /\ Tail(code[t]) \in Seq(Stmt) /\ Len(Tail(code[t])) = Len(code[t]) - 1
  OBVIOUS
<1>2. \A i \in 1 .. Len(code[t]) - 1 : Tail(code[t])[i] = code[t][i + 1]
  BY <1>1
<1> DEFINE new == <<s1, s2>> \o Tail(code[t])
<1>3. /\ new \in Seq(Stmt) /\ Len(new) = Len(code[t]) + 1 /\ new[1] = s1 /\ new[2] = s2
      /\ \A i \in 3 .. Len(new) : new[i] = Tail(code[t])[i - 2]
  BY <1>1
<1>4. code' \in [Task -> Seq(Stmt)] /\ code'[t] = new /\ \A v \in Task \ {t} : code'[v] = code[v]
  BY <1>3
<1>5. \A i \in 3 .. Len(new) : new[i] = code[t][i - 1]
  <2> HIDE DEF new
  <2>1. QED
    BY <1>1, <1>2, <1>3
<1>6. QED
  <2> HIDE DEF new
  <2>1. QED
    BY <1>1, <1>3, <1>4, <1>5 DEF Runs

\* What replaces the first statement of t.
Becomes(t) ==
  LET st == code[t][1] IN
  \/ Runs(t, 0) /\ st.s # "share"
  \/ Runs(t, 1) /\ st.s = "retain" /\ st.o \notin Chan /\ code'[t][1] = AddOne(st.o)
  \/ Runs(t, 1) /\ st.s = "release" /\ st.o \notin Chan /\ code'[t][1] = SubOne(st.o)
  \/ Runs(t, 1) /\ st.s \in {"release", "subOne"} /\ code'[t][1] = Drop(st.o)
  \/ Runs(t, 2) /\ st.s = "share" /\ code'[t][1] = Retain(t, st.o)
                /\ code'[t][2] = Assign(st.at[1], st.at[2], st.o)

\* What it does to the locals and to the lives of the tasks.
Stores(t) ==
  LET st == code[t][1] IN
  /\ local' \in [Task -> [Local -> Obj \cup {Null}]]
  /\ \A v \in Task, x \in Local :
       local'[v][x] # local[v][x] => st.s \in Writing \ {"share"} /\ st.at = <<v, x>>
  /\ st.s \in {"release", "send"} => local'[st.at[1]][st.at[2]] = Null
  /\ st.s = "assign" => local'[st.at[1]][st.at[2]] = st.o
  /\ st.s = "detach" => local'[st.at[1]][st.at[2]] # Null
Lives(t) ==
  LET st == code[t][1] IN
  /\ st.s = "spawn" => life' = [life EXCEPT ![st.at[1]] = "running"]
  /\ st.s = "done" => life' = [life EXCEPT ![t] = "ended"]
  /\ st.s \notin {"spawn", "done"} => life' = life

LEMMA FreshFacts ==
  ASSUME NEW S, Some(S)
  PROVE  Fresh(S) \in S /\ mem[Fresh(S)] = "none"
BY DEF Some, Fresh

LEMMA PutFacts ==
  ASSUME local \in [Task -> [Local -> Obj \cup {Null}]], NEW q \in Task \X Local,
         NEW o \in Obj \cup {Null}, Put(q, o)
  PROVE  /\ local' \in [Task -> [Local -> Obj \cup {Null}]]
         /\ local'[q[1]][q[2]] = o
         /\ \A v \in Task, x \in Local : <<v, x>> # q => local'[v][x] = local[v][x]
BY DEF Put

LEMMA Head1 ==
  ASSUME code \in [Task -> Seq(Stmt)], NEW t \in Task, code[t] # <<>>
  PROVE  Next1(t) = code[t][1]
<1>1. code[t] \in Seq(Stmt)
  OBVIOUS
<1>2. QED
  BY <1>1 DEF Next1

\* A detached copy is a fresh object of the same kind.
DetachesTo(t, p) ==
  /\ p \in Obj /\ mem[p] = "none" /\ SameKind(code[t][1].o, p)
  /\ Copied(t, code[t][1].o, p)

LEMMA DetachForm ==
  ASSUME HeapTypeOK, NEW t \in Task, DoDetach(t)
  PROVE  \E p \in Obj : DetachesTo(t, p)
<1>1. code[t] # <<>> /\ Next1(t) = code[t][1]
  BY Head1 DEF DoDetach, At, HeapTypeOK
<1> DEFINE o == code[t][1].o
           pool == {p \in Obj : SameKind(o, p) /\ mem[p] = "none"}
<1>2. pool # {} /\ Copied(t, o, Fresh(pool))
  BY <1>1 DEF DoDetach
<1>3. Fresh(pool) \in pool
  BY <1>2, FreshFacts DEF Some
<1>4. QED
  BY <1>2, <1>3 DEF DetachesTo

LEMMA NewStatements ==
  ASSUME NEW t \in Task, NEW o \in Obj, NEW u \in Task, NEW x \in Local
  PROVE  /\ AddOne(o) \in Stmt /\ SubOne(o) \in Stmt /\ Drop(o) \in Stmt
         /\ Retain(t, o) \in Stmt /\ Assign(u, x, o) \in Stmt
BY HeapSets DEF AddOne, SubOne, Drop, Retain, Assign, St, Stmt, Kinds

LEMMA StatementForm ==
  ASSUME HeapTypeOK, Placed, NEW t \in Task, Statement(t)
  PROVE  Becomes(t) /\ Stores(t) /\ Lives(t)
<1> DEFINE st == code[t][1]
<1>0. code \in [Task -> Seq(Stmt)] /\ local \in [Task -> [Local -> Obj \cup {Null}]]
  BY DEF HeapTypeOK
<1>1. code[t] # <<>> /\ Next1(t) = st
  <2>1. code[t] # <<>>
    BY DEF Statement, At, DoRetain, DoAddOne, DoRelease, DoSubOne, DoDrop, DoShare, DoAssign, DoDetach,
           DoSend, DoRecv, DoClose, DoSpawn, DoDone
  <2>2. QED
    BY <2>1, <1>0, Head1, Zenon
<1>2. /\ 1 \in Steps(t) /\ st \in Stmt /\ st.o \in Obj \cup {Null} /\ st.at \in Task \X Local
      /\ st.at[1] \in Task /\ st.at[2] \in Local
  BY <1>0, <1>1, StepsFacts
<1>3. st.o = Null <=> st.s \in {"spawn", "done"}
  BY <1>2 DEF Placed, PlacedAt
<1>4. Advance(t) => Runs(t, 0)
  BY <1>0, <1>1, AdvanceRuns
<1>5. /\ local' = local => Stores(t) \/ st.s \in Writing \ {"share", "recv"}
  BY <1>0 DEF Stores, Writing
<1>6. CASE DoRetain(t)
  <2>1. st.s = "retain" /\ st.o \in Obj
    BY <1>1, <1>2, <1>3, <1>6 DEF DoRetain, At
  <2>2. Becomes(t)
    <3>1. CASE st.o \in Chan
      BY <1>1, <1>4, <1>6, <2>1, <3>1 DEF DoRetain, Becomes, Atomic
    <3>2. CASE st.o \notin Chan
      <4>1. code' = [code EXCEPT ![t] = <<AddOne(st.o)>> \o Tail(@)]
        BY <1>1, <1>6, <3>2 DEF DoRetain, Atomic, Load
      <4>2. Runs(t, 1) /\ code'[t][1] = AddOne(st.o)
        BY <1>0, <1>1, <2>1, <4>1, NewStatements, HeapSets, ReplaceRuns
      <4>3. QED
        BY <2>1, <3>2, <4>2 DEF Becomes
    <3>3. QED
      BY <3>1, <3>2
  <2>3. QED
    BY <1>5, <1>6, <2>1, <2>2 DEF DoRetain, Lives, Writing
<1>7. CASE DoAddOne(t)
  BY <1>1, <1>4, <1>5, <1>7 DEF DoAddOne, At, Becomes, Lives, Writing
<1>8. CASE DoRelease(t)
  <2>1. st.s = "release" /\ st.o \in Obj
    BY <1>1, <1>2, <1>3, <1>8 DEF DoRelease, At
  <2>2. Becomes(t)
    <3>1. CASE st.o \in Chan
      <4>1. CASE code' = [code EXCEPT ![t] = <<Drop(st.o)>> \o Tail(@)]
        <5>1. Runs(t, 1) /\ code'[t][1] = Drop(st.o)
          BY <1>0, <1>1, <2>1, <4>1, NewStatements, HeapSets, ReplaceRuns
        <5>2. QED
          BY <2>1, <5>1 DEF Becomes
      <4>2. CASE Advance(t)
        BY <1>4, <2>1, <4>2 DEF Becomes
      <4>3. QED
        BY <1>1, <1>8, <3>1, <4>1, <4>2 DEF DoRelease, Atomic
    <3>2. CASE st.o \notin Chan
      <4>1. code' = [code EXCEPT ![t] = <<SubOne(st.o)>> \o Tail(@)]
        BY <1>1, <1>8, <3>2 DEF DoRelease, Atomic, Load
      <4>2. Runs(t, 1) /\ code'[t][1] = SubOne(st.o)
        BY <1>0, <1>1, <2>1, <4>1, NewStatements, HeapSets, ReplaceRuns
      <4>3. QED
        BY <2>1, <3>2, <4>2 DEF Becomes
    <3>3. QED
      BY <3>1, <3>2
  <2>3. Stores(t)
    <3>1. Put(st.at, Null)
      BY <1>1, <1>8 DEF DoRelease
    <3>2. QED
      BY <1>0, <1>2, <2>1, <3>1, PutFacts DEF Stores, Writing
  <2>4. QED
    BY <1>8, <2>1, <2>2, <2>3 DEF DoRelease, Lives
<1>9. CASE DoSubOne(t)
  <2>1. st.s = "subOne" /\ st.o \in Obj
    BY <1>1, <1>2, <1>3, <1>9 DEF DoSubOne, At
  <2>2. Becomes(t)
    <3>1. CASE code' = [code EXCEPT ![t] = <<Drop(st.o)>> \o Tail(@)]
      <4>1. Runs(t, 1) /\ code'[t][1] = Drop(st.o)
        BY <1>0, <1>1, <2>1, <3>1, NewStatements, HeapSets, ReplaceRuns
      <4>2. QED
        BY <2>1, <4>1 DEF Becomes
    <3>2. CASE Advance(t)
      BY <1>4, <2>1, <3>2 DEF Becomes
    <3>3. QED
      BY <1>1, <1>9, <3>1, <3>2 DEF DoSubOne
  <2>3. QED
    BY <1>5, <1>9, <2>1, <2>2 DEF DoSubOne, Lives, Writing
<1>10. CASE DoDrop(t)
  BY <1>1, <1>4, <1>5, <1>10 DEF DoDrop, At, Becomes, Lives, Writing
<1>11. CASE DoShare(t)
  <2>1. st.s = "share" /\ st.o \in Obj /\ st.o \in Chan
    BY <1>1, <1>2, <1>3, <1>11 DEF DoShare, At, Placed, PlacedAt
  <2>2. code' = [code EXCEPT ![t] = <<Retain(t, st.o), Assign(st.at[1], st.at[2], st.o)>> \o Tail(@)]
    BY <1>1, <1>11, <2>1 DEF DoShare, Atomic
  <2>3. /\ Runs(t, 2) /\ code'[t][1] = Retain(t, st.o)
        /\ code'[t][2] = Assign(st.at[1], st.at[2], st.o)
    <3>1. Retain(t, st.o) \in Stmt /\ Assign(st.at[1], st.at[2], st.o) \in Stmt
      BY <1>2, <2>1, NewStatements
    <3>2. PICK s1 \in Stmt : s1 = Retain(t, st.o)
      BY <3>1
    <3>3. PICK s2 \in Stmt : s2 = Assign(st.at[1], st.at[2], st.o)
      BY <3>1
    <3>4. code' = [code EXCEPT ![t] = <<s1, s2>> \o Tail(@)]
      BY <2>2, <3>2, <3>3
    <3>5. Runs(t, 2) /\ code'[t][1] = s1 /\ code'[t][2] = s2
      BY <1>0, <1>1, <3>4, ReplaceTwoRuns, ZenonT(40)
    <3>6. QED
      BY <3>2, <3>3, <3>5
  <2>4. QED
    BY <1>5, <1>11, <2>1, <2>3, Zenon DEF DoShare, Lives, Becomes
<1>12. CASE DoAssign(t)
  <2>1. st.s = "assign" /\ Put(st.at, st.o)
    BY <1>1, <1>12 DEF DoAssign, At
  <2>2. Stores(t)
    BY <1>0, <1>2, <2>1, PutFacts DEF Stores, Writing
  <2>3. QED
    BY <1>4, <1>12, <2>1, <2>2 DEF DoAssign, Becomes, Lives
<1>13. CASE DoDetach(t)
  <2>1. PICK p \in Obj : DetachesTo(t, p)
    BY <1>13, DetachForm
  <2>2. st.s = "detach" /\ Put(st.at, p)
    BY <1>1, <1>13, <2>1 DEF DoDetach, At, DetachesTo, Copied
  <2>3. Stores(t)
    BY <1>0, <1>2, <2>2, PutFacts, HeapSets DEF Stores, Writing
  <2>4. QED
    BY <1>4, <1>13, <2>2, <2>3 DEF DoDetach, Becomes, Lives
<1>14. CASE DoSend(t)
  <2>1. st.s = "send" /\ Put(st.at, Null)
    BY <1>1, <1>14 DEF DoSend, At
  <2>2. Stores(t)
    BY <1>0, <1>2, <2>1, PutFacts DEF Stores, Writing
  <2>3. QED
    BY <1>4, <1>14, <2>1, <2>2 DEF DoSend, Becomes, Lives
<1>15. CASE DoRecv(t)
  <2>1. st.s = "recv" /\ st.o \in Chan
    BY <1>1, <1>2, <1>15 DEF DoRecv, At, Placed, PlacedAt
  <2>2. Stores(t)
    <3>1. CASE local' = local
      BY <1>5, <2>1, <3>1
    <3>2. CASE queue[st.o] # <<>> /\ Put(st.at, Head(queue[st.o]))
      <4>1. queue[st.o] \in Seq(Obj \ Chan)
        BY <2>1 DEF HeapTypeOK
      <4>2. Head(queue[st.o]) \in Obj
        BY <3>2, <4>1
      <4>3. QED
        BY <1>0, <1>2, <2>1, <3>2, <4>2, PutFacts DEF Stores, Writing
    <3>3. QED
      BY <1>1, <1>15, <3>1, <3>2 DEF DoRecv
  <2>3. QED
    BY <1>4, <1>15, <2>1, <2>2, Zenon DEF DoRecv, Becomes, Lives
<1>16. CASE DoClose(t)
  BY <1>1, <1>4, <1>5, <1>16 DEF DoClose, At, Becomes, Lives, Writing
<1>17. CASE DoSpawn(t)
  BY <1>1, <1>4, <1>5, <1>17 DEF DoSpawn, At, Becomes, Lives, Writing
<1>18. CASE DoDone(t)
  BY <1>1, <1>4, <1>5, <1>18 DEF DoDone, At, Becomes, Lives, Writing
<1>19. QED
  BY <1>6, <1>7, <1>8, <1>9, <1>10, <1>11, <1>12, <1>13, <1>14, <1>15, <1>16, <1>17, <1>18 DEF Statement

LEMMA RunsFacts ==
  ASSUME code \in [Task -> Seq(Stmt)], NEW t \in Task, NEW n \in 0 .. 2, Runs(t, n)
  PROVE  /\ Steps(t)' = 1 .. Len(code[t]) - 1 + n
         /\ \A i \in Steps(t)' : i > n => i + 1 - n \in Steps(t) /\ i + 1 - n > 1 /\ code'[t][i] = code[t][i + 1 - n]
         /\ \A k \in Steps(t) : k > 1 => k - 1 + n \in Steps(t)' /\ k - 1 + n > n /\ code'[t][k - 1 + n] = code[t][k]
         /\ \A v \in Task \ {t} : code'[v] = code[v] /\ Steps(v)' = Steps(v)
<1>1. code'[t] \in Seq(Stmt) /\ Len(code'[t]) = Len(code[t]) - 1 + n
  BY DEF Runs
<1>2. Len(code[t]) \in Nat \ {0} /\ Steps(t) = 1 .. Len(code[t])
  BY StepsFacts DEF Runs
<1>3. Steps(t)' = 1 .. Len(code[t]) - 1 + n
  BY <1>1 DEF Steps
<1>4. \A i \in n + 1 .. Len(code[t]) - 1 + n : code'[t][i] = code[t][i + 1 - n]
  BY <1>1 DEF Runs
<1>5. \A i \in Steps(t)' : i > n => i + 1 - n \in Steps(t) /\ i + 1 - n > 1 /\ code'[t][i] = code[t][i + 1 - n]
  BY <1>2, <1>3, <1>4
<1>6. \A k \in Steps(t) : k > 1 => k - 1 + n \in n + 1 .. Len(code[t]) - 1 + n /\ (k - 1 + n) + 1 - n = k
  BY <1>2
<1>7. \A k \in Steps(t) : k > 1 => k - 1 + n \in Steps(t)' /\ k - 1 + n > n /\ code'[t][k - 1 + n] = code[t][k]
  <2>1. SUFFICES ASSUME NEW k \in Steps(t), k > 1
                 PROVE  k - 1 + n \in Steps(t)' /\ k - 1 + n > n /\ code'[t][k - 1 + n] = code[t][k]
    OBVIOUS
  <2>2. k - 1 + n \in n + 1 .. Len(code[t]) - 1 + n /\ (k - 1 + n) + 1 - n = k
    BY <1>6, <2>1
  <2>3. code'[t][k - 1 + n] = code[t][(k - 1 + n) + 1 - n]
    BY <1>4, <2>2
  <2>4. QED
    BY <1>2, <1>3, <2>1, <2>2, <2>3
<1>8. \A v \in Task \ {t} : code'[v] = code[v] /\ Steps(v)' = Steps(v)
  BY DEF Runs, Steps
<1>9. QED
  BY <1>3, <1>5, <1>7, <1>8

\* How many statements take the place of the first: only halves, a retain
\* and an assignment ever do.
Turns(t, n) ==
  LET st == code[t][1]   new == code'[t] IN
  /\ Runs(t, n)
  /\ n = 0 => st.s # "share"
  /\ n = 1 => /\ 1 \in Steps(t)' /\ new[1].s \in Halves
              /\ new[1].s = "addOne" => st.s = "retain"
              /\ new[1].s # "addOne" => st.s \in {"release", "subOne"}
              /\ new[1].s # "drop" => st.o \notin Chan
              /\ new[1].o = st.o /\ new[1].at = <<Main, "src">>
  /\ n = 2 => /\ st.s = "share" /\ 1 \in Steps(t)' /\ 2 \in Steps(t)'
              /\ new[1].s = "retain" /\ new[1].o = st.o /\ new[1].at = <<t, "src">>
              /\ new[2].s = "assign" /\ new[2].o = st.o /\ new[2].at = <<st.at[1], st.at[2]>>

LEMMA BecomesFacts ==
  ASSUME code \in [Task -> Seq(Stmt)], NEW t \in Task, Becomes(t)
  PROVE  \E n \in 0 .. 2 : Turns(t, n)
<1> DEFINE st == code[t][1]
<1>1. CASE Runs(t, 0) /\ st.s # "share"
  BY <1>1 DEF Turns
<1>2. ASSUME Runs(t, 1)  PROVE 1 \in Steps(t)'
  BY <1>2, RunsFacts, StepsFacts DEF Runs
<1>3. ASSUME Runs(t, 2)  PROVE 1 \in Steps(t)' /\ 2 \in Steps(t)'
  <2>1. Len(code[t]) \in Nat \ {0}
    BY <1>3, StepsFacts DEF Runs
  <2>2. Steps(t)' = 1 .. Len(code[t]) - 1 + 2
    BY <1>3, RunsFacts
  <2>3. QED
    BY <2>1, <2>2
<1>4. CASE Runs(t, 1) /\ st.s = "retain" /\ st.o \notin Chan /\ code'[t][1] = AddOne(st.o)
  <2>1. code'[t][1].s = "addOne" /\ code'[t][1].o = st.o /\ code'[t][1].at = <<Main, "src">>
    BY <1>4 DEF AddOne, St
  <2>2. QED
    BY <1>2, <1>4, <2>1 DEF Halves, Turns
<1>5. CASE Runs(t, 1) /\ st.s = "release" /\ st.o \notin Chan /\ code'[t][1] = SubOne(st.o)
  <2>1. code'[t][1].s = "subOne" /\ code'[t][1].o = st.o /\ code'[t][1].at = <<Main, "src">>
    BY <1>5 DEF SubOne, St
  <2>2. QED
    BY <1>2, <1>5, <2>1 DEF Halves, Turns
<1>6. CASE Runs(t, 1) /\ st.s \in {"release", "subOne"} /\ code'[t][1] = Drop(st.o)
  <2>1. code'[t][1].s = "drop" /\ code'[t][1].o = st.o /\ code'[t][1].at = <<Main, "src">>
    BY <1>6 DEF Drop, St
  <2>2. QED
    BY <1>2, <1>6, <2>1 DEF Halves, Turns
<1>7. CASE Runs(t, 2) /\ st.s = "share" /\ code'[t][1] = Retain(t, st.o)
                      /\ code'[t][2] = Assign(st.at[1], st.at[2], st.o)
  <2>1. /\ code'[t][1].s = "retain" /\ code'[t][1].o = st.o /\ code'[t][1].at = <<t, "src">>
        /\ code'[t][2].s = "assign" /\ code'[t][2].o = st.o /\ code'[t][2].at = <<st.at[1], st.at[2]>>
    BY <1>7 DEF Retain, Assign, St
  <2>2. QED
    BY <1>3, <1>7, <2>1 DEF Turns
<1>8. QED
  BY <1>1, <1>4, <1>5, <1>6, <1>7 DEF Becomes

LEMMA SpawnsStep ==
  ASSUME HeapTypeOK, NEW t \in Task, NEW n \in 0 .. 2, Turns(t, n)
  PROVE  /\ \A v \in Task \ {t}, u \in Task : Spawns(v, u)' <=> Spawns(v, u)
         /\ \A u \in Task : Spawns(t, u)' => Spawns(t, u)
         /\ \A u \in Task : code[t][1].s # "spawn" => (Spawns(t, u)' <=> Spawns(t, u))
<1> DEFINE st == code[t][1]
<1>0. code \in [Task -> Seq(Stmt)] /\ Runs(t, n)
  BY DEF HeapTypeOK, Turns
<1>1. \A v \in Task \ {t} : code'[v] = code[v] /\ Steps(v)' = Steps(v)
  BY <1>0, RunsFacts
<1>2. \A v \in Task \ {t}, u \in Task : Spawns(v, u)' <=> Spawns(v, u)
  BY <1>1 DEF Spawns, Spawn, St
<1>3. \A u \in Task : Spawn(u).s = "spawn"
  BY DEF Spawn, St
<1>4. ASSUME NEW i \in Steps(t)', NEW u \in Task, code'[t][i] = Spawn(u)  PROVE Spawns(t, u)
  <2>1. code'[t][i].s = "spawn"
    BY <1>3, <1>4
  <2>2. i > n
    <3>1. i \in Nat /\ i >= 1
      BY <1>0, RunsFacts, StepsFacts
    <3>2. QED
      BY <2>1, <3>1 DEF Turns, Halves
  <2>3. i + 1 - n \in Steps(t) /\ code'[t][i] = code[t][i + 1 - n]
    BY <1>0, <2>2, RunsFacts
  <2>4. QED
    BY <1>4, <2>3 DEF Spawns
<1>5. \A u \in Task : Spawns(t, u)' => Spawns(t, u)
  BY <1>4 DEF Spawns, Spawn, St
<1>6. ASSUME NEW k \in Steps(t), NEW u \in Task, code[t][k] = Spawn(u), st.s # "spawn"  PROVE Spawns(t, u)'
  <2>1. k > 1
    BY <1>0, <1>3, <1>6, StepsFacts
  <2>2. k - 1 + n \in Steps(t)' /\ code'[t][k - 1 + n] = code[t][k]
    BY <1>0, <2>1, RunsFacts
  <2>3. QED
    BY <1>6, <2>2 DEF Spawns, Spawn, St
<1>7. QED
  BY <1>2, <1>5, <1>6 DEF Spawns

LEMMA PlacedStep ==
  ASSUME HeapTypeOK, Placed, NEW t \in Task, Becomes(t), Lives(t)
  PROVE  Placed'
<1> DEFINE st == code[t][1]
<1>1. PICK n \in 0 .. 2 : Turns(t, n)
  BY BecomesFacts DEF HeapTypeOK
<1>0. code \in [Task -> Seq(Stmt)] /\ life \in [Task -> {"unborn", "running", "ended"}] /\ Runs(t, n) /\ code[t] # <<>>
  BY <1>1 DEF HeapTypeOK, Turns, Runs
<1>2. /\ 1 \in Steps(t) /\ st \in Stmt /\ PlacedAt(t, 1)
      /\ life[t] = "running" /\ st.at[1] \in Task
  BY <1>0, StepsFacts DEF Placed
<1>3. st.s = "spawn" => /\ st = Spawn(st.at[1]) /\ Spawns(t, st.at[1]) /\ Len(code[t]) = 1
                        /\ life' = [life EXCEPT ![st.at[1]] = "running"] /\ life[st.at[1]] = "unborn"
  BY <1>2 DEF PlacedAt, Spawns, Lives
<1>4. st.s = "done" => Len(code[t]) = 1 /\ life' = [life EXCEPT ![t] = "ended"]
  BY <1>2 DEF PlacedAt, Lives
<1>5. st.s \notin {"spawn", "done"} => life' = life
  BY DEF Lives
<1>6. \A v, u \in Task : Spawns(v, u)' => Spawns(v, u)
  BY <1>1, SpawnsStep
<1>7. ASSUME NEW v \in Task, NEW u \in Task, v # t \/ st.s # "spawn"  PROVE Spawns(v, u)' <=> Spawns(v, u)
  BY <1>1, <1>7, SpawnsStep
<1>8. ASSUME NEW v \in Task \ {t}, code[v] # <<>>  PROVE life'[v] = "running"
  <2>1. life[v] = "running"
    BY <1>8 DEF Placed
  <2>2. QED
    BY <1>0, <1>3, <1>4, <1>5, <2>1
<1>9. ASSUME NEW v \in Task, NEW i \in Steps(v), code[v][i].s = "spawn", <<v, i>> # <<t, 1>>
      PROVE  life'[code[v][i].at[1]] = "unborn"
  <2> DEFINE u == code[v][i].at[1]
  <2>1. u \in Task /\ life[u] = "unborn" /\ code[v][i] = Spawn(u) /\ i = Len(code[v])
    BY <1>0, <1>9, StepsFacts DEF Placed, PlacedAt
  <2>2. Spawns(v, u)
    BY <2>1 DEF Spawns
  <2>3. CASE st.s = "spawn" /\ v # t
    <3>1. u # st.at[1]
      BY <1>2, <1>3, <2>1, <2>2, <2>3 DEF Placed
    <3>2. QED
      BY <1>0, <1>3, <2>1, <2>3, <3>1
  <2>4. CASE st.s = "spawn" /\ v = t
    BY <1>3, <1>9, <2>1, <2>4
  <2>5. CASE st.s = "done"
    BY <1>0, <1>2, <1>4, <2>1, <2>5
  <2>6. QED
    BY <1>5, <2>1, <2>3, <2>4, <2>5
<1>10. ASSUME NEW v \in Task \ {t}, NEW i \in Steps(v)'  PROVE PlacedAt(v, i)'
  <2>1. code'[v] = code[v] /\ Steps(v)' = Steps(v) /\ i \in Steps(v)
    BY <1>0, <1>10, RunsFacts
  <2>2. PlacedAt(v, i) /\ code[v][i].at[1] \in Task
    BY <1>0, <2>1, StepsFacts DEF Placed
  <2>3. \A u \in Task : Spawns(v, u)' <=> Spawns(v, u)
    BY <1>7
  <2>4. code[v][i].s = "spawn" => life'[code[v][i].at[1]] = "unborn"
    BY <1>9, <2>1, Zenon
  <2>5. QED
    BY <2>1, <2>2, <2>3, <2>4 DEF PlacedAt, Is, Spawn, St
<1>11. ASSUME NEW i \in Steps(t)', i > n  PROVE PlacedAt(t, i)'
  <2> DEFINE k == i + 1 - n
  <2>1. k \in Steps(t) /\ k > 1 /\ code'[t][i] = code[t][k] /\ i \in Nat
    BY <1>0, <1>11, RunsFacts, StepsFacts
  <2>2. PlacedAt(t, k) /\ code[t][k].at[1] \in Task /\ k <= Len(code[t]) /\ Len(code[t]) \in Nat
    BY <1>0, <2>1, StepsFacts DEF Placed
  <2>3. st.s # "spawn" /\ st.s # "done"
    BY <1>3, <1>4, <2>1, <2>2
  <2>4. \A u \in Task : Spawns(t, u)' <=> Spawns(t, u)
    BY <1>7, <2>3
  <2>5. code[t][k].s = "spawn" => life'[code[t][k].at[1]] = "unborn"
    BY <1>9, <2>1
  <2>6. Len(code'[t]) = Len(code[t]) - 1 + n
    BY <1>0 DEF Runs
  <2>7. k = Len(code[t]) => i = Len(code'[t])
    BY <2>2, <2>6, <2>1
  <2>8. code[t][k].s \notin Halves
    BY <2>1, <2>2 DEF PlacedAt
  <2>9. ASSUME code[t][k].s = "done"  PROVE \A j \in Steps(t)' : code'[t][j].s \in Leaving
    <3>1. \A j \in Steps(t) : code[t][j].s \in Leaving
      BY <2>2, <2>9 DEF PlacedAt, Is
    <3>2. n # 2
      BY <1>1, <1>2, <3>1 DEF Turns, Leaving
    <3>3. ASSUME NEW j \in Steps(t)', j > n  PROVE code'[t][j].s \in Leaving
      <4>1. j + 1 - n \in Steps(t) /\ code'[t][j] = code[t][j + 1 - n]
        BY <1>0, <3>3, RunsFacts
      <4>2. QED
        BY <3>1, <4>1
    <3>4. ASSUME NEW j \in Steps(t)', ~(j > n)  PROVE code'[t][j].s \in Leaving
      <4>1. j \in Nat /\ j >= 1
        BY <1>0, <3>4, RunsFacts, StepsFacts
      <4>2. n = 1 /\ j = 1
        BY <3>2, <3>4, <4>1
      <4>3. code'[t][1].s \in Halves /\ code'[t][1].s # "addOne"
        BY <1>1, <1>2, <3>1, <4>2 DEF Turns, Leaving
      <4>4. QED
        BY <4>2, <4>3 DEF Halves, Leaving
    <3>5. QED
      BY <3>3, <3>4
  <2>10. QED
    BY <2>1, <2>2, <2>4, <2>5, <2>7, <2>8, <2>9 DEF PlacedAt, Is, Spawn, St
<1>12. ASSUME NEW i \in Steps(t)', ~(i > n)  PROVE PlacedAt(t, i)'
  <2>1. i \in Nat /\ i >= 1
    BY <1>0, RunsFacts, StepsFacts
  <2>2. st.o # Null
    <3>1. st.s \notin {"spawn", "done"}
      BY <1>1, <1>12, <2>1 DEF Turns
    <3>2. QED
      BY <1>2, <3>1 DEF PlacedAt
  <2>3. CASE n = 1
    <3>1. i = 1 /\ code'[t][1].s \in Halves /\ code'[t][1].o = st.o
      BY <1>1, <1>12, <2>1, <2>3 DEF Turns
    <3>2. code'[t][1].s # "drop" => st.o \notin Chan
      BY <1>1, <2>3 DEF Turns
    <3>3. QED
      BY <2>2, <3>1, <3>2 DEF PlacedAt, Halves, Writing
  <2>4. CASE n = 2 /\ i = 1
    BY <1>1, <2>2, <2>4 DEF Turns, PlacedAt, Halves, Writing
  <2>5. CASE n = 2 /\ i = 2
    <3>1. /\ st.s = "share" /\ code'[t][2].s = "assign" /\ code'[t][2].o = st.o
          /\ code'[t][2].at = <<st.at[1], st.at[2]>>
      BY <1>1, <2>5 DEF Turns
    <3>2. /\ st.o \in Chan /\ st.at[2] \in Var
          /\ st.at[1] = t \/ Spawns(t, st.at[1])
      BY <1>2, <3>1 DEF PlacedAt, Writing
    <3>3. PICK u \in Task : u = st.at[1]
      BY <1>2
    <3>4. u = t \/ Spawns(t, u)'
      BY <1>7, <3>1, <3>2, <3>3
    <3>5. st.at[2] # "msg"
      BY <3>2, HeapSets
    <3>6. code'[t][2].at[1] = u /\ code'[t][2].at[2] = st.at[2]
      BY <3>1, <3>3
    <3>7. code'[t][2].at[1] = t \/ Spawns(t, code[t][2].at[1])'
      BY <3>4, <3>6
    <3>8. QED
      BY <2>2, <2>5, <3>1, <3>2, <3>5, <3>6, <3>7 DEF PlacedAt, Halves, Writing
  <2>6. QED
    BY <1>12, <2>1, <2>3, <2>4, <2>5
<1>13. code'[t] # <<>> => life'[t] = "running"
  <2>1. code'[t] # <<>> => st.s \notin {"spawn", "done"}
    <3>1. code'[t] \in Seq(Stmt) /\ Len(code'[t]) = Len(code[t]) - 1 + n
      BY <1>0 DEF Runs
    <3>2. st.s \in {"spawn", "done"} => n = 0
      BY <1>1 DEF Turns
    <3>3. Len(code[t]) = 1 /\ n = 0 => Len(code'[t]) = 0
      BY <3>1
    <3>4. Len(code'[t]) = 0 => code'[t] = <<>>
      BY <3>1
    <3>5. QED
      BY <1>3, <1>4, <3>2, <3>3, <3>4
  <2>2. QED
    BY <1>2, <1>5, <2>1
<1>14. \A v \in Task \ {t} : code'[v] = code[v]
  BY <1>0 DEF Runs
<1>15. \A v, w, u \in Task : Spawns(v, u)' /\ Spawns(w, u)' => v = w
  BY <1>6 DEF Placed
<1>16. QED
  BY <1>8, <1>10, <1>11, <1>12, <1>13, <1>14, <1>15 DEF Placed

LEMMA SpawnedUnborn ==
  ASSUME HeapTypeOK, Placed, NEW t \in Task, NEW u \in Task, Spawns(t, u)
  PROVE  life[u] = "unborn" /\ code[u] = <<>> /\ u # t
<1>1. PICK i \in Steps(t) : code[t][i] = Spawn(u)
  BY DEF Spawns
<1>2. code[t][i].s = "spawn" /\ code[t][i].at[1] = u
  BY <1>1 DEF Spawn, St
<1>3. life[u] = "unborn"
  BY <1>1, <1>2 DEF Placed, PlacedAt
<1>4. code[t] # <<>>
  BY <1>1, StepsFacts DEF HeapTypeOK
<1>5. QED
  BY <1>3, <1>4 DEF Placed

\* Where the first statement of t may write.
LEMMA WritesWhere ==
  ASSUME HeapTypeOK, Placed, NEW t \in Task, NEW i \in Steps(t), code[t][i].s \in Writing
  PROVE  LET st == code[t][i] IN
         \/ st.at[1] = t
         \/ /\ st.s \in {"share", "detach"} \/ (st.s = "assign" /\ st.o \in Chan)
            /\ st.at[2] \in Var /\ Spawns(t, st.at[1]) /\ life[st.at[1]] = "unborn" /\ code[st.at[1]] = <<>>
            /\ st.at[1] # t
<1>1. PICK u \in Task : u = code[t][i].at[1]
  BY StepsFacts DEF HeapTypeOK
<1>2. \/ u = t
      \/ /\ code[t][i].s \in {"share", "detach"} \/ (code[t][i].s = "assign" /\ code[t][i].o \in Chan)
         /\ code[t][i].at[2] \in Var /\ Spawns(t, u)
  BY <1>1 DEF Placed, PlacedAt
<1>3. Spawns(t, u) => life[u] = "unborn" /\ code[u] = <<>> /\ u # t
  BY SpawnedUnborn
<1>4. QED
  BY <1>1, <1>2, <1>3

\* Nobody writes the locals of another task that has code.
LEMMA ForeignStep ==
  ASSUME HeapTypeOK, Placed, NEW t \in Task, code[t] # <<>>, Stores(t),
         NEW v \in Task, v # t, life[v] # "unborn" \/ code[v] # <<>>
  PROVE  \A x \in Local : local'[v][x] = local[v][x]
<1>1. SUFFICES ASSUME NEW x \in Local, local'[v][x] # local[v][x]  PROVE FALSE
  OBVIOUS
<1>2. code[t][1].s \in Writing /\ code[t][1].at = <<v, x>> /\ 1 \in Steps(t)
  BY <1>1, StepsFacts DEF Stores, HeapTypeOK
<1>3. QED
  BY <1>2, WritesWhere

LEMMA SupportedStep ==
  ASSUME HeapTypeOK, Placed, Supported, NEW t \in Task, Becomes(t), Stores(t)
  PROVE  Supported'
<1> DEFINE st == code[t][1]
<1>1. PICK n \in 0 .. 2 : Turns(t, n)
  BY BecomesFacts DEF HeapTypeOK
<1>0. code \in [Task -> Seq(Stmt)] /\ Runs(t, n) /\ code[t] # <<>>
  BY <1>1 DEF HeapTypeOK, Turns, Runs
<1>2. 1 \in Steps(t) /\ st.at = <<st.at[1], st.at[2]>>
  BY <1>0, StepsFacts
<1>3. ASSUME NEW v \in Task \ {t}, NEW i \in Steps(v)', Is(v, i, Needing)'  PROVE Backed(v, i)'
  <2>1. code'[v] = code[v] /\ Steps(v)' = Steps(v) /\ i \in Steps(v)
    BY <1>0, <1>3, RunsFacts
  <2>2. Backed(v, i) /\ code[v] # <<>>
    BY <1>0, <1>3, <2>1, StepsFacts DEF Supported, Is
  <2>3. \A x \in Local : local'[v][x] = local[v][x]
    BY <1>0, <2>2, ForeignStep
  <2>4. QED
    BY <2>1, <2>2, <2>3, HeapSets DEF Backed
\* What a binding of t backs stays backed, whatever statement of t it is for.
<1>4. ASSUME NEW k \in Steps(t), Is(t, k, Needing), NEW i \in Steps(t)', code'[t][i].o = code[t][k].o
      PROVE  Backed(t, i)'
  <2>1. PICK y \in Var : local[t][y] = code[t][k].o /\ \A j \in Steps(t) : code[t][j].at # <<t, y>>
    BY <1>4 DEF Supported, Backed
  <2>2. local'[t][y] = local[t][y]
    BY <1>2, <2>1, HeapSets DEF Stores
  <2>3. ASSUME NEW j \in Steps(t)'  PROVE code'[t][j].at # <<t, y>>
    <3>1. CASE j > n
      <4>1. j + 1 - n \in Steps(t) /\ code'[t][j] = code[t][j + 1 - n]
        BY <1>0, <2>3, <3>1, RunsFacts
      <4>2. QED
        BY <2>1, <4>1
    <3>2. CASE ~(j > n)
      <4>1. j \in Nat /\ j >= 1
        BY <1>0, <2>3, RunsFacts, StepsFacts
      <4>2. code'[t][j].at \in {<<Main, "src">>, <<t, "src">>, st.at}
        <5>1. CASE n = 1 /\ j = 1
          BY <1>1, <5>1 DEF Turns
        <5>2. CASE n = 2 /\ j = 1
          BY <1>1, <5>2 DEF Turns
        <5>3. CASE n = 2 /\ j = 2
          BY <1>1, <1>2, <5>3 DEF Turns
        <5>4. QED
          BY <3>2, <4>1, <5>1, <5>2, <5>3
      <4>3. QED
        BY <1>2, <2>1, <4>2, HeapSets
    <3>3. QED
      BY <3>1, <3>2
  <2>4. QED
    BY <1>4, <2>1, <2>2, <2>3 DEF Backed
<1>5. ASSUME NEW i \in Steps(t)', Is(t, i, Needing)'  PROVE Backed(t, i)'
  <2>1. CASE i > n
    <3>1. i + 1 - n \in Steps(t) /\ code'[t][i] = code[t][i + 1 - n]
      BY <1>0, <1>5, <2>1, RunsFacts
    <3>2. QED
      BY <1>4, <1>5, <3>1 DEF Is
  <2>2. CASE ~(i > n)
    <3>1. i \in Nat /\ i >= 1
      BY <1>0, <1>5, RunsFacts, StepsFacts
    <3>2. code'[t][i].s \in Needing
      BY <1>5 DEF Is
    <3>3. st.s \in {"retain", "share"} /\ code'[t][i].o = st.o
      BY <1>1, <2>2, <3>1, <3>2 DEF Turns, Needing, Taking, Halves
    <3>4. QED
      BY <1>2, <1>4, <1>5, <3>3 DEF Is, Needing, Taking
  <2>3. QED
    BY <2>1, <2>2
<1>6. QED
  BY <1>3, <1>5 DEF Supported

\* Two tasks never write the same local.
LEMMA ForeignAim ==
  ASSUME HeapTypeOK, Placed, NEW t \in Task, code[t] # <<>>, Stores(t),
         NEW v \in Task, v # t, NEW i \in Steps(v), code[v][i].s \in Writing
  PROVE  local'[code[v][i].at[1]][code[v][i].at[2]] = local[code[v][i].at[1]][code[v][i].at[2]]
<1> DEFINE q == code[v][i].at   st == code[t][1]
<1>1. 1 \in Steps(t) /\ q[1] \in Task /\ q[2] \in Local /\ q = <<q[1], q[2]>> /\ code[v] # <<>>
  BY StepsFacts DEF HeapTypeOK
<1>2. SUFFICES ASSUME local'[q[1]][q[2]] # local[q[1]][q[2]]  PROVE FALSE
  BY Zenon
<1>3. st.s \in Writing /\ st.at = q
  BY <1>1, <1>2 DEF Stores
<1>4. q[1] = v \/ (Spawns(v, q[1]) /\ code[q[1]] = <<>>)
  BY WritesWhere
<1>5. q[1] = t \/ (Spawns(t, q[1]) /\ code[q[1]] = <<>>)
  BY <1>1, <1>3, WritesWhere
<1>6. QED
  BY <1>1, <1>4, <1>5 DEF Placed

LEMMA AimedStep ==
  ASSUME HeapTypeOK, Placed, Aimed, NEW t \in Task, Becomes(t), Stores(t)
  PROVE  Aimed'
<1> DEFINE st == code[t][1]
<1>1. PICK n \in 0 .. 2 : Turns(t, n)
  BY BecomesFacts DEF HeapTypeOK
<1>0. code \in [Task -> Seq(Stmt)] /\ Runs(t, n) /\ code[t] # <<>>
  BY <1>1, Zenon DEF HeapTypeOK, Turns, Runs
<1>2. 1 \in Steps(t) /\ st.at = <<st.at[1], st.at[2]>> /\ st.at[1] \in Task /\ st.at[2] \in Local /\ AimedAt(t, 1)
  BY <1>0, StepsFacts, Zenon DEF Aimed
<1>3. ASSUME NEW v \in Task \ {t}, NEW i \in Steps(v)'  PROVE AimedAt(v, i)'
  <2>1. code'[v] = code[v] /\ Steps(v)' = Steps(v) /\ i \in Steps(v)
    BY <1>0, <1>3, RunsFacts
  <2>2. AimedAt(v, i)
    BY <2>1 DEF Aimed
  <2>3. code[v][i].s \in Writing =>
          local'[code[v][i].at[1]][code[v][i].at[2]] = local[code[v][i].at[1]][code[v][i].at[2]]
    BY <1>0, <2>1, ForeignAim
  <2>4. QED
    BY <2>1, <2>2, <2>3 DEF AimedAt, Before, At1, Follows, Writing
<1>4. ASSUME NEW i \in Steps(t)', i > n  PROVE AimedAt(t, i)'
  <2> DEFINE k == i + 1 - n   sk == code[t][k]   q == sk.at
  <2>1. k \in Steps(t) /\ k > 1 /\ code'[t][i] = sk /\ k \in Nat /\ i \in Nat
    BY <1>0, <1>4, RunsFacts, StepsFacts
  <2>2. AimedAt(t, k) /\ q[1] \in Task /\ q[2] \in Local /\ q = <<q[1], q[2]>>
    BY <1>0, <2>1, StepsFacts DEF Aimed
  <2>3. CASE sk.s \notin Writing
    BY <2>1, <2>3 DEF AimedAt, Writing
  <2>4. ASSUME NEW m \in 1 .. i - 1, code'[t][m].s \in Writing, sk.s \in Writing, code'[t][m].at = q
        PROVE  Follows(code'[t][m], sk)
    <3>1. m \in Steps(t)'
      BY <1>0, <1>4, <2>1, RunsFacts, StepsFacts
    <3>2. CASE m > n
      <4>1. code'[t][m] = code[t][m + 1 - n]
        BY <1>0, <3>1, <3>2, RunsFacts
      <4>2. m + 1 - n \in 1 .. k - 1
        BY <2>1, <3>2
      <4>3. QED
        BY <2>2, <2>4, <4>1, <4>2 DEF AimedAt
    <3>3. CASE n = 1 /\ m = 1
      BY <1>1, <2>4, <3>3 DEF Turns, Halves, Writing
    <3>4. CASE n = 2 /\ m = 1
      BY <1>1, <2>4, <3>4 DEF Turns, Writing
    <3>5. CASE n = 2 /\ m = 2
      <4>1. st.s = "share" /\ st.at = q
        BY <1>1, <1>2, <2>4, <3>5 DEF Turns
      <4>2. 1 \in 1 .. k - 1 /\ st.s \in Writing
        BY <2>1, <4>1 DEF Writing
      <4>3. Follows(st, sk)
        BY <2>2, <2>4, <4>1, <4>2, Zenon DEF AimedAt
      <4>4. QED
        BY <4>1, <4>3 DEF Follows
    <3>6. QED
      BY <2>1, <3>2, <3>3, <3>4, <3>5
  <2>5. CASE sk.s \in Writing /\ st.s \in Writing /\ st.at = q
    <3>1. Follows(st, sk)
      <4>1. 1 \in 1 .. k - 1
        BY <2>1, SMTT(30)
      <4>2. QED
        BY <2>2, <2>5, <4>1 DEF AimedAt
    <3>2. /\ sk.s = "assign" => local'[q[1]][q[2]] = Null
          /\ sk.s = "release" => local'[q[1]][q[2]] = sk.o
          /\ sk.s = "send" => local'[q[1]][q[2]] # Null
          /\ sk.s \notin {"share", "detach", "recv"}
      BY <2>5, <3>1, Zenon DEF Follows, Stores
    <3>3. QED
      BY <2>1, <2>4, <3>2 DEF AimedAt, At1
  <2>6. CASE sk.s \in Writing /\ ~(st.s \in Writing /\ st.at = q)
    <3>1. local'[q[1]][q[2]] = local[q[1]][q[2]]
      BY <2>2, <2>6 DEF Stores
    <3>2. ASSUME NEW s \in {"release", "assign", "detach"}, Before(t, k, s)  PROVE Before(t, i, s)'
      <4>1. PICK m \in 1 .. k - 1 : code[t][m].s = s /\ code[t][m].at = q
        BY <3>2 DEF Before
      <4>2. m > 1 /\ m \in Steps(t)
        BY <1>0, <2>1, <2>6, <4>1, StepsFacts DEF Writing
      <4>3. code'[t][m - 1 + n] = code[t][m]
        BY <1>0, <4>2, RunsFacts
      <4>4. m - 1 + n \in 1 .. i - 1
        BY <2>1, <4>2
      <4>5. QED
        BY <2>1, <4>1, <4>3, <4>4 DEF Before
    <3>3. QED
      BY <2>1, <2>2, <2>4, <3>1, <3>2, Zenon DEF AimedAt, At1
  <2>7. QED
    BY <2>3, <2>5, <2>6
<1>5. ASSUME NEW i \in Steps(t)', ~(i > n)  PROVE AimedAt(t, i)'
  <2>1. i \in Nat /\ i >= 1
    BY <1>0, <1>5, RunsFacts, StepsFacts
  <2>2. CASE n = 1 /\ i = 1
    BY <1>1, <2>2 DEF Turns, AimedAt, Halves, Writing
  <2>3. CASE n = 2 /\ i = 1
    BY <1>1, <2>3 DEF Turns, AimedAt, Writing
  <2>4. CASE n = 2 /\ i = 2
    <3>1. st.s = "share" /\ code'[t][2].s = "assign" /\ code'[t][2].at = st.at /\ code'[t][1].s = "retain"
      BY <1>1, <1>2, <2>4 DEF Turns
    <3>2. local[st.at[1]][st.at[2]] = Null
      BY <1>2, <3>1 DEF AimedAt, At1
    <3>3. local'[st.at[1]][st.at[2]] = Null
      BY <1>2, <3>1, <3>2 DEF Stores
    <3>4. \A m \in 1 .. i - 1 : m = 1
      BY <2>4
    <3>5. QED
      BY <2>4, <3>1, <3>3, <3>4 DEF AimedAt, At1, Writing
  <2>5. QED
    BY <1>5, <2>1, <2>2, <2>3, <2>4
<1>6. QED
  BY <1>3, <1>4, <1>5 DEF Aimed

LEMMA StoredStep ==
  ASSUME HeapTypeOK, Stored, NEW t \in Task, Becomes(t)
  PROVE  Stored'
<1> DEFINE st == code[t][1]
<1>1. PICK n \in 0 .. 2 : Turns(t, n)
  BY BecomesFacts DEF HeapTypeOK
<1>0. code \in [Task -> Seq(Stmt)] /\ Runs(t, n) /\ code[t] # <<>>
  BY <1>1 DEF HeapTypeOK, Turns, Runs
<1>2. 1 \in Steps(t) /\ Steps(t) \subseteq Nat \ {0} /\ Single(t)
  BY <1>0, StepsFacts DEF Stored
<1>3. \A i \in Steps(t)' : i \in Nat /\ i >= 1
  BY <1>0, RunsFacts, StepsFacts
<1>4. ASSUME NEW v \in Task \ {t}
      PROVE  /\ Single(v)'
             /\ (\E i \in Steps(v)' : Is(v, i, Taking)') => \E j \in Steps(v)' : Is(v, j, {"assign"})'
  <2>1. code'[v] = code[v] /\ Steps(v)' = Steps(v)
    BY <1>0, <1>4, RunsFacts
  <2>2. QED
    BY <2>1 DEF Stored, Single, Is
<1>5. CASE n # 2
  <2> DEFINE k(i) == IF i > n THEN i + 1 - n ELSE 1
  <2>1. ASSUME NEW i \in Steps(t)'
        PROVE  /\ k(i) \in Steps(t) /\ i \in Nat /\ i >= 1
               /\ Is(t, i, Taking)' => Is(t, k(i), Taking) /\ code'[t][i].o = code[t][k(i)].o
               /\ Is(t, i, {"assign"})' => Is(t, k(i), {"assign"}) /\ code'[t][i].o = code[t][k(i)].o
               /\ Is(t, i, {"share"})' => Is(t, k(i), {"share"})
    <3>1. CASE i > n
      <4>1. i + 1 - n \in Steps(t) /\ code'[t][i] = code[t][i + 1 - n]
        BY <1>0, <2>1, <3>1, RunsFacts
      <4>2. QED
        BY <1>3, <3>1, <4>1 DEF Is
    <3>2. CASE ~(i > n)
      <4>1. n = 1 /\ i = 1
        BY <1>3, <1>5, <3>2
      <4>2. QED
        BY <1>1, <1>2, <4>1 DEF Is, Turns, Halves, Taking
    <3>3. QED
      BY <3>1, <3>2
  <2>2. \A i, j \in Nat : i >= 1 /\ j >= 1 => (k(i) = k(j) <=> i = j) /\ (k(i) < k(j) <=> i < j)
    BY <1>5
  <2> HIDE DEF k
  <2>3. Single(t)'
    <3>1. SUFFICES ASSUME NEW i \in Steps(t)', NEW j \in Steps(t)'
                   PROVE  /\ Is(t, i, Taking)' /\ Is(t, j, Taking)' => i = j
                          /\ Is(t, i, {"assign"})' /\ Is(t, j, {"assign"})' => i = j
                          /\ Is(t, i, Taking)' /\ Is(t, j, {"assign"})' => i < j /\ code'[t][i].o = code'[t][j].o
                          /\ Is(t, i, {"share"})' /\ Is(t, j, Taking \cup {"assign"})' => j < i
      BY DEF Single
    <3>2. /\ k(i) \in Steps(t) /\ k(j) \in Steps(t)
          /\ k(i) = k(j) <=> i = j
          /\ k(i) < k(j) <=> i < j
          /\ k(j) < k(i) <=> j < i
      BY <2>1, <2>2, <3>1
    <3>3. /\ Is(t, k(i), Taking) /\ Is(t, k(j), Taking) => k(i) = k(j)
          /\ Is(t, k(i), {"assign"}) /\ Is(t, k(j), {"assign"}) => k(i) = k(j)
          /\ Is(t, k(i), Taking) /\ Is(t, k(j), {"assign"}) => k(i) < k(j) /\ code[t][k(i)].o = code[t][k(j)].o
          /\ Is(t, k(i), {"share"}) /\ Is(t, k(j), Taking \cup {"assign"}) => k(j) < k(i)
      BY <1>2, <3>2 DEF Single
    <3>4. Is(t, j, Taking \cup {"assign"})' => Is(t, k(j), Taking \cup {"assign"})
      BY <2>1, <3>1 DEF Is
    <3>5. QED
      BY <2>1, <3>1, <3>2, <3>3, <3>4
  <2>4. ASSUME NEW i \in Steps(t)', Is(t, i, Taking)'  PROVE \E j \in Steps(t)' : Is(t, j, {"assign"})'
    <3>1. k(i) \in Steps(t) /\ Is(t, k(i), Taking)
      BY <2>1, <2>4
    <3>2. PICK m \in Steps(t) : Is(t, m, {"assign"})
      BY <3>1 DEF Stored
    <3>3. k(i) < m
      BY <1>2, <3>1, <3>2 DEF Single
    <3>4. m > 1
      BY <1>2, <3>1, <3>3
    <3>5. m - 1 + n \in Steps(t)' /\ code'[t][m - 1 + n] = code[t][m]
      BY <1>0, <3>4, RunsFacts
    <3>6. QED
      BY <3>2, <3>5 DEF Is
  <2>5. QED
    BY <1>4, <2>3, <2>4 DEF Stored
<1>6. CASE n = 2
  <2>1. /\ st.s = "share" /\ 1 \in Steps(t)' /\ 2 \in Steps(t)'
        /\ code'[t][1].s = "retain" /\ code'[t][2].s = "assign" /\ code'[t][1].o = code'[t][2].o
    BY <1>1, <1>6 DEF Turns
  <2>2. \A i \in Steps(t) : ~Is(t, i, Taking \cup {"assign"})
    <3>1. \A i \in Steps(t) : Is(t, i, Taking \cup {"assign"}) => i < 1
      BY <1>2, <2>1 DEF Single, Is
    <3>2. QED
      BY <1>2, <3>1
  <2>3. \A i \in Steps(t)' : i > 2 => ~Is(t, i, Taking \cup {"assign"})'
    <3>1. ASSUME NEW i \in Steps(t)', i > 2  PROVE ~Is(t, i, Taking \cup {"assign"})'
      <4>1. i + 1 - n \in Steps(t) /\ code'[t][i] = code[t][i + 1 - n]
        BY <1>0, <1>6, <3>1, RunsFacts
      <4>2. QED
        BY <2>2, <4>1 DEF Is
    <3>2. QED
      BY <3>1
  <2>4. ASSUME NEW i \in Steps(t)'
        PROVE  /\ Is(t, i, Taking)' => i = 1
               /\ Is(t, i, {"assign"})' => i = 2
               /\ Is(t, i, Taking \cup {"assign"})' => i < 3
               /\ Is(t, i, {"share"})' => i > 2
    <3>1. i = 1 \/ i = 2 \/ i > 2
      BY <1>3
    <3>2. i > 2 => ~Is(t, i, Taking)' /\ ~Is(t, i, {"assign"})' /\ ~Is(t, i, Taking \cup {"assign"})'
      BY <2>3 DEF Is
    <3>3. QED
      BY <2>1, <3>1, <3>2 DEF Is, Taking
  <2>5. Single(t)'
    <3>1. SUFFICES ASSUME NEW i \in Steps(t)', NEW j \in Steps(t)'
                   PROVE  /\ Is(t, i, Taking)' /\ Is(t, j, Taking)' => i = j
                          /\ Is(t, i, {"assign"})' /\ Is(t, j, {"assign"})' => i = j
                          /\ Is(t, i, Taking)' /\ Is(t, j, {"assign"})' => i < j /\ code'[t][i].o = code'[t][j].o
                          /\ Is(t, i, {"share"})' /\ Is(t, j, Taking \cup {"assign"})' => j < i
      BY DEF Single
    <3>2. Is(t, i, {"share"})' /\ Is(t, j, Taking \cup {"assign"})' => j < i
      BY <1>3, <2>4, <3>1
    <3>3. QED
      BY <2>1, <2>4, <3>1, <3>2
  <2>6. Is(t, 2, {"assign"})'
    BY <2>1 DEF Is
  <2>7. QED
    BY <1>4, <2>1, <2>5, <2>6 DEF Stored
<1>7. QED
  BY <1>5, <1>6

LEMMA PassingStep ==
  ASSUME HeapTypeOK, Placed, Passing, NEW t \in Task, Becomes(t)
  PROVE  Passing'
<1> DEFINE st == code[t][1]
<1>1. PICK n \in 0 .. 2 : Turns(t, n)
  BY BecomesFacts DEF HeapTypeOK
<1>0. code \in [Task -> Seq(Stmt)] /\ code' \in [Task -> Seq(Stmt)] /\ Runs(t, n) /\ code[t] # <<>>
  BY <1>1 DEF HeapTypeOK, Turns, Runs
<1>2. ASSUME NEW v \in Task \ {t}, NEW i \in Steps(v)'
      PROVE  /\ code'[v][i].s = "assign" /\ code'[v][i].at[2] = "src" => Later(v, i, "release")'
             /\ code'[v][i].s = "detach" /\ code'[v][i].at[2] = "msg" => Later(v, i, "send")'
  <2>1. code'[v] = code[v] /\ Steps(v)' = Steps(v) /\ i \in Steps(v)
    BY <1>0, <1>2, RunsFacts
  <2>2. QED
    BY <2>1 DEF Passing, Later
<1>3. ASSUME NEW i \in Steps(t)'
      PROVE  /\ code'[t][i].s = "assign" /\ code'[t][i].at[2] = "src" => Later(t, i, "release")'
             /\ code'[t][i].s = "detach" /\ code'[t][i].at[2] = "msg" => Later(t, i, "send")'
  <2>1. i \in Nat /\ i >= 1
    BY <1>0, <1>3, RunsFacts, StepsFacts
  <2>2. CASE i > n
    <3> DEFINE k == i + 1 - n
    <3>1. k \in Steps(t) /\ k > 1 /\ code'[t][i] = code[t][k]
      BY <1>0, <1>3, <2>2, RunsFacts
    <3>2. ASSUME NEW s, Later(t, k, s)  PROVE Later(t, i, s)'
      <4>1. PICK m \in k + 1 .. Len(code[t]) : code[t][m].s = s /\ code[t][m].at = code[t][k].at
        BY <3>2 DEF Later
      <4>2. m \in Steps(t) /\ m > 1 /\ Len(code[t]) \in Nat /\ m \in Nat
        BY <1>0, <2>1, <3>1, <4>1, StepsFacts
      <4>3. code'[t][m - 1 + n] = code[t][m]
        BY <1>0, <4>2, RunsFacts
      <4>4. Len(code'[t]) = Len(code[t]) - 1 + n
        BY <1>0 DEF Runs
      <4>5. m - 1 + n \in i + 1 .. Len(code'[t])
        BY <2>1, <4>1, <4>2, <4>4
      <4>6. QED
        BY <3>1, <4>1, <4>3, <4>5 DEF Later
    <3>3. QED
      BY <3>1, <3>2 DEF Passing
  <2>3. CASE n = 1 /\ i = 1
    BY <1>1, <2>3 DEF Turns, Halves
  <2>4. CASE n = 2 /\ i = 1
    BY <1>1, <2>4 DEF Turns
  <2>5. CASE n = 2 /\ i = 2
    <3>1. st.s = "share" /\ code'[t][2].s = "assign" /\ code'[t][2].at = <<st.at[1], st.at[2]>>
      BY <1>1, <2>5 DEF Turns
    <3>2. st.at[2] \in Var
      BY <1>0, <3>1, StepsFacts DEF Placed, PlacedAt
    <3>3. QED
      BY <2>5, <3>1, <3>2, HeapSets
  <2>6. QED
    BY <2>1, <2>2, <2>3, <2>4, <2>5
<1>4. QED
  BY <1>2, <1>3 DEF Passing

\* What stands behind the first statement still stands.
LEMMA StaysBehind ==
  ASSUME HeapTypeOK, NEW t \in Task, Becomes(t), NEW k \in Steps(t), k > 1
  PROVE  \E i \in Steps(t)' : code'[t][i] = code[t][k]
<1>1. PICK n \in 0 .. 2 : Turns(t, n)
  BY BecomesFacts DEF HeapTypeOK
<1>2. Runs(t, n)
  BY <1>1 DEF Turns
<1>3. QED
  BY <1>2, RunsFacts DEF HeapTypeOK

LEMMA ReleasesStep ==
  ASSUME HeapTypeOK, NEW t \in Task, Becomes(t), Stores(t), NEW x \in Local, local'[t][x] # Null, Releases(t, x)
  PROVE  Releases(t, x)'
<1>1. PICK k \in Steps(t) : Is(t, k, {"release"}) /\ code[t][k].at = <<t, x>>
  BY DEF Releases
<1>2. k # 1
  BY <1>1 DEF Stores, Is
<1>3. k > 1
  BY <1>1, <1>2, StepsFacts DEF HeapTypeOK
<1>4. PICK i \in Steps(t)' : code'[t][i] = code[t][k]
  BY <1>3, StaysBehind
<1>5. QED
  BY <1>1, <1>4 DEF Releases, Is

LEMMA TidyStep ==
  ASSUME HeapTypeOK, Placed, Passing, Tidy, NEW t \in Task, Becomes(t), Stores(t), Lives(t)
  PROVE  Tidy'
<1> DEFINE st == code[t][1]
<1>1. PICK n \in 0 .. 2 : Turns(t, n)
  BY BecomesFacts DEF HeapTypeOK
<1>0. code \in [Task -> Seq(Stmt)] /\ Runs(t, n) /\ code[t] # <<>>
  BY <1>1 DEF HeapTypeOK, Turns, Runs
<1>2. /\ 1 \in Steps(t) /\ st.at = <<st.at[1], st.at[2]>> /\ st.at[1] \in Task /\ st.at[2] \in Local
      /\ PlacedAt(t, 1) /\ life[t] = "running"
      /\ "src" \in Local /\ "msg" \in Local /\ "src" \notin Var /\ "msg" \notin Var /\ Var \subseteq Local
  BY <1>0, StepsFacts, HeapSets DEF Placed
<1>3. \A k \in Steps(t) : k # 1 => k > 1
  BY <1>0, StepsFacts
<1>4. \A v \in Task \ {t} : code'[v] = code[v] /\ Steps(v)' = Steps(v)
  BY <1>0, RunsFacts
<1>5. ASSUME NEW v \in Task \ {t}, NEW x \in Local, local'[v][x] # local[v][x]
      PROVE  x \in Var /\ Spawns(t, v) /\ life[v] = "unborn" /\ code[v] = <<>>
  <2>1. st.s \in Writing /\ st.at = <<v, x>>
    BY <1>5 DEF Stores
  <2>2. QED
    BY <1>2, <1>5, <2>1, WritesWhere
<1>6. ASSUME NEW v \in Task, local'[v]["src"] # Null  PROVE Releases(v, "src")'
  <2>1. CASE v # t
    <3>1. local'[v]["src"] = local[v]["src"]
      BY <1>2, <1>5, <2>1
    <3>2. Releases(v, "src")
      BY <1>6, <3>1 DEF Tidy
    <3>3. QED
      BY <1>4, <2>1, <3>2 DEF Releases, Is
  <2>2. CASE v = t /\ local'[t]["src"] # local[t]["src"]
    <3>1. st.s \in Writing /\ st.s # "share" /\ st.at = <<t, "src">>
      BY <1>2, <2>2 DEF Stores
    <3>2. st.s = "assign"
      BY <1>2, <1>6, <2>2, <3>1 DEF PlacedAt, Stores, Writing
    <3>3. Later(t, 1, "release")
      BY <1>2, <3>1, <3>2 DEF Passing
    <3>4. PICK k \in 2 .. Len(code[t]) : code[t][k].s = "release" /\ code[t][k].at = <<t, "src">>
      BY <3>1, <3>3 DEF Later
    <3>5. k \in Steps(t) /\ k > 1
      BY <1>0, <3>4, StepsFacts
    <3>6. PICK i \in Steps(t)' : code'[t][i] = code[t][k]
      BY <3>5, StaysBehind
    <3>7. QED
      BY <2>2, <3>4, <3>6 DEF Releases, Is
  <2>3. CASE v = t /\ local'[t]["src"] = local[t]["src"]
    BY <1>2, <1>6, <2>3, ReleasesStep DEF Tidy
  <2>4. QED
    BY <2>1, <2>2, <2>3
<1>7. ASSUME NEW v \in Task, local'[v]["msg"] # Null  PROVE \E i \in Steps(v)' : Is(v, i, {"send"})'
  <2>1. CASE v # t
    <3>1. local'[v]["msg"] = local[v]["msg"]
      BY <1>2, <1>5, <2>1
    <3>2. \E i \in Steps(v) : Is(v, i, {"send"})
      BY <1>7, <3>1 DEF Tidy
    <3>3. QED
      BY <1>4, <2>1, <3>2 DEF Is
  <2>2. ASSUME v = t, NEW k \in Steps(t), code[t][k].s = "send"  PROVE \E i \in Steps(v)' : Is(v, i, {"send"})'
    <3>1. code[t][k].at = <<t, "msg">>
      BY <2>2 DEF Placed, PlacedAt
    <3>2. k # 1
      BY <1>7, <2>2, <3>1 DEF Stores
    <3>3. PICK i \in Steps(t)' : code'[t][i] = code[t][k]
      BY <1>3, <2>2, <3>2, StaysBehind
    <3>4. QED
      BY <2>2, <3>3 DEF Is
  <2>3. CASE v = t /\ local'[t]["msg"] # local[t]["msg"]
    <3>1. st.s \in Writing /\ st.s # "share" /\ st.at = <<t, "msg">>
      BY <1>2, <2>3 DEF Stores
    <3>2. st.s = "detach"
      BY <1>2, <1>7, <2>3, <3>1 DEF PlacedAt, Stores, Writing
    <3>3. Later(t, 1, "send")
      BY <1>2, <3>1, <3>2 DEF Passing
    <3>4. PICK k \in 2 .. Len(code[t]) : code[t][k].s = "send"
      BY <3>3 DEF Later
    <3>5. k \in Steps(t)
      BY <1>0, <3>4, StepsFacts
    <3>6. QED
      BY <2>2, <2>3, <3>4, <3>5
  <2>4. CASE v = t /\ local'[t]["msg"] = local[t]["msg"]
    BY <1>7, <2>2, <2>4 DEF Tidy, Is
  <2>5. QED
    BY <2>1, <2>3, <2>4
<1>8. ASSUME NEW v \in Task, NEW i \in Steps(v)', Is(v, i, {"done"})', NEW x \in Var, local'[v][x] # Null
      PROVE  Releases(v, x)'
  <2>1. CASE v # t
    <3>1. i \in Steps(v) /\ Is(v, i, {"done"}) /\ code[v] # <<>>
      BY <1>0, <1>4, <1>8, <2>1, StepsFacts DEF Is
    <3>2. local'[v][x] = local[v][x]
      BY <1>2, <1>5, <2>1, <3>1
    <3>3. Releases(v, x)
      BY <1>8, <3>1, <3>2 DEF Tidy
    <3>4. QED
      BY <1>4, <2>1, <3>3 DEF Releases, Is
  <2>2. CASE v = t
    <3>1. i > n
      <4>1. i \in Nat /\ i >= 1
        BY <1>0, <1>8, <2>2, RunsFacts, StepsFacts
      <4>2. code'[t][i].s = "done"
        BY <1>8, <2>2 DEF Is
      <4>3. QED
        BY <1>1, <4>1, <4>2 DEF Turns, Halves
    <3>2. i + 1 - n \in Steps(t) /\ Is(t, i + 1 - n, {"done"})
      BY <1>0, <1>8, <2>2, <3>1, RunsFacts DEF Is
    <3>3. st.s \in Leaving
      BY <1>2, <3>2, Zenon DEF Placed, PlacedAt, Is
    <3>4. local'[t][x] = local[t][x]
      BY <1>2, <1>8, <2>2, <3>3 DEF Stores, Writing, Leaving
    <3>5. Releases(t, x)
      BY <1>8, <2>2, <3>2, <3>4 DEF Tidy
    <3>6. QED
      BY <1>2, <1>8, <2>2, <3>5, ReleasesStep
  <2>3. QED
    BY <2>1, <2>2
<1>9. ASSUME NEW v \in Task, life'[v] = "ended" \/ (life'[v] = "unborn" /\ \A w \in Task : ~Spawns(w, v)'),
             NEW x \in Local
      PROVE  local'[v][x] = Null
  <2>1. st.s = "spawn" => /\ st = Spawn(st.at[1]) /\ Len(code[t]) = 1
                          /\ life' = [life EXCEPT ![st.at[1]] = "running"] /\ life[st.at[1]] = "unborn"
    BY <1>2 DEF PlacedAt, Lives
  <2>2. st.s = "done" => Len(code[t]) = 1 /\ life' = [life EXCEPT ![t] = "ended"]
    BY <1>2 DEF PlacedAt, Lives
  <2>3. st.s \notin {"spawn", "done"} => life' = life
    BY DEF Lives
  <2>4. CASE v = t
    <3>1. st.s = "done"
      BY <1>2, <1>9, <2>1, <2>2, <2>3, <2>4 DEF HeapTypeOK
    <3>2. Steps(t) = {1}
      <4>1. Steps(t) = 1 .. 1
        BY <1>0, <2>2, <3>1, StepsFacts
      <4>2. QED
        BY <4>1
    <3>3. \A k \in Steps(t) : Is(t, k, {"done"}) /\ ~Is(t, k, {"release"}) /\ ~Is(t, k, {"send"})
      BY <3>1, <3>2 DEF Is
    <3>4. \A y \in Local : ~Releases(t, y)
      BY <3>3 DEF Releases
    <3>5. /\ local[t]["src"] = Null /\ local[t]["msg"] = Null
          /\ \A y \in Var : local[t][y] = Null
      BY <1>2, <3>3, <3>4 DEF Tidy
    <3>6. local[t][x] = Null
      BY <1>9, <3>5 DEF Local
    <3>7. local'[t][x] = local[t][x]
      BY <1>9, <3>1 DEF Stores, Writing
    <3>8. QED
      BY <2>4, <3>6, <3>7
  <2>5. CASE v # t
    <3>1. life'[v] = life[v] \/ (st.s = "spawn" /\ v = st.at[1] /\ life'[v] = "running")
      BY <1>2, <2>1, <2>2, <2>3, <2>5 DEF HeapTypeOK
    <3>2. CASE life[v] = "ended"
      <4>1. local[v][x] = Null
        BY <1>9, <3>2 DEF Tidy
      <4>2. local'[v][x] = local[v][x]
        BY <1>5, <1>9, <2>5, <3>2
      <4>3. QED
        BY <4>1, <4>2
    <3>3. CASE life[v] = "unborn" /\ life'[v] = "unborn" /\ \A w \in Task : ~Spawns(w, v)'
      <4>1. ~Spawns(t, v)
        <5>1. SUFFICES ASSUME Spawns(t, v)  PROVE FALSE
          OBVIOUS
        <5>2. st.s = "spawn"
          BY <1>1, <3>3, <5>1, SpawnsStep
        <5>3. PICK k \in Steps(t) : code[t][k] = Spawn(v)
          BY <5>1 DEF Spawns
        <5>4. k = 1
          BY <1>0, <2>1, <5>2, <5>3, StepsFacts
        <5>5. st.at[1] = v
          BY <5>3, <5>4 DEF Spawn, St
        <5>6. QED
          BY <2>1, <3>3, <5>2, <5>5 DEF HeapTypeOK
      <4>2. \A w \in Task : ~Spawns(w, v)
        BY <1>1, <3>3, <4>1, SpawnsStep
      <4>3. local[v][x] = Null
        BY <1>9, <3>3, <4>2 DEF Tidy
      <4>4. QED
        BY <1>5, <1>9, <2>5, <4>1, <4>3
    <3>4. QED
      BY <1>9, <3>1, <3>2, <3>3
  <2>6. QED
    BY <2>4, <2>5
<1>10. QED
  BY <1>6, <1>7, <1>8, <1>9 DEF Tidy

-----------------------------------------------------------------------------
(* Counting the owners.                                                    *)

Bit(b) == IF b THEN 1 ELSE 0

\* A set that changes in one element at most changes its size accordingly.
LEMMA CountOne ==
  ASSUME NEW S, NEW T, NEW x, IsFiniteSet(S), T \ {x} = S \ {x}
  PROVE  /\ IsFiniteSet(T) /\ Cardinality(S) \in Nat
         /\ Cardinality(T) = Cardinality(S) + Bit(x \in T) - Bit(x \in S)
<1> DEFINE R == S \ {x}
<1>1. /\ IsFiniteSet(R) /\ Cardinality(R) \in Nat /\ Cardinality(S) \in Nat
      /\ Cardinality(R) = IF x \in S THEN Cardinality(S) - 1 ELSE Cardinality(S)
  BY FS_RemoveElement, FS_CardinalityType
<1>2. IsFiniteSet(R \cup {x}) /\ Cardinality(R \cup {x}) = Cardinality(R) + 1
  BY <1>1, FS_AddElement
<1>3. T = R \cup {x} \/ (T = R /\ x \notin T)
  OBVIOUS
<1>4. x \notin R
  OBVIOUS
<1> HIDE DEF R
<1>5. CASE x \in T
  <2>1. T = R \cup {x}
    BY <1>3, <1>5
  <2>2. QED
    BY <1>1, <1>2, <1>5, <2>1 DEF Bit
<1>6. CASE x \notin T
  <2>1. T = R
    BY <1>3, <1>6
  <2>2. QED
    BY <1>1, <1>6, <2>1 DEF Bit
<1>7. QED
  BY <1>5, <1>6

\* The sets of owners are finite.
LEMMA FiniteOwners ==
  ASSUME NEW S, S \subseteq Task \X Local \/ S \subseteq Chan \/ S \subseteq Task
  PROVE  /\ IsFiniteSet(S) /\ Cardinality(S) \in Nat
         /\ Cardinality(S) = 0 <=> S = {}
         /\ Cardinality(S) = 1 => \E x : S = {x}
<1>1. IsFiniteSet(Local)
  <2>1. IsFiniteSet(Var \cup {"src"})
    BY HeapAssumption, FS_AddElement DEF HeapAssumption
  <2>2. IsFiniteSet((Var \cup {"src"}) \cup {"msg"})
    BY <2>1, FS_AddElement
  <2>3. Local = (Var \cup {"src"}) \cup {"msg"}
    BY DEF Local
  <2>4. QED
    BY <2>2, <2>3
<1>2. IsFiniteSet(Task) /\ IsFiniteSet(Chan)
  BY HeapAssumption DEF HeapAssumption
<1>3. IsFiniteSet(Task \X Local)
  BY <1>1, <1>2, FS_Product
<1>4. IsFiniteSet(S)
  BY <1>2, <1>3, FS_Subset
<1>5. QED
  BY <1>4, FS_CardinalityType, FS_EmptySet, FS_Singleton

\* The sets of owners, as they are before and after a step.
LEMMA OwnerSets ==
  ASSUME NEW o
  PROVE  /\ InLocals(o) \subseteq Task \X Local /\ InQueues(o) \subseteq Chan
         /\ InHands(o) \subseteq Task /\ InReturn(o) \subseteq Task
         /\ InLocals(o)' \subseteq Task \X Local /\ InQueues(o)' \subseteq Chan
         /\ InHands(o)' \subseteq Task /\ InReturn(o)' \subseteq Task
BY DEF InLocals, InQueues, InHands, InReturn

LEMMA SumZero ==
  ASSUME NEW a \in Nat, NEW b \in Nat, NEW h \in Nat, NEW r \in Nat
  PROVE  a + b + h + r \in Nat /\ (a + b + h + r = 0 <=> a = 0 /\ b = 0 /\ h = 0 /\ r = 0)
OBVIOUS

LEMMA OwnersFacts ==
  ASSUME NEW o \in Obj
  PROVE  /\ Owners(o) \in Nat /\ (Owners(o) = 0 <=> Ownerless(o))
         /\ Owners(o)' \in Nat /\ (Owners(o)' = 0 <=> Ownerless(o)')
<1>1. Cardinality(InLocals(o)) \in Nat /\ (Cardinality(InLocals(o)) = 0 <=> InLocals(o) = {})
  BY OwnerSets, FiniteOwners
<1>2. Cardinality(InQueues(o)) \in Nat /\ (Cardinality(InQueues(o)) = 0 <=> InQueues(o) = {})
  BY OwnerSets, FiniteOwners
<1>3. Cardinality(InHands(o)) \in Nat /\ (Cardinality(InHands(o)) = 0 <=> InHands(o) = {})
  BY OwnerSets, FiniteOwners
<1>4. Cardinality(InReturn(o)) \in Nat /\ (Cardinality(InReturn(o)) = 0 <=> InReturn(o) = {})
  BY OwnerSets, FiniteOwners
<1>5. Cardinality(InLocals(o)') \in Nat /\ (Cardinality(InLocals(o)') = 0 <=> InLocals(o)' = {})
  BY OwnerSets, FiniteOwners
<1>6. Cardinality(InQueues(o)') \in Nat /\ (Cardinality(InQueues(o)') = 0 <=> InQueues(o)' = {})
  BY OwnerSets, FiniteOwners
<1>7. Cardinality(InHands(o)') \in Nat /\ (Cardinality(InHands(o)') = 0 <=> InHands(o)' = {})
  BY OwnerSets, FiniteOwners
<1>8. Cardinality(InReturn(o)') \in Nat /\ (Cardinality(InReturn(o)') = 0 <=> InReturn(o)' = {})
  BY OwnerSets, FiniteOwners
<1>9. Owners(o) \in Nat /\ (Owners(o) = 0 <=> Ownerless(o))
  <2> DEFINE a == Cardinality(InLocals(o))
           b == Cardinality(InQueues(o))
           h == Cardinality(InHands(o))
           r == Cardinality(InReturn(o))
  <2>1. Owners(o) = a + b + h + r
    BY DEF Owners
  <2>2. /\ a \in Nat /\ b \in Nat /\ h \in Nat /\ r \in Nat
        /\ Ownerless(o) <=> a = 0 /\ b = 0 /\ h = 0 /\ r = 0
    BY <1>1, <1>2, <1>3, <1>4 DEF Ownerless
  <2> HIDE DEF a, b, h, r
  <2>3. QED
    BY <2>1, <2>2, SumZero
<1>10. Owners(o)' \in Nat /\ (Owners(o)' = 0 <=> Ownerless(o)')
  <2> DEFINE a == Cardinality(InLocals(o)')
           b == Cardinality(InQueues(o)')
           h == Cardinality(InHands(o)')
           r == Cardinality(InReturn(o)')
  <2>1. Owners(o)' = a + b + h + r
    BY DEF Owners
  <2>2. /\ a \in Nat /\ b \in Nat /\ h \in Nat /\ r \in Nat
        /\ Ownerless(o)' <=> a = 0 /\ b = 0 /\ h = 0 /\ r = 0
    BY <1>5, <1>6, <1>7, <1>8 DEF Ownerless
  <2> HIDE DEF a, b, h, r
  <2>3. QED
    BY <2>1, <2>2, SumZero
<1>11. QED
  BY <1>9, <1>10

\* An object with one owner has no other.
LEMMA SoleOwner ==
  ASSUME NEW o \in Obj, Owners(o) = 1
  PROVE  /\ \A p, q \in InLocals(o) : p = q
         /\ \A c, d \in InQueues(o) : c = d
         /\ InLocals(o) # {} => InQueues(o) = {} /\ InHands(o) = {} /\ InReturn(o) = {}
         /\ InQueues(o) # {} => InLocals(o) = {} /\ InHands(o) = {} /\ InReturn(o) = {}
         /\ InHands(o) # {} => InLocals(o) = {} /\ InQueues(o) = {} /\ InReturn(o) = {}
         /\ InReturn(o) # {} => InLocals(o) = {} /\ InQueues(o) = {} /\ InHands(o) = {}
<1> DEFINE a == Cardinality(InLocals(o))   b == Cardinality(InQueues(o))
           h == Cardinality(InHands(o))    r == Cardinality(InReturn(o))
<1>1. a \in Nat /\ (a = 0 <=> InLocals(o) = {}) /\ (a = 1 => \E x : InLocals(o) = {x})
  BY OwnerSets, FiniteOwners
<1>2. b \in Nat /\ (b = 0 <=> InQueues(o) = {}) /\ (b = 1 => \E x : InQueues(o) = {x})
  BY OwnerSets, FiniteOwners
<1>3. h \in Nat /\ (h = 0 <=> InHands(o) = {})
  BY OwnerSets, FiniteOwners
<1>8. r \in Nat /\ (r = 0 <=> InReturn(o) = {})
  BY OwnerSets, FiniteOwners
<1>4. a + b + h + r = 1
  BY DEF Owners
<1> HIDE DEF a, b, h, r
<1>5. a \in {0, 1} /\ b \in {0, 1}
  BY <1>1, <1>2, <1>3, <1>4, <1>8
<1>6. (\A p, q \in InLocals(o) : p = q) /\ (\A c, d \in InQueues(o) : c = d)
  BY <1>1, <1>2, <1>5
<1>7. QED
  BY <1>1, <1>2, <1>3, <1>4, <1>6, <1>8

\* How the number of owners changes with one local, queue and task.
LEMMA OwnersMove ==
  ASSUME NEW o \in Obj, NEW q, NEW c, NEW t,
         InLocals(o)' \ {q} = InLocals(o) \ {q}, InQueues(o)' \ {c} = InQueues(o) \ {c},
         InHands(o)' \ {t} = InHands(o) \ {t}, InReturn(o)' \ {t} = InReturn(o) \ {t}
  PROVE  Owners(o)' = Owners(o) + (Bit(q \in InLocals(o)') - Bit(q \in InLocals(o)))
                                + (Bit(c \in InQueues(o)') - Bit(c \in InQueues(o)))
                                + (Bit(t \in InHands(o)') - Bit(t \in InHands(o)))
                                + (Bit(t \in InReturn(o)') - Bit(t \in InReturn(o)))
<1>1. IsFiniteSet(InLocals(o)) /\ IsFiniteSet(InQueues(o))
  BY OwnerSets, FiniteOwners
<1>2. IsFiniteSet(InHands(o)) /\ IsFiniteSet(InReturn(o))
  BY OwnerSets, FiniteOwners
<1>3. /\ Cardinality(InLocals(o)) \in Nat
      /\ Cardinality(InLocals(o)') = Cardinality(InLocals(o)) + Bit(q \in InLocals(o)') - Bit(q \in InLocals(o))
  BY <1>1, <1>2, CountOne
<1>4. /\ Cardinality(InQueues(o)) \in Nat
      /\ Cardinality(InQueues(o)') = Cardinality(InQueues(o)) + Bit(c \in InQueues(o)') - Bit(c \in InQueues(o))
  BY <1>1, <1>2, CountOne
<1>5. /\ Cardinality(InHands(o)) \in Nat
      /\ Cardinality(InHands(o)') = Cardinality(InHands(o)) + Bit(t \in InHands(o)') - Bit(t \in InHands(o))
  BY <1>1, <1>2, CountOne
<1>6. /\ Cardinality(InReturn(o)) \in Nat
      /\ Cardinality(InReturn(o)') = Cardinality(InReturn(o)) + Bit(t \in InReturn(o)') - Bit(t \in InReturn(o))
  BY <1>1, <1>2, CountOne
<1>7. \A b : Bit(b) \in Int
  BY DEF Bit
<1>8. Owners(o)' = Cardinality(InLocals(o)') + Cardinality(InQueues(o)') + Cardinality(InHands(o)') + Cardinality(InReturn(o)')
  BY DEF Owners
<1>9. QED
  BY <1>3, <1>4, <1>5, <1>6, <1>7, <1>8 DEF Owners

LEMMA HoldsStep ==
  ASSUME HeapTypeOK, Placed, Stored, NEW t \in Task, NEW n \in 0 .. 2, Turns(t, n), NEW o \in Obj
  PROVE  LET st == code[t][1] IN
         /\ \A v \in Task \ {t} : Holds(v, o)' <=> Holds(v, o)
         /\ st.s \in Taking /\ n = 0 => ~Holds(t, o) /\ (Holds(t, o)' <=> o = st.o)
         /\ st.s = "assign" => ~Holds(t, o)' /\ (Holds(t, o) <=> o = st.o)
         /\ ~(st.s \in Taking /\ n = 0) /\ st.s # "assign" => (Holds(t, o)' <=> Holds(t, o))
<1> DEFINE st == code[t][1]
<1>1. code \in [Task -> Seq(Stmt)] /\ Runs(t, n) /\ code[t] # <<>>
  BY DEF HeapTypeOK, Turns, Runs
<1>2. 1 \in Steps(t) /\ Steps(t) \subseteq Nat \ {0} /\ Single(t)
  BY <1>1, StepsFacts DEF Stored
<1>3. ASSUME NEW i \in Steps(t)', i > n
      PROVE  \E k \in Steps(t) : k > 1 /\ code'[t][i] = code[t][k]
  BY <1>1, <1>3, RunsFacts
<1>4. ASSUME NEW k \in Steps(t), k # 1
      PROVE  \E i \in Steps(t)' : i > n /\ code'[t][i] = code[t][k]
  <2>1. k > 1
    BY <1>2, <1>4
  <2>2. QED
    BY <1>1, <2>1, RunsFacts
<1>5. \A i \in Steps(t)' : i \in Nat /\ i >= 1
  BY <1>1, RunsFacts, StepsFacts
<1>6. \A v \in Task \ {t} : Holds(v, o)' <=> Holds(v, o)
  <2>1. \A v \in Task \ {t} : code'[v] = code[v] /\ Steps(v)' = Steps(v)
    BY <1>1, RunsFacts
  <2>2. QED
    BY <2>1 DEF Holds, Is
<1>7. ASSUME st.s \in Taking, n = 0  PROVE ~Holds(t, o) /\ (Holds(t, o)' <=> o = st.o)
  <2>1. ~Holds(t, o)
    BY <1>2, <1>7 DEF Holds, Is
  <2>2. PICK j \in Steps(t) : Is(t, j, {"assign"})
    BY <1>2, <1>7 DEF Stored, Is
  <2>3. /\ 1 < j /\ code[t][j].o = st.o
        /\ \A k \in Steps(t) : Is(t, k, Taking) => k = 1
        /\ \A k \in Steps(t) : Is(t, k, {"assign"}) => k = j
    BY <1>2, <1>7, <2>2 DEF Single, Is
  <2>4. \A i \in Steps(t)' : ~Is(t, i, Taking)'
    <3>1. SUFFICES ASSUME NEW i \in Steps(t)', Is(t, i, Taking)'  PROVE FALSE
      OBVIOUS
    <3>2. PICK k \in Steps(t) : k > 1 /\ code'[t][i] = code[t][k]
      BY <1>3, <1>5, <1>7
    <3>3. QED
      BY <2>3, <3>1, <3>2 DEF Is
  <2>5. PICK i \in Steps(t)' : code'[t][i] = code[t][j]
    BY <1>4, <2>3, <1>2
  <2>6. \A m \in Steps(t)' : Is(t, m, {"assign"})' => code'[t][m].o = st.o
    <3>1. SUFFICES ASSUME NEW m \in Steps(t)', Is(t, m, {"assign"})'  PROVE code'[t][m].o = st.o
      OBVIOUS
    <3>2. PICK k \in Steps(t) : k > 1 /\ code'[t][m] = code[t][k]
      BY <1>3, <1>5, <1>7
    <3>3. QED
      BY <2>3, <3>1, <3>2 DEF Is
  <2>7. QED
    BY <2>1, <2>2, <2>3, <2>4, <2>5, <2>6 DEF Holds, Is
<1>8. ASSUME st.s = "assign"  PROVE ~Holds(t, o)' /\ (Holds(t, o) <=> o = st.o)
  <2>1. /\ \A k \in Steps(t) : Is(t, k, {"assign"}) => k = 1
        /\ \A k \in Steps(t) : ~Is(t, k, Taking)
    BY <1>2, <1>8 DEF Single, Is
  <2>2. n = 0
    BY <1>8 DEF Turns, Halves
  <2>3. \A i \in Steps(t)' : ~Is(t, i, {"assign"})'
    <3>1. SUFFICES ASSUME NEW i \in Steps(t)', Is(t, i, {"assign"})'  PROVE FALSE
      OBVIOUS
    <3>2. PICK k \in Steps(t) : k > 1 /\ code'[t][i] = code[t][k]
      BY <1>3, <1>5, <2>2
    <3>3. QED
      BY <2>1, <3>1, <3>2 DEF Is
  <2>4. QED
    BY <1>2, <1>8, <2>1, <2>3 DEF Holds, Is
<1>9. ASSUME ~(st.s \in Taking /\ n = 0), st.s # "assign"  PROVE Holds(t, o)' <=> Holds(t, o)
  <2>1. CASE n = 2
    <3>1. st.s = "share" /\ 1 \in Steps(t)' /\ code'[t][1].s = "retain"
      BY <2>1 DEF Turns
    <3>2. ~Holds(t, o)'
      BY <3>1 DEF Holds, Is, Taking
    <3>3. \A k \in Steps(t) : Is(t, k, {"assign"}) => k < 1
      BY <1>2, <3>1 DEF Single, Is
    <3>4. ~Holds(t, o)
      BY <1>2, <3>3 DEF Holds
    <3>5. QED
      BY <3>2, <3>4
  <2>2. CASE n = 1 /\ st.s \in Taking
    <3>1. 1 \in Steps(t)' /\ code'[t][1].s \in Halves /\ code'[t][1].s = "addOne"
      BY <2>2 DEF Turns, Taking, Halves
    <3>2. QED
      BY <1>2, <2>2, <3>1 DEF Holds, Is, Taking
  <2>3. CASE n # 2 /\ st.s \notin Taking
    <3>1. ASSUME NEW i \in Steps(t)', code'[t][i].s \in Taking \cup {"assign"}
          PROVE  \E k \in Steps(t) : code'[t][i] = code[t][k]
      <4>1. CASE i > n
        BY <1>3, <3>1, <4>1
      <4>2. CASE n = 1 /\ i = 1
        BY <2>3, <3>1, <4>2 DEF Turns, Halves, Taking
      <4>3. QED
        BY <1>5, <2>3, <4>1, <4>2
    <3>2. ASSUME NEW k \in Steps(t), code[t][k].s \in Taking \cup {"assign"}
          PROVE  \E i \in Steps(t)' : code'[t][i] = code[t][k]
      BY <1>4, <1>9, <2>3, <3>2
    <3>3. Holds(t, o) => Holds(t, o)'
      BY <3>1, <3>2 DEF Holds, Is
    <3>4. Holds(t, o)' => Holds(t, o)
      BY <3>1, <3>2 DEF Holds, Is
    <3>5. QED
      BY <3>3, <3>4
  <2>4. QED
    BY <1>9, <2>1, <2>2, <2>3
<1>10. QED
  BY <1>6, <1>7, <1>8, <1>9

LEMMA StartsStep ==
  ASSUME HeapTypeOK, Placed, NEW t \in Task, NEW n \in 0 .. 2, Turns(t, n), NEW o \in Obj, NEW s \in Halves
  PROVE  /\ Starts(t, s, o) <=> code[t][1].s = s /\ code[t][1].o = o
         /\ \A v \in Task \ {t} : Starts(v, s, o)' <=> Starts(v, s, o)
         /\ n # 1 => ~Starts(t, s, o)'
         /\ n = 1 => (Starts(t, s, o)' <=> code'[t][1].s = s /\ code[t][1].o = o)
<1>1. code \in [Task -> Seq(Stmt)] /\ Runs(t, n) /\ code[t] # <<>> /\ code' \in [Task -> Seq(Stmt)]
  BY DEF HeapTypeOK, Turns, Runs
<1>2. \A v \in Task \ {t} : code'[v] = code[v]
  BY <1>1 DEF Runs
<1>3. 1 \in Steps(t)' => code'[t] # <<>>
  BY <1>1 DEF Steps
<1>4. code'[t] # <<>> => 1 \in Steps(t)'
  BY <1>1 DEF Steps
<1>5. ASSUME n = 0, Starts(t, s, o)'  PROVE FALSE
  <2>1. 1 \in Steps(t)' /\ code'[t][1].s = s
    BY <1>4, <1>5 DEF Starts
  <2>5. ASSUME NEW i \in Steps(t)', i > n  PROVE \E k \in Steps(t) : k > 1 /\ code'[t][i] = code[t][k]
    BY <1>1, <2>5, RunsFacts
  <2>2. PICK k \in Steps(t) : k > 1 /\ code'[t][1] = code[t][k]
    BY <1>5, <2>1, <2>5
  <2>3. k # 1
    BY <1>1, <2>2, StepsFacts
  <2>4. QED
    BY <2>1, <2>2, <2>3 DEF Placed, PlacedAt
<1>6. ASSUME n = 2, Starts(t, s, o)'  PROVE FALSE
  BY <1>6 DEF Starts, Turns, Halves
<1>7. ASSUME n = 1  PROVE Starts(t, s, o)' <=> code'[t][1].s = s /\ code[t][1].o = o
  BY <1>3, <1>7 DEF Starts, Turns
<1>8. QED
  BY <1>1, <1>2, <1>5, <1>6, <1>7 DEF Starts

-----------------------------------------------------------------------------
(* The books: counts, halves, messages and who has what.                   *)

Books == Counted /\ Halved /\ Queued /\ Apart
Shape == Placed /\ Supported /\ Aimed /\ Stored /\ Passing /\ Tidy

\* What has an owner is live, and nobody is dropping it.
LEMMA Owned ==
  ASSUME HeapTypeOK, Counted, Halved, NEW o \in Obj, ~Ownerless(o)
  PROVE  /\ mem[o] = "live" /\ rc[o] = Owners(o) /\ rc[o] \in Nat \ {0}
         /\ \A v \in Task : ~Starts(v, "drop", o)
<1>1. mem[o] = "live" /\ rc[o] = Owners(o)
  BY DEF Counted
<1>2. rc[o] \in Nat \ {0}
  BY <1>1, OwnersFacts
<1>3. QED
  BY <1>1, <1>2 DEF Halved

\* A task that has loaded a count has the object, which is no channel.
LEMMA HalfHas ==
  ASSUME HeapTypeOK, Placed, Supported, NEW v \in Task, NEW o \in Obj,
         Starts(v, "addOne", o) \/ Starts(v, "subOne", o)
  PROVE  Has(v, o) /\ o \notin Chan /\ ~Ownerless(o)
<1>1. 1 \in Steps(v) /\ code[v][1].o = o
  BY StepsFacts DEF Starts, HeapTypeOK
<1>2. o \notin Chan
  BY <1>1 DEF Placed, PlacedAt, Starts
<1>3. CASE Starts(v, "addOne", o)
  <2>1. PICK y \in Var : local[v][y] = o
    BY <1>1, <1>3 DEF Supported, Backed, Is, Starts, Needing, Taking
  <2>2. y \in Local
    BY <2>1, HeapSets
  <2>3. <<v, y>> \in InLocals(o)
    BY <2>1, <2>2 DEF InLocals, At1
  <2>4. QED
    BY <1>2, <2>1, <2>2, <2>3 DEF Has, Ownerless
<1>4. CASE Starts(v, "subOne", o)
  BY <1>2, <1>4 DEF Has, Ownerless, InReturn
<1>5. QED
  BY <1>3, <1>4

\* A step of t that changes no count but that of the object its statement is
\* about, by what the number of owners changes.
Balanced(t) ==
  LET o == code[t][1].o IN
  /\ mem' = mem /\ rc' \in [Obj -> Nat]
  /\ \A p \in Obj : Owners(p)' - Owners(p) = rc'[p] - rc[p]
  /\ \A v \in Task \ {t} : reg'[v] = reg[v]
  /\ \A p \in Obj : Starts(t, "addOne", p)' \/ Starts(t, "subOne", p)' => reg'[t] = rc'[p]
  /\ \A p \in Obj : Starts(t, "drop", p)' => p = o /\ rc[o] = 1 /\ rc'[o] = 0
  /\ \A p \in Obj : rc'[p] # rc[p] =>
       /\ p = o /\ ~Ownerless(p)
       /\ rc'[p] = 0 => Starts(t, "drop", p)'
       /\ p \in Chan \/ (\E y \in Var : local[t][y] = p) \/ Starts(t, "subOne", p)

\* A step after which nobody has what he did not have.
Kept ==
  /\ queue' = queue
  /\ \A v \in Task, p \in Obj \ Chan : Has(v, p)' => Has(v, p)
  /\ \A v \in Task : local'[v]["msg"] \in {local[v]["msg"], Null}

\* What happens to the count that changes.
LEMMA ChangeFacts ==
  ASSUME HeapTypeOK, Shape, Books, NEW t \in Task, Balanced(t), NEW p \in Obj, rc'[p] # rc[p]
  PROVE  /\ p = code[t][1].o /\ ~Ownerless(p) /\ (rc'[p] = 0 => Starts(t, "drop", p)')
         /\ mem[p] = "live" /\ rc[p] = Owners(p) /\ rc[p] > 0
         /\ \A v \in Task : ~Starts(v, "drop", p)
         /\ \A v \in Task \ {t} : ~Starts(v, "addOne", p) /\ ~Starts(v, "subOne", p)
<1> USE DEF Books, Shape
<1>1. p = code[t][1].o /\ ~Ownerless(p) /\ (rc'[p] = 0 => Starts(t, "drop", p)')
  BY DEF Balanced
<1>2. mem[p] = "live" /\ rc[p] = Owners(p) /\ rc[p] > 0 /\ \A v \in Task : ~Starts(v, "drop", p)
  BY <1>1, Owned
<1>3. p \in Chan \/ Has(t, p)
  BY HeapSets DEF Balanced, Has
<1>4. \A v \in Task \ {t} : ~Starts(v, "addOne", p) /\ ~Starts(v, "subOne", p)
  BY <1>3, HalfHas DEF Apart
<1>5. QED
  BY <1>1, <1>2, <1>4

LEMMA CountsStep ==
  ASSUME HeapTypeOK, Shape, Books, NEW t \in Task, NEW n \in 0 .. 2, Turns(t, n), code[t][1].s # "drop", Balanced(t)
  PROVE  Counted' /\ Halved'
<1> DEFINE o == code[t][1].o
<1> USE DEF Books, Shape
<1>0. Null \notin Obj /\ "msg" \in Local /\ "msg" \notin Var /\ Var \subseteq Local /\ Chan \subseteq Obj
  BY HeapSets
<1>1. \A p \in Obj : rc'[p] # rc[p] => p = o
  BY DEF Balanced
<1>2. ASSUME NEW p \in Obj  PROVE Owners(p)' = Owners(p) + (rc'[p] - rc[p]) /\ rc[p] \in Nat /\ rc'[p] \in Nat
  <2>1. Owners(p)' - Owners(p) = rc'[p] - rc[p] /\ Owners(p) \in Nat /\ Owners(p)' \in Nat
    BY OwnersFacts DEF Balanced
  <2>2. rc[p] \in Nat /\ rc'[p] \in Nat
    BY DEF Balanced, HeapTypeOK
  <2>3. QED
    BY <2>1, <2>2
<1>3. ASSUME NEW p \in Obj, rc'[p] # rc[p]
      PROVE  /\ p = o /\ ~Ownerless(p) /\ (rc'[p] = 0 => Starts(t, "drop", p)')
             /\ mem[p] = "live" /\ rc[p] = Owners(p) /\ rc[p] > 0
             /\ \A v \in Task : ~Starts(v, "drop", p)
             /\ \A v \in Task \ {t} : ~Starts(v, "addOne", p) /\ ~Starts(v, "subOne", p)
  BY <1>3, ChangeFacts
<1>4. \A v \in Task \ {t}, p \in Obj, s \in Halves : Starts(v, s, p)' <=> Starts(v, s, p)
  BY StartsStep
<1>5. \A p \in Obj : ~Starts(t, "drop", p)
  BY DEF Starts
<1>6. Counted'
  <2>1. SUFFICES ASSUME NEW p \in Obj
                 PROVE  /\ mem'[p] = "live" => /\ rc'[p] = Owners(p)'
                                               /\ rc'[p] = 0 => \E v \in Task : Starts(v, "drop", p)'
                        /\ mem'[p] # "live" => Ownerless(p)'
    BY DEF Counted
  <2>2. mem'[p] = mem[p]
    BY DEF Balanced
  <2>3. CASE mem[p] = "live"
    <3>1. rc'[p] = Owners(p)'
      <4>1. rc[p] = Owners(p)
        BY <2>3 DEF Counted
      <4>2. QED
        BY <1>2, <4>1
    <3>2. ASSUME rc'[p] = 0  PROVE \E v \in Task : Starts(v, "drop", p)'
      <4>1. CASE rc[p] = 0
        <5>1. PICK v \in Task : Starts(v, "drop", p)
          BY <2>3, <4>1 DEF Counted
        <5>2. QED
          BY <1>4, <1>5, <5>1 DEF Halves
      <4>2. CASE rc[p] # 0
        BY <1>3, <3>2, <4>2
      <4>3. QED
        BY <4>1, <4>2
    <3>3. QED
      BY <2>2, <2>3, <3>1, <3>2
  <2>4. CASE mem[p] # "live"
    <3>1. rc'[p] = rc[p] /\ Ownerless(p)
      BY <1>3, <2>4 DEF Counted
    <3>2. Owners(p) = 0
      BY <3>1, OwnersFacts
    <3>3. Owners(p)' = 0
      BY <1>2, <3>1, <3>2
    <3>4. QED
      BY <2>2, <2>4, <3>3, OwnersFacts
  <2>5. QED
    BY <2>3, <2>4
<1>7. Halved'
  <2>1. SUFFICES ASSUME NEW v \in Task, NEW p \in Obj
                 PROVE  /\ Starts(v, "addOne", p)' \/ Starts(v, "subOne", p)' => reg'[v] = rc'[p]
                        /\ Starts(v, "drop", p)' => /\ mem'[p] = "live" /\ rc'[p] = 0
                                                    /\ \A u \in Task : Starts(u, "drop", p)' => v = u
    BY DEF Halved
  <2>2. CASE v = t
    <3>1. Starts(t, "addOne", p)' \/ Starts(t, "subOne", p)' => reg'[t] = rc'[p]
      BY DEF Balanced
    <3>2. ASSUME Starts(t, "drop", p)'
          PROVE  mem'[p] = "live" /\ rc'[p] = 0 /\ \A u \in Task : Starts(u, "drop", p)' => t = u
      <4>1. p = o /\ rc[p] = 1 /\ rc'[p] = 0
        BY <3>2 DEF Balanced
      <4>2. mem[p] = "live" /\ \A u \in Task : ~Starts(u, "drop", p)
        BY <1>3, <4>1
      <4>3. \A u \in Task \ {t} : ~Starts(u, "drop", p)'
        BY <1>4, <4>2 DEF Halves
      <4>4. QED
        BY <4>1, <4>2, <4>3 DEF Balanced
    <3>3. QED
      BY <2>2, <3>1, <3>2
  <2>3. CASE v # t
    <3>1. /\ Starts(v, "addOne", p)' <=> Starts(v, "addOne", p)
          /\ Starts(v, "subOne", p)' <=> Starts(v, "subOne", p)
          /\ \A u \in Task \ {t} : Starts(u, "drop", p)' <=> Starts(u, "drop", p)
      BY <1>4, <2>3 DEF Halves
    <3>2. reg'[v] = reg[v]
      BY <2>3 DEF Balanced
    <3>3. Starts(v, "addOne", p) \/ Starts(v, "subOne", p) => reg'[v] = rc'[p]
      BY <1>3, <2>3, <3>2 DEF Halved
    <3>4. ASSUME Starts(v, "drop", p)
          PROVE  mem'[p] = "live" /\ rc'[p] = 0 /\ \A u \in Task : Starts(u, "drop", p)' => v = u
      <4>1. mem[p] = "live" /\ rc[p] = 0 /\ \A u \in Task : Starts(u, "drop", p) => v = u
        BY <3>4 DEF Halved
      <4>2. rc'[p] = rc[p]
        BY <1>3, <3>4
      <4>3. ~Starts(t, "drop", p)'
        BY <4>1, <4>2 DEF Balanced
      <4>4. QED
        BY <3>1, <4>1, <4>2, <4>3 DEF Balanced
    <3>5. QED
      BY <2>3, <3>1, <3>3, <3>4
  <2>4. QED
    BY <2>2, <2>3
<1>8. QED
  BY <1>6, <1>7

LEMMA BooksStep ==
  ASSUME HeapTypeOK, Shape, Books, NEW t \in Task, NEW n \in 0 .. 2, Turns(t, n), code[t][1].s # "drop",
         Balanced(t), Kept
  PROVE  Books'
<1> DEFINE o == code[t][1].o
<1> USE DEF Books, Shape
<1>0. Null \notin Obj /\ "msg" \in Local /\ "msg" \notin Var /\ Var \subseteq Local /\ Chan \subseteq Obj
  BY HeapSets
<1>1. Counted' /\ Halved'
  BY CountsStep
\* A message has one owner, so nobody else has it.
<1>8. ASSUME NEW m \in Obj \ Chan, rc[m] = 1, InQueues(m) # {} \/ \E v \in Task : local[v]["msg"] = m
      PROVE  rc'[m] = 1
  <2>1. SUFFICES ASSUME rc'[m] # rc[m]  PROVE FALSE
    BY <1>8
  <2>2. m = o /\ rc[m] = Owners(m)
    BY <2>1, ChangeFacts
  <2>3. (\E y \in Var : local[t][y] = m) \/ Starts(t, "subOne", m)
    BY <2>1, <2>2 DEF Balanced
  <2>4. (\E y \in Var : <<t, y>> \in InLocals(m)) \/ t \in InReturn(m)
    BY <1>0, <2>3 DEF InLocals, InReturn, At1
  <2>5. InQueues(m) # {} \/ \E v \in Task : <<v, "msg">> \in InLocals(m)
    BY <1>0, <1>8 DEF InLocals, At1
  <2>6. Owners(m) = 1
    BY <1>8, <2>2
  <2>7. CASE InQueues(m) # {}
    BY <2>4, <2>6, <2>7, SoleOwner
  <2>8. CASE \E v \in Task : <<v, "msg">> \in InLocals(m)
    <3>1. PICK v \in Task : <<v, "msg">> \in InLocals(m)
      BY <2>8
    <3>2. \A y \in Var : <<t, y>> \in InLocals(m) => <<t, y>> = <<v, "msg">>
      BY <2>6, <3>1, SoleOwner
    <3>3. InReturn(m) = {}
      BY <2>6, <3>1, SoleOwner
    <3>4. QED
      BY <1>0, <2>4, <3>2, <3>3
  <2>9. QED
    BY <2>5, <2>7, <2>8
<1>9. Queued'
  <2>1. ASSUME NEW v \in Task, local'[v]["msg"] # Null  PROVE local'[v]["msg"] \notin Chan /\ rc'[local'[v]["msg"]] = 1
    <3>1. local'[v]["msg"] = local[v]["msg"]
      BY <2>1 DEF Kept
    <3>2. local[v]["msg"] \in Obj \ Chan /\ rc[local[v]["msg"]] = 1
      BY <1>0, <2>1, <3>1 DEF Queued, HeapTypeOK
    <3>3. QED
      BY <1>8, <3>1, <3>2
  <2>2. ASSUME NEW c \in Chan, NEW i \in DOMAIN queue[c]  PROVE rc'[queue[c][i]] = 1
    <3>1. queue[c][i] \in Obj \ Chan /\ rc[queue[c][i]] = 1
      BY <2>2 DEF Queued, HeapTypeOK
    <3>2. c \in InQueues(queue[c][i])
      BY <2>2 DEF InQueues
    <3>3. QED
      BY <1>8, <3>1, <3>2
  <2>3. \A c \in Chan : /\ queue[c] # <<>> => mem[c] = "live"
                        /\ \A i, j \in DOMAIN queue[c] : queue[c][i] = queue[c][j] => i = j
    BY DEF Queued
  <2>4. queue' = queue /\ mem' = mem
    BY DEF Balanced, Kept
  <2>5. QED
    BY <2>1, <2>2, <2>3, <2>4 DEF Queued
<1>10. Apart'
  <2>1. \A v \in Task, p \in Obj \ Chan : Has(v, p)' => Has(v, p)
    BY DEF Kept
  <2>2. QED
    BY <2>1 DEF Apart
<1>11. QED
  BY <1>1, <1>9, <1>10

LEMMA OwnersStep ==
  ASSUME HeapTypeOK, Shape, NEW t \in Task, NEW n \in 0 .. 2, Turns(t, n), Stores(t), NEW o \in Obj,
         NEW c, InQueues(o)' \ {c} = InQueues(o) \ {c}, NEW q, q = code[t][1].at
  PROVE  Owners(o)' = Owners(o) + (Bit(local'[q[1]][q[2]] = o) - Bit(local[q[1]][q[2]] = o))
                                + (Bit(c \in InQueues(o)') - Bit(c \in InQueues(o)))
                                + (Bit(Holds(t, o)') - Bit(Holds(t, o)))
                                + (Bit(Starts(t, "subOne", o)') - Bit(Starts(t, "subOne", o)))
<1>1. code \in [Task -> Seq(Stmt)] /\ code[t] # <<>>
  BY DEF HeapTypeOK, Turns, Runs
<1>2. q \in Task \X Local /\ q = <<q[1], q[2]>> /\ q[1] \in Task /\ q[2] \in Local
  BY <1>1, StepsFacts
<1>3. PICK l : l = q
  OBVIOUS
<1>4. InLocals(o)' \ {l} = InLocals(o) \ {l}
  <2>1. ASSUME NEW v \in Task, NEW x \in Local, <<v, x>> # l  PROVE local'[v][x] = local[v][x]
    BY <1>3, <2>1 DEF Stores
  <2>2. \A p \in Task \X Local : p = <<p[1], p[2]>> /\ p[1] \in Task /\ p[2] \in Local
    OBVIOUS
  <2>3. \A p \in Task \X Local : p # l => local'[p[1]][p[2]] = local[p[1]][p[2]]
    BY <2>1, <2>2
  <2>4. QED
    BY <2>3 DEF InLocals, At1
<1>5. /\ l \in InLocals(o)' <=> local'[q[1]][q[2]] = o
      /\ l \in InLocals(o) <=> local[q[1]][q[2]] = o
  BY <1>2, <1>3 DEF InLocals, At1
<1>6. InHands(o)' \ {t} = InHands(o) \ {t}
  BY HoldsStep DEF InHands, Shape
<1>7. /\ t \in InHands(o)' <=> Holds(t, o)'
      /\ t \in InHands(o) <=> Holds(t, o)
  BY DEF InHands
<1>8. InReturn(o)' \ {t} = InReturn(o) \ {t}
  <2>1. \A v \in Task \ {t} : Starts(v, "subOne", o)' <=> Starts(v, "subOne", o)
    BY StartsStep DEF Halves, Shape
  <2>2. QED
    BY <2>1 DEF InReturn
<1>9. /\ t \in InReturn(o)' <=> Starts(t, "subOne", o)'
      /\ t \in InReturn(o) <=> Starts(t, "subOne", o)
  BY DEF InReturn
<1>10. Owners(o)' = Owners(o) + (Bit(l \in InLocals(o)') - Bit(l \in InLocals(o)))
                              + (Bit(c \in InQueues(o)') - Bit(c \in InQueues(o)))
                              + (Bit(t \in InHands(o)') - Bit(t \in InHands(o)))
                              + (Bit(t \in InReturn(o)') - Bit(t \in InReturn(o)))
  <2> HIDE DEF Bit
  <2>1. InQueues(o)' \ {c} = InQueues(o) \ {c}
    OBVIOUS
  <2>2. QED
    BY <1>4, <1>6, <1>8, <2>1, OwnersMove, ZenonT(40)
<1>11. /\ Bit(l \in InLocals(o)') = Bit(local'[q[1]][q[2]] = o)
       /\ Bit(l \in InLocals(o)) = Bit(local[q[1]][q[2]] = o)
       /\ Bit(t \in InHands(o)') = Bit(Holds(t, o)')
       /\ Bit(t \in InHands(o)) = Bit(Holds(t, o))
       /\ Bit(t \in InReturn(o)') = Bit(Starts(t, "subOne", o)')
       /\ Bit(t \in InReturn(o)) = Bit(Starts(t, "subOne", o))
  BY <1>5, <1>7, <1>9 DEF Bit
<1>12. QED
  BY <1>10, <1>11

LEMMA TurnsAdvance ==
  ASSUME HeapTypeOK, NEW t \in Task, code[t] # <<>>, Advance(t), code[t][1].s # "share"
  PROVE  Turns(t, 0)
BY AdvanceRuns DEF HeapTypeOK, Turns

LEMMA TurnsHalf ==
  ASSUME HeapTypeOK, NEW t \in Task, code[t] # <<>>, code[t][1].o \in Obj,
         NEW st \in {AddOne(code[t][1].o), SubOne(code[t][1].o), Drop(code[t][1].o)},
         code' = [code EXCEPT ![t] = <<st>> \o Tail(@)],
         st.s = "addOne" => code[t][1].s = "retain",
         st.s # "addOne" => code[t][1].s \in {"release", "subOne"},
         st.s # "drop" => code[t][1].o \notin Chan
  PROVE  Turns(t, 1) /\ code'[t][1] = st
<1>1. st \in Stmt
  BY NewStatements, HeapSets
<1>2. Runs(t, 1) /\ code'[t][1] = st
  BY <1>1, ReplaceRuns DEF HeapTypeOK
<1>3. 1 \in Steps(t)'
  <2>1. code \in [Task -> Seq(Stmt)]
    BY DEF HeapTypeOK
  <2>2. Steps(t)' = 1 .. Len(code[t]) - 1 + 1
    BY <1>2, <2>1, RunsFacts
  <2>3. Len(code[t]) \in Nat /\ Len(code[t]) # 0
    BY <2>1, StepsFacts
  <2>4. QED
    BY <2>2, <2>3
<1>4. st.o = code[t][1].o /\ st.at = <<Main, "src">> /\ st.s \in Halves
  BY DEF AddOne, SubOne, Drop, St, Halves
<1>5. QED
  BY <1>2, <1>3, <1>4 DEF Turns

\* What the first statement is, when t executes it.
LEMMA FirstFacts ==
  ASSUME HeapTypeOK, Shape, NEW t \in Task, code[t] # <<>>
  PROVE  LET st == code[t][1] IN
         /\ Next1(t) = st /\ 1 \in Steps(t) /\ st.at \in Task \X Local /\ st.at = <<st.at[1], st.at[2]>>
         /\ st.at[1] \in Task /\ st.at[2] \in Local
         /\ st.o \in Obj \cup {Null} /\ (st.o = Null <=> st.s \in {"spawn", "done"})
         /\ PlacedAt(t, 1) /\ AimedAt(t, 1) /\ (st.s \in Needing => Backed(t, 1))
         /\ st.s = "release" => st.at[1] = t /\ local[t][st.at[2]] = st.o
         /\ life[t] = "running"
<1> DEFINE st == code[t][1]
<1> USE DEF Shape
<1>1. /\ Next1(t) = st /\ 1 \in Steps(t) /\ st.at \in Task \X Local /\ st.at = <<st.at[1], st.at[2]>>
      /\ st.at[1] \in Task /\ st.at[2] \in Local /\ st.o \in Obj \cup {Null}
  BY Head1, StepsFacts DEF HeapTypeOK
<1>2. PlacedAt(t, 1) /\ AimedAt(t, 1) /\ (st.s \in Needing => Backed(t, 1)) /\ life[t] = "running"
  BY <1>1 DEF Placed, Aimed, Supported, Is
<1>3. st.o = Null <=> st.s \in {"spawn", "done"}
  BY <1>2 DEF PlacedAt
<1>4. st.s = "release" => st.at[1] = t /\ local[t][st.at[2]] = st.o
  <2>1. SUFFICES ASSUME st.s = "release"  PROVE st.at[1] = t /\ local[t][st.at[2]] = st.o
    OBVIOUS
  <2>2. st.at[1] = t
    BY <1>1, <2>1, WritesWhere DEF Writing
  <2>3. ~Before(t, 1, "assign")
    BY DEF Before
  <2>4. QED
    BY <1>2, <2>1, <2>2, <2>3 DEF AimedAt, At1
<1>5. QED
  BY <1>1, <1>2, <1>3, <1>4

\* Who has a thing changes with the locals and with what t holds.
LEMMA HasStep ==
  ASSUME HeapTypeOK, Shape, NEW t \in Task, NEW n \in 0 .. 2, Turns(t, n), Stores(t), NEW o \in Obj, NEW v \in Task,
         Has(v, o)'
  PROVE  \/ Has(v, o)
         \/ code[t][1].at[1] = v /\ local'[v][code[t][1].at[2]] = o /\ local[v][code[t][1].at[2]] # o
         \/ v = t /\ Holds(t, o)' /\ ~Holds(t, o)
         \/ v = t /\ Starts(t, "subOne", o)' /\ ~Starts(t, "subOne", o)
<1>1. code[t] # <<>>
  BY DEF Turns, Runs
<1>2. CASE v = t
  <2>1. CASE Holds(t, o)' \/ Starts(t, "subOne", o)'
    BY <1>2, <2>1 DEF Has
  <2>2. CASE \E x \in Local : local'[t][x] = o
    <3>1. PICK x \in Local : local'[t][x] = o
      BY <2>2
    <3>2. CASE local'[t][x] = local[t][x]
      BY <1>2, <3>1, <3>2 DEF Has
    <3>3. CASE local'[t][x] # local[t][x]
      BY <1>2, <3>1, <3>3 DEF Stores
    <3>4. QED
      BY <3>2, <3>3
  <2>3. QED
    BY <1>2, <2>1, <2>2 DEF Has
<1>3. CASE v # t
  <2>1. CASE Holds(v, o)'
    BY <1>3, <2>1, HoldsStep DEF Has, Shape
  <2>2. CASE Starts(v, "subOne", o)'
    BY <1>3, <2>2, StartsStep DEF Has, Shape, Halves
  <2>3. CASE \E x \in Local : local'[v][x] = o
    <3>1. PICK x \in Local : local'[v][x] = o
      BY <2>3
    <3>2. CASE local'[v][x] = local[v][x]
      BY <3>1, <3>2 DEF Has
    <3>3. CASE local'[v][x] # local[v][x]
      BY <3>1, <3>3 DEF Stores
    <3>4. QED
      BY <3>2, <3>3
  <2>4. QED
    BY <2>1, <2>2, <2>3 DEF Has
<1>4. QED
  BY <1>2, <1>3

\* A temporary for a message is filled by a detach and by nothing else.
LEMMA MessageStep ==
  ASSUME HeapTypeOK, Shape, NEW t \in Task, code[t] # <<>>, Stores(t), code[t][1].s # "detach", NEW v \in Task
  PROVE  local'[v]["msg"] \in {local[v]["msg"], Null}
<1> DEFINE st == code[t][1]
<1>1. SUFFICES ASSUME local'[v]["msg"] # local[v]["msg"]  PROVE local'[v]["msg"] = Null
  OBVIOUS
<1>2. st.s \in Writing \ {"share"} /\ st.at = <<v, "msg">>
  BY <1>1, HeapSets DEF Stores
<1>3. PlacedAt(t, 1)
  BY FirstFacts
<1>4. st.s = "send"
  BY <1>2, <1>3, HeapSets DEF PlacedAt, Writing
<1>5. QED
  BY <1>2, <1>4 DEF Stores

\* A statement that touches no reference, or loads a count.
LEMMA QuietBooks ==
  ASSUME HeapTypeOK, Shape, Books, NEW t \in Task, NEW n \in 0 .. 2, Turns(t, n), Stores(t),
         code[t][1].s \in {"retain", "share", "close", "spawn", "done", "recv"},
         code[t][1].s = "retain" => n = 1 /\ reg'[t] = rc[code[t][1].o],
         \A v \in Task \ {t} : reg'[v] = reg[v],
         mem' = mem, rc' = rc, queue' = queue, local' = local
  PROVE  Books'
<1> DEFINE st == code[t][1]
<1>0. code[t] # <<>> /\ rc \in [Obj -> Nat]
  BY DEF Turns, Runs, HeapTypeOK
<1>1. n = 1 => code'[t][1].s = "addOne" /\ st.s = "retain"
  BY DEF Turns
<1>2. ASSUME NEW p \in Obj
      PROVE  /\ ~Starts(t, "subOne", p) /\ ~Starts(t, "subOne", p)' /\ ~Starts(t, "drop", p)'
             /\ Starts(t, "addOne", p)' => n = 1 /\ st.o = p
  BY <1>1, StartsStep DEF Halves, Shape
<1>3. ASSUME NEW p \in Obj  PROVE Holds(t, p)' <=> Holds(t, p)
  <2>1. ~(st.s \in Taking /\ n = 0) /\ st.s # "assign"
    BY DEF Taking
  <2>2. QED
    BY <2>1, HoldsStep DEF Shape
<1>4. ASSUME NEW p \in Obj  PROVE Owners(p)' = Owners(p)
  <2>1. InQueues(p)' = InQueues(p)
    BY DEF InQueues
  <2>2. InQueues(p)' \ {Null} = InQueues(p) \ {Null} /\ Bit(Null \in InQueues(p)') = Bit(Null \in InQueues(p))
    BY <2>1
  <2>3. Bit(Holds(t, p)') = Bit(Holds(t, p)) /\ Bit(Starts(t, "subOne", p)') = Bit(Starts(t, "subOne", p))
    BY <1>2, <1>3 DEF Bit
  <2>4. Owners(p) \in Nat /\ \A b : Bit(b) \in Int
    BY OwnersFacts DEF Bit
  <2>5. QED
    BY <2>2, <2>3, <2>4, OwnersStep
<1>5. \A v \in Task, p \in Obj \ Chan : Has(v, p)' => Has(v, p)
  BY <1>2, <1>3, HasStep
<1>6. \A p \in Obj : Owners(p)' - Owners(p) = rc'[p] - rc[p]
  <2>1. \A p \in Obj : Owners(p) \in Nat /\ rc[p] \in Nat
    BY <1>0, OwnersFacts
  <2>2. QED
    BY <1>4, <2>1
<1>7. \A p \in Obj : Starts(t, "addOne", p)' \/ Starts(t, "subOne", p)' => reg'[t] = rc'[p]
  BY <1>1, <1>2
<1>8. Balanced(t) /\ Kept
  BY <1>0, <1>2, <1>5, <1>6, <1>7 DEF Balanced, Kept
<1>9. QED
  BY <1>8, BooksStep

\* A reference is taken: rc++ at once, or its second half.
LEMMA TakeBooks ==
  ASSUME HeapTypeOK, Shape, Books, NEW t \in Task, Turns(t, 0), Stores(t),
         code[t][1].s \in Taking, rc' = [rc EXCEPT ![code[t][1].o] = @ + 1],
         mem' = mem, reg' = reg, queue' = queue, local' = local
  PROVE  Books'
<1> DEFINE st == code[t][1]   o == st.o
<1>0. code[t] # <<>> /\ rc \in [Obj -> Nat]
  BY DEF Turns, Runs, HeapTypeOK
<1>1. o \in Obj /\ Backed(t, 1)
  BY <1>0, FirstFacts DEF Taking, Needing
<1>2. PICK y \in Var : local[t][y] = o
  BY <1>1 DEF Backed
<1>3. y \in Local /\ <<t, y>> \in InLocals(o)
  BY <1>2, HeapSets DEF InLocals, At1
<1>4. ~Ownerless(o) /\ Has(t, o)
  BY <1>2, <1>3 DEF Ownerless, Has
<1>5. ASSUME NEW p \in Obj
      PROVE  /\ ~Starts(t, "subOne", p) /\ ~Starts(t, "subOne", p)' /\ ~Starts(t, "drop", p)' /\ ~Starts(t, "addOne", p)'
             /\ ~Holds(t, p) /\ (Holds(t, p)' <=> p = o)
  <2>1. ~Starts(t, "subOne", p)
    BY DEF Starts, Taking
  <2>2. ~Starts(t, "subOne", p)' /\ ~Starts(t, "drop", p)' /\ ~Starts(t, "addOne", p)'
    BY StartsStep DEF Halves, Shape
  <2>3. ~Holds(t, p) /\ (Holds(t, p)' <=> p = o)
    BY HoldsStep DEF Shape
  <2>4. QED
    BY <2>1, <2>2, <2>3
<1>6. ASSUME NEW p \in Obj  PROVE Owners(p)' - Owners(p) = rc'[p] - rc[p]
  <2>1. InQueues(p)' = InQueues(p)
    BY DEF InQueues
  <2>2. InQueues(p)' \ {Null} = InQueues(p) \ {Null} /\ Bit(Null \in InQueues(p)') = Bit(Null \in InQueues(p))
    BY <2>1
  <2>3. /\ Bit(Holds(t, p)) = 0 /\ Bit(Starts(t, "subOne", p)') = Bit(Starts(t, "subOne", p))
        /\ Bit(Holds(t, p)') = IF p = o THEN 1 ELSE 0
    BY <1>5 DEF Bit
  <2>4. Owners(p) \in Nat /\ \A b : Bit(b) \in Int
    BY OwnersFacts DEF Bit
  <2>5. Owners(p)' = Owners(p) + (IF p = o THEN 1 ELSE 0)
    BY <2>2, <2>3, <2>4, OwnersStep, SMTT(30)
  <2>6. QED
    BY <1>0, <1>1, <2>4, <2>5
<1>7. \A v \in Task, p \in Obj \ Chan : Has(v, p)' => Has(v, p)
  BY <1>4, <1>5, HasStep
<1>8. /\ rc' \in [Obj -> Nat]
      /\ \A p \in Obj : rc'[p] # rc[p] => p = o /\ rc'[p] # 0
  BY <1>0, <1>1
<1>9. Balanced(t) /\ Kept
  BY <1>2, <1>4, <1>5, <1>6, <1>7, <1>8 DEF Balanced, Kept
<1>10. st.s # "drop"
  BY DEF Taking
<1>11. QED
  BY <1>9, <1>10, BooksStep

\* A reference is given back: --rc at once, or its second half.
LEMMA GiveBooks ==
  ASSUME HeapTypeOK, Shape, Books, NEW t \in Task, NEW n \in {0, 1}, Turns(t, n), Stores(t),
         code[t][1].s = "subOne" \/ (code[t][1].s = "release" /\ code[t][1].o \in Chan),
         rc' = [rc EXCEPT ![code[t][1].o] = rc[code[t][1].o] - 1],
         n = 1 => code'[t][1].s = "drop",
         rc[code[t][1].o] = 1 <=> n = 1,
         mem' = mem, reg' = reg, queue' = queue
  PROVE  Books'
<1> DEFINE st == code[t][1]   o == st.o   q == st.at
<1>0. code[t] # <<>> /\ rc \in [Obj -> Nat] /\ st.s # "drop" /\ Null \notin Obj /\ n \in 0 .. 2
  BY HeapSets DEF Turns, Runs, HeapTypeOK
<1>1. o \in Obj /\ q[1] \in Task /\ q[2] \in Local /\ q = <<q[1], q[2]>>
  BY <1>0, FirstFacts, Zenon
<1>2. st.s = "release" => /\ q[1] = t /\ local[q[1]][q[2]] = o /\ local'[q[1]][q[2]] = Null
                          /\ \A p \in Obj : ~Starts(t, "subOne", p)
  BY <1>0, FirstFacts DEF Stores, Starts
<1>3. st.s = "subOne" => /\ local' = local
                         /\ \A p \in Obj : Starts(t, "subOne", p) <=> p = o
  BY <1>0 DEF Stores, Writing, Starts, HeapTypeOK
<1>4. ~Ownerless(o)
  <2>1. CASE st.s = "release"
    <3>1. q \in InLocals(o)
      BY <1>1, <1>2, <2>1 DEF InLocals, At1
    <3>2. QED
      BY <3>1, Zenon DEF Ownerless
  <2>2. CASE st.s = "subOne"
    <3>1. t \in InReturn(o)
      BY <1>1, <1>3, <2>2 DEF InReturn
    <3>2. QED
      BY <3>1 DEF Ownerless
  <2>3. QED
    BY <2>1, <2>2
<1>5. rc[o] \in Nat \ {0}
  BY <1>1, <1>4, Owned DEF Books
<1>6. ASSUME NEW p \in Obj
      PROVE  /\ ~Starts(t, "subOne", p)' /\ ~Starts(t, "addOne", p)'
             /\ Starts(t, "drop", p)' <=> n = 1 /\ p = o
             /\ Holds(t, p)' <=> Holds(t, p)
  <2>1. /\ ~Starts(t, "subOne", p)' /\ ~Starts(t, "addOne", p)'
        /\ Starts(t, "drop", p)' <=> n = 1 /\ p = o
    BY <1>0, StartsStep DEF Halves, Shape
  <2>2. Holds(t, p)' <=> Holds(t, p)
    BY <1>0, HoldsStep DEF Shape, Taking
  <2>3. QED
    BY <2>1, <2>2
<1>7. ASSUME NEW p \in Obj  PROVE Owners(p)' - Owners(p) = rc'[p] - rc[p]
  <2>1. InQueues(p)' = InQueues(p)
    BY DEF InQueues
  <2>2. InQueues(p)' \ {Null} = InQueues(p) \ {Null} /\ Bit(Null \in InQueues(p)') - Bit(Null \in InQueues(p)) = 0
    BY <2>1 DEF Bit
  <2>3. Bit(Holds(t, p)') - Bit(Holds(t, p)) = 0
    BY <1>6, SMTT(30) DEF Bit
  <2>4. /\ Bit(local'[q[1]][q[2]] = p) - Bit(local[q[1]][q[2]] = p)
           = IF st.s = "release" /\ p = o THEN -1 ELSE 0
        /\ Bit(Starts(t, "subOne", p)') - Bit(Starts(t, "subOne", p)) = IF st.s = "subOne" /\ p = o THEN -1 ELSE 0
    <3>1. CASE st.s = "release"
      BY <1>0, <1>1, <1>2, <1>6, <3>1 DEF Bit
    <3>2. CASE st.s = "subOne"
      BY <1>0, <1>1, <1>3, <1>6, <3>2 DEF Bit
    <3>3. QED
      BY <3>1, <3>2, Zenon
  <2>5. Owners(p) \in Nat
    BY OwnersFacts
  <2>6. Owners(p)' = Owners(p) + (Bit(local'[q[1]][q[2]] = p) - Bit(local[q[1]][q[2]] = p))
                               + (Bit(Null \in InQueues(p)') - Bit(Null \in InQueues(p)))
                               + (Bit(Holds(t, p)') - Bit(Holds(t, p)))
                               + (Bit(Starts(t, "subOne", p)') - Bit(Starts(t, "subOne", p)))
    BY <1>0, <2>2, OwnersStep
  <2>7. Owners(p)' = Owners(p) - (IF p = o THEN 1 ELSE 0)
    <3> DEFINE dl == Bit(local'[q[1]][q[2]] = p) - Bit(local[q[1]][q[2]] = p)
               dr == Bit(Starts(t, "subOne", p)') - Bit(Starts(t, "subOne", p))
    <3>1. /\ dl = IF st.s = "release" /\ p = o THEN -1 ELSE 0
          /\ dr = IF st.s = "subOne" /\ p = o THEN -1 ELSE 0
      BY <2>4, Zenon
    <3>2. Owners(p)' = Owners(p) + dl + 0 + 0 + dr
      BY <2>2, <2>3, <2>6
    <3> HIDE DEF dl, dr
    <3>3. dl + dr = IF p = o THEN -1 ELSE 0
      BY <3>1
    <3>4. dl \in Int /\ dr \in Int
      BY <3>1
    <3>5. QED
      BY <2>5, <3>2, <3>3, <3>4
  <2>8. rc'[p] = IF p = o THEN rc[p] - 1 ELSE rc[p]
    BY <1>0
  <2>9. rc[p] \in Nat
    BY <1>0, Zenon
  <2>10. QED
    BY <2>5, <2>7, <2>8, <2>9
<1>8. \A v \in Task, p \in Obj \ Chan : Has(v, p)' => Has(v, p)
  <2>1. SUFFICES ASSUME NEW v \in Task, NEW p \in Obj \ Chan, Has(v, p)'  PROVE Has(v, p)
    OBVIOUS
  <2>2. local'[v][q[2]] = p => local[v][q[2]] = p \/ q[1] # v
    BY <1>0, <1>2, <1>3
  <2>3. QED
    BY <1>0, <1>6, <2>1, <2>2, HasStep
<1>9. /\ rc' \in [Obj -> Nat]
      /\ \A p \in Obj : rc'[p] # rc[p] => p = o
      /\ rc'[o] = rc[o] - 1
  BY <1>0, <1>1, <1>5
<1>10. /\ \A p \in Obj : Starts(t, "drop", p)' => p = o /\ rc[o] = 1 /\ rc'[o] = 0
       /\ \A p \in Obj : rc'[p] # rc[p] => (rc'[p] = 0 => Starts(t, "drop", p)')
  BY <1>5, <1>6, <1>9
<1>11. \A p \in Obj : rc'[p] # rc[p] =>
          p \in Chan \/ Starts(t, "subOne", p)
  BY <1>3, <1>9, Zenon
<1>12. Balanced(t) /\ Kept
  BY <1>4, <1>6, <1>7, <1>8, <1>9, <1>10, <1>11, <1>0, MessageStep DEF Balanced, Kept
<1>13. QED
  BY <1>0, <1>12, BooksStep

\* A plain count is loaded, to be stored with one less.
LEMMA ReleaseBooks ==
  ASSUME HeapTypeOK, Shape, Books, NEW t \in Task, Turns(t, 1), Stores(t),
         code[t][1].s = "release", code'[t][1].s = "subOne",
         reg'[t] = rc[code[t][1].o], \A v \in Task \ {t} : reg'[v] = reg[v],
         mem' = mem, rc' = rc, queue' = queue
  PROVE  Books'
<1> DEFINE st == code[t][1]   o == st.o   q == st.at
<1>0. code[t] # <<>> /\ rc \in [Obj -> Nat] /\ st.s # "drop" /\ Null \notin Obj
  BY HeapSets DEF Turns, Runs, HeapTypeOK
<1>1. o \in Obj /\ q[1] \in Task /\ q[2] \in Local /\ q = <<q[1], q[2]>>
  BY <1>0, FirstFacts, Zenon
<1>2. q[1] = t /\ local[q[1]][q[2]] = o /\ local'[q[1]][q[2]] = Null
  BY <1>0, FirstFacts DEF Stores
<1>3. ASSUME NEW p \in Obj
      PROVE  /\ Starts(t, "subOne", p)' <=> p = o
             /\ ~Starts(t, "subOne", p) /\ ~Starts(t, "addOne", p)' /\ ~Starts(t, "drop", p)'
             /\ Holds(t, p)' <=> Holds(t, p)
  <2>1. /\ Starts(t, "subOne", p)' <=> p = o
        /\ ~Starts(t, "subOne", p) /\ ~Starts(t, "addOne", p)' /\ ~Starts(t, "drop", p)'
    BY StartsStep DEF Halves, Shape
  <2>2. Holds(t, p)' <=> Holds(t, p)
    BY HoldsStep DEF Shape, Taking
  <2>3. QED
    BY <2>1, <2>2
<1>4. ASSUME NEW p \in Obj  PROVE Owners(p)' - Owners(p) = rc'[p] - rc[p]
  <2> DEFINE dl == Bit(local'[q[1]][q[2]] = p) - Bit(local[q[1]][q[2]] = p)
             dr == Bit(Starts(t, "subOne", p)') - Bit(Starts(t, "subOne", p))
  <2>1. InQueues(p)' = InQueues(p)
    BY DEF InQueues
  <2>2. InQueues(p)' \ {Null} = InQueues(p) \ {Null} /\ Bit(Null \in InQueues(p)') - Bit(Null \in InQueues(p)) = 0
    BY <2>1 DEF Bit
  <2>3. Bit(Holds(t, p)') - Bit(Holds(t, p)) = 0
    BY <1>3 DEF Bit
  <2>4. dl = IF p = o THEN -1 ELSE 0
    BY <1>0, <1>1, <1>2 DEF Bit
  <2>5. dr = IF p = o THEN 1 ELSE 0
    BY <1>3 DEF Bit
  <2>6. Owners(p)' = Owners(p) + (Bit(local'[q[1]][q[2]] = p) - Bit(local[q[1]][q[2]] = p))
                               + (Bit(Null \in InQueues(p)') - Bit(Null \in InQueues(p)))
                               + (Bit(Holds(t, p)') - Bit(Holds(t, p)))
                               + (Bit(Starts(t, "subOne", p)') - Bit(Starts(t, "subOne", p)))
    BY <1>0, <2>2, OwnersStep, SMTT(30)
  <2>7. Owners(p)' = Owners(p) + dl + 0 + 0 + dr
    BY <2>2, <2>3, <2>6
  <2>8. Owners(p) \in Nat /\ rc[p] \in Nat
    BY <1>0, OwnersFacts, Zenon
  <2> HIDE DEF dl, dr
  <2>9. QED
    BY <2>4, <2>5, <2>7, <2>8
<1>5. \A v \in Task, p \in Obj \ Chan : Has(v, p)' => Has(v, p)
  <2>1. SUFFICES ASSUME NEW v \in Task, NEW p \in Obj \ Chan, Has(v, p)'  PROVE Has(v, p)
    OBVIOUS
  <2>2. local'[v][q[2]] = p => local[v][q[2]] = p \/ q[1] # v
    BY <1>0, <1>2
  <2>3. Has(t, o)
    BY <1>1, <1>2 DEF Has
  <2>4. QED
    BY <1>0, <1>3, <2>1, <2>2, <2>3, HasStep
<1>6. Balanced(t) /\ Kept
  BY <1>0, <1>3, <1>4, <1>5, MessageStep DEF Balanced, Kept
<1>7. QED
  BY <1>0, <1>6, BooksStep

\* The reference that was taken is stored.
LEMMA AssignBooks ==
  ASSUME HeapTypeOK, Shape, Books, NEW t \in Task, Turns(t, 0), Stores(t),
         code[t][1].s = "assign", mem' = mem, rc' = rc, reg' = reg, queue' = queue
  PROVE  Books'
<1> DEFINE st == code[t][1]   o == st.o   q == st.at
<1>0. code[t] # <<>> /\ rc \in [Obj -> Nat] /\ st.s # "drop" /\ Null \notin Obj
  BY HeapSets DEF Turns, Runs, HeapTypeOK
<1>1. o \in Obj /\ q[1] \in Task /\ q[2] \in Local /\ q = <<q[1], q[2]>> /\ 1 \in Steps(t)
  BY <1>0, FirstFacts
<1>2. local[q[1]][q[2]] = Null /\ local'[q[1]][q[2]] = o /\ (q[1] = t \/ o \in Chan)
  <2>1. ~Before(t, 1, "release")
    BY SMTT(30) DEF Before
  <2>2. local[q[1]][q[2]] = Null
    BY <1>0, <2>1, FirstFacts DEF AimedAt, At1
  <2>3. q[1] = t \/ o \in Chan
    BY <1>1, WritesWhere DEF Writing, Shape
  <2>4. QED
    BY <2>2, <2>3 DEF Stores
<1>3. ASSUME NEW p \in Obj
      PROVE  /\ ~Starts(t, "subOne", p) /\ ~Starts(t, "subOne", p)' /\ ~Starts(t, "addOne", p)' /\ ~Starts(t, "drop", p)'
             /\ ~Holds(t, p)' /\ (Holds(t, p) <=> p = o)
  <2>1. ~Starts(t, "subOne", p) /\ ~Starts(t, "subOne", p)' /\ ~Starts(t, "addOne", p)' /\ ~Starts(t, "drop", p)'
    BY StartsStep DEF Halves, Shape
  <2>2. ~Holds(t, p)' /\ (Holds(t, p) <=> p = o)
    BY HoldsStep DEF Shape
  <2>3. QED
    BY <2>1, <2>2
<1>4. ASSUME NEW p \in Obj  PROVE Owners(p)' - Owners(p) = rc'[p] - rc[p]
  <2> DEFINE dl == Bit(local'[q[1]][q[2]] = p) - Bit(local[q[1]][q[2]] = p)
             dh == Bit(Holds(t, p)') - Bit(Holds(t, p))
  <2>1. InQueues(p)' = InQueues(p)
    BY DEF InQueues
  <2>2. InQueues(p)' \ {Null} = InQueues(p) \ {Null} /\ Bit(Null \in InQueues(p)') - Bit(Null \in InQueues(p)) = 0
    BY <2>1 DEF Bit
  <2>3. Bit(Starts(t, "subOne", p)') - Bit(Starts(t, "subOne", p)) = 0
    BY <1>3 DEF Bit
  <2>4. dl = IF p = o THEN 1 ELSE 0
    BY <1>0, <1>1, <1>2 DEF Bit
  <2>5. dh = IF p = o THEN -1 ELSE 0
    BY <1>3 DEF Bit
  <2>6. Owners(p)' = Owners(p) + (Bit(local'[q[1]][q[2]] = p) - Bit(local[q[1]][q[2]] = p))
                               + (Bit(Null \in InQueues(p)') - Bit(Null \in InQueues(p)))
                               + (Bit(Holds(t, p)') - Bit(Holds(t, p)))
                               + (Bit(Starts(t, "subOne", p)') - Bit(Starts(t, "subOne", p)))
    BY <1>0, <2>2, OwnersStep, SMTT(30)
  <2>7. Owners(p)' = Owners(p) + dl + 0 + dh + 0
    BY <2>2, <2>3, <2>6
  <2>8. Owners(p) \in Nat /\ rc[p] \in Nat
    BY <1>0, OwnersFacts
  <2> HIDE DEF dl, dh
  <2>9. QED
    BY <2>4, <2>5, <2>7, <2>8
<1>5. \A v \in Task, p \in Obj \ Chan : Has(v, p)' => Has(v, p)
  <2>1. SUFFICES ASSUME NEW v \in Task, NEW p \in Obj \ Chan, Has(v, p)'  PROVE Has(v, p)
    OBVIOUS
  <2>2. Has(t, o)
    BY <1>1, <1>3 DEF Has
  <2>3. \/ Has(v, p)
        \/ q[1] = v /\ local'[v][q[2]] = p
        \/ v = t /\ Holds(t, p)'
        \/ v = t /\ Starts(t, "subOne", p)'
    BY <2>1, HasStep
  <2>4. CASE q[1] = v /\ local'[v][q[2]] = p
    BY <1>2, <2>1, <2>2, <2>4
  <2>5. QED
    BY <1>3, <2>1, <2>3, <2>4
<1>6. Balanced(t) /\ Kept
  BY <1>0, <1>3, <1>4, <1>5, MessageStep DEF Balanced, Kept
<1>7. QED
  BY <1>0, <1>6, BooksStep

\* A fresh object p is stored in the local q, which was empty.
Creates(p, q) ==
  /\ mem[p] = "none" /\ local[q[1]][q[2]] = Null
  /\ mem' = [mem EXCEPT ![p] = "live"] /\ rc' = [rc EXCEPT ![p] = 1]
  /\ local' \in [Task -> [Local -> Obj \cup {Null}]] /\ local'[q[1]][q[2]] = p
  /\ \A v \in Task, x \in Local : <<v, x>> # q => local'[v][x] = local[v][x]
  /\ queue' = queue /\ reg' = reg
  /\ \A v \in Task, o \in Obj : Holds(v, o)' <=> Holds(v, o)
  /\ \A v \in Task, o \in Obj, s \in Halves : Starts(v, s, o)' <=> Starts(v, s, o)
  /\ q[2] = "msg" => p \notin Chan

LEMMA CreateBooks ==
  ASSUME HeapTypeOK, Shape, Books, NEW p \in Obj, NEW q \in Task \X Local, Creates(p, q)
  PROVE  Books'
<1> USE DEF Books, Shape
<1>0. /\ mem \in [Obj -> {"none", "live", "freed"}] /\ rc \in [Obj -> Nat] /\ Null \notin Obj
      /\ mem[p] = "none" /\ local[q[1]][q[2]] = Null /\ local'[q[1]][q[2]] = p
      /\ q[1] \in Task /\ q[2] \in Local /\ q = <<q[1], q[2]>>
  BY HeapSets DEF HeapTypeOK, Creates
<1>1. Ownerless(p)
  BY <1>0 DEF Counted
<1>2. \A o \in Obj : o # p => mem'[o] = mem[o] /\ rc'[o] = rc[o]
  BY <1>0 DEF Creates
<1>3. mem'[p] = "live" /\ rc'[p] = 1
  BY <1>0 DEF Creates
<1>4. ASSUME NEW o \in Obj
      PROVE  InQueues(o)' = InQueues(o) /\ InHands(o)' = InHands(o) /\ InReturn(o)' = InReturn(o)
  <2>1. InQueues(o)' = InQueues(o)
    BY DEF InQueues, Creates
  <2>2. InHands(o)' = InHands(o)
    BY DEF InHands, Creates
  <2>3. InReturn(o)' = InReturn(o)
    BY DEF InReturn, Creates, Halves
  <2>4. QED
    BY <2>1, <2>2, <2>3
<1>5. \A v \in Task, x \in Local : <<v, x>> # q => local'[v][x] = local[v][x]
  BY DEF Creates
<1>6. \A r \in Task \X Local : r = <<r[1], r[2]>> /\ r[1] \in Task /\ r[2] \in Local
  OBVIOUS
<1>7. \A r \in Task \X Local : r # q => local'[r[1]][r[2]] = local[r[1]][r[2]]
  BY <1>5, <1>6
<1>8. \A o \in Obj : o # p => InLocals(o)' = InLocals(o)
  BY <1>0, <1>7 DEF InLocals, At1
<1>9. InLocals(p)' = {q}
  BY <1>0, <1>1, <1>7 DEF InLocals, At1, Ownerless
<1>10. ASSUME NEW o \in Obj, o # p
       PROVE  Owners(o)' = Owners(o) /\ (Ownerless(o)' <=> Ownerless(o))
  BY <1>4, <1>8, <1>10 DEF Owners, Ownerless
<1>11. Owners(p)' = 1
  <2>1. InQueues(p)' = {} /\ InHands(p)' = {} /\ InReturn(p)' = {}
    BY <1>1, <1>4 DEF Ownerless
  <2>2. Cardinality({}) = 0 /\ Cardinality({q}) = 1
    BY FS_EmptySet, FS_Singleton
  <2>3. QED
    BY <1>9, <2>1, <2>2 DEF Owners
<1>12. \A v \in Task : ~Starts(v, "addOne", p) /\ ~Starts(v, "subOne", p) /\ ~Starts(v, "drop", p)
  BY <1>0, <1>1, HalfHas DEF Halved
<1>13. \A v \in Task, o \in Obj : /\ Starts(v, "addOne", o)' <=> Starts(v, "addOne", o)
                                  /\ Starts(v, "subOne", o)' <=> Starts(v, "subOne", o)
                                  /\ Starts(v, "drop", o)' <=> Starts(v, "drop", o)
  BY DEF Creates, Halves
<1>14. Counted'
  <2>1. SUFFICES ASSUME NEW o \in Obj
                 PROVE  /\ mem'[o] = "live" => /\ rc'[o] = Owners(o)'
                                               /\ rc'[o] = 0 => \E v \in Task : Starts(v, "drop", o)'
                        /\ mem'[o] # "live" => Ownerless(o)'
    BY DEF Counted
  <2>2. CASE o = p
    BY <1>3, <1>11, <2>2
  <2>3. CASE o # p
    BY <1>2, <1>10, <1>13, <2>3 DEF Counted
  <2>4. QED
    BY <2>2, <2>3
<1>15. Halved'
  <2>1. SUFFICES ASSUME NEW v \in Task, NEW o \in Obj
                 PROVE  /\ Starts(v, "addOne", o)' \/ Starts(v, "subOne", o)' => reg'[v] = rc'[o]
                        /\ Starts(v, "drop", o)' => /\ mem'[o] = "live" /\ rc'[o] = 0
                                                    /\ \A u \in Task : Starts(u, "drop", o)' => v = u
    BY DEF Halved
  <2>2. CASE o = p
    BY <1>12, <1>13, <2>2
  <2>3. CASE o # p
    BY <1>2, <1>13, <2>3 DEF Halved, Creates
  <2>4. QED
    BY <2>2, <2>3
<1>16. Queued'
  <2>1. ASSUME NEW v \in Task, local'[v]["msg"] # Null  PROVE local'[v]["msg"] \notin Chan /\ rc'[local'[v]["msg"]] = 1
    <3>1. CASE <<v, "msg">> = q
      <4>1. q[1] = v /\ q[2] = "msg"
        BY <3>1
      <4>2. QED
        BY <1>0, <1>3, <4>1 DEF Creates
    <3>2. CASE <<v, "msg">> # q
      <4>1. local'[v]["msg"] = local[v]["msg"] /\ local[v]["msg"] \in Obj
        BY <1>5, <2>1, <3>2, HeapSets DEF HeapTypeOK
      <4>2. local[v]["msg"] # p
        BY <1>0, <1>9, <2>1, <3>2, <4>1, HeapSets DEF InLocals, At1
      <4>3. QED
        BY <1>2, <2>1, <4>1, <4>2 DEF Queued
    <3>3. QED
      BY <3>1, <3>2
  <2>2. ASSUME NEW c \in Chan, NEW i \in DOMAIN queue[c]  PROVE rc'[queue[c][i]] = 1
    <3>1. queue[c][i] \in Obj /\ rc[queue[c][i]] = 1
      BY <2>2 DEF Queued, HeapTypeOK
    <3>2. queue[c][i] # p
      BY <1>1 DEF Ownerless, InQueues
    <3>3. QED
      BY <1>2, <3>1, <3>2
  <2>3. ASSUME NEW c \in Chan, queue[c] # <<>>  PROVE mem'[c] = "live"
    <3>1. mem[c] = "live" /\ c \in Obj
      BY <2>3, HeapSets DEF Queued
    <3>2. QED
      BY <1>0, <1>2, <3>1
  <2>4. \A c \in Chan : \A i, j \in DOMAIN queue[c] : queue[c][i] = queue[c][j] => i = j
    BY DEF Queued
  <2>5. queue' = queue
    BY DEF Creates
  <2>6. QED
    BY <2>1, <2>2, <2>3, <2>4, <2>5 DEF Queued
<1>17. Apart'
  <2>1. ASSUME NEW v \in Task, NEW o \in Obj, o # p, Has(v, o)'  PROVE Has(v, o)
    <3>1. \A x \in Local : local'[v][x] = o => local[v][x] = o
      BY <1>0, <1>5, <2>1
    <3>2. QED
      BY <1>13, <2>1, <3>1 DEF Has, Creates
  <2>2. ASSUME NEW v \in Task, Has(v, p)'  PROVE v = q[1]
    <3>1. ~Holds(v, p)' /\ ~Starts(v, "subOne", p)'
      BY <1>1, <1>12, <1>13 DEF Ownerless, InHands, Creates
    <3>2. PICK x \in Local : local'[v][x] = p
      BY <2>2, <3>1 DEF Has
    <3>3. <<v, x>> = q
      BY <1>9, <3>2 DEF InLocals, At1
    <3>4. QED
      BY <3>3
  <2>3. QED
    BY <2>1, <2>2 DEF Apart
<1>18. QED
  BY <1>14, <1>15, <1>16, <1>17

\* The objects in gone are freed, and nobody has them any more.
Frees(gone) ==
  /\ gone \subseteq Obj
  /\ mem' = [p \in Obj |-> IF p \in gone THEN "freed" ELSE mem[p]]
  /\ rc' = rc /\ reg' = reg
  /\ \A c \in Chan : queue'[c] = <<>> \/ (queue'[c] = queue[c] /\ c \notin gone)
  /\ \A p \in Obj : IF p \in gone THEN Ownerless(p)' ELSE Owners(p)' = Owners(p)
  /\ \A v \in Task, p \in Obj, s \in Halves :
       IF p \in gone THEN ~Starts(v, s, p)' ELSE Starts(v, s, p)' <=> Starts(v, s, p)
  /\ \A v \in Task, p \in Obj \ Chan : Has(v, p)' => Has(v, p)
  /\ \A v \in Task : local'[v]["msg"] \in {local[v]["msg"], Null}

LEMMA FreeBooks ==
  ASSUME HeapTypeOK, Books, NEW gone, Frees(gone)
  PROVE  Books'
<1> USE DEF Books
<1>1. \A p \in Obj : mem'[p] = IF p \in gone THEN "freed" ELSE mem[p]
  BY DEF Frees
<1>2. rc' = rc /\ reg' = reg
  BY DEF Frees
<1>3. \A v \in Task, p \in Obj : p \notin gone =>
         /\ Starts(v, "addOne", p)' <=> Starts(v, "addOne", p)
         /\ Starts(v, "subOne", p)' <=> Starts(v, "subOne", p)
         /\ Starts(v, "drop", p)' <=> Starts(v, "drop", p)
  BY DEF Frees, Halves
<1>4. \A v \in Task, p \in gone : ~Starts(v, "addOne", p)' /\ ~Starts(v, "subOne", p)' /\ ~Starts(v, "drop", p)'
  BY DEF Frees, Halves
<1>5. Counted'
  <2>1. SUFFICES ASSUME NEW p \in Obj
                 PROVE  /\ mem'[p] = "live" => /\ rc'[p] = Owners(p)'
                                               /\ rc'[p] = 0 => \E v \in Task : Starts(v, "drop", p)'
                        /\ mem'[p] # "live" => Ownerless(p)'
    BY DEF Counted
  <2>2. CASE p \in gone
    BY <1>1, <2>2 DEF Frees
  <2>3. CASE p \notin gone
    <3>1. Owners(p)' = Owners(p) /\ mem'[p] = mem[p]
      BY <1>1, <2>3 DEF Frees
    <3>2. mem[p] = "live" => rc[p] = Owners(p) /\ (rc[p] = 0 => \E v \in Task : Starts(v, "drop", p))
      BY DEF Counted
    <3>3. mem[p] # "live" => Ownerless(p)'
      BY <3>1, OwnersFacts DEF Counted
    <3>4. QED
      BY <1>2, <1>3, <2>3, <3>1, <3>2, <3>3
  <2>4. QED
    BY <2>2, <2>3
<1>6. Halved'
  <2>1. SUFFICES ASSUME NEW v \in Task, NEW p \in Obj
                 PROVE  /\ Starts(v, "addOne", p)' \/ Starts(v, "subOne", p)' => reg'[v] = rc'[p]
                        /\ Starts(v, "drop", p)' => /\ mem'[p] = "live" /\ rc'[p] = 0
                                                    /\ \A u \in Task : Starts(u, "drop", p)' => v = u
    BY DEF Halved
  <2>2. CASE p \in gone
    BY <1>4, <2>2
  <2>3. CASE p \notin gone
    BY <1>1, <1>2, <1>3, <2>3 DEF Halved
  <2>4. QED
    BY <2>2, <2>3
<1>7. Queued'
  <2>1. ASSUME NEW v \in Task, local'[v]["msg"] # Null  PROVE local'[v]["msg"] \notin Chan /\ rc'[local'[v]["msg"]] = 1
    BY <1>2, <2>1 DEF Frees, Queued
  <2>2. ASSUME NEW c \in Chan
        PROVE  /\ queue'[c] # <<>> => mem'[c] = "live"
               /\ \A i, j \in DOMAIN queue'[c] : queue'[c][i] = queue'[c][j] => i = j
               /\ \A i \in DOMAIN queue'[c] : rc'[queue'[c][i]] = 1
    <3>1. CASE queue'[c] = <<>>
      BY <3>1
    <3>2. CASE queue'[c] = queue[c] /\ c \notin gone
      BY <1>1, <1>2, <3>2, HeapSets DEF Queued
    <3>3. QED
      BY <3>1, <3>2 DEF Frees
  <2>3. QED
    BY <2>1, <2>2 DEF Queued
<1>8. Apart'
  <2>1. \A v \in Task, p \in Obj \ Chan : Has(v, p)' => Has(v, p)
    BY DEF Frees
  <2>2. QED
    BY <2>1 DEF Apart
<1>9. QED
  BY <1>5, <1>6, <1>7, <1>8

LEMMA HasOwner ==
  ASSUME NEW v \in Task, NEW o \in Obj, Has(v, o)
  PROVE  InLocals(o) # {} \/ InHands(o) # {} \/ InReturn(o) # {}
<1>1. CASE Holds(v, o)
  BY <1>1 DEF InHands
<1>2. CASE Starts(v, "subOne", o)
  BY <1>2 DEF InReturn
<1>3. CASE \E x \in Local : local[v][x] = o
  <2>1. PICK x \in Local : local[v][x] = o
    BY <1>3
  <2>2. <<v, x>> \in InLocals(o)
    BY <2>1 DEF InLocals, At1
  <2>3. QED
    BY <2>2
<1>4. QED
  BY <1>1, <1>2, <1>3 DEF Has

\* A message that waits in a queue has no other owner.
LEMMA MessageOwner ==
  ASSUME HeapTypeOK, Shape, Books, NEW c \in Chan, NEW i \in DOMAIN queue[c], NEW m, m = queue[c][i]
  PROVE  /\ m \in Obj \ Chan /\ mem[m] = "live" /\ rc[m] = 1 /\ Owners(m) = 1 /\ InQueues(m) = {c}
         /\ \A v \in Task : ~Has(v, m)
         /\ \A v \in Task, s \in Halves : ~Starts(v, s, m)
<1> USE DEF Books, Shape
<1>1. m \in Obj \ Chan /\ rc[m] = 1
  BY DEF Queued, HeapTypeOK
<1>2. c \in InQueues(m)
  BY DEF InQueues
<1>3. mem[m] = "live" /\ Owners(m) = 1 /\ \A v \in Task : ~Starts(v, "drop", m)
  BY <1>1, <1>2, Owned DEF Ownerless
<1>4. InQueues(m) = {c} /\ InLocals(m) = {} /\ InHands(m) = {} /\ InReturn(m) = {}
  <2>1. \A d, e \in InQueues(m) : d = e
    BY <1>1, <1>3, SoleOwner
  <2>2. InLocals(m) = {} /\ InHands(m) = {} /\ InReturn(m) = {}
    BY <1>1, <1>2, <1>3, SoleOwner
  <2>3. QED
    BY <1>2, <2>1, <2>2
<1>5. \A v \in Task : ~Has(v, m)
  BY <1>1, <1>4, HasOwner
<1>6. \A v \in Task : ~Starts(v, "addOne", m) /\ ~Starts(v, "subOne", m)
  BY <1>1, <1>5, HalfHas
<1>7. QED
  BY <1>1, <1>3, <1>4, <1>5, <1>6 DEF Halves

LEMMA DropBooks ==
  ASSUME HeapTypeOK, Shape, Books, NEW t \in Task, DoDrop(t), Stores(t)
  PROVE  Books'
<1> DEFINE st == code[t][1]   o == st.o
           left == IF o \in Chan THEN Undelivered(o) ELSE {}
           gone == {o} \cup left
<1> USE DEF Books, Shape
<1>0. code[t] # <<>> /\ Next1(t) = st /\ st.s = "drop" /\ o \in Obj /\ Turns(t, 0)
  <2>1. code[t] # <<>>
    BY DEF DoDrop, At
  <2>2. Next1(t) = st /\ o \in Obj \cup {Null} /\ (o = Null <=> st.s \in {"spawn", "done"})
    BY <2>1, FirstFacts
  <2>3. st.s = "drop"
    BY <2>2 DEF DoDrop, At
  <2>4. QED
    BY <2>1, <2>2, <2>3, TurnsAdvance DEF DoDrop
<1>1. /\ mem' = [p \in Obj |-> IF p \in gone THEN "freed" ELSE mem[p]]
      /\ queue' = [c \in Chan |-> IF c = o THEN <<>> ELSE queue[c]]
      /\ rc' = rc /\ reg' = reg /\ local' = local
  BY <1>0 DEF DoDrop
<1>2. Starts(t, "drop", o)
  BY <1>0 DEF Starts
<1>3. mem[o] = "live" /\ rc[o] = 0 /\ Owners(o) = 0 /\ Ownerless(o) /\ \A u \in Task : Starts(u, "drop", o) => t = u
  <2>1. mem[o] = "live" /\ rc[o] = 0 /\ \A u \in Task : Starts(u, "drop", o) => t = u
    BY <1>0, <1>2 DEF Halved
  <2>2. QED
    BY <1>0, <2>1, OwnersFacts DEF Counted
<1>4. ASSUME NEW m \in left
      PROVE  /\ o \in Chan /\ o \in InQueues(m) /\ m \in Obj \ Chan /\ Owners(m) = 1
             /\ \A v \in Task, s \in Halves : ~Starts(v, s, m)
  <2>1. o \in Chan
    BY <1>4
  <2>2. PICK i \in DOMAIN queue[o] : queue[o][i] = m
    <3>1. m \in ToSet(queue[o])
      BY <1>4, <2>1 DEF Undelivered
    <3>2. QED
      BY <3>1 DEF ToSet
  <2>3. PICK c \in Chan : c = o
    BY <2>1
  <2>4. i \in DOMAIN queue[c] /\ m = queue[c][i]
    BY <2>2, <2>3
  <2>5. /\ m \in Obj \ Chan /\ Owners(m) = 1 /\ InQueues(m) = {c}
        /\ \A v \in Task, s \in Halves : ~Starts(v, s, m)
    <3> HIDE DEF left, o
    <3>1. QED
      BY <2>4, MessageOwner
  <2>6. QED
    BY <2>1, <2>3, <2>5
<1>5. ASSUME NEW p \in Obj
      PROVE  /\ o \notin InQueues(p)' /\ InQueues(p)' \ {o} = InQueues(p) \ {o}
             /\ o \in InQueues(p) <=> p \in left
  <2>1. o \notin InQueues(p)' /\ InQueues(p)' \ {o} = InQueues(p) \ {o}
    BY <1>1 DEF InQueues
  <2>2. o \in InQueues(p) => p \in left
    BY DEF InQueues, Undelivered, ToSet
  <2>3. QED
    BY <1>4, <2>1, <2>2
<1>6. ASSUME NEW p \in Obj
      PROVE  /\ Holds(t, p)' <=> Holds(t, p)
             /\ ~Starts(t, "subOne", p)' /\ ~Starts(t, "addOne", p)' /\ ~Starts(t, "drop", p)'
             /\ ~Starts(t, "subOne", p) /\ ~Starts(t, "addOne", p)
             /\ Starts(t, "drop", p) <=> p = o
  <2>1. Holds(t, p)' <=> Holds(t, p)
    BY <1>0, HoldsStep DEF Taking
  <2>2. QED
    BY <1>0, <2>1, StartsStep DEF Halves
<1>7. ASSUME NEW p \in Obj  PROVE Owners(p)' = IF p \in left THEN Owners(p) - 1 ELSE Owners(p)
  <2> DEFINE q == st.at
  <2>1. Owners(p)' = Owners(p) + (Bit(local'[q[1]][q[2]] = p) - Bit(local[q[1]][q[2]] = p))
                               + (Bit(o \in InQueues(p)') - Bit(o \in InQueues(p)))
                               + (Bit(Holds(t, p)') - Bit(Holds(t, p)))
                               + (Bit(Starts(t, "subOne", p)') - Bit(Starts(t, "subOne", p)))
    <3>1. InQueues(p)' \ {o} = InQueues(p) \ {o}
      BY <1>5
    <3>2. PICK c : c = o
      OBVIOUS
    <3>3. InQueues(p)' \ {c} = InQueues(p) \ {c}
      BY <3>1, <3>2
    <3>4. Owners(p)' = Owners(p) + (Bit(local'[q[1]][q[2]] = p) - Bit(local[q[1]][q[2]] = p))
                                 + (Bit(c \in InQueues(p)') - Bit(c \in InQueues(p)))
                                 + (Bit(Holds(t, p)') - Bit(Holds(t, p)))
                                 + (Bit(Starts(t, "subOne", p)') - Bit(Starts(t, "subOne", p)))
      BY <1>0, <3>3, OwnersStep
    <3>5. QED
      BY <3>2, <3>4
  <2>2. Bit(local'[q[1]][q[2]] = p) - Bit(local[q[1]][q[2]] = p) = 0
    BY <1>1 DEF Bit
  <2>3. Bit(o \in InQueues(p)') - Bit(o \in InQueues(p)) = IF p \in left THEN -1 ELSE 0
    <3>1. o \notin InQueues(p)' /\ (o \in InQueues(p) <=> p \in left)
      BY <1>5
    <3> HIDE DEF left, o
    <3>2. QED
      BY <3>1 DEF Bit
  <2>4. Bit(Holds(t, p)') - Bit(Holds(t, p)) = 0 /\ Bit(Starts(t, "subOne", p)') - Bit(Starts(t, "subOne", p)) = 0
    BY <1>6 DEF Bit
  <2>5. Owners(p) \in Nat
    BY OwnersFacts
  <2> DEFINE dl == Bit(local'[q[1]][q[2]] = p) - Bit(local[q[1]][q[2]] = p)
             dq == Bit(o \in InQueues(p)') - Bit(o \in InQueues(p))
             dh == Bit(Holds(t, p)') - Bit(Holds(t, p))
             dr == Bit(Starts(t, "subOne", p)') - Bit(Starts(t, "subOne", p))
  <2>6. Owners(p)' = Owners(p) + dl + dq + dh + dr
    BY <2>1
  <2>7. dl = 0 /\ dh = 0 /\ dr = 0 /\ (dq = IF p \in left THEN -1 ELSE 0)
    BY <2>2, <2>3, <2>4
  <2> HIDE DEF left, dl, dq, dh, dr
  <2>8. QED
    BY <2>5, <2>6, <2>7
<1>8. ASSUME NEW p \in Obj  PROVE IF p \in gone THEN Ownerless(p)' ELSE Owners(p)' = Owners(p)
  <2>1. CASE p \in left
    BY <1>4, <1>7, <2>1, OwnersFacts
  <2>2. CASE p = o
    <3>1. o \notin left
      BY <1>3, <1>4 DEF Ownerless
    <3>2. QED
      BY <1>3, <1>7, <2>2, <3>1, OwnersFacts
  <2>3. QED
    BY <1>7, <2>1, <2>2
<1>9. ASSUME NEW v \in Task, NEW p \in Obj, NEW s \in Halves
      PROVE  IF p \in gone THEN ~Starts(v, s, p)' ELSE Starts(v, s, p)' <=> Starts(v, s, p)
  <2>1. CASE v = t
    BY <1>6, <2>1 DEF Halves
  <2>2. CASE v # t
    <3>1. Starts(v, s, p)' <=> Starts(v, s, p)
      BY <1>0, <2>2, StartsStep
    <3>2. p \in left => ~Starts(v, s, p)
      BY <1>4
    <3>3. p = o => ~Starts(v, s, p)
      BY <1>3, <2>2, HalfHas DEF Halves
    <3>4. QED
      BY <3>1, <3>2, <3>3
  <2>3. QED
    BY <2>1, <2>2
<1>10. \A v \in Task, p \in Obj \ Chan : Has(v, p)' => Has(v, p)
  BY <1>0, <1>1, <1>6, HasStep
<1>11. gone \subseteq Obj
  BY <1>0, <1>4
<1>12. \A c \in Chan : queue'[c] = <<>> \/ (queue'[c] = queue[c] /\ c \notin gone)
  BY <1>1, <1>4
<1>13. \A v \in Task : local'[v]["msg"] \in {local[v]["msg"], Null}
  BY <1>1
<1>14. Frees(gone)
  BY <1>1, <1>8, <1>9, <1>10, <1>11, <1>12, <1>13 DEF Frees
<1>15. QED
  BY <1>14, FreeBooks

LEMMA AppendFacts ==
  ASSUME NEW S, NEW s \in Seq(S), NEW e \in S
  PROVE  /\ Len(s) \in Nat /\ DOMAIN s = 1 .. Len(s) /\ DOMAIN Append(s, e) = 1 .. Len(s) + 1
         /\ \A i \in DOMAIN s : i \in DOMAIN Append(s, e) /\ Append(s, e)[i] = s[i]
         /\ Len(s) + 1 \in DOMAIN Append(s, e) /\ Append(s, e)[Len(s) + 1] = e
         /\ \A i \in DOMAIN Append(s, e) : i \in DOMAIN s \/ i = Len(s) + 1
OBVIOUS

\* An object moves between the local q and the queue of c.
Trades(c, q) ==
  /\ \A p \in Obj : InQueues(p)' \ {c} = InQueues(p) \ {c}
  /\ \A p \in Obj : Bit(c \in InQueues(p)') + Bit(local'[q[1]][q[2]] = p)
                     = Bit(c \in InQueues(p)) + Bit(local[q[1]][q[2]] = p)

LEMMA TradeBooks ==
  ASSUME HeapTypeOK, Shape, Books, NEW t \in Task, Turns(t, 0), Stores(t),
         code[t][1].s \in {"send", "recv"}, mem' = mem, rc' = rc, reg' = reg,
         NEW c, NEW q, q = code[t][1].at, Trades(c, q)
  PROVE  /\ Counted' /\ Halved'
         /\ \A v \in Task, p \in Obj :
              Has(v, p)' => Has(v, p) \/ (q[1] = v /\ local'[v][q[2]] = p)
<1> DEFINE st == code[t][1]
<1>0. code[t] # <<>> /\ rc \in [Obj -> Nat]
  BY DEF Turns, Runs, HeapTypeOK
<1> USE DEF Trades
<1>1. ASSUME NEW p \in Obj
      PROVE  /\ ~Starts(t, "subOne", p) /\ ~Starts(t, "subOne", p)' /\ ~Starts(t, "addOne", p)' /\ ~Starts(t, "drop", p)'
             /\ Holds(t, p)' <=> Holds(t, p)
  <2>1. ~Starts(t, "subOne", p) /\ ~Starts(t, "subOne", p)' /\ ~Starts(t, "addOne", p)' /\ ~Starts(t, "drop", p)'
    BY StartsStep DEF Halves, Shape
  <2>2. Holds(t, p)' <=> Holds(t, p)
    BY HoldsStep DEF Shape, Taking
  <2>3. QED
    BY <2>1, <2>2
<1>2. ASSUME NEW p \in Obj  PROVE Owners(p)' - Owners(p) = rc'[p] - rc[p]
  <2> DEFINE l1 == Bit(local'[q[1]][q[2]] = p)   l0 == Bit(local[q[1]][q[2]] = p)
             q1 == Bit(c \in InQueues(p)')       q0 == Bit(c \in InQueues(p))
             dh == Bit(Holds(t, p)') - Bit(Holds(t, p))
             dr == Bit(Starts(t, "subOne", p)') - Bit(Starts(t, "subOne", p))
  <2>1. dh = 0 /\ dr = 0
    BY <1>1 DEF Bit
  <2>2. Owners(p)' = Owners(p) + (l1 - l0) + (q1 - q0) + dh + dr
    BY OwnersStep
  <2>3. q1 + l1 = q0 + l0
    OBVIOUS
  <2>4. l1 \in Int /\ l0 \in Int /\ q1 \in Int /\ q0 \in Int
    BY DEF Bit
  <2>5. Owners(p) \in Nat /\ rc[p] \in Nat
    BY <1>0, OwnersFacts
  <2> HIDE DEF l1, l0, q1, q0, dh, dr
  <2>6. Owners(p)' = Owners(p)
    BY <2>1, <2>2, <2>3, <2>4, <2>5
  <2>7. QED
    BY <2>5, <2>6
<1>3. Balanced(t)
  BY <1>0, <1>1, <1>2 DEF Balanced
<1>4. Counted' /\ Halved'
  BY <1>3, CountsStep
<1>5. \A v \in Task, p \in Obj : Has(v, p)' => Has(v, p) \/ (q[1] = v /\ local'[v][q[2]] = p)
  BY <1>1, HasStep
<1>6. QED
  BY <1>4, <1>5

\* The message that is sent: the temporary is its only owner.
LEMMA SendFacts ==
  ASSUME HeapTypeOK, Shape, Books, NEW t \in Task, code[t] # <<>>, code[t][1].s = "send",
         NEW m, m = local[t]["msg"]
  PROVE  /\ code[t][1].at = <<t, "msg">> /\ m \in Obj \ Chan /\ mem[m] = "live" /\ rc[m] = 1 /\ Owners(m) = 1
         /\ InQueues(m) = {} /\ InHands(m) = {} /\ InReturn(m) = {}
         /\ \A p \in InLocals(m) : p = <<t, "msg">>
         /\ \A v \in Task, s \in Halves : ~Starts(v, s, m)
<1> USE DEF Books, Shape
<1>1. code[t][1].at = <<t, "msg">>
  BY FirstFacts DEF PlacedAt
<1>2. m # Null
  <2>1. ~Before(t, 1, "detach")
    BY DEF Before
  <2>2. At1(code[t][1].at) # Null
    BY <2>1, FirstFacts DEF AimedAt
  <2>3. QED
    BY <1>1, <2>2 DEF At1
<1>3. m \in Obj \ Chan /\ rc[m] = 1
  BY <1>2, HeapSets DEF Queued, HeapTypeOK
<1>4. <<t, "msg">> \in InLocals(m)
  BY HeapSets DEF InLocals, At1
<1>5. mem[m] = "live" /\ Owners(m) = 1 /\ \A v \in Task : ~Starts(v, "drop", m)
  BY <1>3, <1>4, Owned DEF Ownerless
<1>6. InQueues(m) = {} /\ InHands(m) = {} /\ InReturn(m) = {} /\ \A p \in InLocals(m) : p = <<t, "msg">>
  BY <1>3, <1>4, <1>5, SoleOwner
<1>7. ASSUME NEW v \in Task  PROVE ~Starts(v, "addOne", m) /\ ~Starts(v, "subOne", m)
  <2>1. ~Starts(v, "subOne", m)
    BY <1>6 DEF InReturn
  <2>2. Has(t, m)
    BY HeapSets DEF Has
  <2>3. Starts(v, "addOne", m) => v = t
    BY <1>3, <2>2, HalfHas DEF Apart
  <2>4. ~Starts(t, "addOne", m)
    BY DEF Starts
  <2>5. QED
    BY <2>1, <2>3, <2>4
<1>8. QED
  BY <1>1, <1>3, <1>5, <1>6, <1>7 DEF Halves

\* A message to a closed channel is freed.
LEMMA RefusedBooks ==
  ASSUME HeapTypeOK, Shape, Books, NEW t \in Task, Turns(t, 0), Stores(t), code[t][1].s = "send",
         NEW m, m = local[t]["msg"], mem' = [mem EXCEPT ![m] = "freed"],
         rc' = rc, reg' = reg, queue' = queue
  PROVE  Books'
<1> DEFINE st == code[t][1]
<1>0. code[t] # <<>> /\ mem \in [Obj -> {"none", "live", "freed"}] /\ Null \notin Obj
  BY HeapSets DEF Turns, Runs, HeapTypeOK
<1>1. /\ st.at = <<t, "msg">> /\ m \in Obj \ Chan /\ Owners(m) = 1
      /\ \A v \in Task, s \in Halves : ~Starts(v, s, m)
  BY <1>0, SendFacts
<1>2. local'[t]["msg"] = Null
  BY <1>1 DEF Stores
<1>3. ASSUME NEW p \in Obj
      PROVE  /\ ~Starts(t, "subOne", p) /\ ~Starts(t, "subOne", p)'
             /\ Holds(t, p)' <=> Holds(t, p)
             /\ \A v \in Task, s \in Halves : Starts(v, s, p)' <=> Starts(v, s, p)
  <2>1. \A v \in Task, s \in Halves : Starts(v, s, p)' <=> Starts(v, s, p)
    BY StartsStep DEF Halves, Shape
  <2>2. ~Starts(t, "subOne", p)
    BY DEF Starts
  <2>3. Holds(t, p)' <=> Holds(t, p)
    BY HoldsStep DEF Shape, Taking
  <2>4. QED
    BY <2>1, <2>2, <2>3 DEF Halves
<1>4. ASSUME NEW p \in Obj  PROVE Owners(p)' = IF p = m THEN Owners(p) - 1 ELSE Owners(p)
  <2> DEFINE q == st.at
             dl == Bit(local'[q[1]][q[2]] = p) - Bit(local[q[1]][q[2]] = p)
             dq == Bit(Null \in InQueues(p)') - Bit(Null \in InQueues(p))
             dh == Bit(Holds(t, p)') - Bit(Holds(t, p))
             dr == Bit(Starts(t, "subOne", p)') - Bit(Starts(t, "subOne", p))
  <2>1. InQueues(p)' = InQueues(p)
    BY DEF InQueues
  <2>2. InQueues(p)' \ {Null} = InQueues(p) \ {Null} /\ dq = 0
    BY <2>1 DEF Bit
  <2>3. dh = 0 /\ dr = 0
    BY <1>3 DEF Bit
  <2>4. dl = IF p = m THEN -1 ELSE 0
    BY <1>0, <1>1, <1>2 DEF Bit
  <2>5. Owners(p)' = Owners(p) + dl + dq + dh + dr
    BY <1>0, <2>2, OwnersStep
  <2>6. Owners(p) \in Nat
    BY OwnersFacts
  <2> HIDE DEF dl, dq, dh, dr
  <2>7. QED
    BY <2>2, <2>3, <2>4, <2>5, <2>6
<1>5. ASSUME NEW p \in Obj  PROVE IF p \in {m} THEN Ownerless(p)' ELSE Owners(p)' = Owners(p)
  BY <1>1, <1>4, OwnersFacts
<1>6. \A v \in Task, p \in Obj, s \in Halves :
        IF p \in {m} THEN ~Starts(v, s, p)' ELSE Starts(v, s, p)' <=> Starts(v, s, p)
  BY <1>1, <1>3
<1>7. \A v \in Task, p \in Obj \ Chan : Has(v, p)' => Has(v, p)
  BY <1>0, <1>1, <1>2, <1>3, HasStep
<1>8. mem' = [p \in Obj |-> IF p \in {m} THEN "freed" ELSE mem[p]]
  BY <1>0, <1>1
<1>9. Frees({m})
  BY <1>0, <1>1, <1>5, <1>6, <1>7, <1>8, MessageStep DEF Frees
<1>10. QED
  BY <1>9, FreeBooks

LEMMA SendBooks ==
  ASSUME HeapTypeOK, Shape, Books, NEW t \in Task, Turns(t, 0), Stores(t), code[t][1].s = "send",
         NEW m, m = local[t]["msg"], NEW c \in Chan, c = code[t][1].o,
         queue' = [queue EXCEPT ![c] = Append(@, m)],
         mem' = mem, rc' = rc, reg' = reg
  PROVE  Books'
<1> DEFINE st == code[t][1]
<1>0. code[t] # <<>> /\ Null \notin Obj /\ c \in Obj /\ queue[c] \in Seq(Obj \ Chan)
  BY HeapSets DEF Turns, Runs, HeapTypeOK
<1>1. /\ st.at = <<t, "msg">> /\ m \in Obj \ Chan /\ rc[m] = 1 /\ Owners(m) = 1 /\ InQueues(m) = {}
      /\ \A v \in Task, s \in Halves : ~Starts(v, s, m)
  BY <1>0, SendFacts
<1>2. local'[t]["msg"] = Null
  BY <1>1 DEF Stores
<1>3. mem[c] = "live"
  <2>1. Backed(t, 1)
    BY <1>0, FirstFacts DEF Needing
  <2>2. PICK y \in Var : local[t][y] = c
    BY <2>1 DEF Backed
  <2>3. <<t, y>> \in InLocals(c)
    BY <2>2, HeapSets, SMTT(30) DEF InLocals, At1
  <2>4. QED
    BY <1>0, <2>3, Owned DEF Ownerless, Books
<1>4. /\ queue'[c] = Append(queue[c], m) /\ \A d \in Chan : d # c => queue'[d] = queue[d]
      /\ \A i \in DOMAIN queue[c] : i \in DOMAIN queue'[c] /\ queue'[c][i] = queue[c][i]
      /\ Len(queue[c]) + 1 \in DOMAIN queue'[c] /\ queue'[c][Len(queue[c]) + 1] = m
      /\ \A i \in DOMAIN queue'[c] : i \in DOMAIN queue[c] \/ i = Len(queue[c]) + 1
  <2>1. queue \in [Chan -> Seq(Obj \ Chan)]
    BY DEF HeapTypeOK
  <2>2. queue'[c] = Append(queue[c], m) /\ \A d \in Chan : d # c => queue'[d] = queue[d]
    BY <2>1
  <2>3. PICK s \in Seq(Obj \ Chan) : s = queue[c]
    BY <2>1
  <2>4. PICK r : r = Append(s, m)
    OBVIOUS
  <2>5. /\ \A i \in DOMAIN s : i \in DOMAIN r /\ r[i] = s[i]
        /\ Len(s) + 1 \in DOMAIN r /\ r[Len(s) + 1] = m
        /\ \A i \in DOMAIN r : i \in DOMAIN s \/ i = Len(s) + 1
    BY <1>1, <2>4, AppendFacts
  <2>6. queue'[c] = r
    BY <2>2, <2>3, <2>4, Zenon
  <2>7. QED
    BY <2>2, <2>3, <2>5, <2>6
<1>5. \A i \in DOMAIN queue'[c] : i \in DOMAIN queue[c] \/ i = Len(queue[c]) + 1
  BY <1>4
<1>6. ASSUME NEW p \in Obj
      PROVE  /\ InQueues(p)' \ {c} = InQueues(p) \ {c}
             /\ c \in InQueues(p)' <=> c \in InQueues(p) \/ p = m
  <2>1. InQueues(p)' \ {c} = InQueues(p) \ {c}
    <3>1. ASSUME NEW d \in Chan, d # c  PROVE d \in InQueues(p)' <=> d \in InQueues(p)
      <4>1. queue'[d] = queue[d]
        BY <1>4, <3>1
      <4>2. QED
        BY <4>1 DEF InQueues
    <3>2. QED
      BY <3>1, OwnerSets
  <2>2. c \in InQueues(p)' => c \in InQueues(p) \/ p = m
    BY <1>4, <1>5 DEF InQueues
  <2>3. ASSUME c \in InQueues(p)  PROVE c \in InQueues(p)'
    <3>1. PICK i \in DOMAIN queue[c] : queue[c][i] = p
      BY <2>3, Zenon DEF InQueues
    <3>2. i \in DOMAIN queue'[c] /\ queue'[c][i] = p
      BY <1>4, <3>1, Zenon
    <3>3. QED
      BY <3>2 DEF InQueues
  <2>4. c \in InQueues(m)'
    BY <1>4 DEF InQueues
  <2>5. QED
    BY <2>1, <2>2, <2>3, <2>4
<1>7. ASSUME NEW p \in Obj
      PROVE  Bit(c \in InQueues(p)') + Bit(local'[t]["msg"] = p) = Bit(c \in InQueues(p)) + Bit(local[t]["msg"] = p)
  <2>1. CASE p = m
    BY <1>0, <1>1, <1>2, <1>6, <2>1 DEF Bit
  <2>2. CASE p # m
    BY <1>0, <1>2, <1>6, <2>2 DEF Bit
  <2>3. QED
    BY <2>1, <2>2
<1>8. PICK q : q = <<t, "msg">>
  OBVIOUS
<1>9. q = st.at /\ q[1] = t /\ q[2] = "msg"
  BY <1>1, <1>8
<1>10. Trades(c, q)
  BY <1>6, <1>7, <1>9 DEF Trades
<1>11. /\ Counted' /\ Halved'
       /\ \A v \in Task, p \in Obj : Has(v, p)' => Has(v, p) \/ (q[1] = v /\ local'[v][q[2]] = p)
  <2>1. code[t][1].s \in {"send", "recv"} /\ q = code[t][1].at
    BY <1>9
  <2> HIDE DEF st
  <2>2. Counted' /\ Halved'
    BY <1>10, <2>1, TradeBooks
  <2>3. ASSUME NEW v \in Task, NEW p \in Obj, Has(v, p)'  PROVE Has(v, p) \/ (q[1] = v /\ local'[v][q[2]] = p)
    BY <1>10, <2>1, <2>3, TradeBooks
  <2>4. QED
    BY <2>2, <2>3
<1>12. Apart'
  <2>1. \A v \in Task, p \in Obj : Has(v, p)' => Has(v, p)
    BY <1>0, <1>2, <1>9, <1>11, SMTT(30)
  <2>2. QED
    BY <2>1 DEF Apart, Books
<1>13. Queued'
  <2>1. \A v \in Task : local'[v]["msg"] \in {local[v]["msg"], Null}
    BY <1>0, MessageStep
  <2>2. ASSUME NEW d \in Chan
        PROVE  /\ queue'[d] # <<>> => mem[d] = "live"
               /\ \A i, j \in DOMAIN queue'[d] : queue'[d][i] = queue'[d][j] => i = j
               /\ \A i \in DOMAIN queue'[d] : rc[queue'[d][i]] = 1
    <3>1. /\ queue[d] # <<>> => mem[d] = "live"
          /\ \A i, j \in DOMAIN queue[d] : queue[d][i] = queue[d][j] => i = j
          /\ \A i \in DOMAIN queue[d] : rc[queue[d][i]] = 1
      BY Zenon DEF Books, Queued
    <3>2. CASE d # c
      BY <1>4, <3>1, <3>2
    <3>3. CASE d = c
      <4>1. \A i \in DOMAIN queue[c] : queue[c][i] # m
        BY <1>1 DEF InQueues
      <4>2. \A i \in DOMAIN queue'[c] : \/ i \in DOMAIN queue[c] /\ queue'[c][i] = queue[c][i]
                                        \/ i = Len(queue[c]) + 1 /\ queue'[c][i] = m
        BY <1>4, <1>5, Zenon
      <4>3. \A i, j \in DOMAIN queue'[c] : queue'[c][i] = queue'[c][j] => i = j
        BY <3>1, <3>3, <4>1, <4>2
      <4>4. \A i \in DOMAIN queue'[c] : rc[queue'[c][i]] = 1
        BY <1>1, <3>1, <3>3, <4>2
      <4>5. QED
        BY <1>3, <3>3, <4>3, <4>4
    <3>4. QED
      BY <3>2, <3>3, Zenon
  <2>3. QED
    BY <2>1, <2>2 DEF Books, Queued
<1>14. QED
  BY <1>11, <1>12, <1>13 DEF Books

LEMMA TailFacts ==
  ASSUME NEW S, NEW s \in Seq(S), s # <<>>
  PROVE  /\ 1 \in DOMAIN s /\ Head(s) = s[1] /\ Tail(s) \in Seq(S) /\ DOMAIN s \subseteq Int /\ DOMAIN Tail(s) \subseteq Int
         /\ \A i \in DOMAIN Tail(s) : i + 1 \in DOMAIN s /\ i + 1 # 1 /\ Tail(s)[i] = s[i + 1]
         /\ \A i \in DOMAIN s : i = 1 \/ (i - 1 \in DOMAIN Tail(s) /\ Tail(s)[i - 1] = s[i])
<1>1. Len(s) \in Nat \ {0} /\ DOMAIN s = 1 .. Len(s)
  OBVIOUS
<1>2. Tail(s) \in Seq(S) /\ Len(Tail(s)) = Len(s) - 1 /\ \A i \in 1 .. Len(s) - 1 : Tail(s)[i] = s[i + 1]
  OBVIOUS
<1>3. DOMAIN Tail(s) = 1 .. Len(s) - 1
  BY <1>2
<1>4. Head(s) = s[1]
  OBVIOUS
<1>5. \A i \in 1 .. Len(s) : i = 1 \/ (i - 1 \in 1 .. Len(s) - 1 /\ Tail(s)[i - 1] = s[i])
  <2>1. SUFFICES ASSUME NEW i \in 1 .. Len(s), i # 1
                 PROVE  i - 1 \in 1 .. Len(s) - 1 /\ Tail(s)[i - 1] = s[i]
    OBVIOUS
  <2>2. i - 1 \in 1 .. Len(s) - 1 /\ (i - 1) + 1 = i
    BY <1>1, <2>1
  <2>3. QED
    BY <1>2, <2>2
<1>6. QED
  BY <1>1, <1>2, <1>3, <1>4, <1>5

\* What is left when the first of several different elements is taken.
Leaves(m, s, r) ==
  /\ 1 \in DOMAIN s /\ m = s[1]
  /\ \A i, j \in DOMAIN r : r[i] = r[j] => i = j
  /\ \A i \in DOMAIN r : r[i] # m /\ \E j \in DOMAIN s : r[i] = s[j]
  /\ \A j \in DOMAIN s : s[j] # m => \E i \in DOMAIN r : r[i] = s[j]

LEMMA TailLeaves ==
  ASSUME NEW S, NEW s \in Seq(S), s # <<>>, NEW r, r = Tail(s), NEW m, m = Head(s),
         \A i, j \in DOMAIN s : s[i] = s[j] => i = j
  PROVE  Leaves(m, s, r)
<1>1. 1 \in DOMAIN s /\ m = s[1] /\ DOMAIN s \subseteq Int /\ DOMAIN r \subseteq Int
  BY TailFacts
<1>2. \A i \in DOMAIN r : i + 1 \in DOMAIN s /\ i + 1 # 1 /\ r[i] = s[i + 1]
  BY TailFacts
<1>3. \A i \in DOMAIN s : i = 1 \/ (i - 1 \in DOMAIN r /\ r[i - 1] = s[i])
  BY TailFacts
<1>4. ASSUME NEW i \in DOMAIN r, NEW j \in DOMAIN r, r[i] = r[j]  PROVE i = j
  <2>1. i + 1 = j + 1
    BY <1>2, <1>4
  <2>2. i \in Int /\ j \in Int
    BY <1>1
  <2>3. QED
    BY <2>1, <2>2
<1>5. \A i \in DOMAIN r : r[i] # m /\ \E j \in DOMAIN s : r[i] = s[j]
  BY <1>1, <1>2
<1>6. \A j \in DOMAIN s : s[j] # m => \E i \in DOMAIN r : r[i] = s[j]
  BY <1>1, <1>3
<1>7. QED
  BY <1>1, <1>4, <1>5, <1>6 DEF Leaves

\* One queue changes, and is in order afterwards.
LEMMA QueuesStep ==
  ASSUME Queued, mem' = mem, rc' = rc,
         \A v \in Task : local'[v]["msg"] \in {local[v]["msg"], Null},
         NEW c \in Chan, \A d \in Chan : d # c => queue'[d] = queue[d], mem[c] = "live",
         NEW r, r = queue'[c],
         \A i, j \in DOMAIN r : r[i] = r[j] => i = j,
         \A i \in DOMAIN r : rc[r[i]] = 1
  PROVE  Queued'
<1>1. \A v \in Task : local'[v]["msg"] # Null => local'[v]["msg"] \notin Chan /\ rc'[local'[v]["msg"]] = 1
  BY DEF Queued
<1>2. ASSUME NEW d \in Chan
      PROVE  /\ queue'[d] # <<>> => mem'[d] = "live"
             /\ \A i, j \in DOMAIN queue'[d] : queue'[d][i] = queue'[d][j] => i = j
             /\ \A i \in DOMAIN queue'[d] : rc'[queue'[d][i]] = 1
  <2>1. CASE d = c
    BY <2>1
  <2>2. CASE d # c
    BY <2>2 DEF Queued
  <2>3. QED
    BY <2>1, <2>2
<1>3. QED
  BY <1>1, <1>2 DEF Queued

\* A message is received: the binding is its only owner now.
LEMMA RecvBooks ==
  ASSUME HeapTypeOK, Shape, Books, NEW t \in Task, Turns(t, 0), Stores(t), code[t][1].s = "recv",
         NEW c \in Chan, c = code[t][1].o, NEW s, s = queue[c], NEW r, r = queue'[c],
         NEW m, Leaves(m, s, r), \A d \in Chan : d # c => queue'[d] = queue[d],
         NEW q, q = code[t][1].at, local'[q[1]][q[2]] = m,
         mem' = mem, rc' = rc, reg' = reg
  PROVE  Books'
<1>0. code[t] # <<>> /\ Null \notin Obj /\ queue[c] \in Seq(Obj \ Chan)
  BY HeapSets, Zenon DEF Turns, Runs, HeapTypeOK
<1>1. 1 \in DOMAIN s /\ m = s[1]
  BY Zenon DEF Leaves
<1>2. \A i, j \in DOMAIN r : r[i] = r[j] => i = j
  BY Zenon DEF Leaves
<1>3. \A i \in DOMAIN r : r[i] # m /\ \E j \in DOMAIN s : r[i] = s[j]
  BY Zenon DEF Leaves
<1>4. \A j \in DOMAIN s : s[j] # m => \E i \in DOMAIN r : r[i] = s[j]
  BY Zenon DEF Leaves
<1>5. m \in Obj \ Chan /\ \A v \in Task : ~Has(v, m)
  <2>1. 1 \in DOMAIN queue[c] /\ m = queue[c][1]
    BY <1>1
  <2>2. QED
    BY <2>1, MessageOwner
<1>6. /\ q[1] = t /\ local[q[1]][q[2]] = Null
  <2>1. 1 \in Steps(t) /\ AimedAt(t, 1)
    BY <1>0, FirstFacts
  <2>2. Placed /\ code[t][1].s \in Writing
    BY DEF Shape, Writing
  <2>3. q[1] = t
    BY <2>1, <2>2, WritesWhere
  <2>4. QED
    BY <2>1, <2>3, Zenon DEF AimedAt, At1
<1>7. ASSUME NEW p \in Obj
      PROVE  /\ InQueues(p)' \ {c} = InQueues(p) \ {c}
             /\ c \in InQueues(p)' <=> c \in InQueues(p) /\ p # m
  <2>1. InQueues(p)' \ {c} = InQueues(p) \ {c}
    <3>1. ASSUME NEW d \in Chan, d # c  PROVE d \in InQueues(p)' <=> d \in InQueues(p)
      <4>1. queue'[d] = queue[d]
        BY <3>1
      <4>2. QED
        BY <4>1 DEF InQueues
    <3>2. QED
      BY <3>1, OwnerSets
  <2>2. ASSUME c \in InQueues(p)'  PROVE c \in InQueues(p) /\ p # m
    <3>1. PICK i \in DOMAIN r : r[i] = p
      BY <2>2, Zenon DEF InQueues
    <3>2. p # m /\ \E j \in DOMAIN s : s[j] = p
      BY <1>3, <3>1
    <3>3. QED
      BY <3>2 DEF InQueues
  <2>3. ASSUME c \in InQueues(p), p # m  PROVE c \in InQueues(p)'
    <3>1. PICK i \in DOMAIN s : s[i] = p
      BY <2>3, Zenon DEF InQueues
    <3>2. \E j \in DOMAIN r : r[j] = p
      BY <1>4, <2>3, <3>1, Zenon
    <3>3. QED
      BY <3>2 DEF InQueues
  <2>4. QED
    BY <2>1, <2>2, <2>3
<1>8. c \in InQueues(m)
  BY <1>1, Zenon DEF InQueues
<1>9. ASSUME NEW p \in Obj
      PROVE  Bit(c \in InQueues(p)') + Bit(local'[q[1]][q[2]] = p) = Bit(c \in InQueues(p)) + Bit(local[q[1]][q[2]] = p)
  <2>1. CASE p = m
    BY <1>0, <1>6, <1>7, <1>8, <2>1 DEF Bit
  <2>2. CASE p # m
    BY <1>0, <1>6, <1>7, <2>2, Zenon DEF Bit
  <2>3. QED
    BY <2>1, <2>2
<1>10. Trades(c, q)
  BY <1>7, <1>9 DEF Trades
<1>11. code[t][1].s \in {"send", "recv"}
  OBVIOUS
<1>12. Counted' /\ Halved'
  BY <1>10, <1>11, TradeBooks
<1>13. ASSUME NEW v \in Task, NEW p \in Obj, Has(v, p)'  PROVE Has(v, p) \/ (v = t /\ p = m)
  <2>1. Has(v, p) \/ (q[1] = v /\ local'[v][q[2]] = p)
    BY <1>10, <1>11, <1>13, TradeBooks
  <2>2. QED
    BY <1>6, <2>1
<1>14. Apart'
  BY <1>5, <1>13 DEF Apart, Books
<1>15. Queued'
  <2>1. \A v \in Task : local'[v]["msg"] \in {local[v]["msg"], Null}
    BY <1>0, MessageStep
  <2>2. mem[c] = "live" /\ \A i \in DOMAIN s : rc[s[i]] = 1
    <3>1. queue[c] # <<>>
      BY <1>1, SMTT(30)
    <3>2. QED
      BY <3>1 DEF Books, Queued
  <2>3. \A i \in DOMAIN r : rc[r[i]] = 1
    BY <1>3, <2>2
  <2>4. QED
    BY <1>2, <2>1, <2>2, <2>3, QueuesStep DEF Books
<1>16. QED
  BY <1>12, <1>14, <1>15 DEF Books

-----------------------------------------------------------------------------
(* Every statement keeps the books.                                        *)

Data == /\ mem \in [Obj -> {"none", "live", "freed"}]
        /\ rc \in [Obj -> Nat]
        /\ queue \in [Chan -> Seq(Obj \ Chan)]
        /\ closed \in [Chan -> BOOLEAN]
        /\ reg \in [Task -> Nat]

LEMMA CountUp ==
  ASSUME NEW f \in [Obj -> Nat], NEW o \in Obj
  PROVE  [f EXCEPT ![o] = @ + 1] \in [Obj -> Nat]
OBVIOUS

LEMMA DoRetainBooks ==
  ASSUME HeapTypeOK, Shape, Books, NEW t \in Task, Stores(t), DoRetain(t)
  PROVE  Books' /\ Data'
<1> DEFINE st == code[t][1]   o == st.o
<1>1. code[t] # <<>>
  BY DEF DoRetain, At
<1>2. Next1(t) = st /\ o \in Obj /\ st.s = "retain"
  BY <1>1, FirstFacts DEF DoRetain, At
<1>3. Data /\ rc[o] \in Nat
  BY <1>2 DEF HeapTypeOK, Data
<1>4. CASE o \in Chan
  <2>1. rc' = [rc EXCEPT ![o] = @ + 1] /\ Advance(t) /\ UNCHANGED <<mem, queue, closed, local, reg>>
    BY <1>2, <1>4 DEF DoRetain, Atomic
  <2>2. Turns(t, 0)
    BY <1>1, <1>2, <2>1, TurnsAdvance
  <2>3. st.s \in Taking
    BY <1>2 DEF Taking
  <2>4. Books'
    BY <2>1, <2>2, <2>3, TakeBooks
  <2>5. rc' \in [Obj -> Nat]
    BY <1>2, <1>4, <2>1, CountUp DEF HeapTypeOK
  <2>6. QED
    BY <1>3, <2>1, <2>4, <2>5 DEF Data
<1>5. CASE o \notin Chan
  <2>1. /\ reg' = [reg EXCEPT ![t] = rc[o]] /\ code' = [code EXCEPT ![t] = <<AddOne(o)>> \o Tail(@)]
        /\ UNCHANGED <<mem, rc, queue, closed, local>>
    BY <1>2, <1>5 DEF DoRetain, Atomic, Load
  <2>2. AddOne(o).s = "addOne"
    BY DEF AddOne, St
  <2>3. Turns(t, 1)
    BY <1>1, <1>2, <1>5, <2>1, <2>2, TurnsHalf
  <2>4. reg'[t] = rc[o] /\ \A v \in Task \ {t} : reg'[v] = reg[v]
    BY <1>3, <2>1 DEF Data
  <2>5. Books'
    BY <1>2, <2>1, <2>3, <2>4, QuietBooks
  <2>6. QED
    BY <1>3, <2>1, <2>5 DEF Data
<1>6. QED
  BY <1>4, <1>5

LEMMA DoAddOneBooks ==
  ASSUME HeapTypeOK, Shape, Books, NEW t \in Task, Stores(t), DoAddOne(t)
  PROVE  Books' /\ Data'
<1> DEFINE st == code[t][1]   o == st.o
<1>1. code[t] # <<>>
  BY DEF DoAddOne, At
<1>2. Next1(t) = st /\ o \in Obj /\ st.s = "addOne"
  BY <1>1, FirstFacts DEF DoAddOne, At
<1>3. Data /\ rc[o] \in Nat
  BY <1>2 DEF HeapTypeOK, Data
<1>4. Advance(t) /\ UNCHANGED <<mem, queue, closed, local, reg>> /\ rc' = [rc EXCEPT ![o] = reg[t] + 1]
  BY <1>2 DEF DoAddOne
<1>5. reg[t] = rc[o]
  <2>1. Starts(t, "addOne", o)
    BY <1>1, <1>2 DEF Starts
  <2>2. QED
    BY <1>2, <2>1 DEF Books, Halved
<1>6. Turns(t, 0) /\ st.s \in Taking
  BY <1>1, <1>2, <1>4, TurnsAdvance DEF Taking
<1>7. rc' = [rc EXCEPT ![o] = @ + 1]
  BY <1>4, <1>5
<1>8. Books'
  BY <1>4, <1>6, <1>7, TakeBooks
<1>9. rc' \in [Obj -> Nat]
  BY <1>2, <1>7, CountUp DEF HeapTypeOK
<1>10. QED
  BY <1>3, <1>4, <1>8, <1>9 DEF Data

LEMMA GivesBack ==
  ASSUME HeapTypeOK, Shape, Books, NEW t \in Task, Stores(t), code[t] # <<>>, NEW o \in Obj, o = code[t][1].o,
         code[t][1].s = "subOne" \/ (code[t][1].s = "release" /\ o \in Chan),
         rc' = [rc EXCEPT ![o] = rc[o] - 1],
         IF rc[o] = 1 THEN code' = [code EXCEPT ![t] = <<Drop(o)>> \o Tail(@)] ELSE Advance(t),
         UNCHANGED <<mem, queue, closed, reg>>
  PROVE  Books' /\ Data'
<1> DEFINE st == code[t][1]
<1>1. ~Ownerless(o)
  <2>1. CASE st.s = "subOne"
    <3>1. t \in InReturn(o)
      BY <2>1 DEF InReturn, Starts
    <3>2. QED
      BY <3>1 DEF Ownerless
  <2>2. CASE st.s = "release"
    <3>1. st.at[1] = t /\ local[t][st.at[2]] = o /\ st.at[2] \in Local
      BY <2>2, FirstFacts
    <3>2. <<t, st.at[2]>> \in InLocals(o)
      BY <3>1 DEF InLocals, At1
    <3>3. QED
      BY <3>2 DEF Ownerless
  <2>3. QED
    BY <2>1, <2>2
<1>2. Data /\ rc[o] \in Nat \ {0}
  BY <1>1, Owned DEF HeapTypeOK, Data, Books
<1>3. CASE rc[o] = 1
  <2>1. code' = [code EXCEPT ![t] = <<Drop(o)>> \o Tail(@)] /\ Drop(o).s = "drop"
    BY <1>3 DEF Drop, St
  <2>2. Turns(t, 1) /\ code'[t][1] = Drop(o)
    BY <2>1, TurnsHalf
  <2>3. code'[t][1].s = "drop" /\ 1 \in {0, 1}
    BY <2>1, <2>2
  <2>4. Books'
    BY <1>3, <2>2, <2>3, GiveBooks
  <2>5. QED
    BY <1>2, <2>4 DEF Data
<1>4. CASE rc[o] # 1
  <2>1. Turns(t, 0) /\ 0 \in {0, 1} /\ 0 # 1
    BY <1>4, TurnsAdvance
  <2>2. Books'
    BY <1>4, <2>1, GiveBooks
  <2>3. rc[o] - 1 \in Nat
    BY <1>2
  <2>4. QED
    BY <1>2, <2>2, <2>3 DEF Data
<1>5. QED
  BY <1>3, <1>4

LEMMA DoReleaseBooks ==
  ASSUME HeapTypeOK, Shape, Books, NEW t \in Task, Stores(t), DoRelease(t)
  PROVE  Books' /\ Data'
<1> DEFINE st == code[t][1]   o == st.o
<1>1. code[t] # <<>>
  BY DEF DoRelease, At
<1>2. Next1(t) = st /\ o \in Obj /\ st.s = "release"
  BY <1>1, FirstFacts DEF DoRelease, At
<1>3. Data /\ rc[o] \in Nat
  BY <1>2 DEF HeapTypeOK, Data
<1>4. CASE o \in Chan
  <2>1. /\ rc' = [rc EXCEPT ![o] = rc[o] - 1] /\ UNCHANGED <<mem, queue, closed, reg>>
        /\ IF rc[o] = 1 THEN code' = [code EXCEPT ![t] = <<Drop(o)>> \o Tail(@)] ELSE Advance(t)
    BY <1>2, <1>4 DEF DoRelease, Atomic, LastOwner
  <2>2. QED
    BY <1>1, <1>2, <1>4, <2>1, GivesBack
<1>5. CASE o \notin Chan
  <2>1. /\ reg' = [reg EXCEPT ![t] = rc[o]] /\ code' = [code EXCEPT ![t] = <<SubOne(o)>> \o Tail(@)]
        /\ UNCHANGED <<mem, rc, queue, closed>>
    BY <1>2, <1>5 DEF DoRelease, Atomic, Load
  <2>2. SubOne(o).s = "subOne"
    BY DEF SubOne, St
  <2>3. Turns(t, 1) /\ code'[t][1] = SubOne(o)
    BY <1>1, <1>2, <1>5, <2>1, <2>2, TurnsHalf
  <2>4. reg'[t] = rc[o] /\ \A v \in Task \ {t} : reg'[v] = reg[v]
    BY <1>3, <2>1 DEF Data
  <2>5. Books'
    BY <1>2, <2>1, <2>2, <2>3, <2>4, ReleaseBooks
  <2>6. QED
    BY <1>3, <2>1, <2>5 DEF Data
<1>6. QED
  BY <1>4, <1>5

LEMMA DoSubOneBooks ==
  ASSUME HeapTypeOK, Shape, Books, NEW t \in Task, Stores(t), DoSubOne(t)
  PROVE  Books' /\ Data'
<1> DEFINE st == code[t][1]   o == st.o
<1>1. code[t] # <<>>
  BY DEF DoSubOne, At
<1>2. Next1(t) = st /\ o \in Obj /\ st.s = "subOne"
  BY <1>1, FirstFacts DEF DoSubOne, At
<1>3. reg[t] = rc[o]
  <2>1. Starts(t, "subOne", o)
    BY <1>1, <1>2 DEF Starts
  <2>2. QED
    BY <1>2, <2>1 DEF Books, Halved
<1>4. /\ rc' = [rc EXCEPT ![o] = rc[o] - 1] /\ UNCHANGED <<mem, queue, closed, reg>>
      /\ IF rc[o] = 1 THEN code' = [code EXCEPT ![t] = <<Drop(o)>> \o Tail(@)] ELSE Advance(t)
  BY <1>2, <1>3 DEF DoSubOne, LastOwner
<1>5. QED
  BY <1>1, <1>2, <1>4, GivesBack

LEMMA DoDropBooks ==
  ASSUME HeapTypeOK, Shape, Books, NEW t \in Task, Stores(t), DoDrop(t)
  PROVE  Books' /\ Data'
<1>1. Data
  BY DEF HeapTypeOK, Data
<1>2. UNCHANGED <<rc, closed, reg>> /\ mem' \in [Obj -> {"none", "live", "freed"}]
  BY <1>1 DEF DoDrop, Data
<1>3. queue' \in [Chan -> Seq(Obj \ Chan)]
  BY <1>1 DEF DoDrop, Data
<1>4. QED
  BY <1>1, <1>2, <1>3, DropBooks DEF Data

LEMMA DoShareBooks ==
  ASSUME HeapTypeOK, Shape, Books, NEW t \in Task, Becomes(t), Stores(t), DoShare(t)
  PROVE  Books' /\ Data'
<1> DEFINE st == code[t][1]
<1>1. code[t] # <<>>
  BY DEF DoShare, At
<1>2. Next1(t) = st /\ st.s = "share"
  BY <1>1, FirstFacts DEF DoShare, At
<1>3. Data /\ UNCHANGED <<mem, rc, queue, closed, local, reg>>
  BY DEF HeapTypeOK, Data, DoShare
<1>4. PICK n \in 0 .. 2 : Turns(t, n)
  BY BecomesFacts DEF HeapTypeOK
<1>5. Books'
  BY <1>2, <1>3, <1>4, QuietBooks
<1>6. QED
  BY <1>3, <1>5 DEF Data

LEMMA DoAssignBooks ==
  ASSUME HeapTypeOK, Shape, Books, NEW t \in Task, Stores(t), DoAssign(t)
  PROVE  Books' /\ Data'
<1> DEFINE st == code[t][1]
<1>1. code[t] # <<>>
  BY DEF DoAssign, At
<1>2. Next1(t) = st /\ st.s = "assign"
  BY <1>1, FirstFacts DEF DoAssign, At
<1>3. Data /\ UNCHANGED <<mem, rc, queue, closed, reg>> /\ Advance(t)
  BY DEF HeapTypeOK, Data, DoAssign
<1>4. Turns(t, 0)
  BY <1>1, <1>2, <1>3, TurnsAdvance
<1>5. Books'
  BY <1>2, <1>3, <1>4, AssignBooks
<1>6. QED
  BY <1>3, <1>5 DEF Data

LEMMA DoDetachBooks ==
  ASSUME HeapTypeOK, Shape, Books, NEW t \in Task, Stores(t), DoDetach(t)
  PROVE  Books' /\ Data'
<1> DEFINE st == code[t][1]
<1>1. code[t] # <<>>
  BY DEF DoDetach, At
<1>2. Next1(t) = st /\ st.s = "detach" /\ st.o \in Obj \ Chan /\ At1(st.at) = Null
  BY <1>1, FirstFacts DEF DoDetach, At, PlacedAt, AimedAt
<1>3. PICK p \in Obj : DetachesTo(t, p)
  BY DetachForm
<1>4. PICK q : q = st.at
  OBVIOUS
<1>5. q \in Task \X Local
  BY <1>1, <1>4, FirstFacts
<1>6. Data /\ UNCHANGED <<queue, closed, reg>> /\ Advance(t)
  BY DEF HeapTypeOK, Data, DoDetach
<1>7. /\ mem[p] = "none" /\ SameKind(st.o, p) /\ Put(q, p)
      /\ mem' = [mem EXCEPT ![p] = "live"] /\ rc' = [rc EXCEPT ![p] = 1]
  BY <1>2, <1>3, <1>4 DEF DetachesTo, Copied
<1>8. /\ local' \in [Task -> [Local -> Obj \cup {Null}]] /\ local'[q[1]][q[2]] = p
      /\ \A v \in Task, x \in Local : <<v, x>> # q => local'[v][x] = local[v][x]
  BY <1>5, <1>7, PutFacts DEF HeapTypeOK
<1>9. Turns(t, 0)
  BY <1>1, <1>2, <1>6, TurnsAdvance
<1>10. \A v \in Task, o \in Obj : Holds(v, o)' <=> Holds(v, o)
  <2>1. SUFFICES ASSUME NEW v \in Task, NEW o \in Obj  PROVE Holds(v, o)' <=> Holds(v, o)
    OBVIOUS
  <2>2. QED
    BY <1>2, <1>9, HoldsStep DEF Shape, Taking
<1>11. \A v \in Task, o \in Obj, s \in Halves : Starts(v, s, o)' <=> Starts(v, s, o)
  <2>1. SUFFICES ASSUME NEW v \in Task, NEW o \in Obj, NEW s \in Halves  PROVE Starts(v, s, o)' <=> Starts(v, s, o)
    OBVIOUS
  <2>2. QED
    BY <1>2, <1>9, StartsStep DEF Shape, Halves
<1>12. p \notin Chan
  BY <1>2, <1>7 DEF SameKind
<1>13. local[q[1]][q[2]] = Null
  BY <1>2, <1>4 DEF At1
<1>14. Creates(p, q)
  BY <1>6, <1>7, <1>8, <1>10, <1>11, <1>12, <1>13 DEF Creates
<1>15. Books'
  BY <1>5, <1>14, CreateBooks
<1>16. QED
  BY <1>6, <1>7, <1>15 DEF Data

LEMMA DoSendBooks ==
  ASSUME HeapTypeOK, Shape, Books, NEW t \in Task, Stores(t), DoSend(t)
  PROVE  Books' /\ Data'
<1> DEFINE st == code[t][1]
<1>1. code[t] # <<>>
  BY Zenon DEF DoSend, At
<1>2. Next1(t) = st /\ st.s = "send" /\ st.o \in Chan
  BY <1>1, FirstFacts DEF DoSend, At, PlacedAt
<1> PICK m : m = local[t]["msg"]
  OBVIOUS
<1>3. PICK c \in Chan : c = st.o
  BY <1>2
<1>4. Data /\ UNCHANGED <<rc, closed, reg>> /\ Advance(t)
  BY DEF HeapTypeOK, Data, DoSend
<1>5. m \in Obj \ Chan
  BY <1>1, <1>2, <1>3, SendFacts
<1>6. Turns(t, 0)
  BY <1>1, <1>2, <1>4, TurnsAdvance, Zenon
<1>7. \/ mem' = [mem EXCEPT ![m] = "freed"] /\ queue' = queue
      \/ queue' = [queue EXCEPT ![c] = Append(@, m)] /\ mem' = mem
  BY <1>2, <1>3 DEF DoSend
<1>8. CASE mem' = [mem EXCEPT ![m] = "freed"] /\ queue' = queue
  <2>1. Books'
    BY <1>2, <1>3, <1>4, <1>6, <1>8, RefusedBooks
  <2>2. QED
    BY <1>4, <1>5, <1>8, <2>1 DEF Data
<1>9. CASE queue' = [queue EXCEPT ![c] = Append(@, m)] /\ mem' = mem
  <2>1. Books'
    BY <1>2, <1>3, <1>4, <1>6, <1>9, SendBooks
  <2>2. queue' \in [Chan -> Seq(Obj \ Chan)]
    BY <1>4, <1>5, <1>9 DEF Data
  <2>3. QED
    BY <1>4, <1>9, <2>1, <2>2 DEF Data
<1>10. QED
  BY <1>7, <1>8, <1>9

LEMMA DoRecvBooks ==
  ASSUME HeapTypeOK, Shape, Books, NEW t \in Task, Stores(t), DoRecv(t)
  PROVE  Books' /\ Data'
<1> DEFINE st == code[t][1]
<1>1. code[t] # <<>>
  BY DEF DoRecv, At
<1>2. Next1(t) = st /\ st.s = "recv" /\ st.o \in Chan
  BY <1>1, FirstFacts DEF DoRecv, At, PlacedAt
<1>3. Data /\ UNCHANGED <<mem, rc, closed, reg>> /\ Advance(t)
  BY DEF HeapTypeOK, Data, DoRecv
<1>4. Turns(t, 0)
  BY <1>1, <1>2, <1>3, TurnsAdvance
<1>5. CASE local' = local /\ queue' = queue
  <2>1. Books'
    BY <1>2, <1>3, <1>4, <1>5, QuietBooks
  <2>2. QED
    BY <1>3, <1>5, <2>1 DEF Data
<1>6. CASE ~(local' = local /\ queue' = queue)
  <2>1. PICK c \in Chan : c = st.o
    BY <1>2
  <2> PICK s : s = queue[c]
    OBVIOUS
  <2>2. s # <<>> /\ queue' = [queue EXCEPT ![c] = Tail(s)] /\ Put(st.at, Head(s))
    BY <1>2, <1>6, <2>1 DEF DoRecv
  <2>3. s \in Seq(Obj \ Chan)
    BY <1>3, <2>1 DEF Data
  <2>4. PICK r, m, q : r = Tail(s) /\ m = Head(s) /\ q = st.at
    OBVIOUS
  <2>5. r \in Seq(Obj \ Chan) /\ m \in Obj
    BY <2>2, <2>3, <2>4
  <2>6. r = queue'[c] /\ \A d \in Chan : d # c => queue'[d] = queue[d]
    BY <1>3, <2>2, <2>4 DEF Data
  <2>7. Leaves(m, s, r)
    <3>1. \A i, j \in DOMAIN s : s[i] = s[j] => i = j
      BY <2>1 DEF Books, Queued
    <3>2. QED
      BY <2>2, <2>3, <2>4, <3>1, TailLeaves
  <2>8. q \in Task \X Local
    BY <1>1, <2>4, FirstFacts
  <2>9. local'[q[1]][q[2]] = m
    BY <2>2, <2>4, <2>5, <2>8, PutFacts, SMTT(30) DEF HeapTypeOK
  <2>10. Books'
    BY <1>2, <1>3, <1>4, <2>1, <2>4, <2>6, <2>7, <2>9, RecvBooks
  <2>11. queue' \in [Chan -> Seq(Obj \ Chan)]
    BY <1>3, <2>2, <2>4, <2>5 DEF Data
  <2>12. QED
    BY <1>3, <2>10, <2>11 DEF Data
<1>7. QED
  BY <1>5, <1>6

LEMMA OtherBooks ==
  ASSUME HeapTypeOK, Shape, Books, NEW t \in Task, Stores(t), DoClose(t) \/ DoSpawn(t) \/ DoDone(t)
  PROVE  Books' /\ Data'
<1> DEFINE st == code[t][1]
<1>1. code[t] # <<>>
  BY DEF DoClose, DoSpawn, DoDone, At
<1>2. Next1(t) = st /\ st.s \in {"close", "spawn", "done"}
  BY <1>1, FirstFacts DEF DoClose, DoSpawn, DoDone, At
<1>3. Data /\ UNCHANGED <<mem, rc, queue, local, reg>> /\ Advance(t)
  BY DEF HeapTypeOK, Data, DoClose, DoSpawn, DoDone
<1>4. closed' \in [Chan -> BOOLEAN]
  BY <1>3 DEF Data, DoClose, DoSpawn, DoDone
<1>5. Turns(t, 0)
  BY <1>1, <1>2, <1>3, TurnsAdvance
<1>6. Books'
  BY <1>2, <1>3, <1>5, QuietBooks
<1>7. QED
  BY <1>3, <1>4, <1>6 DEF Data

LEMMA StatementStep ==
  ASSUME HeapInv, NEW t \in Task, Statement(t)
  PROVE  HeapInv'
<1>1. HeapTypeOK /\ Shape /\ Books
  BY DEF HeapInv, Shape, Books
<1>2. Becomes(t) /\ Stores(t) /\ Lives(t)
  BY <1>1, StatementForm DEF Shape
<1>3. Books' /\ Data'
  BY <1>1, <1>2, DoRetainBooks, DoAddOneBooks, DoReleaseBooks, DoSubOneBooks, DoDropBooks, DoShareBooks, DoAssignBooks,
     DoDetachBooks, DoSendBooks, DoRecvBooks, OtherBooks DEF Statement
<1>4. HeapTypeOK'
  <2>1. code' \in [Task -> Seq(Stmt)] /\ code[t] # <<>>
    BY <1>2 DEF Becomes, Runs
  <2>2. local' \in [Task -> [Local -> Obj \cup {Null}]]
    BY <1>2 DEF Stores
  <2>3. life' \in [Task -> {"unborn", "running", "ended"}]
    <3>1. PICK u \in Task : u = code[t][1].at[1]
      BY <1>1, <2>1, FirstFacts
    <3>2. life' = life \/ \E v \in Task : life' = [life EXCEPT ![v] = "running"] \/ life' = [life EXCEPT ![v] = "ended"]
      BY <1>2, <3>1 DEF Lives
    <3>3. QED
      BY <1>1, <3>2 DEF HeapTypeOK
  <2>4. QED
    BY <1>3, <2>1, <2>2, <2>3 DEF HeapTypeOK, Data
<1>5. Placed' /\ Supported' /\ Aimed' /\ Stored' /\ Passing' /\ Tidy'
  BY <1>1, <1>2, PlacedStep, SupportedStep, AimedStep, StoredStep, PassingStep, TidyStep DEF Shape
<1>6. QED
  BY <1>3, <1>4, <1>5 DEF HeapInv, Books

-----------------------------------------------------------------------------
(* What a construct emits.                                                 *)

\* Task t begins a construct.
Emits(t) ==
  /\ code[t] = <<>> /\ life[t] = "running"
  /\ code' \in [Task -> Seq(Stmt)] /\ \A v \in Task \ {t} : code'[v] = code[v]
  /\ UNCHANGED <<mem, rc, queue, closed, local, reg, life>>

\* The code of t fits the state in which it is emitted.
Fits(t) ==
  /\ \A i \in Steps(t) :
       /\ PlacedAt(t, i) /\ AimedAt(t, i) /\ ~Is(t, i, Halves)
       /\ Is(t, i, Needing) => Backed(t, i)
       /\ code[t][i].s = "assign" /\ code[t][i].at[2] = "src" => Later(t, i, "release")
       /\ code[t][i].s = "detach" /\ code[t][i].at[2] = "msg" => Later(t, i, "send")
       /\ Is(t, i, {"done"}) => \A x \in Var : local[t][x] # Null => Releases(t, x)
  /\ Single(t)
  /\ (\E i \in Steps(t) : Is(t, i, Taking)) <=> (\E j \in Steps(t) : Is(t, j, {"assign"}))
  /\ \A u \in Task : Spawns(t, u) => \A v \in Task \ {t} : ~Spawns(v, u)

LEMMA IdleFacts ==
  ASSUME HeapTypeOK, Shape, NEW t \in Task, code[t] = <<>>
  PROVE  /\ Steps(t) = {} /\ local[t]["src"] = Null /\ local[t]["msg"] = Null
         /\ \A u \in Task : ~Spawns(t, u)
         /\ \A o \in Obj : ~Holds(t, o)
         /\ \A o \in Obj, s \in Halves : ~Starts(t, s, o)
<1>1. Steps(t) = {}
  BY DEF Steps
<1>2. ~Releases(t, "src")
  BY <1>1 DEF Releases
<1>3. QED
  BY <1>1, <1>2 DEF Shape, Tidy, Spawns, Holds, Starts

LEMMA EmitShape ==
  ASSUME HeapTypeOK, Shape, NEW t \in Task, Emits(t), Fits(t)'
  PROVE  Shape'
<1> USE DEF Shape
<1>1. /\ local' = local /\ life' = life /\ life[t] = "running"
      /\ \A v \in Task \ {t} : code'[v] = code[v] /\ Steps(v)' = Steps(v)
  BY DEF Emits, Steps
<1>2. \A v \in Task \ {t}, u \in Task : Spawns(v, u)' <=> Spawns(v, u)
  BY <1>1 DEF Spawns, Spawn, St
<1>3. \A v \in Task : v = t \/ v \in Task \ {t}
  OBVIOUS
<1>4. local[t]["src"] = Null /\ local[t]["msg"] = Null /\ \A u \in Task : ~Spawns(t, u)
  BY IdleFacts DEF Emits
<1>5. Placed'
  <2>1. ASSUME NEW v \in Task, code'[v] # <<>>  PROVE life'[v] = "running"
    BY <1>1, <2>1 DEF Placed
  <2>2. ASSUME NEW v \in Task \ {t}, NEW i \in Steps(v)'  PROVE PlacedAt(v, i)'
    <3>1. PlacedAt(v, i)
      BY <1>1 DEF Placed
    <3>2. code'[v] = code[v] /\ Steps(v)' = Steps(v) /\ \A u \in Task : Spawns(v, u)' <=> Spawns(v, u)
      BY <1>1, <1>2
    <3>3. code[v][i].at[1] \in Task
      BY <1>1, StepsFacts DEF HeapTypeOK
    <3>4. \A j \in Steps(v) : Is(v, j, Leaving)' <=> Is(v, j, Leaving)
      BY <3>2 DEF Is
    <3>5. Spawns(v, code[v][i].at[1])' <=> Spawns(v, code[v][i].at[1])
      <4>1. PICK u \in Task : u = code[v][i].at[1]
        BY <3>3
      <4>2. Spawns(v, u)' <=> Spawns(v, u)
        BY <3>2
      <4>3. code'[v][i].at[1] = u
        BY <3>2, <4>1
      <4>4. QED
        BY <4>1, <4>2, <4>3, <3>2 DEF Spawns, Spawn, St
    <3>6. QED
      BY <1>1, <3>1, <3>2, <3>4, <3>5 DEF PlacedAt, Spawn, St, Spawns
  <2>3. \A i \in Steps(t)' : PlacedAt(t, i)'
    BY DEF Fits
  <2>4. ASSUME NEW v \in Task, NEW w \in Task, NEW u \in Task, Spawns(v, u)', Spawns(w, u)'  PROVE v = w
    <3>1. CASE v = t \/ w = t
      BY <1>3, <2>4, <3>1 DEF Fits
    <3>2. CASE v # t /\ w # t
      BY <1>2, <2>4, <3>2 DEF Placed
    <3>3. QED
      BY <3>1, <3>2
  <2>5. QED
    BY <2>1, <2>2, <2>3, <2>4 DEF Placed
<1>6. Supported'
  <2>1. ASSUME NEW v \in Task \ {t}, NEW i \in Steps(v)', Is(v, i, Needing)'  PROVE Backed(v, i)'
    <3>1. Backed(v, i)
      BY <1>1, <2>1 DEF Supported, Is
    <3>2. code'[v] = code[v] /\ Steps(v)' = Steps(v)
      BY <1>1
    <3>3. QED
      BY <1>1, <3>1, <3>2 DEF Backed
  <2>2. QED
    BY <2>1 DEF Supported, Fits
<1>7. Aimed'
  <2>1. ASSUME NEW v \in Task \ {t}, NEW i \in Steps(v)'  PROVE AimedAt(v, i)'
    <3>1. AimedAt(v, i)
      BY <1>1 DEF Aimed
    <3>2. code'[v] = code[v]
      BY <1>1
    <3>3. QED
      BY <1>1, <3>1, <3>2 DEF AimedAt, At1, Before, Follows
  <2>2. QED
    BY <2>1, Zenon DEF Aimed, Fits
<1>8. Stored'
  <2>1. ASSUME NEW v \in Task \ {t}
        PROVE  /\ Single(v)'
               /\ (\E i \in Steps(v)' : Is(v, i, Taking)') => \E j \in Steps(v)' : Is(v, j, {"assign"})'
    <3>1. Single(v) /\ ((\E i \in Steps(v) : Is(v, i, Taking)) => \E j \in Steps(v) : Is(v, j, {"assign"}))
      BY DEF Stored
    <3>2. code'[v] = code[v] /\ Steps(v)' = Steps(v)
      BY <1>1
    <3>3. QED
      BY <3>1, <3>2 DEF Single, Is
  <2>2. QED
    BY <2>1 DEF Stored, Fits
<1>9. Passing'
  <2>1. ASSUME NEW v \in Task \ {t}, NEW i \in Steps(v)'
        PROVE  /\ code'[v][i].s = "assign" /\ code'[v][i].at[2] = "src" => Later(v, i, "release")'
               /\ code'[v][i].s = "detach" /\ code'[v][i].at[2] = "msg" => Later(v, i, "send")'
    <3>1. code'[v] = code[v] /\ i \in Steps(v)
      BY <1>1
    <3>2. QED
      BY <3>1 DEF Passing, Later
  <2>2. QED
    BY <2>1 DEF Passing, Fits
<1>10. Tidy'
  <2>1. ASSUME NEW v \in Task \ {t}, NEW x \in Local, Releases(v, x)  PROVE Releases(v, x)'
    <3>1. code'[v] = code[v] /\ Steps(v)' = Steps(v)
      BY <1>1
    <3>2. QED
      BY <2>1, <3>1 DEF Releases, Is
  <2>2. ASSUME NEW v \in Task \ {t}
        PROVE  /\ local[v]["src"] # Null => Releases(v, "src")'
               /\ local[v]["msg"] # Null => \E i \in Steps(v)' : Is(v, i, {"send"})'
               /\ \A i \in Steps(v)' : Is(v, i, {"done"})' => \A x \in Var : local[v][x] # Null => Releases(v, x)'
    <3>1. code'[v] = code[v] /\ Steps(v)' = Steps(v)
      BY <1>1
    <3>2. \A x \in Local : Releases(v, x) => Releases(v, x)'
      BY <2>1
    <3>3. \A i \in Steps(v), K \in {{"done"}, {"send"}} : Is(v, i, K)' <=> Is(v, i, K)
      BY <3>1 DEF Is
    <3>4. QED
      BY <3>1, <3>2, <3>3, HeapSets DEF Tidy
  <2>3. ASSUME NEW v \in Task, life[v] = "ended" \/ (life[v] = "unborn" /\ \A w \in Task : ~Spawns(w, v)')
        PROVE  \A x \in Local : local[v][x] = Null
    <3>1. \A w \in Task : Spawns(w, v) => Spawns(w, v)'
      BY <1>2, <1>3, <1>4
    <3>2. QED
      BY <2>3, <3>1 DEF Tidy
  <2>4. /\ local[t]["src"] = Null /\ local[t]["msg"] = Null
        /\ \A i \in Steps(t)' : Is(t, i, {"done"})' => \A x \in Var : local'[t][x] # Null => Releases(t, x)'
    BY <1>4 DEF Fits
  <2>5. QED
    BY <1>1, <1>3, <2>2, <2>3, <2>4 DEF Tidy
<1>11. QED
  BY <1>5, <1>6, <1>7, <1>8, <1>9, <1>10

LEMMA EmitBooks ==
  ASSUME HeapTypeOK, Shape, Books, NEW t \in Task, Emits(t), Fits(t)'
  PROVE  Books'
<1>1. \A v \in Task \ {t} : code'[v] = code[v] /\ Steps(v)' = Steps(v)
  BY DEF Emits, Steps
<1>2. mem' = mem /\ rc' = rc /\ reg' = reg /\ queue' = queue /\ local' = local
  BY DEF Emits
<1>3. ASSUME NEW v \in Task, NEW o \in Obj
      PROVE  /\ Holds(v, o)' <=> Holds(v, o)
             /\ \A s \in Halves : Starts(v, s, o)' <=> Starts(v, s, o)
  <2>1. CASE v = t
    <3>1. ~Holds(t, o) /\ \A s \in Halves : ~Starts(t, s, o)
      BY IdleFacts DEF Emits
    <3>2. ~Holds(t, o)'
      BY DEF Holds, Fits
    <3>3. ASSUME NEW s \in Halves, Starts(t, s, o)'  PROVE FALSE
      <4>1. code' \in [Task -> Seq(Stmt)] /\ code'[t] # <<>>
        BY <3>3 DEF Emits, Starts
      <4>2. 1 \in Steps(t)'
        BY <4>1 DEF Steps
      <4>3. QED
        BY <3>3, <4>2 DEF Fits, Starts, Is
    <3>4. QED
      BY <2>1, <3>1, <3>2, <3>3
  <2>2. CASE v # t
    BY <1>1, <2>2 DEF Holds, Starts, Is
  <2>3. QED
    BY <2>1, <2>2
<1>4. ASSUME NEW o \in Obj  PROVE Owners(o)' = Owners(o) /\ (Ownerless(o)' <=> Ownerless(o))
  <2>1. InLocals(o)' = InLocals(o) /\ InQueues(o)' = InQueues(o)
    BY <1>2 DEF InLocals, InQueues, At1
  <2>2. InHands(o)' = InHands(o) /\ InReturn(o)' = InReturn(o)
    BY <1>3 DEF InHands, InReturn, Halves
  <2>3. QED
    BY <2>1, <2>2 DEF Owners, Ownerless
<1>5. \A v \in Task, o \in Obj : Has(v, o)' <=> Has(v, o)
  BY <1>2, <1>3 DEF Has, Halves
<1>6. \A v \in Task, o \in Obj : /\ Starts(v, "addOne", o)' <=> Starts(v, "addOne", o)
                                 /\ Starts(v, "subOne", o)' <=> Starts(v, "subOne", o)
                                 /\ Starts(v, "drop", o)' <=> Starts(v, "drop", o)
  BY <1>3 DEF Halves
<1>7. Counted'
  BY <1>2, <1>4, <1>6 DEF Books, Counted
<1>8. Halved'
  BY <1>2, <1>6 DEF Books, Halved
<1>9. Queued'
  BY <1>2 DEF Books, Queued
<1>10. Apart'
  BY <1>5 DEF Books, Apart
<1>11. QED
  BY <1>7, <1>8, <1>9, <1>10 DEF Books

LEMMA EmitStep ==
  ASSUME HeapInv, NEW t \in Task, Emits(t), Fits(t)'
  PROVE  HeapInv'
<1>1. HeapTypeOK /\ Shape /\ Books
  BY DEF HeapInv, Shape, Books
<1>2. HeapTypeOK'
  BY <1>1 DEF HeapTypeOK, Emits
<1>3. Shape' /\ Books'
  BY <1>1, EmitShape, EmitBooks
<1>4. QED
  BY <1>2, <1>3 DEF HeapInv, Shape, Books

\* The fields of what is emitted.
LEMMA FieldsOf ==
  ASSUME NEW u \in Task, NEW x \in Local, NEW o \in Obj, NEW t \in Task
  PROVE  /\ Retain(t, o) \in Stmt /\ Retain(t, o).s = "retain" /\ Retain(t, o).o = o /\ Retain(t, o).at = <<t, "src">>
         /\ Assign(u, x, o) \in Stmt /\ Assign(u, x, o).s = "assign" /\ Assign(u, x, o).o = o
         /\ Assign(u, x, o).at = <<u, x>>
         /\ Detach(u, x, o) \in Stmt /\ Detach(u, x, o).s = "detach" /\ Detach(u, x, o).o = o
         /\ Detach(u, x, o).at = <<u, x>>
         /\ Share(u, x, o) \in Stmt /\ Share(u, x, o).s = "share" /\ Share(u, x, o).o = o
         /\ Share(u, x, o).at = <<u, x>>
         /\ SendMsg(t, o) \in Stmt /\ SendMsg(t, o).s = "send" /\ SendMsg(t, o).o = o /\ SendMsg(t, o).at = <<t, "msg">>
         /\ Receive(t, x, o) \in Stmt /\ Receive(t, x, o).s = "recv" /\ Receive(t, x, o).o = o
         /\ Receive(t, x, o).at = <<t, x>>
         /\ Close(t, o) \in Stmt /\ Close(t, o).s = "close" /\ Close(t, o).o = o /\ Close(t, o).at = <<t, "src">>
         /\ St("release", o, t, x) \in Stmt /\ St("release", o, t, x).s = "release" /\ St("release", o, t, x).o = o
         /\ St("release", o, t, x).at = <<t, x>>
BY HeapSets DEF Retain, Assign, Detach, Share, SendMsg, Receive, Close, St, Stmt, Kinds

LEMMA LastFields ==
  ASSUME NEW u \in Task
  PROVE  /\ Spawn(u) \in Stmt /\ Spawn(u).s = "spawn" /\ Spawn(u).o = Null /\ Spawn(u).at = <<u, "src">>
         /\ Done(u) \in Stmt /\ Done(u).s = "done" /\ Done(u).o = Null /\ Done(u).at = <<u, "src">>
BY HeapSets DEF Spawn, Done, St, Stmt, Kinds

LEMMA EmitForm ==
  ASSUME HeapTypeOK, NEW t \in Task, Idle(t), NEW ss \in Seq(Stmt), Emit(t, ss)
  PROVE  Emits(t) /\ code'[t] = ss /\ Steps(t)' = DOMAIN ss
BY DEF HeapTypeOK, Idle, Emit, Emits, Steps

LEMMA AliasStep ==
  ASSUME HeapInv, NEW t \in Task, NEW x \in Var, NEW y \in Var, Alias(t, x, y)
  PROVE  HeapInv'
<1> DEFINE o == local[t][y]   ss == <<Retain(t, o), Assign(t, x, o)>>
<1>0. HeapTypeOK /\ Shape /\ x \in Local /\ y \in Local /\ x # "msg" /\ x # "src"
  BY HeapSets DEF HeapInv, Shape
<1>1. Idle(t) /\ local[t][x] = Null /\ o \in Obj /\ x # y /\ Emit(t, ss)
  BY <1>0 DEF Alias, Bound, HeapTypeOK
<1>2. ss \in Seq(Stmt) /\ DOMAIN ss = 1 .. 2 /\ ss[1] = Retain(t, o) /\ ss[2] = Assign(t, x, o)
  BY <1>0, <1>1, FieldsOf
<1>3. Emits(t) /\ code'[t] = ss /\ Steps(t)' = 1 .. 2
  BY <1>0, <1>1, <1>2, EmitForm
<1>4. /\ code'[t][1].s = "retain" /\ code'[t][1].o = o /\ code'[t][1].at = <<t, "src">>
      /\ code'[t][2].s = "assign" /\ code'[t][2].o = o /\ code'[t][2].at = <<t, x>>
  BY <1>0, <1>1, <1>2, <1>3, FieldsOf
<1>5. local' = local /\ o # Null
  BY <1>1, <1>3, HeapSets DEF Emits
<1> HIDE DEF o, ss
<1>6. \A i \in Steps(t)' : PlacedAt(t, i)'
  BY <1>0, <1>3, <1>4, <1>5 DEF PlacedAt, Halves, Writing
<1>7. \A i \in Steps(t)' : Is(t, i, Needing)' => Backed(t, i)'
  <2>1. \A j \in Steps(t)' : code'[t][j].at # <<t, y>>
    BY <1>0, <1>1, <1>3, <1>4, HeapSets
  <2>2. local'[t][y] = o
    BY <1>5 DEF o
  <2>3. code'[t][1].o = o /\ ~Is(t, 2, Needing)'
    BY <1>4 DEF Is, Needing, Taking
  <2>4. QED
    BY <1>3, <2>1, <2>2, <2>3 DEF Backed
<1>8. \A i \in Steps(t)' : AimedAt(t, i)'
  BY <1>0, <1>1, <1>3, <1>4, <1>5 DEF AimedAt, At1, Writing
<1>9. Fits(t)'
  BY <1>0, <1>3, <1>4, <1>6, <1>7, <1>8 DEF Fits, Is, Halves, Single, Taking, Spawns, Spawn, St
<1>10. QED
  BY <1>3, <1>9, EmitStep

\* x = y of a channel: x is released first, and y # x keeps the channel alive.
LEMMA RebindStep ==
  ASSUME HeapInv, ~SelfRebind, NEW t \in Task, NEW x \in Var, NEW y \in Var, Rebind(t, x, y)
  PROVE  HeapInv'
<1> DEFINE o == local[t][y]   p == local[t][x]
           take == Retain(t, o)   give == St("release", p, t, x)   store == Assign(t, x, o)
           ss == RebindCode(t, x, y)
<1>0. HeapTypeOK /\ Shape /\ x \in Local /\ y \in Local /\ x # "msg" /\ x # "src"
  BY HeapSets DEF HeapInv, Shape
<1>1. Idle(t) /\ p \in Obj /\ o \in Obj /\ x # y /\ Emit(t, ss)
  BY <1>0 DEF Rebind, Bound, HeapTypeOK
<1>2. ss = <<give, take, store>> \/ ss = <<take, give, store>>
  BY DEF RebindCode, Release
<1>3. take \in Stmt /\ give \in Stmt /\ store \in Stmt
  BY <1>0, <1>1, FieldsOf
<1>4. /\ ss \in Seq(Stmt) /\ DOMAIN ss = 1 .. 3 /\ ss[3] = store
      /\ (ss[1] = give /\ ss[2] = take) \/ (ss[1] = take /\ ss[2] = give)
  <2> HIDE DEF take, give, store, ss
  <2>1. CASE ss = <<give, take, store>>
    BY <1>3, <2>1
  <2>2. CASE ss = <<take, give, store>>
    BY <1>3, <2>2
  <2>3. QED
    BY <1>2, <2>1, <2>2
<1>5. Emits(t) /\ code'[t] = ss /\ Steps(t)' = 1 .. 3
  BY <1>0, <1>1, <1>4, EmitForm
<1>6. PICK g \in 1 .. 2, k \in 1 .. 2 : g # k /\ code'[t][g] = give /\ code'[t][k] = take /\ code'[t][3] = store
  <2> HIDE DEF take, give, store, ss
  <2>1. QED
    BY <1>4, <1>5
<1>7. /\ code'[t][k].s = "retain" /\ code'[t][k].o = o /\ code'[t][k].at = <<t, "src">>
      /\ code'[t][g].s = "release" /\ code'[t][g].o = p /\ code'[t][g].at = <<t, x>>
      /\ code'[t][3].s = "assign" /\ code'[t][3].o = o /\ code'[t][3].at = <<t, x>>
  <2>1. /\ take.s = "retain" /\ take.o = o /\ take.at = <<t, "src">>
        /\ give.s = "release" /\ give.o = p /\ give.at = <<t, x>>
        /\ store.s = "assign" /\ store.o = o /\ store.at = <<t, x>>
    BY <1>0, <1>1, FieldsOf
  <2> HIDE DEF take, give, store
  <2>2. QED
    BY <1>6, <2>1
<1>8. local' = local /\ o # Null /\ local[t][x] = p
  BY <1>1, <1>5, HeapSets DEF Emits
<1>9. local[t][y] = o
  OBVIOUS
<1>10. \A i \in Steps(t)' : i = g \/ i = k \/ i = 3
  BY <1>5, <1>6
<1> HIDE DEF o, p, take, give, store, ss
<1>11. \A i \in Steps(t)' : PlacedAt(t, i)'
  BY <1>0, <1>1, <1>7, <1>8, <1>10, HeapSets DEF PlacedAt, Halves, Writing
<1>12. \A i \in Steps(t)' : Is(t, i, Needing)' => Backed(t, i)'
  <2>1. \A j \in Steps(t)' : code'[t][j].at # <<t, y>>
    BY <1>0, <1>1, <1>7, <1>10, HeapSets
  <2>2. ~Is(t, g, Needing)' /\ ~Is(t, 3, Needing)'
    BY <1>7 DEF Is, Needing, Taking
  <2>3. QED
    BY <1>7, <1>8, <1>9, <1>10, <2>1, <2>2 DEF Backed
<1>13. \A i \in Steps(t)' : AimedAt(t, i)'
  <2>1. AimedAt(t, g)'
    BY <1>0, <1>1, <1>6, <1>7, <1>8 DEF AimedAt, At1, Writing
  <2>2. AimedAt(t, k)'
    BY <1>0, <1>1, <1>6, <1>7, <1>8 DEF AimedAt, At1, Writing
  <2>3. AimedAt(t, 3)'
    <3>1. Before(t, 3, "release")'
      BY <1>6, <1>7 DEF Before
    <3>2. \A i \in 1 .. 3 - 1 : i = g \/ i = k
      BY <1>6
    <3>3. \A i \in 1 .. 3 - 1 : code'[t][i].s \in Writing => Follows(code'[t][i], code'[t][3])
      BY <1>7, <3>2 DEF Follows, Writing
    <3>4. QED
      BY <1>7, <3>1, <3>3 DEF AimedAt
  <2>4. QED
    BY <1>10, <2>1, <2>2, <2>3
<1>14. Fits(t)'
  <2>1. Single(t)'
    BY <1>5, <1>6, <1>7, <1>10 DEF Single, Is, Taking
  <2>2. QED
    BY <1>0, <1>5, <1>6, <1>7, <1>10, <1>11, <1>12, <1>13, <2>1 DEF Fits, Is, Halves, Taking, Spawns, Spawn, St
<1>15. QED
  BY <1>5, <1>14, EmitStep

LEMMA RecvStep ==
  ASSUME HeapInv, NEW t \in Task, NEW x \in Var, NEW y \in Var, Recv(t, x, y)
  PROVE  HeapInv'
<1> DEFINE c == local[t][x]   ss == <<Receive(t, y, c)>>
<1>0. HeapTypeOK /\ Shape /\ x \in Local /\ y \in Local /\ y # "msg" /\ y # "src" /\ Null \notin Obj /\ Chan \subseteq Obj
  BY HeapSets DEF HeapInv, Shape
<1>1. Idle(t) /\ local[t][y] = Null /\ c \in Chan /\ x # y /\ Emit(t, ss)
  BY <1>0 DEF Recv, Bound
<1>2. ss \in Seq(Stmt) /\ DOMAIN ss = {1} /\ ss[1] = Receive(t, y, c)
  BY <1>0, <1>1, FieldsOf
<1>3. Emits(t) /\ code'[t] = ss /\ Steps(t)' = {1}
  BY <1>0, <1>1, <1>2, EmitForm
<1>4. code'[t][1].s = "recv" /\ code'[t][1].o = c /\ code'[t][1].at = <<t, y>>
  BY <1>0, <1>1, <1>2, <1>3, FieldsOf
<1>5. local' = local /\ c # Null /\ local[t][x] = c
  BY <1>0, <1>1, <1>3 DEF Emits
<1> HIDE DEF c, ss
<1>6. PlacedAt(t, 1)'
  BY <1>0, <1>1, <1>3, <1>4, <1>5 DEF PlacedAt, Halves, Writing
<1>7. Backed(t, 1)'
  <2>1. \A j \in Steps(t)' : code'[t][j].at # <<t, x>>
    BY <1>1, <1>3, <1>4
  <2>2. QED
    BY <1>4, <1>5, <2>1 DEF Backed
<1>8. AimedAt(t, 1)'
  BY <1>0, <1>1, <1>3, <1>4, <1>5 DEF AimedAt, At1, Writing
<1>9. Fits(t)'
  BY <1>0, <1>3, <1>4, <1>6, <1>7, <1>8 DEF Fits, Is, Halves, Single, Taking, Spawns, Spawn, St
<1>10. QED
  BY <1>3, <1>9, EmitStep

LEMMA CloseStep ==
  ASSUME HeapInv, NEW t \in Task, NEW x \in Var, CloseChan(t, x)
  PROVE  HeapInv'
<1> DEFINE c == local[t][x]   ss == <<Close(t, c)>>
<1>0. HeapTypeOK /\ Shape /\ x \in Local /\ x # "src" /\ Null \notin Obj /\ Chan \subseteq Obj
  BY HeapSets DEF HeapInv, Shape
<1>1. Idle(t) /\ c \in Chan /\ Emit(t, ss)
  BY <1>0 DEF CloseChan, Bound
<1>2. ss \in Seq(Stmt) /\ DOMAIN ss = {1} /\ ss[1] = Close(t, c)
  BY <1>0, <1>1, FieldsOf
<1>3. Emits(t) /\ code'[t] = ss /\ Steps(t)' = {1}
  BY <1>0, <1>1, <1>2, EmitForm
<1>4. code'[t][1].s = "close" /\ code'[t][1].o = c /\ code'[t][1].at = <<t, "src">>
  BY <1>0, <1>1, <1>2, <1>3, FieldsOf
<1>5. local' = local /\ c # Null /\ local[t][x] = c
  BY <1>0, <1>1, <1>3 DEF Emits
<1> HIDE DEF c, ss
<1>6. PlacedAt(t, 1)'
  BY <1>0, <1>1, <1>3, <1>4, <1>5 DEF PlacedAt, Halves, Writing
<1>7. Backed(t, 1)'
  <2>1. \A j \in Steps(t)' : code'[t][j].at # <<t, x>>
    BY <1>0, <1>1, <1>3, <1>4
  <2>2. QED
    BY <1>4, <1>5, <2>1 DEF Backed
<1>8. AimedAt(t, 1)'
  BY <1>0, <1>1, <1>3, <1>4, <1>5 DEF AimedAt, At1, Writing
<1>9. Fits(t)'
  BY <1>0, <1>3, <1>4, <1>6, <1>7, <1>8 DEF Fits, Is, Halves, Single, Taking, Spawns, Spawn, St
<1>10. QED
  BY <1>3, <1>9, EmitStep

\* A Str is kept alive while it is copied, what is no Str is copied at once.
LEMMA SendTextStep ==
  ASSUME HeapInv, NEW t \in Task, NEW x \in Var, NEW y \in Var, Idle(t),
         NEW c \in Chan, c = local[t][x], NEW o \in Text, o = local[t][y],
         Emit(t, <<Retain(t, o), Assign(t, "src", o), Payload(t, o), SendMsg(t, c), St("release", o, t, "src")>>)
  PROVE  HeapInv'
<1> DEFINE ss == <<Retain(t, o), Assign(t, "src", o), Detach(t, "msg", o), SendMsg(t, c), St("release", o, t, "src")>>
<1>0. /\ HeapTypeOK /\ Shape /\ Null \notin Obj /\ Chan \subseteq Obj /\ o \in Obj /\ c \in Obj /\ o \notin Chan
      /\ x \in Local /\ y \in Local /\ "src" \in Local /\ "msg" \in Local /\ x # "src" /\ x # "msg" /\ y # "src" /\ y # "msg"
  BY HeapSets DEF HeapInv, Shape
<1>1. Emit(t, ss)
  BY DEF Payload
<1>2. /\ ss \in Seq(Stmt) /\ DOMAIN ss = 1 .. 5
      /\ ss[1] = Retain(t, o) /\ ss[2] = Assign(t, "src", o) /\ ss[3] = Detach(t, "msg", o) /\ ss[4] = SendMsg(t, c)
      /\ ss[5] = St("release", o, t, "src")
  <2>1. /\ Retain(t, o) \in Stmt /\ Assign(t, "src", o) \in Stmt /\ Detach(t, "msg", o) \in Stmt
        /\ SendMsg(t, c) \in Stmt /\ St("release", o, t, "src") \in Stmt
    BY <1>0, FieldsOf
  <2>2. QED
    BY <2>1
<1>3. Emits(t) /\ code'[t] = ss /\ Steps(t)' = 1 .. 5
  BY <1>0, <1>1, <1>2, EmitForm
<1>4. /\ code'[t][1].s = "retain" /\ code'[t][1].o = o /\ code'[t][1].at = <<t, "src">>
      /\ code'[t][2].s = "assign" /\ code'[t][2].o = o /\ code'[t][2].at = <<t, "src">>
      /\ code'[t][3].s = "detach" /\ code'[t][3].o = o /\ code'[t][3].at = <<t, "msg">>
      /\ code'[t][4].s = "send" /\ code'[t][4].o = c /\ code'[t][4].at = <<t, "msg">>
      /\ code'[t][5].s = "release" /\ code'[t][5].o = o /\ code'[t][5].at = <<t, "src">>
  <2>1. /\ Retain(t, o).s = "retain" /\ Retain(t, o).o = o /\ Retain(t, o).at = <<t, "src">>
        /\ Assign(t, "src", o).s = "assign" /\ Assign(t, "src", o).o = o /\ Assign(t, "src", o).at = <<t, "src">>
        /\ Detach(t, "msg", o).s = "detach" /\ Detach(t, "msg", o).o = o /\ Detach(t, "msg", o).at = <<t, "msg">>
        /\ SendMsg(t, c).s = "send" /\ SendMsg(t, c).o = c /\ SendMsg(t, c).at = <<t, "msg">>
    BY <1>0, FieldsOf
  <2>2. /\ St("release", o, t, "src").s = "release" /\ St("release", o, t, "src").o = o
        /\ St("release", o, t, "src").at = <<t, "src">>
    BY <1>0, FieldsOf
  <2> HIDE DEF ss
  <2>3. QED
    BY <1>2, <1>3, <2>1, <2>2
<1>5. local' = local /\ local[t]["src"] = Null /\ local[t]["msg"] = Null
  BY <1>0, <1>3, IdleFacts DEF Emits
<1> HIDE DEF ss
<1>6. \A i \in Steps(t)' : i = 1 \/ i = 2 \/ i = 3 \/ i = 4 \/ i = 5
  BY <1>3
<1>7. \A i \in Steps(t)' : PlacedAt(t, i)'
  BY <1>0, <1>4, <1>6 DEF PlacedAt, Halves, Writing
<1>8. \A i \in Steps(t)' : Is(t, i, Needing)' => Backed(t, i)'
  <2>1. \A j \in Steps(t)' : code'[t][j].at # <<t, y>> /\ code'[t][j].at # <<t, x>>
    BY <1>0, <1>4, <1>6
  <2>2. ~Is(t, 2, Needing)' /\ ~Is(t, 5, Needing)'
    BY <1>4 DEF Is, Needing, Taking
  <2>3. \A i \in Steps(t)' : code'[t][i].o = o => Backed(t, i)'
    BY <1>5, <2>1 DEF Backed
  <2>4. \A i \in Steps(t)' : code'[t][i].o = c => Backed(t, i)'
    BY <1>5, <2>1 DEF Backed
  <2>5. QED
    BY <1>4, <1>6, <2>2, <2>3, <2>4
<1>9. \A i \in Steps(t)' : AimedAt(t, i)'
  <2>1. AimedAt(t, 1)' /\ AimedAt(t, 2)'
    BY <1>0, <1>4, <1>5 DEF AimedAt, At1, Writing
  <2>2. AimedAt(t, 3)'
    <3>1. \A k \in 1 .. 3 - 1 : k = 1 \/ k = 2
      OBVIOUS
    <3>2. \A k \in 1 .. 3 - 1 : code'[t][k].at # code'[t][3].at
      BY <1>4, <3>1
    <3>3. QED
      BY <1>0, <1>4, <1>5, <3>2 DEF AimedAt, At1, Writing
  <2>3. AimedAt(t, 4)'
    <3>1. Before(t, 4, "detach")'
      BY <1>4 DEF Before
    <3>2. \A k \in 1 .. 4 - 1 : k = 1 \/ k = 2 \/ k = 3
      OBVIOUS
    <3>3. \A k \in 1 .. 4 - 1 : code'[t][k].at = code'[t][4].at => Follows(code'[t][k], code'[t][4])
      BY <1>4, <3>2 DEF Follows
    <3>4. QED
      BY <1>4, <3>1, <3>3 DEF AimedAt
  <2>4. AimedAt(t, 5)'
    <3>1. Before(t, 5, "assign")'
      BY <1>4 DEF Before
    <3>2. \A k \in 1 .. 5 - 1 : k = 1 \/ k = 2 \/ k = 3 \/ k = 4
      OBVIOUS
    <3>3. \A k \in 1 .. 5 - 1 : code'[t][k].s \in Writing /\ code'[t][k].at = code'[t][5].at
                                  => Follows(code'[t][k], code'[t][5])
      BY <1>4, <3>2 DEF Follows, Writing
    <3>4. QED
      BY <1>4, <3>1, <3>3 DEF AimedAt
  <2>5. QED
    BY <1>6, <2>1, <2>2, <2>3, <2>4
<1>10. Fits(t)'
  <2>1. Single(t)'
    BY <1>3, <1>4, <1>6 DEF Single, Is, Taking
  <2>2. Later(t, 2, "release")' /\ Later(t, 3, "send")'
    <3>1. Len(code'[t]) = 5
      BY <1>2, <1>3
    <3>2. 5 \in 2 + 1 .. Len(code'[t]) /\ 4 \in 3 + 1 .. Len(code'[t])
      BY <3>1
    <3>3. QED
      BY <1>4, <3>2 DEF Later
  <2>3. \A i \in Steps(t)' : /\ ~Is(t, i, Halves)' /\ ~Is(t, i, {"done"})'
                             /\ code'[t][i].s = "assign" => i = 2
                             /\ code'[t][i].s = "detach" => i = 3
    BY <1>4, <1>6 DEF Is, Halves
  <2>4. (\E i \in Steps(t)' : Is(t, i, Taking)') /\ (\E j \in Steps(t)' : Is(t, j, {"assign"})')
    BY <1>3, <1>4 DEF Is, Taking
  <2>5. \A u \in Task : ~Spawns(t, u)'
    BY <1>4, <1>6 DEF Spawns, Spawn, St
  <2>6. QED
    BY <1>7, <1>8, <1>9, <2>1, <2>2, <2>3, <2>4, <2>5 DEF Fits
<1>11. QED
  BY <1>3, <1>10, EmitStep

LEMMA SendOtherStep ==
  ASSUME HeapInv, NEW t \in Task, NEW x \in Var, NEW y \in Var, Idle(t),
         NEW c \in Chan, c = local[t][x], NEW o \in Obj \ Chan, o = local[t][y],
         Emit(t, <<Payload(t, o), SendMsg(t, c)>>)
  PROVE  HeapInv'
<1> DEFINE ss == <<Detach(t, "msg", o), SendMsg(t, c)>>
<1>0. /\ HeapTypeOK /\ Shape /\ Null \notin Obj /\ Chan \subseteq Obj /\ c \in Obj /\ o \in Obj /\ o \notin Chan
      /\ x \in Local /\ y \in Local /\ "msg" \in Local /\ x # "msg" /\ y # "msg"
  BY HeapSets DEF HeapInv, Shape
<1>1. Emit(t, ss)
  BY DEF Payload
<1>2. ss \in Seq(Stmt) /\ DOMAIN ss = 1 .. 2 /\ ss[1] = Detach(t, "msg", o) /\ ss[2] = SendMsg(t, c)
  <2>1. Detach(t, "msg", o) \in Stmt /\ SendMsg(t, c) \in Stmt
    BY <1>0, FieldsOf
  <2>2. QED
    BY <2>1
<1>3. Emits(t) /\ code'[t] = ss /\ Steps(t)' = 1 .. 2
  BY <1>0, <1>1, <1>2, EmitForm
<1>4. /\ code'[t][1].s = "detach" /\ code'[t][1].o = o /\ code'[t][1].at = <<t, "msg">>
      /\ code'[t][2].s = "send" /\ code'[t][2].o = c /\ code'[t][2].at = <<t, "msg">>
  BY <1>0, <1>2, <1>3, FieldsOf
<1>5. local' = local /\ local[t]["msg"] = Null
  BY <1>0, <1>3, IdleFacts DEF Emits
<1> HIDE DEF ss
<1>6. \A i \in Steps(t)' : i = 1 \/ i = 2
  BY <1>3
<1>7. \A i \in Steps(t)' : PlacedAt(t, i)'
  BY <1>0, <1>4, <1>6 DEF PlacedAt, Halves, Writing
<1>8. \A i \in Steps(t)' : Backed(t, i)'
  <2>1. \A j \in Steps(t)' : code'[t][j].at # <<t, y>> /\ code'[t][j].at # <<t, x>>
    BY <1>0, <1>4, <1>6
  <2>2. \A i \in Steps(t)' : code'[t][i].o = o => Backed(t, i)'
    BY <1>5, <2>1 DEF Backed
  <2>3. \A i \in Steps(t)' : code'[t][i].o = c => Backed(t, i)'
    BY <1>5, <2>1 DEF Backed
  <2>4. QED
    BY <1>4, <1>6, <2>2, <2>3
<1>9. \A i \in Steps(t)' : AimedAt(t, i)'
  <2>1. AimedAt(t, 1)'
    BY <1>0, <1>4, <1>5 DEF AimedAt, At1, Writing
  <2>2. AimedAt(t, 2)'
    <3>1. Before(t, 2, "detach")'
      BY <1>4 DEF Before
    <3>2. \A k \in 1 .. 2 - 1 : Follows(code'[t][k], code'[t][2])
      BY <1>4 DEF Follows
    <3>3. QED
      BY <1>4, <3>1, <3>2 DEF AimedAt
  <2>3. QED
    BY <1>6, <2>1, <2>2
<1>10. Fits(t)'
  <2>1. Single(t)'
    BY <1>3, <1>4, <1>6 DEF Single, Is, Taking
  <2>2. Later(t, 1, "send")'
    <3>1. Len(code'[t]) = 2
      BY <1>2, <1>3
    <3>2. 2 \in 1 + 1 .. Len(code'[t])
      BY <3>1
    <3>3. QED
      BY <1>4, <3>2 DEF Later
  <2>3. \A i \in Steps(t)' : /\ ~Is(t, i, Halves)' /\ ~Is(t, i, {"done"})' /\ ~Is(t, i, Taking)' /\ ~Is(t, i, {"assign"})'
                             /\ code'[t][i].s # "assign"
                             /\ code'[t][i].s = "detach" => i = 1
    BY <1>4, <1>6 DEF Is, Halves, Taking
  <2>4. \A u \in Task : ~Spawns(t, u)'
    BY <1>4, <1>6 DEF Spawns, Spawn, St
  <2>5. QED
    BY <1>7, <1>8, <1>9, <2>1, <2>2, <2>3, <2>4 DEF Fits
<1>11. QED
  BY <1>3, <1>10, EmitStep

LEMMA SendStep ==
  ASSUME HeapInv, NEW t \in Task, NEW x \in Var, NEW y \in Var, Send(t, x, y)
  PROVE  HeapInv'
<1>1. PICK c, o : c = local[t][x] /\ o = local[t][y]
  OBVIOUS
<1>2. Idle(t) /\ c \in Chan /\ o \in Obj \ Chan
  BY <1>1, HeapSets DEF Send, Bound, HeapInv, HeapTypeOK
<1>3. CASE o \in Text
  BY <1>1, <1>2, <1>3, SendTextStep DEF Send
<1>4. CASE o \notin Text
  BY <1>1, <1>2, <1>4, SendOtherStep DEF Send
<1>5. QED
  BY <1>3, <1>4

-----------------------------------------------------------------------------
(* The statements of a set of bindings, in any order.                      *)

LEMMA SetToSeqFacts ==
  ASSUME NEW S, IsFiniteSet(S)
  PROVE  /\ SetToSeq(S) \in Seq(S) /\ Len(SetToSeq(S)) = Cardinality(S)
         /\ \A i, j \in 1 .. Len(SetToSeq(S)) : SetToSeq(S)[i] = SetToSeq(S)[j] => i = j
         /\ \A i \in 1 .. Len(SetToSeq(S)) : SetToSeq(S)[i] \in S
         /\ \A x \in S : \E i \in 1 .. Len(SetToSeq(S)) : SetToSeq(S)[i] = x
<1> DEFINE n == Cardinality(S)   f == SetToSeq(S)
<1>1. n \in Nat /\ ExistsBijection(1 .. n, S)
  BY FS_CardinalityType
<1>2. PICK g \in [1 .. n -> S] : IsInjective(g)
  BY <1>1 DEF ExistsBijection, Bijection, Injection
<1>3. f \in [1 .. n -> S] /\ IsInjective(f)
  BY <1>2 DEF SetToSeq
<1>4. f \in Injection(1 .. n, S)
  BY <1>3 DEF Injection
<1>5. Cardinality(1 .. n) = n
  BY <1>1, FS_Interval
<1> HIDE DEF n, f
<1>6. f \in Surjection(1 .. n, S)
  BY <1>4, <1>5, FS_Injection DEF n
<1>7. f \in Seq(S) /\ Len(f) = n
  BY <1>1, <1>3
<1>8. \A i, j \in 1 .. n : f[i] = f[j] => i = j
  BY <1>3 DEF IsInjective
<1>9. \A x \in S : \E i \in 1 .. n : f[i] = x
  BY <1>6 DEF Surjection
<1>10. QED
  BY <1>1, <1>3, <1>7, <1>8, <1>9 DEF f, n

\* One more statement at the end.
LEMMA SetThenLast ==
  ASSUME NEW S, IsFiniteSet(S), S \subseteq Stmt, NEW st \in Stmt
  PROVE  LET ss == SetToSeq(S) \o <<st>>   n == Len(ss) IN
         /\ ss \in Seq(Stmt) /\ n \in Nat \ {0} /\ DOMAIN ss = 1 .. n /\ ss[n] = st
         /\ \A i \in 1 .. n : i # n => ss[i] \in S
         /\ \A i, j \in 1 .. n : i # n /\ j # n /\ ss[i] = ss[j] => i = j
         /\ \A s \in S : \E i \in 1 .. n : i # n /\ ss[i] = s
<1> DEFINE q == SetToSeq(S)   ss == q \o <<st>>   n == Len(ss)
<1>1. /\ q \in Seq(S) /\ \A i \in 1 .. Len(q) : q[i] \in S
      /\ \A i, j \in 1 .. Len(q) : q[i] = q[j] => i = j
      /\ \A x \in S : \E i \in 1 .. Len(q) : q[i] = x
  BY SetToSeqFacts
<1> HIDE DEF q
<1>2. q \in Seq(Stmt) /\ Len(q) \in Nat
  <2>1. Len(q) \in Nat /\ q \in [1 .. Len(q) -> S]
    BY <1>1
  <2>2. q \in [1 .. Len(q) -> Stmt]
    BY <2>1
  <2>3. QED
    BY <2>1, <2>2
<1>3. /\ ss \in Seq(Stmt) /\ n = Len(q) + 1 /\ ss[n] = st /\ DOMAIN ss = 1 .. n
      /\ \A i \in 1 .. Len(q) : ss[i] = q[i]
  BY <1>2
<1> HIDE DEF ss, n
<1>4. \A i \in 1 .. n : i # n => i \in 1 .. Len(q)
  BY <1>2, <1>3
<1>5. \A i \in 1 .. Len(q) : i \in 1 .. n /\ i # n
  BY <1>2, <1>3
<1>6. n \in Nat \ {0}
  BY <1>2, <1>3
<1>7. \A s \in S : \E i \in 1 .. n : i # n /\ ss[i] = s
  BY <1>1, <1>3, <1>5
<1>8. \A i, j \in 1 .. n : i # n /\ j # n /\ ss[i] = ss[j] => i = j
  BY <1>1, <1>3, <1>4
<1>9. \A i \in 1 .. n : i # n => ss[i] \in S
  BY <1>1, <1>3, <1>4
<1>10. QED
  BY <1>3, <1>6, <1>7, <1>8, <1>9 DEF ss, n, q

LEMMA LeaveScopeStep ==
  ASSUME HeapInv, NEW t \in Task, LeaveScope(t)
  PROVE  HeapInv'
<1> DEFINE B == Bound(t)   S == {Release(t, x) : x \in B}   ss == SetToSeq(S) \o <<Done(t)>>
<1>0. HeapTypeOK /\ Shape /\ Null \notin Obj /\ Var \subseteq Local /\ "src" \notin Var /\ "msg" \notin Var
  BY HeapSets DEF HeapInv, Shape
<1>1. \A x \in B : x \in Var /\ x \in Local /\ local[t][x] \in Obj /\ local[t][x] # Null
  BY <1>0 DEF Bound, HeapTypeOK
<1>2. \A x \in B : /\ Release(t, x) \in Stmt /\ Release(t, x).s = "release" /\ Release(t, x).o = local[t][x]
                   /\ Release(t, x).at = <<t, x>>
  BY <1>0, <1>1, FieldsOf DEF Release
<1>3. IsFiniteSet(S)
  <2> DEFINE f == [x \in B |-> Release(t, x)]
  <2>1. IsFiniteSet(B)
    BY HeapAssumption, FS_Subset DEF HeapAssumption, Bound
  <2>2. f \in Surjection(B, S)
    BY DEF Surjection
  <2> HIDE DEF f, S, B
  <2>3. QED
    BY <2>1, <2>2, FS_Surjection
<1>4. S \subseteq Stmt
  BY <1>2
<1>5. Done(t) \in Stmt /\ Done(t).s = "done" /\ Done(t).o = Null
  BY LastFields
<1>6. PICK n \in Nat \ {0} :
        /\ n = Len(ss) /\ ss \in Seq(Stmt) /\ DOMAIN ss = 1 .. n /\ ss[n] = Done(t)
        /\ \A i \in 1 .. n : i # n => ss[i] \in S
        /\ \A i, j \in 1 .. n : i # n /\ j # n /\ ss[i] = ss[j] => i = j
        /\ \A s \in S : \E i \in 1 .. n : i # n /\ ss[i] = s
  <2> HIDE DEF S
  <2>1. QED
    BY <1>3, <1>4, <1>5, SetThenLast, SMTT(30)
<1>7. Emits(t) /\ code'[t] = ss /\ Steps(t)' = 1 .. n /\ local' = local
  <2>1. code' = [code EXCEPT ![t] = ss] /\ UNCHANGED <<mem, rc, queue, closed, local, reg, life, todo>>
    BY DEF LeaveScope
  <2>2. code[t] = <<>> /\ life[t] = "running"
    BY DEF LeaveScope
  <2> HIDE DEF ss
  <2>3. QED
    BY <1>0, <1>6, <2>1, <2>2 DEF Emits, Steps, HeapTypeOK
<1>8. ASSUME NEW i \in 1 .. n, i # n
      PROVE  \E x \in B : code'[t][i] = Release(t, x)
  <2>1. ss[i] \in S
    BY <1>6, <1>8
  <2>2. QED
    BY <1>7, <2>1
<1>9. \A x \in B : \E i \in 1 .. n : code'[t][i] = Release(t, x)
  <2> HIDE DEF ss
  <2>1. \A x \in B : Release(t, x) \in S
    OBVIOUS
  <2>2. QED
    BY <1>6, <1>7, <2>1
<1> HIDE DEF ss, S, B
<1>10. code'[t][n].s = "done" /\ code'[t][n].o = Null /\ Len(code'[t]) = n /\ n \in Steps(t)'
  BY <1>5, <1>6, <1>7
<1>11. ASSUME NEW i \in Steps(t)', i # n
       PROVE  \E x \in B : /\ code'[t][i].s = "release" /\ code'[t][i].o = local[t][x] /\ code'[t][i].at = <<t, x>>
                           /\ x \in Var /\ local[t][x] # Null
  BY <1>1, <1>2, <1>7, <1>8, <1>11
<1>12. \A i \in Steps(t)' : code'[t][i].s = "release" \/ (i = n /\ code'[t][i].s = "done")
  BY <1>10, <1>11
<1>13. \A i \in Steps(t)' : PlacedAt(t, i)'
  <2>1. ASSUME NEW i \in Steps(t)', i # n  PROVE PlacedAt(t, i)'
    <3>1. PICK x \in B : /\ code'[t][i].s = "release" /\ code'[t][i].o = local[t][x] /\ code'[t][i].at = <<t, x>>
                         /\ x \in Var /\ local[t][x] # Null
      BY <1>11, <2>1
    <3>2. code'[t][i].at[1] = t /\ code'[t][i].at[2] = x
      BY <3>1
    <3>3. QED
      BY <1>0, <3>1, <3>2 DEF PlacedAt, Halves, Writing
  <2>2. PlacedAt(t, n)'
    <3>1. \A j \in Steps(t)' : Is(t, j, Leaving)'
      BY <1>12 DEF Is, Leaving
    <3>2. QED
      BY <1>10, <3>1 DEF PlacedAt, Halves, Writing
  <2>3. QED
    BY <2>1, <2>2
<1>14. ASSUME NEW i \in Steps(t)', NEW j \in Steps(t)', i # n, j # n, code'[t][i].at = code'[t][j].at
       PROVE  i = j
  <2>1. PICK x \in B : code'[t][i] = Release(t, x)
    BY <1>7, <1>8, <1>14
  <2>2. PICK y \in B : code'[t][j] = Release(t, y)
    BY <1>7, <1>8, <1>14
  <2>3. x = y
    BY <1>2, <1>14, <2>1, <2>2
  <2>4. QED
    BY <1>6, <1>7, <1>14, <2>1, <2>2, <2>3
<1>15. \A i \in Steps(t)' : AimedAt(t, i)'
  <2>1. ASSUME NEW i \in Steps(t)', i # n  PROVE AimedAt(t, i)'
    <3>1. PICK x \in B : /\ code'[t][i].s = "release" /\ code'[t][i].o = local[t][x] /\ code'[t][i].at = <<t, x>>
                         /\ x \in Var /\ local[t][x] # Null
      BY <1>11, <2>1
    <3>2. At1(code[t][i].at)' = code'[t][i].o
      BY <1>7, <3>1 DEF At1
    <3>3. \A k \in 1 .. i - 1 : code'[t][k].s \in Writing => code'[t][k].at # code'[t][i].at
      <4>1. \A k \in 1 .. i - 1 : k \in Steps(t)' /\ k # i /\ k # n
        BY <1>6, <1>7
      <4>2. QED
        BY <1>14, <2>1, <4>1
    <3>4. QED
      BY <3>1, <3>2, <3>3 DEF AimedAt
  <2>2. AimedAt(t, n)'
    BY <1>10 DEF AimedAt, Writing
  <2>3. QED
    BY <2>1, <2>2
<1>16. \A x \in Var : local'[t][x] # Null => Releases(t, x)'
  <2>1. SUFFICES ASSUME NEW x \in Var, local[t][x] # Null  PROVE Releases(t, x)'
    BY <1>7
  <2>2. x \in B
    BY <2>1 DEF B, Bound
  <2>3. PICK i \in 1 .. n : code'[t][i] = Release(t, x)
    BY <1>9, <2>2
  <2>4. QED
    BY <1>2, <1>7, <2>2, <2>3 DEF Releases, Is
<1>17. Fits(t)'
  <2>1. \A i \in Steps(t)' : ~Is(t, i, Halves)' /\ ~Is(t, i, Needing)' /\ ~Is(t, i, Taking)' /\ ~Is(t, i, {"assign"})'
                             /\ ~Is(t, i, {"share"})'
    BY <1>12 DEF Is, Halves, Needing, Taking
  <2>2. \A u \in Task : ~Spawns(t, u)'
    BY <1>12 DEF Spawns, Spawn, St
  <2>3. Single(t)'
    BY <2>1 DEF Single
  <2>4. \A i \in Steps(t)' : code'[t][i].s # "assign" /\ code'[t][i].s # "detach"
    BY <1>12
  <2>5. QED
    BY <1>13, <1>15, <1>16, <2>1, <2>2, <2>3, <2>4 DEF Fits
<1>18. QED
  BY <1>7, <1>17, EmitStep

\* What a hatch captures stays bound in the task that hatches, and the new
\* task, which nobody else has named, owns nothing yet.
LEMMA HatchStep ==
  ASSUME HeapInv, ~FnCapture, NEW t \in Task, NEW u \in Task, NEW caps \in SUBSET Var, Hatch(t, u, caps)
  PROVE  HeapInv'
<1> DEFINE S == {Capture(t, u, x) : x \in caps}   ss == SetToSeq(S) \o <<Spawn(u)>>
<1>0. /\ HeapTypeOK /\ Shape /\ Null \notin Obj /\ Var \subseteq Local /\ "src" \notin Var /\ "msg" \notin Var
      /\ Chan \cap Text = {}
  BY HeapSets DEF HeapInv, Shape
<1>1. /\ Idle(t) /\ life[u] = "unborn" /\ u # t /\ Emit(t, ss)
      /\ \A v \in Task : ~Spawns(v, u)
  BY DEF Hatch, Idle, ToSet, Spawns, Steps
<1>2. ASSUME NEW x \in caps
      PROVE  /\ x \in Var /\ x \in Local /\ local[t][x] \in Chan \cup Text /\ local[t][x] \in Obj /\ local[t][x] # Null
             /\ local[u][x] = Null
  <2>1. local[t][x] \in Obj /\ local[t][x] \notin Closure
    BY <1>0 DEF Hatch, Bound, HeapTypeOK
  <2>2. local[u][x] = Null
    BY <1>0, <1>1 DEF Shape, Tidy
  <2>3. QED
    BY <1>0, <2>1, <2>2 DEF Obj
<1>3. ASSUME NEW x \in caps
      PROVE  /\ Capture(t, u, x) \in Stmt /\ Capture(t, u, x).o = local[t][x] /\ Capture(t, u, x).at = <<u, x>>
             /\ \/ Capture(t, u, x).s = "detach" /\ local[t][x] \notin Chan
                \/ Capture(t, u, x).s = "share" /\ local[t][x] \in Chan
  <2>1. Capture(t, u, x) = IF local[t][x] \in Text THEN Detach(u, x, local[t][x]) ELSE Share(u, x, local[t][x])
    BY DEF Capture
  <2>2. QED
    BY <1>0, <1>2, <2>1, FieldsOf
<1>4. IsFiniteSet(S)
  <2> DEFINE f == [x \in caps |-> Capture(t, u, x)]
  <2>1. IsFiniteSet(caps)
    BY HeapAssumption, FS_Subset DEF HeapAssumption
  <2>2. f \in Surjection(caps, S)
    BY DEF Surjection
  <2> HIDE DEF f, S
  <2>3. QED
    BY <2>1, <2>2, FS_Surjection
<1>5. S \subseteq Stmt
  BY <1>3
<1>6. Spawn(u) \in Stmt /\ Spawn(u).s = "spawn" /\ Spawn(u).o = Null /\ Spawn(u).at[1] = u
  BY LastFields
<1>7. PICK n \in Nat \ {0} :
        /\ n = Len(ss) /\ ss \in Seq(Stmt) /\ DOMAIN ss = 1 .. n /\ ss[n] = Spawn(u)
        /\ \A i \in 1 .. n : i # n => ss[i] \in S
        /\ \A i, j \in 1 .. n : i # n /\ j # n /\ ss[i] = ss[j] => i = j
  <2> HIDE DEF S
  <2>1. QED
    BY <1>4, <1>5, <1>6, SetThenLast
<1>8. Emits(t) /\ code'[t] = ss /\ Steps(t)' = 1 .. n /\ local' = local /\ life' = life
  <2> HIDE DEF ss
  <2>1. Emits(t) /\ code'[t] = ss /\ Steps(t)' = DOMAIN ss
    BY <1>0, <1>1, <1>7, EmitForm
  <2>2. QED
    BY <1>7, <2>1 DEF Emits
<1>9. ASSUME NEW i \in 1 .. n, i # n
      PROVE  \E x \in caps : code'[t][i] = Capture(t, u, x)
  <2>1. ss[i] \in S
    BY <1>7, <1>9
  <2>2. QED
    BY <1>8, <2>1
<1> HIDE DEF ss, S
<1>10. /\ code'[t][n].s = "spawn" /\ code'[t][n].o = Null /\ code'[t][n].at[1] = u /\ Len(code'[t]) = n
       /\ n \in Steps(t)' /\ code'[t][n] = Spawn(u)
  BY <1>6, <1>7, <1>8
<1>11. ASSUME NEW i \in Steps(t)', i # n
       PROVE  \E x \in caps : /\ code'[t][i].o = local[t][x] /\ code'[t][i].at = <<u, x>>
                              /\ \/ code'[t][i].s = "detach" /\ local[t][x] \notin Chan
                                 \/ code'[t][i].s = "share" /\ local[t][x] \in Chan
  BY <1>3, <1>8, <1>9, <1>11
<1>12. \A i \in Steps(t)' : \/ i # n /\ code'[t][i].s \in {"share", "detach"} /\ code'[t][i].at[2] \in Var
                            \/ i = n /\ code'[t][i].s = "spawn"
  BY <1>2, <1>10, <1>11
<1>13. Spawns(t, u)'
  BY <1>10 DEF Spawns, Spawn, St
<1>14. \A i \in Steps(t)' : PlacedAt(t, i)'
  <2>1. ASSUME NEW i \in Steps(t)', i # n  PROVE PlacedAt(t, i)'
    <3>1. PICK x \in caps : /\ code'[t][i].o = local[t][x] /\ code'[t][i].at = <<u, x>>
                            /\ \/ code'[t][i].s = "detach" /\ local[t][x] \notin Chan
                               \/ code'[t][i].s = "share" /\ local[t][x] \in Chan
      BY <1>11, <2>1
    <3>2. code'[t][i].at[1] = u /\ code'[t][i].at[2] = x /\ x \in Var /\ local[t][x] # Null /\ x # "src" /\ x # "msg"
      BY <1>0, <1>2, <3>1
    <3>3. Spawns(t, code[t][i].at[1])'
      <4>1. PICK w : w = u
        OBVIOUS
      <4>2. code'[t][n] = Spawn(code'[t][i].at[1])
        BY <1>10, <3>2
      <4>3. QED
        BY <1>10, <4>2 DEF Spawns, Spawn, St
    <3>4. QED
      BY <3>1, <3>2, <3>3 DEF PlacedAt, Halves, Writing
  <2>2. PlacedAt(t, n)'
    <3>1. code'[t][n] = Spawn(code'[t][n].at[1]) /\ life'[code'[t][n].at[1]] = "unborn"
      BY <1>1, <1>8, <1>10
    <3>2. QED
      BY <1>10, <3>1 DEF PlacedAt, Halves, Writing, Spawn, St
  <2>3. QED
    BY <2>1, <2>2
<1>15. ASSUME NEW i \in Steps(t)', NEW j \in Steps(t)', i # n, j # n, code'[t][i].at = code'[t][j].at
       PROVE  i = j
  <2>1. PICK x \in caps : code'[t][i] = Capture(t, u, x)
    BY <1>8, <1>9, <1>15
  <2>2. PICK y \in caps : code'[t][j] = Capture(t, u, y)
    BY <1>8, <1>9, <1>15
  <2>3. x = y
    BY <1>3, <1>15, <2>1, <2>2
  <2>4. QED
    BY <1>7, <1>8, <1>15, <2>1, <2>2, <2>3
<1>16. \A i \in Steps(t)' : AimedAt(t, i)'
  <2>1. ASSUME NEW i \in Steps(t)', i # n  PROVE AimedAt(t, i)'
    <3>1. PICK x \in caps : code'[t][i].at = <<u, x>> /\ code'[t][i].s \in {"detach", "share"}
      BY <1>11, <2>1
    <3>2. At1(code[t][i].at)' = Null
      BY <1>2, <1>8, <3>1 DEF At1
    <3>3. \A k \in 1 .. i - 1 : code'[t][k].s \in Writing => code'[t][k].at # code'[t][i].at
      <4>1. \A k \in 1 .. i - 1 : k \in Steps(t)' /\ k # i /\ k # n
        BY <1>7, <1>8
      <4>2. QED
        BY <1>15, <2>1, <4>1
    <3>4. QED
      BY <3>1, <3>2, <3>3 DEF AimedAt
  <2>2. AimedAt(t, n)'
    BY <1>10 DEF AimedAt, Writing
  <2>3. QED
    BY <2>1, <2>2
<1>17. ASSUME NEW i \in Steps(t)', Is(t, i, Needing)'  PROVE Backed(t, i)'
  <2>1. i # n
    BY <1>10, <1>17 DEF Is, Needing, Taking
  <2>2. PICK x \in caps : code'[t][i].o = local[t][x]
    BY <1>11, <2>1
  <2>3. \A j \in Steps(t)' : code'[t][j].at # <<t, x>>
    <3>1. \A j \in Steps(t)' : code'[t][j].at[1] = u
      BY <1>10, <1>11
    <3>2. QED
      BY <1>1, <3>1
  <2>4. QED
    BY <1>2, <1>8, <2>2, <2>3 DEF Backed
<1>18. Fits(t)'
  <2>1. \A i \in Steps(t)' : ~Is(t, i, Halves)' /\ ~Is(t, i, Taking)' /\ ~Is(t, i, {"assign"})' /\ ~Is(t, i, {"done"})'
    BY <1>12 DEF Is, Halves, Taking
  <2>2. ASSUME NEW w \in Task, Spawns(t, w)', NEW v \in Task \ {t}  PROVE ~Spawns(v, w)'
    <3>1. PICK i \in Steps(t)' : code'[t][i] = Spawn(w)
      BY <2>2 DEF Spawns, Spawn, St
    <3>2. code'[t][i].s = "spawn" /\ code'[t][i].at[1] = w
      BY <3>1, LastFields
    <3>3. w = u
      BY <1>10, <1>12, <3>2
    <3>4. code'[v] = code[v] /\ Steps(v)' = Steps(v)
      BY <1>8 DEF Emits, Steps
    <3>5. ~Spawns(v, u)
      BY <1>1
    <3>6. QED
      BY <3>3, <3>4, <3>5 DEF Spawns, Spawn, St
  <2>3. Single(t)'
    BY <2>1 DEF Single, Is
  <2>4. \A i \in Steps(t)' : /\ code'[t][i].s # "assign"
                             /\ code'[t][i].s = "detach" => code'[t][i].at[2] # "msg"
    BY <1>0, <1>12
  <2>5. QED
    BY <1>14, <1>16, <1>17, <2>1, <2>2, <2>3, <2>4 DEF Fits
<1>19. QED
  BY <1>8, <1>18, EmitStep

-----------------------------------------------------------------------------
(* The constructs that build something at once.                            *)

\* A task that is between two constructs may bind a variable.
LEMMA BindShape ==
  ASSUME HeapTypeOK, Shape, NEW t \in Task, code[t] = <<>>, life[t] = "running", NEW x \in Var, NEW o \in Obj,
         code' = code, life' = life, local' = [local EXCEPT ![t][x] = o]
  PROVE  Shape'
<1> USE DEF Shape
<1>0. x \in Local /\ x # "src" /\ x # "msg" /\ local \in [Task -> [Local -> Obj \cup {Null}]]
  BY HeapSets DEF HeapTypeOK
<1>1. Steps(t) = {}
  BY IdleFacts
<1>2. \A v \in Task, y \in Local : v # t \/ y # x => local'[v][y] = local[v][y]
  BY <1>0
<1>3. Placed' /\ Stored' /\ Passing'
  <2>1. \A v \in Task : Steps(v)' = Steps(v) /\ \A u \in Task : Spawns(v, u)' <=> Spawns(v, u)
    BY DEF Steps, Spawns, Spawn, St
  <2>2. Placed'
    <3>1. ASSUME NEW v \in Task, NEW i \in Steps(v)  PROVE PlacedAt(v, i)'
      <4>1. PlacedAt(v, i) /\ code[v][i].at[1] \in Task
        BY StepsFacts DEF Placed, HeapTypeOK
      <4>2. Spawns(v, code[v][i].at[1])' <=> Spawns(v, code[v][i].at[1])
        BY DEF Steps, Spawns, Spawn, St
      <4>3. \A j \in Steps(v) : Is(v, j, Leaving)' <=> Is(v, j, Leaving)
        BY DEF Is
      <4>4. QED
        BY <2>1, <4>1, <4>2, <4>3 DEF PlacedAt, Spawn, St
    <3>2. QED
      BY <2>1, <3>1 DEF Placed
  <2>3. Stored'
    BY DEF Stored, Single, Steps, Is
  <2>4. Passing'
    BY DEF Passing, Later, Steps
  <2>5. QED
    BY <2>2, <2>3, <2>4
<1>4. Supported'
  <2>1. SUFFICES ASSUME NEW v \in Task, NEW i \in Steps(v), Is(v, i, Needing)  PROVE Backed(v, i)'
    BY DEF Supported, Steps, Is
  <2>2. Backed(v, i) /\ v # t
    BY <1>1, <2>1 DEF Supported
  <2>3. \A y \in Var : local'[v][y] = local[v][y]
    BY <1>2, <2>2, HeapSets
  <2>4. QED
    BY <2>2, <2>3 DEF Backed, Steps
<1>5. Aimed'
  <2>1. SUFFICES ASSUME NEW v \in Task, NEW i \in Steps(v)  PROVE AimedAt(v, i)'
    BY DEF Aimed, Steps
  <2>2. AimedAt(v, i) /\ v # t /\ PlacedAt(v, i)
    BY <1>1, <2>1 DEF Aimed, Placed
  <2>3. code[v][i].at[1] \in Task /\ code[v][i].at[2] \in Local
    BY StepsFacts DEF HeapTypeOK
  <2>4. code[v][i].s \in Writing => At1(code[v][i].at)' = At1(code[v][i].at)
    <3>1. ASSUME code[v][i].s \in Writing  PROVE code[v][i].at[1] # t
      <4>1. code[v][i].at[1] = v \/ Spawns(v, code[v][i].at[1])
        BY <2>2, <3>1 DEF PlacedAt
      <4>2. ASSUME NEW w \in Task, Spawns(v, w)  PROVE life[w] = "unborn"
        BY <4>2, SpawnedUnborn
      <4>3. QED
        BY <2>2, <2>3, <4>1, <4>2
    <3>2. QED
      BY <1>2, <2>3, <3>1 DEF At1
  <2>5. QED
    BY <2>2, <2>4 DEF AimedAt, Before, Follows, Writing
<1>6. Tidy'
  <2>1. \A v \in Task, y \in Local : Releases(v, y)' <=> Releases(v, y)
    BY DEF Releases, Steps, Is
  <2>2. \A v, w \in Task : Spawns(v, w)' <=> Spawns(v, w)
    BY DEF Spawns, Steps, Spawn, St
  <2>3. ASSUME NEW v \in Task
        PROVE  /\ local'[v]["src"] # Null => Releases(v, "src")
               /\ local'[v]["msg"] # Null => \E i \in Steps(v) : Is(v, i, {"send"})
               /\ \A i \in Steps(v) : Is(v, i, {"done"}) => \A y \in Var : local'[v][y] # Null => Releases(v, y)
    <3>1. local'[v]["src"] = local[v]["src"] /\ local'[v]["msg"] = local[v]["msg"]
      BY <1>0, <1>2, HeapSets
    <3>2. ASSUME NEW i \in Steps(v)  PROVE \A y \in Var : local'[v][y] = local[v][y]
      BY <1>1, <1>2, <3>2, HeapSets
    <3>3. QED
      BY <3>1, <3>2 DEF Tidy
  <2>4. ASSUME NEW v \in Task, life[v] = "ended" \/ (life[v] = "unborn" /\ \A w \in Task : ~Spawns(w, v))
        PROVE  \A y \in Local : local'[v][y] = Null
    <3>1. v # t
      BY <2>4
    <3>2. QED
      BY <1>2, <2>4, <3>1 DEF Tidy
  <2>5. QED
    BY <2>1, <2>2, <2>3, <2>4, HeapSets DEF Tidy, Steps, Is
<1>7. QED
  BY <1>3, <1>4, <1>5, <1>6

LEMMA BuildStep ==
  ASSUME HeapInv, NEW t \in Task, NEW x \in Var, NEW S \in {Chan, Text, Closure}, Build(t, x, S)
  PROVE  HeapInv'
<1> DEFINE o == Fresh(S)
<1>0. HeapTypeOK /\ Shape /\ Books /\ x \in Local /\ x # "msg" /\ S \subseteq Obj
  BY HeapSets DEF HeapInv, Shape, Books
<1>1. /\ Idle(t) /\ local[t][x] = Null /\ o \in Obj /\ mem[o] = "none"
      /\ mem' = [mem EXCEPT ![o] = "live"] /\ rc' = [rc EXCEPT ![o] = 1] /\ local' = [local EXCEPT ![t][x] = o]
      /\ UNCHANGED <<queue, closed, code, reg, life>>
  BY <1>0, FreshFacts DEF Build
<1>2. PICK p \in Obj : p = o
  BY <1>1
<1> HIDE DEF o
<1>3. HeapTypeOK'
  BY <1>0, <1>1, <1>2 DEF HeapTypeOK
<1>4. Shape'
  BY <1>0, <1>1, <1>2, BindShape DEF Idle
<1>5. Creates(p, <<t, x>>)
  <2>1. local' \in [Task -> [Local -> Obj \cup {Null}]] /\ local'[t][x] = p
    BY <1>3, <1>0, <1>1, <1>2 DEF HeapTypeOK
  <2>2. \A v \in Task, y \in Local : <<v, y>> # <<t, x>> => local'[v][y] = local[v][y]
    BY <1>0, <1>1 DEF HeapTypeOK
  <2>3. \A v \in Task, q \in Obj : Holds(v, q)' <=> Holds(v, q)
    BY <1>1 DEF Holds, Steps, Is
  <2>4. \A v \in Task, q \in Obj, s \in Halves : Starts(v, s, q)' <=> Starts(v, s, q)
    BY <1>1 DEF Starts
  <2>5. QED
    BY <1>0, <1>1, <1>2, <2>1, <2>2, <2>3, <2>4 DEF Creates
<1>6. Books'
  BY <1>0, <1>5, CreateBooks
<1>7. QED
  BY <1>3, <1>4, <1>6 DEF HeapInv, Shape, Books

\* What lines() does: a fresh channel c that is full of fresh Strs.
Fills(t, x, c, lines) ==
  /\ c \in Chan /\ mem[c] = "none" /\ lines \subseteq {o \in Text : mem[o] = "none"}
  /\ mem' = [o \in Obj |-> IF o \in lines \cup {c} THEN "live" ELSE mem[o]]
  /\ rc' = [o \in Obj |-> IF o \in lines \cup {c} THEN 1 ELSE rc[o]]
  /\ queue' = [queue EXCEPT ![c] = SetToSeq(lines)]
  /\ local[t][x] = Null /\ local' = [local EXCEPT ![t][x] = c]
  /\ UNCHANGED <<code, reg>>

LEMMA FillBooks ==
  ASSUME HeapTypeOK, Shape, Books, NEW t \in Task, NEW x \in Var, NEW c, NEW lines, Fills(t, x, c, lines)
  PROVE  Books' /\ queue' \in [Chan -> Seq(Obj \ Chan)]
<1> USE DEF Books
<1> DEFINE q == SetToSeq(lines)   q0 == <<t, x>>
<1>0. /\ c \in Chan /\ c \in Obj /\ mem[c] = "none" /\ x \in Local /\ x # "msg" /\ Null \notin Obj
      /\ \A m \in lines : m \in Obj \ Chan /\ mem[m] = "none"
      /\ local \in [Task -> [Local -> Obj \cup {Null}]] /\ queue \in [Chan -> Seq(Obj \ Chan)]
  BY HeapSets DEF Fills, HeapTypeOK
<1>1. /\ q \in Seq(lines) /\ \A i, j \in DOMAIN q : q[i] = q[j] => i = j
      /\ \A i \in DOMAIN q : q[i] \in lines
      /\ \A m \in lines : \E i \in DOMAIN q : q[i] = m
  <2>1. IsFiniteSet(lines)
    BY HeapAssumption, FS_Subset DEF HeapAssumption, Fills
  <2>2. q \in Seq(lines) => DOMAIN q = 1 .. Len(q)
    OBVIOUS
  <2>3. QED
    BY <2>1, <2>2, SetToSeqFacts
<1> HIDE DEF q
<1>2. q \in Seq(Obj \ Chan)
  <2>1. Len(q) \in Nat /\ q \in [1 .. Len(q) -> lines]
    BY <1>1
  <2>2. q \in [1 .. Len(q) -> Obj \ Chan]
    BY <1>0, <2>1
  <2>3. QED
    BY <2>1, <2>2
<1>3. /\ queue' \in [Chan -> Seq(Obj \ Chan)] /\ queue'[c] = q
      /\ \A d \in Chan \ {c} : queue'[d] = queue[d]
  BY <1>0, <1>2 DEF Fills, q
<1>4. queue[c] = <<>>
  BY <1>0 DEF Queued
<1>5. /\ local'[t][x] = c
      /\ \A v \in Task, y \in Local : v # t \/ y # x => local'[v][y] = local[v][y]
  BY <1>0 DEF Fills
<1>6. /\ \A o \in Obj : o \in lines \/ o = c => mem'[o] = "live" /\ rc'[o] = 1
      /\ \A o \in Obj : o \notin lines /\ o # c => mem'[o] = mem[o] /\ rc'[o] = rc[o]
  BY DEF Fills
<1>7. \A o \in Obj : o \in lines \/ o = c => Ownerless(o)
  BY <1>0 DEF Counted
<1>8. \A v \in Task, o \in Obj : /\ Holds(v, o)' <=> Holds(v, o)
                                 /\ Starts(v, "addOne", o)' <=> Starts(v, "addOne", o)
                                 /\ Starts(v, "subOne", o)' <=> Starts(v, "subOne", o)
                                 /\ Starts(v, "drop", o)' <=> Starts(v, "drop", o)
  BY DEF Fills, Holds, Starts, Steps, Is
<1>9. \A o \in Obj : InHands(o)' = InHands(o) /\ InReturn(o)' = InReturn(o)
  BY <1>8 DEF InHands, InReturn
<1>10. \A p \in Task \X Local : p = <<p[1], p[2]>> /\ p[1] \in Task /\ p[2] \in Local
  OBVIOUS
<1>11. \A p \in Task \X Local : p # q0 => local'[p[1]][p[2]] = local[p[1]][p[2]]
  BY <1>5, <1>10
<1>12. local[q0[1]][q0[2]] = Null /\ local'[q0[1]][q0[2]] = c /\ q0 \in Task \X Local
  BY <1>0, <1>5 DEF Fills
<1> HIDE DEF q0
<1>13. \A o \in Obj : o # c => InLocals(o)' = InLocals(o)
  BY <1>0, <1>11, <1>12 DEF InLocals, At1
<1>14. InLocals(c)' = {q0}
  BY <1>0, <1>7, <1>11, <1>12 DEF InLocals, At1, Ownerless
<1>15. \A o \in Obj : o \notin lines => InQueues(o)' = InQueues(o)
  <2>1. SUFFICES ASSUME NEW o \in Obj, o \notin lines, NEW d \in Chan
                 PROVE  (\E i \in DOMAIN queue'[d] : queue'[d][i] = o) <=> \E i \in DOMAIN queue[d] : queue[d][i] = o
    BY DEF InQueues
  <2>2. CASE d = c
    <3>1. DOMAIN queue[c] = {}
      BY <1>4
    <3>2. QED
      BY <1>1, <1>3, <2>1, <2>2, <3>1
  <2>3. CASE d # c
    BY <1>3, <2>3
  <2>4. QED
    BY <2>2, <2>3
<1>16. \A m \in lines : InQueues(m)' = {c}
  <2>1. SUFFICES ASSUME NEW m \in lines, NEW d \in Chan
                 PROVE  (\E i \in DOMAIN queue'[d] : queue'[d][i] = m) <=> d = c
    BY <1>0 DEF InQueues
  <2>2. CASE d = c
    BY <1>1, <1>3, <2>2
  <2>3. CASE d # c
    <3>1. ~\E i \in DOMAIN queue[d] : queue[d][i] = m
      BY <1>0, <1>7 DEF Ownerless, InQueues
    <3>2. QED
      BY <1>3, <2>3, <3>1
  <2>4. QED
    BY <2>2, <2>3
<1>17. Cardinality({}) = 0 /\ \A z : Cardinality({z}) = 1
  BY FS_EmptySet, FS_Singleton
<1>18. Owners(c)' = 1
  <2>1. c \notin lines
    BY <1>0
  <2>2. InQueues(c)' = {} /\ InHands(c)' = {} /\ InReturn(c)' = {}
    BY <1>0, <1>7, <1>9, <1>15, <2>1 DEF Ownerless
  <2>3. Cardinality(InLocals(c)') = 1
    BY <1>14, <1>17
  <2>4. QED
    BY <1>17, <2>2, <2>3 DEF Owners
<1>19. ASSUME NEW m \in lines  PROVE Owners(m)' = 1
  <2>1. m \in Obj /\ m # c
    BY <1>0
  <2>2. InLocals(m)' = {} /\ InHands(m)' = {} /\ InReturn(m)' = {}
    BY <1>7, <1>9, <1>13, <2>1 DEF Ownerless
  <2>3. QED
    BY <1>16, <1>17, <2>2 DEF Owners
<1>20. ASSUME NEW o \in Obj, o \notin lines, o # c  PROVE Owners(o)' = Owners(o) /\ (Ownerless(o)' <=> Ownerless(o))
  BY <1>9, <1>13, <1>15, <1>20 DEF Owners, Ownerless
<1>21. \A v \in Task, o \in Obj : o \in lines \/ o = c =>
         ~Starts(v, "addOne", o) /\ ~Starts(v, "subOne", o) /\ ~Starts(v, "drop", o)
  <2>1. ASSUME NEW v \in Task, NEW o \in Obj, mem[o] # "live"
        PROVE  ~Starts(v, "addOne", o) /\ ~Starts(v, "subOne", o) /\ ~Starts(v, "drop", o)
    BY <2>1, HalfHas DEF Halved, Counted, Shape
  <2>2. \A o \in Obj : o \in lines \/ o = c => mem[o] = "none"
    BY <1>0
  <2>3. QED
    BY <2>1, <2>2
<1>22. Counted'
  <2>1. SUFFICES ASSUME NEW o \in Obj
                 PROVE  /\ mem'[o] = "live" => /\ rc'[o] = Owners(o)'
                                               /\ rc'[o] = 0 => \E v \in Task : Starts(v, "drop", o)'
                        /\ mem'[o] # "live" => Ownerless(o)'
    BY DEF Counted
  <2>2. CASE o \in lines \/ o = c
    BY <1>6, <1>18, <1>19, <2>2
  <2>3. CASE o \notin lines /\ o # c
    BY <1>6, <1>8, <1>20, <2>3 DEF Counted
  <2>4. QED
    BY <2>2, <2>3
<1>23. Halved'
  <2>1. SUFFICES ASSUME NEW v \in Task, NEW o \in Obj
                 PROVE  /\ Starts(v, "addOne", o)' \/ Starts(v, "subOne", o)' => reg'[v] = rc'[o]
                        /\ Starts(v, "drop", o)' => /\ mem'[o] = "live" /\ rc'[o] = 0
                                                    /\ \A u \in Task : Starts(u, "drop", o)' => v = u
    BY DEF Halved
  <2>2. CASE o \in lines \/ o = c
    BY <1>8, <1>21, <2>2
  <2>3. CASE o \notin lines /\ o # c
    <3>1. reg' = reg
      BY DEF Fills
    <3>2. QED
      BY <1>6, <1>8, <2>3, <3>1 DEF Halved
  <2>4. QED
    BY <2>2, <2>3
<1>24. Queued'
  <2>1. ASSUME NEW v \in Task, local'[v]["msg"] # Null  PROVE local'[v]["msg"] \notin Chan /\ rc'[local'[v]["msg"]] = 1
    <3>1. local'[v]["msg"] = local[v]["msg"] /\ local[v]["msg"] \in Obj
      BY <1>0, <1>5, <2>1, HeapSets
    <3>2. <<v, "msg">> \in InLocals(local[v]["msg"])
      BY HeapSets DEF InLocals, At1
    <3>3. local[v]["msg"] \notin lines /\ local[v]["msg"] # c
      BY <1>7, <3>1, <3>2 DEF Ownerless
    <3>4. QED
      BY <1>6, <2>1, <3>1, <3>3 DEF Queued
  <2>2. ASSUME NEW d \in Chan
        PROVE  /\ queue'[d] # <<>> => mem'[d] = "live"
               /\ \A i, j \in DOMAIN queue'[d] : queue'[d][i] = queue'[d][j] => i = j
               /\ \A i \in DOMAIN queue'[d] : rc'[queue'[d][i]] = 1
    <3>1. CASE d = c
      BY <1>0, <1>1, <1>3, <1>6, <3>1
    <3>2. CASE d # c
      <4>1. /\ queue'[d] = queue[d]
            /\ queue[d] # <<>> => mem[d] = "live"
            /\ \A i, j \in DOMAIN queue[d] : queue[d][i] = queue[d][j] => i = j
            /\ \A i \in DOMAIN queue[d] : rc[queue[d][i]] = 1
        BY <1>3, <3>2 DEF Queued
      <4>2. ASSUME NEW i \in DOMAIN queue[d]  PROVE rc'[queue[d][i]] = 1
        <5>1. queue[d][i] \in Obj
          BY <1>0
        <5>2. queue[d][i] \notin lines /\ queue[d][i] # c
          BY <1>7, <5>1 DEF Ownerless, InQueues
        <5>3. QED
          BY <1>6, <4>1, <5>1, <5>2
      <4>3. d \in Obj /\ d \notin lines
        BY <1>0, HeapSets
      <4>4. QED
        BY <1>6, <3>2, <4>1, <4>2, <4>3
    <3>3. QED
      BY <3>1, <3>2
  <2>3. QED
    BY <2>1, <2>2 DEF Queued
<1>25. Apart'
  <2>1. ASSUME NEW v \in Task, NEW o \in Obj \ Chan, Has(v, o)'  PROVE Has(v, o)
    <3>1. o # c
      BY <1>0, <2>1
    <3>2. \A y \in Local : local'[v][y] = o => local[v][y] = o
      BY <1>5, <3>1
    <3>3. QED
      BY <1>8, <2>1, <3>2 DEF Has
  <2>2. QED
    BY <2>1 DEF Apart
<1>26. QED
  BY <1>3, <1>22, <1>23, <1>24, <1>25

LEMMA LinesStep ==
  ASSUME HeapInv, NEW t \in Task, NEW x \in Var, Lines(t, x)
  PROVE  HeapInv'
<1> DEFINE c == Fresh(Chan)
<1>0. HeapTypeOK /\ Shape /\ Books /\ x \in Local /\ Chan \subseteq Obj
  BY HeapSets DEF HeapInv, Shape, Books
<1>1. c \in Chan /\ mem[c] = "none"
  BY FreshFacts DEF Lines
<1>2. PICK lines \in SUBSET {o \in Text : mem[o] = "none"} :
        /\ mem' = [o \in Obj |-> IF o \in lines \cup {c} THEN "live" ELSE mem[o]]
        /\ rc' = [o \in Obj |-> IF o \in lines \cup {c} THEN 1 ELSE rc[o]]
        /\ queue' = [queue EXCEPT ![c] = SetToSeq(lines)]
        /\ closed' = [closed EXCEPT ![c] = TRUE]
        /\ local' = [local EXCEPT ![t][x] = c]
  BY DEF Lines
<1>3. local[t][x] = Null /\ Idle(t) /\ UNCHANGED <<code, reg, life>>
  BY DEF Lines
<1>4. PICK d \in Chan : d = c
  BY <1>1
<1> HIDE DEF c
<1>5. Fills(t, x, d, lines)
  BY <1>1, <1>2, <1>3, <1>4 DEF Fills
<1>6. Books' /\ queue' \in [Chan -> Seq(Obj \ Chan)]
  BY <1>0, <1>5, FillBooks
<1>7. HeapTypeOK'
  BY <1>0, <1>1, <1>2, <1>3, <1>6 DEF HeapTypeOK
<1>8. Shape'
  BY <1>0, <1>1, <1>2, <1>3, <1>4, BindShape DEF Idle
<1>9. QED
  BY <1>6, <1>7, <1>8 DEF HeapInv, Shape, Books

-----------------------------------------------------------------------------
(* The invariant holds.                                                    *)

LEMMA ConstructStep ==
  ASSUME HeapInv, ~SelfRebind, ~FnCapture, NEW t \in Task, Construct(t)
  PROVE  HeapInv'
<1>1. CASE \E x \in Var : \E S \in {Chan, Text, Closure} : Build(t, x, S)
  BY <1>1, BuildStep
<1>2. CASE \E x \in Var : CloseChan(t, x) \/ Lines(t, x)
  BY <1>2, CloseStep, LinesStep
<1>3. CASE \E x \in Var : \E y \in Var : Alias(t, x, y) \/ Rebind(t, x, y) \/ Send(t, x, y) \/ Recv(t, x, y)
  BY <1>3, AliasStep, RebindStep, SendStep, RecvStep
<1>4. CASE \E u \in Task, caps \in SUBSET Var : Hatch(t, u, caps)
  BY <1>4, HatchStep
<1>5. CASE LeaveScope(t)
  BY <1>5, LeaveScopeStep
<1>6. QED
  BY <1>1, <1>2, <1>3, <1>4, <1>5 DEF Construct

LEMMA StutterStep ==
  ASSUME HeapInv, UNCHANGED vars
  PROVE  HeapInv'
<1> USE DEF vars
<1>1. \A t \in Task : Steps(t)' = Steps(t)
  BY DEF Steps
<1>2. HeapTypeOK'
  BY DEF HeapInv, HeapTypeOK
<1>3. \A t \in Task : \A u : Spawns(t, u)' <=> Spawns(t, u)
  BY DEF Spawns, Steps, Spawn, St
<1>4. Placed'
  <2>1. \A t \in Task : \A i \in Steps(t) : PlacedAt(t, i)' <=> PlacedAt(t, i)
    BY <1>1, <1>3 DEF PlacedAt, Is, Spawn, St
  <2>2. QED
    BY <1>1, <1>3, <2>1 DEF HeapInv, Placed
<1>5. Supported'
  BY Zenon DEF HeapInv, Supported, Backed, Is, Steps
<1>6. Aimed'
  BY DEF HeapInv, Aimed, AimedAt, At1, Before, Follows, Steps
<1>7. Stored'
  BY DEF HeapInv, Stored, Single, Is, Steps
<1>8. Passing'
  BY DEF HeapInv, Passing, Later, Steps
<1>9. Tidy'
  <2>1. \A t \in Task, x \in Local : Releases(t, x)' <=> Releases(t, x)
    BY DEF Releases, Is, Steps
  <2>2. QED
    BY <1>1, <1>3, <2>1, HeapSets DEF HeapInv, Tidy, Is
<1>10. \A t \in Task, o \in Obj : /\ Holds(t, o)' <=> Holds(t, o)
                                  /\ \A s : Starts(t, s, o)' <=> Starts(t, s, o)
  BY DEF Holds, Starts, Is, Steps
<1>11. ASSUME NEW o \in Obj
       PROVE  Owners(o)' = Owners(o) /\ (Ownerless(o)' <=> Ownerless(o))
  <2>1. InLocals(o)' = InLocals(o) /\ InQueues(o)' = InQueues(o)
    BY DEF InLocals, InQueues, At1
  <2>2. InHands(o)' = InHands(o) /\ InReturn(o)' = InReturn(o)
    BY <1>10 DEF InHands, InReturn
  <2>3. QED
    BY <2>1, <2>2 DEF Owners, Ownerless
<1>12. Counted'
  BY <1>10, <1>11 DEF HeapInv, Counted
<1>13. Halved' /\ Queued' /\ Apart'
  BY <1>10 DEF HeapInv, Halved, Queued, Apart, Has
<1>14. QED
  BY <1>2, <1>4, <1>5, <1>6, <1>7, <1>8, <1>9, <1>12, <1>13 DEF HeapInv

LEMMA InitInv ==
  ASSUME Init
  PROVE  HeapInv
<1>1. \A t \in Task : code[t] = <<>> /\ Steps(t) = {}
  BY DEF Init, Steps
<1>2. HeapTypeOK
  <2>1. queue \in [Chan -> Seq(Obj \ Chan)] /\ code \in [Task -> Seq(Stmt)]
    BY DEF Init
  <2>2. QED
    BY <2>1 DEF HeapTypeOK, Init
<1>3. Placed /\ Supported /\ Aimed
  BY <1>1 DEF Placed, Supported, Aimed, Spawns
<1>4. Stored /\ Passing
  BY <1>1 DEF Stored, Single, Passing
<1>5. \A t \in Task, x \in Local : local[t][x] = Null
  BY DEF Init
<1>6. Tidy
  BY <1>1, <1>5, HeapSets DEF Tidy
<1>7. \A t \in Task, o \in Obj : ~Holds(t, o) /\ \A s : ~Starts(t, s, o)
  BY <1>1 DEF Holds, Starts
<1>8. \A o \in Obj : Ownerless(o)
  <2>1. SUFFICES ASSUME NEW o \in Obj  PROVE Ownerless(o)
    OBVIOUS
  <2>2. InLocals(o) = {}
    BY <1>5, HeapSets DEF InLocals, At1
  <2>3. InQueues(o) = {}
    BY DEF InQueues, Init
  <2>4. QED
    BY <1>7, <2>2, <2>3 DEF Ownerless, InHands, InReturn
<1>9. Counted
  BY <1>8 DEF Counted, Init
<1>10. Halved /\ Apart
  BY <1>5, <1>7, HeapSets DEF Halved, Apart, Has
<1>11. Queued
  BY <1>5, HeapSets DEF Queued, Init
<1>12. QED
  BY <1>2, <1>3, <1>4, <1>6, <1>9, <1>10, <1>11 DEF HeapInv

-----------------------------------------------------------------------------
(* What the invariant says.                                                *)

LEMMA InvUse ==
  ASSUME HeapInv
  PROVE  NoUseAfterFree
<1>1. \A o \in Obj : mem[o] # "live" => Ownerless(o)
  BY DEF HeapInv, Counted
<1>2. ASSUME NEW t \in Task, NEW x \in Local, local[t][x] # Null  PROVE mem[local[t][x]] = "live"
  <2>1. local[t][x] \in Obj
    BY <1>2 DEF HeapInv, HeapTypeOK
  <2>2. <<t, x>> \in InLocals(local[t][x])
    BY DEF InLocals, At1
  <2>3. QED
    BY <1>1, <2>1, <2>2 DEF Ownerless
<1>3. ASSUME NEW c \in Chan, NEW i \in DOMAIN queue[c]  PROVE mem[queue[c][i]] = "live"
  <2>1. queue[c][i] \in Obj
    BY DEF HeapInv, HeapTypeOK
  <2>2. c \in InQueues(queue[c][i])
    BY DEF InQueues
  <2>3. QED
    BY <1>1, <2>1, <2>2 DEF Ownerless
<1>4. ASSUME NEW t \in Task, code[t] # <<>>, Next1(t).o # Null  PROVE mem[Next1(t).o] = "live"
  <2> DEFINE st == code[t][1]
  <2>1. Next1(t) = st /\ 1 \in Steps(t) /\ st.s \in Kinds /\ st.o \in Obj /\ st.at[1] \in Task /\ st.at[2] \in Local
    BY <1>4, Head1, StepsFacts DEF HeapInv, HeapTypeOK
  <2>2. PlacedAt(t, 1) /\ AimedAt(t, 1) /\ Single(t)
    BY <2>1 DEF HeapInv, Placed, Aimed, Stored
  <2>3. CASE st.s \in Needing
    <3>1. PICK y \in Var : local[t][y] = st.o
      BY <2>1, <2>3 DEF HeapInv, Supported, Backed, Is
    <3>2. QED
      BY <1>2, <1>4, <2>1, <3>1, HeapSets
  <2>4. CASE st.s = "release"
    <3>1. At1(st.at) = st.o
      BY <2>2, <2>4 DEF AimedAt, Before
    <3>2. QED
      BY <1>2, <1>4, <2>1, <3>1 DEF At1
  <2>5. CASE st.s = "assign"
    <3>1. ASSUME NEW i \in Steps(t), Is(t, i, Taking)  PROVE FALSE
      <4>1. i < 1 /\ i \in Nat
        BY <2>1, <2>2, <2>5, <3>1, StepsFacts DEF Single, Is, HeapInv, HeapTypeOK
      <4>2. i \in 1 .. Len(code[t]) /\ Len(code[t]) \in Nat
        BY StepsFacts DEF HeapInv, HeapTypeOK
      <4>3. QED
        BY <4>1, <4>2
    <3>2. Holds(t, st.o)
      BY <2>1, <2>5, <3>1 DEF Holds, Is
    <3>3. QED
      BY <1>1, <2>1, <3>2 DEF Ownerless, InHands
  <2>6. CASE st.s = "subOne"
    <3>1. t \in InReturn(st.o)
      BY <1>4, <2>6 DEF InReturn, Starts
    <3>2. QED
      BY <1>1, <2>1, <3>1 DEF Ownerless
  <2>7. CASE st.s = "drop"
    <3>1. Starts(t, "drop", st.o)
      BY <1>4, <2>7 DEF Starts
    <3>2. QED
      BY <2>1, <3>1 DEF HeapInv, Halved
  <2>8. st.s \notin {"spawn", "done"}
    BY <1>4, <2>1, <2>2 DEF PlacedAt
  <2>9. QED
    BY <2>1, <2>3, <2>4, <2>5, <2>6, <2>7, <2>8 DEF Kinds, Needing, Taking
<1>5. rc \in [Obj -> Nat]
  BY DEF HeapInv, HeapTypeOK
<1>6. \A c \in Chan : \A o \in ToSet(queue[c]) : mem[o] = "live"
  BY <1>3 DEF ToSet
<1>7. QED
  BY <1>2, <1>4, <1>5, <1>6 DEF NoUseAfterFree

LEMMA InvLocal ==
  ASSUME HeapInv
  PROVE  TaskLocal
<1>1. ASSUME NEW t \in Task, NEW u \in Task, t # u, NEW x \in Local, NEW y \in Local, local[t][x] = local[u][y]
      PROVE  local[t][x] \in Chan \cup {Null}
  <2>1. local[t][x] \in Obj \cup {Null}
    BY DEF HeapInv, HeapTypeOK
  <2>2. Has(t, local[t][x]) /\ Has(u, local[t][x])
    BY <1>1 DEF Has
  <2>3. QED
    BY <1>1, <2>1, <2>2 DEF HeapInv, Apart
<1>2. ASSUME NEW c \in Chan, NEW i \in DOMAIN queue[c]
      PROVE  /\ \A t \in Task, x \in Local : local[t][x] # queue[c][i]
             /\ \A d \in Chan : \A j \in DOMAIN queue[d] : queue[c][i] = queue[d][j] => <<c, i>> = <<d, j>>
  <2> DEFINE m == queue[c][i]
  <2>1. m \in Obj /\ rc[m] = 1 /\ c \in InQueues(m)
    BY DEF HeapInv, HeapTypeOK, Queued, InQueues
  <2>2. Owners(m) = 1
    BY <2>1 DEF HeapInv, Counted, Ownerless
  <2>3. InLocals(m) = {} /\ \A d \in InQueues(m) : c = d
    BY <2>1, <2>2, SoleOwner
  <2>4. \A t \in Task, x \in Local : local[t][x] # m
    <3>1. \A t \in Task, x \in Local : local[t][x] = m => <<t, x>> \in InLocals(m)
      BY DEF InLocals, At1
    <3>2. QED
      BY <2>3, <3>1
  <2>5. ASSUME NEW d \in Chan, NEW j \in DOMAIN queue[d], m = queue[d][j]  PROVE c = d /\ i = j
    <3>1. d \in InQueues(m)
      BY <2>5 DEF InQueues
    <3>2. c = d
      BY <2>3, <3>1
    <3>3. QED
      BY <2>5, <3>2 DEF HeapInv, Queued
  <2>6. QED
    BY <2>4, <2>5
<1>3. QED
  BY <1>1, <1>2 DEF TaskLocal

\* A message that nobody received waits in a live channel, which somebody owns.
LEMMA InvLeaks ==
  ASSUME HeapInv
  PROVE  NothingLeaks
<1>1. SUFFICES ASSUME Ended, NEW o \in Obj, mem[o] = "live"  PROVE FALSE
  BY DEF NothingLeaks
<1>2. \A t \in Task : code[t] = <<>> /\ Steps(t) = {}
  BY <1>1 DEF HeapInv, Placed, Ended, Steps
<1>3. \A t \in Task, x \in Local : local[t][x] = Null
  <2>1. \A v, t \in Task : ~Spawns(v, t)
    BY <1>2 DEF Spawns
  <2>2. QED
    BY <1>1, <2>1 DEF HeapInv, Tidy, Ended
<1>4. \A t \in Task, p \in Obj : ~Holds(t, p) /\ \A s : ~Starts(t, s, p)
  BY <1>2 DEF Holds, Starts
<1>5. \A p \in Obj : InLocals(p) = {} /\ InHands(p) = {} /\ InReturn(p) = {}
  BY <1>3, <1>4, HeapSets DEF InLocals, At1, InHands, InReturn
<1>6. ASSUME NEW p \in Obj, mem[p] = "live"  PROVE InQueues(p) # {}
  <2>1. Owners(p) # 0
    BY <1>4, <1>6 DEF HeapInv, Counted
  <2>2. QED
    BY <1>5, <2>1, OwnersFacts DEF Ownerless
<1>7. PICK c \in Chan : \E i \in DOMAIN queue[c] : queue[c][i] = o
  BY <1>1, <1>6 DEF InQueues
<1>8. c \in Obj /\ mem[c] = "live"
  BY <1>7, HeapSets DEF HeapInv, Queued
<1>9. InQueues(c) = {}
  BY DEF InQueues, HeapInv, HeapTypeOK
<1>10. QED
  BY <1>6, <1>8, <1>9

-----------------------------------------------------------------------------
(* The theorems.                                                           *)

LEMMA NextStep ==
  ASSUME HeapInv, ~SelfRebind, ~FnCapture, [Next]_vars
  PROVE  HeapInv'
<1>1. CASE \E t \in Task : Construct(t)
  BY <1>1, ConstructStep
<1>2. CASE \E t \in Task : Statement(t)
  BY <1>2, StatementStep
<1>3. CASE UNCHANGED vars
  BY <1>3, StutterStep
<1>4. QED
  BY <1>1, <1>2, <1>3 DEF Next

\* The code that the compiler emits keeps the books, in every interleaving of
\* the statements of any number of tasks, if no program rebinds a variable to
\* itself and no hatch captures a function value (guji_conc.c 6-14, and what
\* lexer.guji emits around every construct).
THEOREM HeapBooks ==
  ASSUME ~SelfRebind, ~FnCapture
  PROVE  Spec => []HeapInv
<1>1. Init => HeapInv
  BY InitInv
<1>2. HeapInv /\ [Next]_vars => HeapInv'
  BY NextStep
<1>3. QED
  BY <1>1, <1>2, PTL DEF Spec

\* Nothing that was freed is used or freed again.
THEOREM HeapUse ==
  ASSUME ~SelfRebind, ~FnCapture
  PROVE  Spec => []NoUseAfterFree
<1>1. HeapInv => NoUseAfterFree
  BY InvUse
<1>2. QED
  BY <1>1, HeapBooks, PTL

\* Tasks share nothing but channels, and a message between send and recv
\* belongs to nobody else: the plain counts need no atomic operations.
THEOREM HeapLocal ==
  ASSUME ~SelfRebind, ~FnCapture
  PROVE  Spec => []TaskLocal
<1>1. HeapInv => TaskLocal
  BY InvLocal
<1>2. QED
  BY <1>1, HeapBooks, PTL

\* When every task has ended, everything that was allocated has been freed,
\* the messages that nobody received and what the hatches captured included.
THEOREM HeapLeaks ==
  ASSUME ~SelfRebind, ~FnCapture
  PROVE  Spec => []NothingLeaks
<1>1. HeapInv => NothingLeaks
  BY InvLeaks
<1>2. QED
  BY <1>1, HeapBooks, PTL

=============================================================================
