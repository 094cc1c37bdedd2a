------------------------------- MODULE MCConc --------------------------------
(* Small programs for GujiConc.                                             *)
EXTENDS GujiConc, TLC

CONSTANTS tm, ta, tb, td, te,   \* tasks, tm is main
          cx, cy                \* channels

RecvArm(c) == [dir |-> "recv", ch |-> c]
SendArm(c) == [dir |-> "send", ch |-> c]

TwoTasks   == {tm, ta}
ThreeTasks == {tm, ta, tb}
FiveTasks  == {tm, ta, tb, td, te}
OneChan    == {cx}
TwoChans   == {cx, cy}

Msgs1 == 1 .. 1
Msgs2 == 1 .. 2
Msgs3 == 1 .. 3

Rendezvous == [c \in Chan |-> 0]
XRing1     == [c \in Chan |-> IF c = cx THEN 1 ELSE 0]
YRing2     == [c \in Chan |-> IF c = cy THEN 2 ELSE 0]

\* The tasks of start run; t may call does[t], and calls[t] times.
Prog(start, does, calls) ==
  [start |-> start, may |-> does @@ [t \in Task |-> {}],
   calls |-> calls @@ [t \in Task |-> 0]]
Each(n) == [t \in Task |-> n]

\* Everybody sends, receives and closes on c.
Plain(c) ==
  Prog(ThreeTasks, [t \in Task |-> {SendOp(c), RecvOp(c), CloseOp(c)}], Each(2))

\* On a channel without a buffer, and on one with room for two.
Channels == {Plain(cx), Plain(cy)}

\* tm and ta use blocking operations, tb selects: on cx alone, or on both.
SelectOne ==
  Prog(ThreeTasks,
       tm :> {SendOp(cx), RecvOp(cx), CloseOp(cx)} @@ ta :> {SendOp(cx), RecvOp(cx)} @@
       tb :> {SelectOp(<<SendArm(cx)>>, FALSE), SelectOp(<<RecvArm(cx)>>, FALSE),
              SelectOp(<<RecvArm(cx), SendArm(cx)>>, TRUE)},
       Each(2))
SelectTwo ==
  Prog(ThreeTasks,
       tm :> {SendOp(cx), RecvOp(cx), RecvOp(cy), CloseOp(cx)} @@
       ta :> {RecvOp(cx), RecvOp(cy)} @@
       tb :> {SelectOp(<<RecvArm(cx), SendArm(cy)>>, FALSE), SendOp(cx)},
       Each(2))

\* A smaller one, for liveness.
SelectFew ==
  Prog(ThreeTasks,
       tm :> {SendOp(cx), CloseOp(cx)} @@ ta :> {RecvOp(cx)} @@
       tb :> {SelectOp(<<SendArm(cx)>>, FALSE), SelectOp(<<RecvArm(cx)>>, FALSE)},
       Each(2))
Few == {SelectFew}

\* main spawns ta, which may spawn tb; they meet on cx.
Family ==
  Prog({tm},
       tm :> {SpawnOp(ta), RecvOp(cx), SelectOp(<<RecvArm(cx)>>, FALSE)} @@
       ta :> {SpawnOp(tb), SendOp(cx)} @@ tb :> {SendOp(cx), CloseOp(cx)},
       tm :> 3 @@ ta :> 2 @@ tb :> 1)

\* tm and ta both reap, at the same time or not, what tb and the tasks they
\* spawn leave behind.
Reapers ==
  Prog(ThreeTasks,
       tm :> {SpawnOp(td), RecvOp(cx)} @@ ta :> {SpawnOp(te), SendOp(cx)} @@
       tb :> {SendOp(cx)} @@ te :> {RecvOp(cx)},
       Each(1))
Schedules == {SelectOne, SelectTwo, Family, Reapers}

\* A worker takes from cx until it is closed; main sends once, then waits on cy.
Idler == {Prog(TwoTasks, tm :> {SendOp(cx), RecvOp(cy)} @@ ta :> {RecvOp(cx)}, Each(2))}

\* Two selects that could meet on cx.
Pair ==
  {Prog(TwoTasks,
        tm :> {SelectOp(<<RecvArm(cx)>>, FALSE)} @@ ta :> {SelectOp(<<SendArm(cx)>>, FALSE)},
        Each(1))}

=============================================================================
