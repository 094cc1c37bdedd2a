------------------------------- MODULE MCHeap --------------------------------
(* Small programs for GujiHeap.                                             *)
EXTENDS GujiHeap, TLC

CONSTANTS tm, ta,            \* tasks, tm is main
          c1, c2, s1, s2, f1

Tasks    == {tm, ta}
Vars     == {"x", "y"}
OneChan  == {c1}
TwoChans == {c1, c2}
OneText  == {s1}
TwoTexts == {s1, s2}
OneFn    == {f1}
NoVars   == {}
OnlyX    == {"x"}

\* How many constructs the tasks execute.
Shared   == (tm :> 4 @@ ta :> 2)
Short    == (tm :> 2 @@ ta :> 1)
Closures == (tm :> 2 @@ ta :> 0)

=============================================================================
