----------------------------- MODULE MCPromises -----------------------------
(* What two parts promise on their own: a channel (one rendezvous and one   *)
(* ring), and run (two calls at the same time, of a program that writes to  *)
(* both streams, more than a pipe holds, and of one that writes nothing).   *)
EXTENDS ChanSpec, GujiRun, TLC

CONSTANTS cx, cy, m1, m2, m3, ta, tb

Chans == {cx, cy}
Caps  == (cx :> 0 @@ cy :> 2)
Msgs  == {m1, m2, m3}
Tasks  == {ta, tb}
Writes == ta :> {[out |-> 1, err |-> 2]} @@ tb :> {[out |-> 0, err |-> 0]}

VARIABLE part      \* the part that works

NoRun == Calls("done", Err)

PromisesInit == Init /\ ((part = "channel" /\ NoRun) \/ (part = "run" /\ RunInit))

PromisesNext ==
  /\ UNCHANGED part
  /\ \/ part = "channel" /\ Next /\ UNCHANGED runVars
     \/ part = "run" /\ RunNext /\ UNCHANGED vars

PromisesSpec == PromisesInit /\ [][PromisesNext]_<<part, vars, runVars>> /\ RunFairness
=============================================================================
