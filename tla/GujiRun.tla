------------------------------- MODULE GujiRun -------------------------------
(***************************************************************************)
(* run(cmd, args): guji_run in src/selfhost/rt/runtime_prologue.c, which   *)
(* makes three pipes, forks, and reads the output of the program until its *)
(* end.  Tasks of one guji process may call it at the same time, and fork  *)
(* duplicates every descriptor of the process, whoever made it.            *)
(*                                                                         *)
(* A pipe is named <<t, s>>: the pipe for stream s of the call of task t;  *)
(* <<t, s, "r">> and <<t, s, "w">> are its ends.  The process that task t  *)
(* forks goes by the name t.  Bytes are counted.                           *)
(***************************************************************************)
EXTENDS Integers

CONSTANTS Task,
          PipeMax,     \* the capacity of a pipe
          Amounts,     \* Amounts[t]: how much the program of t may write to each stream
          Chunk,       \* how much is read at a time
          Failures,    \* BOOLEAN: pipe and fork may fail
          Guji,        \* the process that runs the guji program
          Err          \* the result Err("cannot run command")

Process == Task \cup {Guji}
Output  == {"out", "err"}
Stream  == Output \cup {"exec"}     \* exec tells whether the program was started
PipeEnd == Task \X Stream \X {"r", "w"}

ASSUME RunAssumption ==
  /\ PipeMax \in Nat \ {0} /\ Amounts \in [Task -> SUBSET [Output -> Nat]] /\ Chunk \in Nat \ {0}
  /\ Failures \in BOOLEAN /\ Guji \notin Task

\* What wait reports of a program that exited, or was killed by a signal.
Status == {<<"exit", 1>>, <<"signal", 9>>}

VARIABLES pc,       \* pc[t]: where the call of t is; a stream if its pipe is made next
          fds,      \* fds[p]: the ends of pipes that process p has open
          cloexec,  \* cloexec[p]: those of them it closes when it executes a program
          pipe,     \* pipe[t][s]: the bytes in a pipe
          child,    \* "none", "forked", "wired", "running", "zombie" or "reaped"
          plan,     \* what the program is going to write
          wrote,    \* what it has written
          status,   \* how it ended, <<>> if it did not run
          ready,    \* the streams that poll has reported
          unread,   \* the streams that are not at their end
          taken,    \* what has been read
          result

runVars == <<pc, fds, cloexec, pipe, child, plan, wrote, status, ready, unread, taken, result>>
local == <<ready, unread, taken, result>>
program == <<child, plan, wrote, status>>

\* No call is under way: all are at l, and those that are over returned r.
Calls(l, r) ==
  /\ pc = [t \in Task |-> l]
  /\ fds = [p \in Process |-> {}]
  /\ cloexec = [p \in Process |-> {}]
  /\ pipe = [t \in Task |-> [s \in Stream |-> 0]]
  /\ child = [t \in Task |-> "none"]
  /\ plan = [t \in Task |-> [s \in Output |-> 0]]
  /\ wrote = [t \in Task |-> [s \in Output |-> 0]]
  /\ status = [t \in Task |-> <<>>]
  /\ ready = [t \in Task |-> {}]
  /\ unread = [t \in Task |-> {}]
  /\ taken = [t \in Task |-> [s \in Output |-> 0]]
  /\ result = [t \in Task |-> r]

RunInit == Calls("idle", <<>>)

Ends(t, S, E) == {<<t, s, e>> : s \in S, e \in E}
Goto(t, l)    == pc' = [pc EXCEPT ![t] = l]
Return(t, r)  == Goto(t, "done") /\ result' = [result EXCEPT ![t] = r]

\* Nobody can write to the pipe any more.
HungUp(t, s)    == \A p \in Process : <<t, s, "w">> \notin fds[p]
Readable(t, s)  == pipe[t][s] > 0 \/ HungUp(t, s)

-----------------------------------------------------------------------------
(* The call of task t.                                                     *)

\* A command with a U+0000 in it cannot be run.
Call(t) ==
  /\ pc[t] = "idle"
  /\ \/ Goto(t, "out") /\ UNCHANGED result
     \/ Return(t, Err)
  /\ UNCHANGED <<fds, cloexec, pipe, program, ready, unread, taken>>

Following == [out |-> "err", err |-> "exec", exec |-> "protect"]

\* Faulty: the pipes that have been made stay open.
AbandonNothing(t) == UNCHANGED fds

\* A system call has failed: close what has been opened.
Abandon(t) == fds' = [fds EXCEPT ![Guji] = @ \ Ends(t, Stream, {"r", "w"})]

MakePipe(t) ==
  /\ pc[t] \in Stream
  /\ \/ /\ fds' = [fds EXCEPT ![Guji] = @ \cup Ends(t, {pc[t]}, {"r", "w"})]
        /\ Goto(t, Following[pc[t]])
        /\ UNCHANGED result
     \/ Failures /\ Abandon(t) /\ Return(t, Err)
  /\ UNCHANGED <<cloexec, pipe, program, ready, unread, taken>>

Protect(t) ==
  /\ pc[t] = "protect"
  /\ cloexec' = [cloexec EXCEPT ![Guji] = @ \cup {<<t, "exec", "w">>}]
  /\ Goto(t, "fork")
  /\ UNCHANGED <<fds, pipe, program, local>>

Fork(t) ==
  /\ pc[t] = "fork"
  /\ \/ /\ child' = [child EXCEPT ![t] = "forked"]
        /\ fds' = [fds EXCEPT ![t] = fds[Guji]]
        /\ cloexec' = [cloexec EXCEPT ![t] = cloexec[Guji]]
        /\ Goto(t, "parent")
        /\ UNCHANGED result
     \/ /\ Failures /\ Abandon(t) /\ Return(t, Err)
        /\ cloexec' = [cloexec EXCEPT ![Guji] = @ \ {<<t, "exec", "w">>}]
        /\ UNCHANGED child
  /\ UNCHANGED <<pipe, plan, wrote, status, ready, unread, taken>>

CloseWriteEnds(t) ==
  /\ pc[t] = "parent"
  /\ fds' = [fds EXCEPT ![Guji] = @ \ Ends(t, Stream, {"w"})]
  /\ cloexec' = [cloexec EXCEPT ![Guji] = @ \ {<<t, "exec", "w">>}]
  /\ Goto(t, "status")
  /\ UNCHANGED <<pipe, program, local>>

\* Has the program been started?  If not, the child has written to exec.
ReadStatus(t) ==
  /\ pc[t] = "status" /\ Readable(t, "exec")
  /\ IF pipe[t]["exec"] > 0
     THEN /\ fds' = [fds EXCEPT ![Guji] = @ \ Ends(t, Stream, {"r"})]
          /\ Goto(t, "failed") /\ UNCHANGED unread
     ELSE /\ fds' = [fds EXCEPT ![Guji] = @ \ {<<t, "exec", "r">>}]
          /\ Goto(t, "poll") /\ unread' = [unread EXCEPT ![t] = Output]
  /\ pipe' = [pipe EXCEPT ![t]["exec"] = 0]
  /\ UNCHANGED <<cloexec, program, ready, taken, result>>

ReapFailed(t) ==
  /\ pc[t] = "failed" /\ child[t] = "zombie"
  /\ child' = [child EXCEPT ![t] = "reaped"]
  /\ Return(t, Err)
  /\ UNCHANGED <<fds, cloexec, pipe, plan, wrote, status, ready, unread, taken>>

\* Faulty: stderr is not read before stdout is at its end.
OneAtATime(t) == IF "out" \in unread[t] THEN {"out"} ELSE unread[t]

Polled(t) == unread[t]

Poll(t) ==
  /\ pc[t] = "poll"
  /\ LET reported == {s \in Polled(t) : Readable(t, s)} IN
       reported # {} /\ ready' = [ready EXCEPT ![t] = reported]
  /\ Goto(t, "read")
  /\ UNCHANGED <<fds, cloexec, pipe, program, unread, taken, result>>

AtMost(n, m) == IF n < m THEN n ELSE m

\* One read of a stream that poll has reported, stdout first.
Read(t) ==
  /\ pc[t] = "read"
  /\ LET s == IF "out" \in ready[t] THEN "out" ELSE "err"
         n == AtMost(pipe[t][s], Chunk)
         left == IF n = 0 THEN unread[t] \ {s} ELSE unread[t]
     IN /\ pipe' = [pipe EXCEPT ![t][s] = @ - n]
        /\ taken' = [taken EXCEPT ![t][s] = @ + n]
        /\ unread' = [unread EXCEPT ![t] = left]
        /\ ready' = [ready EXCEPT ![t] = @ \ {s}]
        /\ Goto(t, IF ready[t] # {s} THEN "read" ELSE IF left # {} THEN "poll" ELSE "wait")
        /\ fds' = IF ready[t] = {s} /\ left = {}
                  THEN [fds EXCEPT ![Guji] = @ \ Ends(t, Output, {"r"})] ELSE fds
  /\ UNCHANGED <<cloexec, program, result>>

\* Faulty: a signal is reported as if it were an exit code.
ExitCodeOnly(st) == st[2]

ExitCode(st) == IF st[1] = "signal" THEN 128 + st[2] ELSE st[2]

Wait(t) ==
  /\ pc[t] = "wait" /\ child[t] = "zombie"
  /\ child' = [child EXCEPT ![t] = "reaped"]
  /\ Return(t, [exit |-> ExitCode(status[t]), output |-> taken[t]])
  /\ UNCHANGED <<fds, cloexec, pipe, plan, wrote, status, ready, unread, taken>>

Caller(t) ==
  \/ MakePipe(t)   \/ Protect(t)    \/ Fork(t) \/ CloseWriteEnds(t)
  \/ ReadStatus(t) \/ ReapFailed(t) \/ Poll(t) \/ Read(t) \/ Wait(t)

-----------------------------------------------------------------------------
(* The child of task t.  The pipes out and err become its descriptors 1    *)
(* and 2; their write ends are not closed when the program is executed.    *)

Wire(t) ==
  /\ child[t] = "forked"
  /\ child' = [child EXCEPT ![t] = "wired"]
  /\ fds' = [fds EXCEPT ![t] = @ \ Ends(t, Stream, {"r"})]
  /\ UNCHANGED <<pc, cloexec, pipe, plan, wrote, status, local>>

Exec(t) ==
  /\ child[t] = "wired"
  /\ \/ /\ child' = [child EXCEPT ![t] = "running"]
        /\ fds' = [fds EXCEPT ![t] = @ \ cloexec[t]]
        /\ plan' \in {[plan EXCEPT ![t] = amounts] : amounts \in Amounts[t]}
        /\ UNCHANGED pipe
     \/ /\ child' = [child EXCEPT ![t] = "zombie"]
        /\ fds' = [fds EXCEPT ![t] = {}]
        /\ pipe' = [pipe EXCEPT ![t]["exec"] = 1]
        /\ UNCHANGED plan
  /\ UNCHANGED <<pc, cloexec, wrote, status, local>>

Launch(t) == Wire(t) \/ Exec(t)

-----------------------------------------------------------------------------
(* The program.                                                            *)

Write(t, s) ==
  /\ child[t] = "running" /\ <<t, s, "w">> \in fds[t]
  /\ wrote[t][s] < plan[t][s] /\ pipe[t][s] < PipeMax
  /\ wrote' = [wrote EXCEPT ![t][s] = @ + 1]
  /\ pipe' = [pipe EXCEPT ![t][s] = @ + 1]
  /\ UNCHANGED <<pc, fds, cloexec, child, plan, status, local>>

\* It has no more to say on s.
CloseStream(t, s) ==
  /\ child[t] = "running" /\ wrote[t][s] = plan[t][s] /\ <<t, s, "w">> \in fds[t]
  /\ fds' = [fds EXCEPT ![t] = @ \ {<<t, s, "w">>}]
  /\ UNCHANGED <<pc, cloexec, pipe, program, local>>

End1(t, st) ==
  /\ child[t] = "running"
  /\ child' = [child EXCEPT ![t] = "zombie"]
  /\ status' = [status EXCEPT ![t] = st]
  /\ fds' = [fds EXCEPT ![t] = {}]
  /\ UNCHANGED <<pc, cloexec, pipe, plan, wrote, local>>

Exit(t) == wrote[t] = plan[t] /\ \E st \in Status : st[1] = "exit" /\ End1(t, st)
Kill(t) == \E st \in Status : st[1] = "signal" /\ End1(t, st)

Program(t) == (\E s \in Output : Write(t, s)) \/ Exit(t)

Done == (\A t \in Task : pc[t] = "done") /\ UNCHANGED runVars

RunNext ==
  \/ \E t \in Task : \/ Call(t) \/ Caller(t) \/ Launch(t) \/ Program(t) \/ Kill(t)
                     \/ \E s \in Output : CloseStream(t, s)
  \/ Done

\* The kernel runs every process; programs that are run come to their end if
\* nobody keeps them from writing.
RunFairness == \A t \in Task : WF_runVars(Caller(t)) /\ WF_runVars(Launch(t) \/ Program(t))

RunSpec == RunInit /\ [][RunNext]_runVars /\ RunFairness

-----------------------------------------------------------------------------
(* Properties.                                                             *)

\* A program that was started gives Ok with its exit code and with all it wrote
\* to each stream; one that was not gives Err (guji-spec.md 15.6).
Outcome ==
  \A t \in Task : pc[t] = "done" =>
    result[t] = IF status[t] = <<>> THEN Err
                ELSE [exit |-> IF status[t][1] = "signal" THEN 128 + status[t][2] ELSE status[t][2],
                      output |-> wrote[t]]

\* A call that is over, however it went, leaves neither descriptor nor zombie.
NothingLeft ==
  \A t \in Task : pc[t] = "done" =>
    /\ fds[Guji] \cap Ends(t, Stream, {"r", "w"}) = {}
    /\ child[t] \in {"none", "reaped"}

\* Every call returns if the programs end: in particular a program is never
\* stuck writing to one pipe while the other is read (runtime_prologue.c 1536).
EveryRunReturns == \A t \in Task : pc[t] # "idle" ~> pc[t] = "done"
=============================================================================
