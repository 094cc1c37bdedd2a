----------------------------- MODULE GujiCapture -----------------------------
(***************************************************************************)
(* _capture of the conformance harness                                     *)
(* (src/conform/lib/Gujiconform/Runner.pm): it runs a program in a process *)
(* group of its own, feeds it its input and collects its output, up to a   *)
(* limit and a deadline, and ends the whole group when either is exceeded. *)
(*                                                                         *)
(* Processes and the harness interleave at system calls.  Bytes are        *)
(* counted.  A call that gives EINTR or EAGAIN is made again, which is no  *)
(* step here.                                                              *)
(***************************************************************************)
EXTENDS Integers

CONSTANTS Leader,      \* the child, which leads the group
          Helper,      \* a process that it may fork
          PipeRoom,    \* the capacity of a pipe
          Limit,       \* the capture limit of a stream
          InputLen,    \* the length of the input
          MaxSaid,     \* bounds what the group writes to each stream
          Faults       \* BOOLEAN: pipe, fork, fcntl, read and write may fail

Member == {Leader, Helper}
Flow   == {"stdout", "stderr"}

ASSUME CaptureAssumption ==
  /\ Leader # Helper /\ PipeRoom \in Nat \ {0} /\ Limit \in Nat \ {0} /\ InputLen \in Nat
  /\ MaxSaid \in [Flow -> Nat] /\ Faults \in BOOLEAN

VARIABLES stage,     \* where _capture is
          after,     \* where it goes on when the group is dead
          member,    \* "none", "forked", "grouped", "running", "zombie" or "gone"
          open,      \* open[p]: the streams that process p has open
          bytes,     \* what is in the pipes
          said,      \* what the group has written
          ended,     \* how the leader ended; <<"unexecuted">> if it ran no program
          readers,   \* the streams that are not at their end
          writing,   \* there is input left to write
          offset,    \* how much of it is written
          readable,  \* what select has reported
          writable,
          buf,       \* what has been captured
          late,      \* the deadline is over
          timedOut,
          limited,   \* the stream that exceeded the limit, or "none"
          failed,    \* the capture cannot go on
          report

group == <<member, open, said, ended>>
capture == <<readers, writing, offset, buf>>
verdictVars == <<timedOut, limited, failed>>
captureVars == <<stage, after, group, bytes, capture, readable, writable, late, verdictVars, report>>

\* No program has been started, and the harness is at stage st.
Ready(st) ==
  /\ stage = st /\ after = st
  /\ member = [p \in Member |-> "none"]
  /\ open = [p \in Member |-> {}]
  /\ bytes = [s \in Flow \cup {"stdin"} |-> 0]
  /\ said = [s \in Flow |-> 0]
  /\ ended = <<>>
  /\ readers = Flow /\ writing = (InputLen > 0) /\ offset = 0
  /\ readable = {} /\ writable = FALSE
  /\ buf = [s \in Flow |-> 0]
  /\ late = FALSE /\ timedOut = FALSE /\ limited = "none" /\ failed = FALSE
  /\ report = [error |-> TRUE]

CaptureInit == Ready("spawn")

HasOpen(s) == \E p \in Member : s \in open[p]

-----------------------------------------------------------------------------
(* Ending processes.                                                       *)

Grouped == {p \in Member : member[p] \in {"grouped", "running"}}

\* Those of S end, the leader in the way given; it stays until it is waited for.
Die(S, how) ==
  /\ member' = [p \in Member |-> IF p \notin S THEN member[p]
                                 ELSE IF p = Leader THEN "zombie" ELSE "gone"]
  /\ open' = [p \in Member |-> IF p \in S THEN {} ELSE open[p]]
  /\ ended' = IF Leader \in S THEN how ELSE ended

\* _terminate_group: SIGTERM, which a process may ignore, and SIGKILL after a
\* while; then go on at st.
Terminate(st) ==
  /\ \E dying \in SUBSET Grouped : Die(dying, <<"signal", 15>>)
  /\ stage' = "kill" /\ after' = st
  /\ UNCHANGED said

\* Faulty: whoever ignores SIGTERM goes on.
TermIsEnough == {}

Doomed == Grouped

KillGroup ==
  /\ stage = "kill"
  /\ Die(Doomed, <<"signal", 9>>)
  /\ stage' = after
  /\ UNCHANGED <<after, said, bytes, capture, readable, writable, late, verdictVars, report>>

-----------------------------------------------------------------------------
(* Starting the program.                                                   *)

StartChild ==
  /\ stage = "spawn"
  /\ \/ /\ stage' = "exec"
        /\ member' = [member EXCEPT ![Leader] = "forked"]
        /\ open' = [open EXCEPT ![Leader] = Flow \cup {"stdin"}]
     \/ Faults /\ stage' = "done" /\ UNCHANGED <<member, open>>
  /\ UNCHANGED <<after, said, ended, bytes, capture, readable, writable, late, verdictVars, report>>

JoinGroup ==
  /\ member[Leader] = "forked"
  /\ \/ member' = [member EXCEPT ![Leader] = "grouped"] /\ UNCHANGED <<open, ended>>
     \/ Faults /\ Die({Leader}, <<"unexecuted">>)
  /\ UNCHANGED <<stage, after, said, bytes, capture, readable, writable, late, verdictVars, report>>

Execute ==
  /\ member[Leader] = "grouped"
  /\ \/ member' = [member EXCEPT ![Leader] = "running"] /\ UNCHANGED <<open, ended>>
     \/ Die({Leader}, <<"unexecuted">>)
  /\ UNCHANGED <<stage, after, said, bytes, capture, readable, writable, late, verdictVars, report>>

\* Faulty: the harness hears only of an exec that succeeded.
OnlyRunning == member[Leader] = "running"

\* The close-on-exec end of the fourth pipe is closed.
Launched == member[Leader] \notin {"forked", "grouped"}

AwaitExec ==
  /\ stage = "exec" /\ Launched
  /\ failed' = (ended = <<"unexecuted">>)
  /\ stage' = IF failed' THEN "wait" ELSE "configure"
  /\ UNCHANGED <<after, group, bytes, capture, readable, writable, late, timedOut, limited, report>>

Configure ==
  /\ stage = "configure"
  /\ \/ stage' = "top" /\ UNCHANGED <<after, group, failed>>
     \/ Faults /\ failed' = TRUE /\ Terminate("wait")
  /\ UNCHANGED <<bytes, capture, readable, writable, late, timedOut, limited, report>>

-----------------------------------------------------------------------------
(* The loop.                                                               *)

Top ==
  /\ stage = "top"
  /\ \/ readers = {} /\ ~writing /\ stage' = "wait" /\ UNCHANGED <<after, group, timedOut>>
     \/ /\ readers # {} \/ writing
        /\ IF late THEN Terminate("wait") /\ timedOut' = TRUE
           ELSE stage' = "select" /\ UNCHANGED <<after, group, timedOut>>
  /\ UNCHANGED <<bytes, capture, readable, writable, late, limited, failed, report>>

\* select waits a tenth of a second at most, and the loop begins anew, which
\* makes no difference before the deadline.
Select ==
  /\ stage = "select"
  /\ readable' = {s \in readers : bytes[s] > 0 \/ ~HasOpen(s)}
  /\ writable' = (writing /\ (bytes["stdin"] < PipeRoom \/ ~HasOpen("stdin")))
  /\ \/ (readable' # {} \/ writable') /\ stage' = "serve"
     \/ readable' = {} /\ ~writable' /\ late /\ stage' = "top"
  /\ UNCHANGED <<after, group, bytes, capture, late, verdictVars, report>>

\* How much of n bytes fits.
Kept(n, available) == IF n > available THEN available ELSE n

\* One sysread; fewer bytes than there are may come.
Take(s) ==
  \E n \in 1 .. bytes[s] :
    LET available == Limit - buf[s] IN
    /\ buf' = [buf EXCEPT ![s] = @ + Kept(n, available)]
    /\ bytes' = [bytes EXCEPT ![s] = @ - n]
    /\ IF n > available
       THEN limited' = s /\ readable' = {} /\ Terminate("serve")
       ELSE readable' = readable \ {s} /\ UNCHANGED <<limited, stage, after, group>>

Serve ==
  /\ stage = "serve"
  /\ \E s \in readable :
       \/ Take(s) /\ UNCHANGED <<readers, failed>>
       \/ /\ bytes[s] = 0
          /\ readers' = readers \ {s} /\ readable' = readable \ {s}
          /\ UNCHANGED <<buf, bytes, limited, failed, stage, after, group>>
       \/ /\ Faults /\ failed' = TRUE /\ Terminate("serve")
          /\ readers' = readers \ {s} /\ readable' = readable \ {s}
          /\ UNCHANGED <<buf, bytes, limited>>
  /\ UNCHANGED <<writing, offset, writable, late, timedOut, report>>

Served ==
  /\ stage = "serve" /\ readable = {}
  /\ stage' = IF failed \/ limited # "none" THEN "wait" ELSE IF writable THEN "feed" ELSE "top"
  /\ UNCHANGED <<after, group, bytes, capture, readable, writable, late, verdictVars, report>>

\* One syswrite, if select has reported stdin.  Nobody reading it any more is
\* no error.
Feed ==
  /\ stage = "feed"
  /\ \/ /\ ~HasOpen("stdin")
        /\ writing' = FALSE /\ stage' = "top"
        /\ UNCHANGED <<offset, bytes, failed, after, group>>
     \/ /\ HasOpen("stdin")
        /\ \E n \in 1 .. InputLen - offset :
             /\ n <= PipeRoom - bytes["stdin"]
             /\ offset' = offset + n
             /\ bytes' = [bytes EXCEPT !["stdin"] = @ + n]
        /\ writing' = (offset' # InputLen) /\ stage' = "top"
        /\ UNCHANGED <<failed, after, group>>
     \/ /\ Faults /\ failed' = TRUE /\ Terminate("top")
        /\ UNCHANGED <<writing, offset, bytes>>
  /\ UNCHANGED <<readers, buf, readable, writable, late, timedOut, limited, report>>

Code(how) == IF how[1] = "signal" THEN 128 + how[2] ELSE how[2]

\* The pipes are closed; nobody has their other ends open who is not done with
\* them or dead.  There is no time-out here.
WaitForPid ==
  /\ stage = "wait" /\ member[Leader] = "zombie"
  /\ member' = [member EXCEPT ![Leader] = "gone"]
  /\ stage' = "done"
  /\ report' = IF failed THEN [error |-> TRUE]
               ELSE [error |-> FALSE, output |-> buf, timedOut |-> timedOut, limited |-> limited,
                     exit |-> IF timedOut THEN 124 ELSE IF limited # "none" THEN 125 ELSE Code(ended)]
  /\ UNCHANGED <<after, open, said, ended, bytes, capture, readable, writable, late, verdictVars>>

Harness ==
  \/ StartChild \/ AwaitExec \/ Configure \/ Top       \/ Select
  \/ Serve      \/ Served    \/ Feed      \/ KillGroup \/ WaitForPid

-----------------------------------------------------------------------------
(* The group and the clock.                                                *)

Say(p, s) ==
  /\ s \in open[p] /\ bytes[s] < PipeRoom /\ said[s] < MaxSaid[s]
  /\ bytes' = [bytes EXCEPT ![s] = @ + 1]
  /\ said' = [said EXCEPT ![s] = @ + 1]
  /\ UNCHANGED <<member, open, ended>>

Consume(p) ==
  /\ "stdin" \in open[p] /\ bytes["stdin"] > 0
  /\ bytes' = [bytes EXCEPT !["stdin"] = @ - 1]
  /\ UNCHANGED group

Shut(p, s) ==
  /\ s \in open[p]
  /\ open' = [open EXCEPT ![p] = @ \ {s}]
  /\ UNCHANGED <<member, said, ended, bytes>>

Assist ==
  /\ member[Leader] = "running" /\ member[Helper] = "none"
  /\ member' = [member EXCEPT ![Helper] = "running"]
  /\ open' = [open EXCEPT ![Helper] = open[Leader]]
  /\ UNCHANGED <<said, ended, bytes>>

Finish(p) == Die({p}, <<"exit", 1>>) /\ UNCHANGED <<said, bytes>>

Work ==
  /\ \/ \E p \in Member :
          /\ member[p] = "running"
          /\ \/ Consume(p) \/ Finish(p)
             \/ \E s \in Flow : Say(p, s)
             \/ \E s \in Flow \cup {"stdin"} : Shut(p, s)
     \/ Assist
  /\ UNCHANGED <<stage, after, capture, readable, writable, late, verdictVars, report>>

DeadlinePasses ==
  /\ ~late /\ stage \in {"top", "select", "serve", "feed", "kill"}
  /\ late' = TRUE
  /\ UNCHANGED <<stage, after, group, bytes, capture, readable, writable, verdictVars, report>>

Captured == stage = "done" /\ UNCHANGED captureVars

CaptureNext == Harness \/ JoinGroup \/ Execute \/ Work \/ DeadlinePasses \/ Captured

\* The harness runs, and its child as far as to its program; time passes.  Of
\* what the program does nothing is assumed.
CaptureFairness ==
  WF_captureVars(Harness \/ JoinGroup \/ Execute) /\ WF_captureVars(DeadlinePasses)

CaptureSpec == CaptureInit /\ [][CaptureNext]_captureVars /\ CaptureFairness

-----------------------------------------------------------------------------
(* Properties.                                                             *)

Whole == ~report.timedOut /\ report.limited = "none"

\* What the harness reports of a program is so, and decides on a fixture: an
\* exit code comes with all of the output and after the input was written or
\* refused; 125 with the first Limit bytes of a stream that had more; 124 only
\* after the deadline.  A capture that failed or was cut short leaves nobody
\* of the group behind (runner.t 61), and none leaves a zombie.
ReportHonest ==
  stage = "done" =>
    /\ member[Leader] \in {"none", "gone"}
    /\ (report.error \/ ~Whole) => Grouped = {}
    /\ ~report.error =>
         /\ Whole => /\ report.output = said
                     /\ report.exit = Code(ended)
                     /\ offset = InputLen \/ ~HasOpen("stdin")
         /\ report.timedOut => report.exit = 124 /\ late
         /\ report.limited # "none" =>
              /\ report.exit = 125 /\ report.output[report.limited] = Limit
              /\ said[report.limited] > Limit
         /\ \A s \in Flow : report.output[s] <= said[s] /\ report.output[s] <= Limit

\* Every capture comes to its end, whatever the program does: that it ignores
\* SIGTERM, leaves a process behind that holds its streams, or does not read
\* its input, cannot keep the harness - except that it closes its streams and
\* goes on.
CaptureEnds ==
  <>(stage = "done") \/ <>[](stage = "wait" /\ member[Leader] = "running" /\ ~HasOpen("stdout") /\ ~HasOpen("stderr"))
=============================================================================
