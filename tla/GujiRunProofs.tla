---------------------------- MODULE GujiRunProofs ----------------------------
(***************************************************************************)
(* run returns what the program did and leaves nothing behind, for any     *)
(* tasks, programs and capacities.                                         *)
(*                                                                         *)
(* The invariant says of every task what its call knows at each place:     *)
(* which ends of its pipes are still open (Tidy), whether the child has    *)
(* told that it could not run the program (Told), and where the bytes that *)
(* were written are (Counted).  A step of a task changes nothing of this   *)
(* for another, although fork copies the ends that others have open:       *)
(* lemma Bystander.                                                        *)
(***************************************************************************)
EXTENDS GujiRun, TLAPS

Early == {"idle", "out", "err", "exec", "protect", "fork"}
Reading == {"poll", "read", "wait"}
Place == Early \cup {"parent", "status", "failed", "done"} \cup Reading

Typed ==
  /\ pc \in [Task -> Place]
  /\ fds \in [Process -> SUBSET PipeEnd]
  /\ cloexec \in [Process -> SUBSET PipeEnd]
  /\ pipe \in [Task -> [Stream -> Nat]]
  /\ child \in [Task -> {"none", "forked", "wired", "running", "zombie", "reaped"}]
  /\ plan \in [Task -> [Output -> Nat]]
  /\ wrote \in [Task -> [Output -> Nat]]
  /\ status \in [Task -> Status \cup {<<>>}]
  /\ ready \in [Task -> SUBSET Output]
  /\ unread \in [Task -> SUBSET Output]
  /\ taken \in [Task -> [Output -> Nat]]
  /\ result = [t \in Task |-> result[t]]

\* What guji has open of the pipes of a call, and whether there is a child.
Tidy(t) ==
  /\ pc[t] \in Early => child[t] = "none"
  /\ pc[t] = "done" => child[t] \in {"none", "reaped"}
  /\ pc[t] \in {"idle", "failed", "wait", "done"} => fds[Guji] \cap Ends(t, Stream, {"r", "w"}) = {}
  /\ pc[t] = "status" => fds[Guji] \cap Ends(t, Stream, {"w"}) = {}
  /\ pc[t] \in {"poll", "read"} => fds[Guji] \cap Ends(t, Stream, {"r", "w"}) \subseteq Ends(t, Output, {"r"})

\* A child that has not run the program has the end of exec open; one that could
\* not has told so.
Told(t) ==
  /\ pc[t] \in {"protect", "fork"} => <<t, "exec", "w">> \in fds[Guji]
  /\ child[t] \in {"forked", "wired"} => <<t, "exec", "w">> \in fds[t]
  /\ child[t] \in {"none", "forked", "wired", "running"} => status[t] = <<>>
  /\ pipe[t]["exec"] > 0 => child[t] = "zombie" /\ status[t] = <<>>
  /\ child[t] = "zombie" /\ status[t] = <<>> => pipe[t]["exec"] > 0 \/ pc[t] = "failed"
  /\ pc[t] \in {"parent", "status", "failed"} \cup Reading => child[t] \notin {"none", "reaped"}
  /\ pc[t] = "failed" => child[t] = "zombie" /\ status[t] = <<>> /\ pipe[t]["exec"] = 0
  /\ pc[t] \in Reading => child[t] = "running" \/ (child[t] = "zombie" /\ status[t] # <<>>)

\* What was written has been read or is in the pipe; a stream at its end has no
\* bytes and no writer.
Counted(t) ==
  /\ \A s \in Output : wrote[t][s] = taken[t][s] + pipe[t][s]
  /\ pc[t] \in Reading => \A s \in Output \ unread[t] : pipe[t][s] = 0 /\ HungUp(t, s)
  /\ pc[t] = "read" => ready[t] # {} /\ ready[t] \subseteq unread[t] /\ \A s \in ready[t] : Readable(t, s)
  /\ pc[t] = "wait" => unread[t] = {}

\* What the call returned.
Reported(t) ==
  pc[t] = "done" =>
    result[t] = IF status[t] = <<>> THEN Err
                ELSE [exit |-> IF status[t][1] = "signal" THEN 128 + status[t][2] ELSE status[t][2],
                      output |-> wrote[t]]

Known(t) == Tidy(t) /\ Told(t) /\ Counted(t) /\ Reported(t)
Inv == Typed /\ \A t \in Task : Known(t)

\* A step of the call, of the child or of the program of t.
Step(t) == \/ Call(t) \/ Caller(t) \/ Launch(t) \/ Program(t) \/ Kill(t)
           \/ \E s \in Output : CloseStream(t, s)

-----------------------------------------------------------------------------
(* Types.                                                                   *)

LEMMA TypedInit == RunInit => Typed
BY RunAssumption DEF RunInit, Calls, Typed, Place, Early, PipeEnd, Process, Stream, Output

LEMMA EndsTyped ==
  ASSUME NEW t \in Task, NEW S \in SUBSET Stream, NEW E \in SUBSET {"r", "w"}
  PROVE  Ends(t, S, E) \subseteq PipeEnd
BY DEF Ends, PipeEnd

\* The ends that a process has open become others.
LEMMA SetTyped ==
  ASSUME NEW f \in [Process -> SUBSET PipeEnd], NEW p \in Process, NEW X \in SUBSET PipeEnd
  PROVE  [f EXCEPT ![p] = X] \in [Process -> SUBSET PipeEnd]
OBVIOUS

LEMMA Parents == Guji \in Process /\ \A t \in Task : t \in Process /\ t # Guji
BY RunAssumption DEF Process

\* They become fewer.
LEMMA ClosedTyped ==
  ASSUME NEW f \in [Process -> SUBSET PipeEnd], NEW p \in Process, NEW X
  PROVE  [f EXCEPT ![p] = @ \ X] \in [Process -> SUBSET PipeEnd]
OBVIOUS

\* The calls.
LEMMA CallerTyped == ASSUME Typed, NEW t \in Task, Call(t) \/ Caller(t) PROVE Typed'
<1> USE Parents DEF Typed, Goto, Return
<1>1. CASE Call(t)
  BY <1>1 DEF Call, program, Place, Early
<1>2. CASE MakePipe(t)
  <2>1. pc[t] \in Stream /\ Following[pc[t]] \in Place
    BY <1>2 DEF MakePipe, Following, Stream, Output, Place, Early
  <2>2. Ends(t, {pc[t]}, {"r", "w"}) \subseteq PipeEnd
    BY <2>1, EndsTyped
  <2>3. pc' \in [Task -> Place]
    BY <1>2, <2>1 DEF MakePipe, Place
  <2>6. fds[Guji] \cup Ends(t, {pc[t]}, {"r", "w"}) \in SUBSET PipeEnd
    BY <2>2
  <2>7. fds' \in [Process -> SUBSET PipeEnd]
    <3>1. \/ fds' = [fds EXCEPT ![Guji] = @ \cup Ends(t, {pc[t]}, {"r", "w"})]
          \/ fds' = [fds EXCEPT ![Guji] = @ \ Ends(t, Stream, {"r", "w"})]
      BY <1>2 DEF MakePipe, Abandon
    <3>2. CASE fds' = [fds EXCEPT ![Guji] = @ \cup Ends(t, {pc[t]}, {"r", "w"})]
      BY <3>2, <2>6, SetTyped
    <3>3. CASE fds' = [fds EXCEPT ![Guji] = @ \ Ends(t, Stream, {"r", "w"})]
      BY <3>3, ClosedTyped
    <3>4. QED
      BY <3>1, <3>2, <3>3
  <2>4. result' = [u \in Task |-> result'[u]]
    BY <1>2 DEF MakePipe
  <2>5. QED
    BY <1>2, <2>3, <2>4, <2>7 DEF MakePipe, program
<1>3. CASE Protect(t)
  <2>1. <<t, "exec", "w">> \in PipeEnd
    BY DEF PipeEnd, Stream
  <2>2. cloexec' \in [Process -> SUBSET PipeEnd]
    BY <1>3, <2>1 DEF Protect
  <2>3. pc' \in [Task -> Place]
    BY <1>3 DEF Protect, Place, Early
  <2>4. QED
    BY <1>3, <2>2, <2>3 DEF Protect, program, local
<1>4. CASE Fork(t)
  <2>1. pc' \in [Task -> Place]
    BY <1>4 DEF Fork, Place
  <2>2. fds' \in [Process -> SUBSET PipeEnd]
    <3>1. \/ fds' = [fds EXCEPT ![t] = fds[Guji]]
          \/ fds' = [fds EXCEPT ![Guji] = @ \ Ends(t, Stream, {"r", "w"})]
      BY <1>4 DEF Fork, Abandon
    <3>2. fds[Guji] \in SUBSET PipeEnd
      OBVIOUS
    <3>3. CASE fds' = [fds EXCEPT ![t] = fds[Guji]]
      BY <3>2, <3>3, SetTyped
    <3>4. CASE fds' = [fds EXCEPT ![Guji] = @ \ Ends(t, Stream, {"r", "w"})]
      BY <3>4, ClosedTyped
    <3>5. QED
      BY <3>1, <3>3, <3>4
  <2>3. cloexec' \in [Process -> SUBSET PipeEnd]
    <3>1. \/ cloexec' = [cloexec EXCEPT ![t] = cloexec[Guji]]
          \/ cloexec' = [cloexec EXCEPT ![Guji] = @ \ {<<t, "exec", "w">>}]
      BY <1>4 DEF Fork
    <3>2. cloexec[Guji] \in SUBSET PipeEnd
      OBVIOUS
    <3>3. CASE cloexec' = [cloexec EXCEPT ![t] = cloexec[Guji]]
      BY <3>2, <3>3, SetTyped
    <3>4. CASE cloexec' = [cloexec EXCEPT ![Guji] = @ \ {<<t, "exec", "w">>}]
      BY <3>4, ClosedTyped
    <3>5. QED
      BY <3>1, <3>3, <3>4
  <2>4. child' \in [Task -> {"none", "forked", "wired", "running", "zombie", "reaped"}]
    BY <1>4 DEF Fork
  <2>5. result' = [u \in Task |-> result'[u]]
    BY <1>4 DEF Fork
  <2>6. QED
    BY <1>4, <2>1, <2>2, <2>3, <2>4, <2>5 DEF Fork
<1>5. CASE CloseWriteEnds(t)
  BY <1>5, ClosedTyped DEF CloseWriteEnds, program, local, Place
<1>6. CASE ReadStatus(t)
  <2>1. pc' \in [Task -> Place]
    <3>1. pc' = [pc EXCEPT ![t] = "failed"] \/ pc' = [pc EXCEPT ![t] = "poll"]
      BY <1>6 DEF ReadStatus
    <3>2. QED
      BY <3>1 DEF Place, Reading
  <2>5. unread' \in [Task -> SUBSET Output]
    <3>1. unread' = unread \/ unread' = [unread EXCEPT ![t] = Output]
      BY <1>6 DEF ReadStatus
    <3>2. QED
      BY <3>1
  <2>4. fds' \in [Process -> SUBSET PipeEnd]
    <3>1. \E X : fds' = [fds EXCEPT ![Guji] = @ \ X]
      BY <1>6 DEF ReadStatus
    <3>2. QED
      BY <3>1, ClosedTyped
  <2>2. pipe' \in [Task -> [Stream -> Nat]]
    <3>1. "exec" \in Stream /\ pipe[t] \in [Stream -> Nat]
      BY DEF Stream
    <3>2. [pipe[t] EXCEPT !["exec"] = 0] \in [Stream -> Nat]
      BY <3>1
    <3>3. pipe' = [pipe EXCEPT ![t] = [pipe[t] EXCEPT !["exec"] = 0]]
      BY <1>6 DEF ReadStatus
    <3>4. QED
      BY <3>2, <3>3
  <2>3. QED
    BY <1>6, <2>1, <2>2, <2>4, <2>5 DEF ReadStatus, program
<1>7. CASE ReapFailed(t)
  BY <1>7 DEF ReapFailed, Place
<1>8. CASE Poll(t)
  BY <1>8 DEF Poll, Polled, program, Place, Reading
<1>9. CASE Read(t)
  <2>1. PICK s, n, left :
          /\ s = IF "out" \in ready[t] THEN "out" ELSE "err"
          /\ n = AtMost(pipe[t][s], Chunk)
          /\ left = IF n = 0 THEN unread[t] \ {s} ELSE unread[t]
          /\ pipe' = [pipe EXCEPT ![t] = [pipe[t] EXCEPT ![s] = @ - n]]
          /\ taken' = [taken EXCEPT ![t] = [taken[t] EXCEPT ![s] = @ + n]]
          /\ unread' = [unread EXCEPT ![t] = left]
          /\ ready' = [ready EXCEPT ![t] = @ \ {s}]
          /\ pc' = [pc EXCEPT ![t] = IF ready[t] # {s} THEN "read" ELSE IF left # {} THEN "poll" ELSE "wait"]
          /\ fds' = IF ready[t] = {s} /\ left = {}
                    THEN [fds EXCEPT ![Guji] = @ \ Ends(t, Output, {"r"})] ELSE fds
    BY <1>9 DEF Read
  <2>2. s \in Output /\ s \in Stream /\ pipe[t] \in [Stream -> Nat] /\ taken[t] \in [Output -> Nat]
    BY <2>1 DEF Output, Stream
  <2>3. n \in Nat /\ n <= pipe[t][s]
    BY <2>1, <2>2, RunAssumption DEF AtMost
  <2>4. [pipe[t] EXCEPT ![s] = @ - n] \in [Stream -> Nat] /\ [taken[t] EXCEPT ![s] = @ + n] \in [Output -> Nat]
    BY <2>2, <2>3
  <2>5. pipe' \in [Task -> [Stream -> Nat]] /\ taken' \in [Task -> [Output -> Nat]]
    BY <2>1, <2>4
  <2>6. unread' \in [Task -> SUBSET Output] /\ ready' \in [Task -> SUBSET Output]
    BY <2>1
  <2>7. pc' \in [Task -> Place] /\ fds' \in [Process -> SUBSET PipeEnd]
    BY <2>1, ClosedTyped DEF Place, Reading
  <2>8. QED
    BY <1>9, <2>5, <2>6, <2>7 DEF Read, program
<1>10. CASE Wait(t)
  BY <1>10 DEF Wait, Place
<1>11. QED
  BY <1>1, <1>2, <1>3, <1>4, <1>5, <1>6, <1>7, <1>8, <1>9, <1>10 DEF Caller

\* The child, and the program in it.
LEMMA ChildTyped ==
  ASSUME Typed, NEW t \in Task,
         Launch(t) \/ Program(t) \/ Kill(t) \/ \E s \in Output : CloseStream(t, s)
  PROVE  Typed'
<1> USE Parents DEF Typed
<1>1. CASE Wire(t)
  BY <1>1, ClosedTyped DEF Wire, local
<1>2. CASE Exec(t)
  <2>1. CASE child' = [child EXCEPT ![t] = "running"] /\ fds' = [fds EXCEPT ![t] = @ \ cloexec[t]]
             /\ plan' \in {[plan EXCEPT ![t] = amounts] : amounts \in Amounts[t]} /\ UNCHANGED pipe
    <3>1. PICK amounts \in Amounts[t] : plan' = [plan EXCEPT ![t] = amounts]
      BY <2>1
    <3>2. amounts \in [Output -> Nat]
      BY <3>1, RunAssumption
    <3>3. plan' \in [Task -> [Output -> Nat]]
      BY <3>1, <3>2
    <3>4. fds' \in [Process -> SUBSET PipeEnd]
      BY <2>1, ClosedTyped
    <3>5. QED
      BY <1>2, <2>1, <3>3, <3>4 DEF Exec, local
  <2>2. CASE child' = [child EXCEPT ![t] = "zombie"] /\ fds' = [fds EXCEPT ![t] = {}]
             /\ pipe' = [pipe EXCEPT ![t]["exec"] = 1] /\ UNCHANGED plan
    <3>1. pipe[t] \in [Stream -> Nat] /\ "exec" \in Stream
      BY DEF Stream
    <3>2. [pipe[t] EXCEPT !["exec"] = 1] \in [Stream -> Nat]
      BY <3>1
    <3>3. pipe' \in [Task -> [Stream -> Nat]]
      BY <2>2, <3>2
    <3>4. fds' \in [Process -> SUBSET PipeEnd]
      BY <2>2, SetTyped
    <3>5. QED
      BY <1>2, <2>2, <3>3, <3>4 DEF Exec, local
  <2>3. QED
    BY <1>2, <2>1, <2>2 DEF Exec
<1>3. ASSUME NEW s \in Output, Write(t, s) PROVE Typed'
  <2>1. s \in Stream /\ pipe[t] \in [Stream -> Nat] /\ wrote[t] \in [Output -> Nat]
    BY DEF Stream
  <2>2. [pipe[t] EXCEPT ![s] = @ + 1] \in [Stream -> Nat] /\ [wrote[t] EXCEPT ![s] = @ + 1] \in [Output -> Nat]
    BY <2>1
  <2>3. /\ pipe' = [pipe EXCEPT ![t] = [pipe[t] EXCEPT ![s] = @ + 1]]
        /\ wrote' = [wrote EXCEPT ![t] = [wrote[t] EXCEPT ![s] = @ + 1]]
    BY <1>3 DEF Write
  <2>4. pipe' \in [Task -> [Stream -> Nat]] /\ wrote' \in [Task -> [Output -> Nat]]
    BY <2>2, <2>3
  <2>5. QED
    BY <1>3, <2>4 DEF Write, local
<1>4. ASSUME NEW s \in Output, CloseStream(t, s) PROVE Typed'
  BY <1>4, ClosedTyped DEF CloseStream, program, local
<1>5. ASSUME NEW st \in Status, End1(t, st) PROVE Typed'
  BY <1>5, SetTyped DEF End1, local
<1>6. QED
  BY <1>1, <1>2, <1>3, <1>4, <1>5 DEF Launch, Program, Exit, Kill

LEMMA NextTyped == Typed /\ [RunNext]_runVars => Typed'
<1>1. ASSUME Typed, NEW t \in Task, Step(t) PROVE Typed'
  BY <1>1, CallerTyped, ChildTyped DEF Step
<1>2. ASSUME Typed, UNCHANGED runVars PROVE Typed'
  BY <1>2 DEF Typed, runVars
<1>3. QED
  BY <1>1, <1>2 DEF RunNext, Step, Done

-----------------------------------------------------------------------------
(* What a step does to the others.                                         *)

\* The ends that are open after a step were open before it, in the same process
\* or in guji, but for those of the pipe that a call makes.
LEMMA Descriptors ==
  ASSUME Typed, NEW t \in Task, Step(t)
  PROVE  /\ \A p \in Process : fds'[p] \subseteq fds[p] \cup fds[Guji] \cup Ends(t, Stream, {"r", "w"})
         /\ pc[t] \notin Stream => \A p \in Process : fds'[p] \subseteq fds[p] \cup fds[Guji]
         /\ \A p \in Process \ {t, Guji} : fds'[p] = fds[p]
         /\ fds[Guji] \ Ends(t, Stream, {"r", "w"}) \subseteq fds'[Guji]
<1> DEFINE P == /\ \A p \in Process : fds'[p] \subseteq fds[p] \cup fds[Guji] \cup Ends(t, Stream, {"r", "w"})
                /\ pc[t] \notin Stream => \A p \in Process : fds'[p] \subseteq fds[p] \cup fds[Guji]
                /\ \A p \in Process \ {t, Guji} : fds'[p] = fds[p]
                /\ fds[Guji] \ Ends(t, Stream, {"r", "w"}) \subseteq fds'[Guji]
<1>1. fds \in [Process -> SUBSET PipeEnd]
  BY DEF Typed
<1>2. ASSUME UNCHANGED fds PROVE P
  BY <1>2
<1>3. ASSUME NEW X, fds' = [fds EXCEPT ![t] = fds[t] \ X] PROVE P
  BY <1>1, <1>3, Parents
<1>4. ASSUME fds'[Guji] \subseteq fds[Guji], fds[Guji] \ Ends(t, Stream, {"r", "w"}) \subseteq fds'[Guji],
             \A p \in Process \ {Guji} : fds'[p] = fds[p]
      PROVE  P
  BY <1>4, Parents
<1>6. ASSUME fds' = [fds EXCEPT ![t] = fds[Guji]] PROVE P
  BY <1>1, <1>6, Parents
<1>7. ASSUME fds' = [fds EXCEPT ![t] = {}] PROVE P
  BY <1>1, <1>7, Parents
<1>8. ASSUME NEW X \in SUBSET Ends(t, Stream, {"r", "w"}), fds' = [fds EXCEPT ![Guji] = fds[Guji] \ X] PROVE P
  <2>1. fds'[Guji] = fds[Guji] \ X /\ \A p \in Process \ {Guji} : fds'[p] = fds[p]
    BY <1>1, <1>8, Parents
  <2>2. QED
    BY <1>4, <2>1
<1>9. /\ Ends(t, Stream, {"w"}) \subseteq Ends(t, Stream, {"r", "w"})
      /\ Ends(t, Stream, {"r"}) \subseteq Ends(t, Stream, {"r", "w"})
      /\ Ends(t, Output, {"r"}) \subseteq Ends(t, Stream, {"r", "w"})
      /\ {<<t, "exec", "r">>} \subseteq Ends(t, Stream, {"r", "w"})
  BY DEF Ends, Stream
<1> SUFFICES P
  OBVIOUS
<1> HIDE DEF P
<1>10. CASE MakePipe(t)
  <2>1. Ends(t, {pc[t]}, {"r", "w"}) \subseteq Ends(t, Stream, {"r", "w"}) /\ pc[t] \in Stream
    BY <1>10 DEF MakePipe, Ends
  <2>2. CASE fds' = [fds EXCEPT ![Guji] = fds[Guji] \cup Ends(t, {pc[t]}, {"r", "w"})]
    <3>1. fds'[Guji] = fds[Guji] \cup Ends(t, {pc[t]}, {"r", "w"}) /\ \A p \in Process \ {Guji} : fds'[p] = fds[p]
      BY <1>1, <2>2, Parents
    <3>2. QED
      BY <2>1, <3>1, Parents DEF P
  <2>3. CASE fds' = [fds EXCEPT ![Guji] = fds[Guji] \ Ends(t, Stream, {"r", "w"})]
    BY <1>8, <2>3
  <2>4. QED
    BY <1>10, <2>2, <2>3 DEF MakePipe, Abandon
<1>11. CASE Fork(t)
  <2>1. CASE fds' = [fds EXCEPT ![t] = fds[Guji]]
    BY <1>6, <2>1
  <2>2. CASE fds' = [fds EXCEPT ![Guji] = fds[Guji] \ Ends(t, Stream, {"r", "w"})]
    BY <1>8, <2>2
  <2>3. QED
    BY <1>11, <2>1, <2>2 DEF Fork, Abandon
<1>12. CASE CloseWriteEnds(t)
  <2>1. fds' = [fds EXCEPT ![Guji] = fds[Guji] \ Ends(t, Stream, {"w"})]
    BY <1>12 DEF CloseWriteEnds
  <2>2. QED
    BY <1>8, <1>9, <2>1
<1>13. CASE ReadStatus(t)
  <2>1. CASE fds' = [fds EXCEPT ![Guji] = fds[Guji] \ Ends(t, Stream, {"r"})]
    BY <1>8, <1>9, <2>1
  <2>2. CASE fds' = [fds EXCEPT ![Guji] = fds[Guji] \ {<<t, "exec", "r">>}]
    BY <1>8, <1>9, <2>2
  <2>3. QED
    BY <1>13, <2>1, <2>2 DEF ReadStatus
<1>14. CASE Read(t)
  <2>1. CASE UNCHANGED fds
    BY <1>2, <2>1
  <2>2. CASE fds' = [fds EXCEPT ![Guji] = fds[Guji] \ Ends(t, Output, {"r"})]
    BY <1>8, <1>9, <2>2
  <2>3. QED
    BY <1>14, <2>1, <2>2 DEF Read
<1>15. CASE Wire(t)
  <2>1. fds' = [fds EXCEPT ![t] = fds[t] \ Ends(t, Stream, {"r"})]
    BY <1>15 DEF Wire
  <2>2. QED
    BY <1>3, <2>1
<1>16. CASE Exec(t)
  <2>1. fds' = [fds EXCEPT ![t] = fds[t] \ cloexec[t]] \/ fds' = [fds EXCEPT ![t] = {}]
    BY <1>16 DEF Exec
  <2>2. CASE fds' = [fds EXCEPT ![t] = fds[t] \ cloexec[t]]
    BY <1>3, <2>2
  <2>3. CASE fds' = [fds EXCEPT ![t] = {}]
    BY <1>7, <2>3
  <2>4. QED
    BY <2>1, <2>2, <2>3
<1>17. ASSUME NEW s \in Output, CloseStream(t, s) PROVE P
  <2>1. fds' = [fds EXCEPT ![t] = fds[t] \ {<<t, s, "w">>}]
    BY <1>17 DEF CloseStream
  <2>2. QED
    BY <1>3, <2>1
<1>18. ASSUME NEW st, End1(t, st) PROVE P
  BY <1>7, <1>18 DEF End1
<1>19. ASSUME \/ Call(t) \/ Protect(t) \/ ReapFailed(t) \/ Poll(t) \/ Wait(t) \/ \E s \in Output : Write(t, s)
       PROVE  P
  BY <1>2, <1>19 DEF Call, Protect, ReapFailed, Poll, Wait, Write
<1>20. P
  <2>1. CASE Call(t) \/ Caller(t)
    BY <2>1, <1>10, <1>11, <1>12, <1>13, <1>14, <1>19 DEF Caller
  <2>2. CASE Launch(t)
    BY <2>2, <1>15, <1>16 DEF Launch
  <2>3. CASE Program(t) \/ Kill(t)
    BY <2>3, <1>18, <1>19 DEF Program, Exit, Kill
  <2>4. CASE \E s \in Output : CloseStream(t, s)
    BY <2>4, <1>17
  <2>5. QED
    BY <2>1, <2>2, <2>3, <2>4 DEF Step
<1>21. QED
  BY <1>20

\* A stream that nobody can write to stays so.
LEMMA HungUpStays ==
  ASSUME Typed, NEW t \in Task, Step(t), NEW u \in Task, NEW s \in Stream, HungUp(u, s),
         u # t \/ pc[t] \notin Stream
  PROVE  HungUp(u, s)'
<1>1. u # t => <<u, s, "w">> \notin Ends(t, Stream, {"r", "w"})
  BY DEF Ends
<1>2. QED
  BY <1>1, Descriptors, Parents DEF HungUp

\* A step of t leaves alone what belongs to u.
Apart(u) ==
  /\ pc'[u] = pc[u] /\ pipe'[u] = pipe[u]
  /\ child'[u] = child[u] /\ wrote'[u] = wrote[u] /\ status'[u] = status[u]
  /\ ready'[u] = ready[u] /\ unread'[u] = unread[u] /\ taken'[u] = taken[u] /\ result'[u] = result[u]

LEMMA StepApart == ASSUME Typed, NEW t \in Task, Step(t), NEW u \in Task, u # t PROVE Apart(u)
<1> USE DEF Apart, Typed, Goto, Return, local, program
<1>1. CASE Call(t) \/ Protect(t) \/ CloseWriteEnds(t) \/ ReapFailed(t) \/ Poll(t) \/ Wait(t)
  BY <1>1 DEF Call, Protect, CloseWriteEnds, ReapFailed, Poll, Wait
<1>2. CASE MakePipe(t)
  BY <1>2 DEF MakePipe
<1>3. CASE Fork(t)
  BY <1>3 DEF Fork
<1>4. CASE ReadStatus(t)
  BY <1>4 DEF ReadStatus
<1>5. CASE Read(t)
  BY <1>5 DEF Read
<1>6. CASE Launch(t)
  BY <1>6 DEF Launch, Wire, Exec
<1>7. CASE Program(t) \/ Kill(t)
  BY <1>7 DEF Program, Write, Exit, Kill, End1
<1>8. CASE \E s \in Output : CloseStream(t, s)
  BY <1>8 DEF CloseStream
<1>9. QED
  BY <1>1, <1>2, <1>3, <1>4, <1>5, <1>6, <1>7, <1>8 DEF Step, Caller

LEMMA Bystander ==
  ASSUME Typed, NEW t \in Task, Step(t), NEW u \in Task, u # t, Known(u)
  PROVE  Known(u)'
<1>1. Apart(u)
  BY StepApart
<1>2. \A e \in Ends(u, Stream, {"r", "w"}) : e \in fds'[Guji] <=> e \in fds[Guji]
  <2>1. \A e \in Ends(u, Stream, {"r", "w"}) : e \notin Ends(t, Stream, {"r", "w"})
    BY DEF Ends
  <2>2. QED
    BY <2>1, Descriptors, Parents
<1>3. fds'[u] = fds[u]
  BY Descriptors, Parents
<1>4. \A s \in Stream : HungUp(u, s) => HungUp(u, s)'
  BY HungUpStays
<1>5. Tidy(u)'
  <2>1. /\ Ends(u, Stream, {"w"}) \subseteq Ends(u, Stream, {"r", "w"})
        /\ fds'[Guji] \cap Ends(u, Stream, {"r", "w"}) = fds[Guji] \cap Ends(u, Stream, {"r", "w"})
        /\ fds'[Guji] \cap Ends(u, Stream, {"w"}) = fds[Guji] \cap Ends(u, Stream, {"w"})
    BY <1>2 DEF Ends
  <2>2. QED
    BY <1>1, <2>1 DEF Known, Tidy, Apart
<1>6. Told(u)'
  <2>1. <<u, "exec", "w">> \in Ends(u, Stream, {"r", "w"})
    BY DEF Ends, Stream
  <2>2. QED
    BY <1>1, <1>2, <1>3, <2>1 DEF Known, Told, Apart
<1>7. Counted(u)'
  <2>1. \A s \in Output : Readable(u, s) => Readable(u, s)'
    BY <1>1, <1>4 DEF Readable, Apart, Stream
  <2>2. unread[u] \subseteq Output
    BY DEF Typed
  <2>3. QED
    BY <1>1, <1>4, <2>1, <2>2 DEF Known, Counted, Apart, Stream
<1>8. Reported(u)'
  BY <1>1 DEF Known, Reported, Apart
<1>9. QED
  BY <1>5, <1>6, <1>7, <1>8 DEF Known

-----------------------------------------------------------------------------
(* What a step does to the call it belongs to.                             *)

\* The end for writing to exec, and the ends of the streams, are ends of the call.
LEMMA OwnEnds ==
  ASSUME NEW t \in Task
  PROVE  /\ Ends(t, Stream, {"r", "w"}) = Ends(t, Stream, {"r"}) \cup Ends(t, Stream, {"w"})
         /\ Ends(t, Stream, {"r"}) = Ends(t, Output, {"r"}) \cup {<<t, "exec", "r">>}
         /\ <<t, "exec", "w">> \in Ends(t, Stream, {"w"})
         /\ \A s \in Stream : <<t, s, "w">> \in Ends(t, Stream, {"w"}) /\ <<t, s, "w">> \notin Ends(t, Stream, {"r"})
BY DEF Ends, Stream

\* The call up to the fork.
LEMMA BeginningKnown ==
  ASSUME Typed, NEW t \in Task, Known(t), Call(t) \/ MakePipe(t) \/ Protect(t) \/ Fork(t)
  PROVE  Known(t)'
<1> USE Parents DEF Known
<1>1. fds \in [Process -> SUBSET PipeEnd] /\ pc \in [Task -> Place] /\ child \in [Task -> {"none", "forked", "wired", "running", "zombie", "reaped"}]
  BY DEF Typed
<1>2. pc[t] \in Early /\ pipe' = pipe /\ wrote' = wrote /\ status' = status /\ taken' = taken /\ unread' = unread
  BY DEF Call, MakePipe, Protect, Fork, Early, Stream, Output, local, program
<1>3. child[t] = "none" /\ status[t] = <<>> /\ pipe[t]["exec"] = 0
  <2>1. child[t] = "none"
    BY <1>2 DEF Tidy
  <2>2. pipe[t]["exec"] \in Nat
    BY DEF Typed, Stream
  <2>3. QED
    BY <2>1, <2>2 DEF Told
<1>4. ASSUME pc'[t] \in {"out", "err", "exec", "protect", "fork"}, child' = child,
             pc'[t] \in {"protect", "fork"} => <<t, "exec", "w">> \in fds'[Guji]
      PROVE  Known(t)'
  BY <1>1, <1>2, <1>3, <1>4 DEF Tidy, Told, Counted, Reported, Reading
<1>5. ASSUME pc'[t] = "done", child' = child, result'[t] = Err,
             fds'[Guji] \cap Ends(t, Stream, {"r", "w"}) = {}
      PROVE  Known(t)'
  BY <1>1, <1>2, <1>3, <1>5 DEF Tidy, Told, Counted, Reported, Reading, Early
<1>6. result = [u \in Task |-> result[u]]
  BY DEF Typed
<1>7. CASE Call(t)
  <2>1. CASE Goto(t, "out")
    BY <1>1, <1>4, <1>7, <2>1 DEF Call, Goto, program
  <2>2. CASE Return(t, Err)
    <3>1. pc[t] = "idle" /\ fds' = fds
      BY <1>7 DEF Call
    <3>2. fds'[Guji] \cap Ends(t, Stream, {"r", "w"}) = {}
      BY <3>1 DEF Tidy
    <3>3. QED
      BY <1>1, <1>5, <1>6, <1>7, <2>2, <3>2 DEF Call, Return, Goto, program
  <2>3. QED
    BY <1>7, <2>1, <2>2 DEF Call
<1>8. CASE MakePipe(t)
  <2>1. pc[t] \in Stream /\ child' = child
    BY <1>8 DEF MakePipe, program
  <2>2. CASE fds' = [fds EXCEPT ![Guji] = fds[Guji] \cup Ends(t, {pc[t]}, {"r", "w"})] /\ Goto(t, Following[pc[t]])
    <3>1. pc'[t] = Following[pc[t]]
      BY <1>1, <2>2 DEF Goto
    <3>2. pc'[t] \in {"err", "exec"} \/ (pc'[t] = "protect" /\ pc[t] = "exec")
      BY <2>1, <3>1 DEF Stream, Output, Following
    <3>3. pc[t] = "exec" => <<t, "exec", "w">> \in fds'[Guji]
      BY <1>1, <2>2 DEF Ends
    <3>4. QED
      BY <1>4, <2>1, <3>2, <3>3
  <2>3. CASE Abandon(t) /\ Return(t, Err)
    <3>1. fds'[Guji] = fds[Guji] \ Ends(t, Stream, {"r", "w"})
      BY <1>1, <2>3 DEF Abandon
    <3>2. pc'[t] = "done" /\ result'[t] = Err
      BY <1>1, <1>6, <2>3 DEF Return, Goto
    <3>3. QED
      BY <1>5, <2>1, <3>1, <3>2
  <2>4. QED
    BY <1>8, <2>2, <2>3 DEF MakePipe
<1>9. CASE Protect(t)
  <2>1. pc[t] = "protect" /\ pc'[t] = "fork" /\ fds' = fds /\ child' = child
    BY <1>1, <1>9 DEF Protect, Goto, program
  <2>2. <<t, "exec", "w">> \in fds[Guji]
    BY <2>1 DEF Told
  <2>3. QED
    BY <1>4, <2>1, <2>2
<1>10. CASE Fork(t)
  <2>1. <<t, "exec", "w">> \in fds[Guji]
    BY <1>10 DEF Fork, Told
  <2>2. CASE child' = [child EXCEPT ![t] = "forked"] /\ fds' = [fds EXCEPT ![t] = fds[Guji]] /\ Goto(t, "parent")
    <3>1. child'[t] = "forked" /\ fds'[t] = fds[Guji] /\ pc'[t] = "parent"
      BY <1>1, <2>2 DEF Goto
    <3>2. QED
      BY <1>2, <1>3, <2>1, <3>1 DEF Tidy, Told, Counted, Reported, Reading, Early
  <2>3. CASE Abandon(t) /\ Return(t, Err) /\ child' = child
    <3>1. fds'[Guji] = fds[Guji] \ Ends(t, Stream, {"r", "w"})
      BY <1>1, <2>3 DEF Abandon
    <3>2. pc'[t] = "done" /\ result'[t] = Err
      BY <1>1, <1>6, <2>3 DEF Return, Goto
    <3>3. QED
      BY <1>5, <2>3, <3>1, <3>2
  <2>4. QED
    BY <1>10, <2>2, <2>3 DEF Fork
<1>11. QED
  BY <1>7, <1>8, <1>9, <1>10

\* What happens after the fork: the child has its pipe to say that it failed.
LEMMA StatusKnown ==
  ASSUME Typed, NEW t \in Task, Known(t), CloseWriteEnds(t) \/ ReadStatus(t) \/ ReapFailed(t)
  PROVE  Known(t)'
<1> USE Parents DEF Known
<1>1. /\ fds \in [Process -> SUBSET PipeEnd] /\ pc \in [Task -> Place]
      /\ child \in [Task -> {"none", "forked", "wired", "running", "zombie", "reaped"}]
      /\ unread \in [Task -> SUBSET Output] /\ pipe \in [Task -> [Stream -> Nat]]
      /\ result = [u \in Task |-> result[u]]
  BY DEF Typed
<1>2. wrote' = wrote /\ status' = status /\ taken' = taken /\ ready' = ready
  BY DEF CloseWriteEnds, ReadStatus, ReapFailed, program, local
<1>3. CASE CloseWriteEnds(t)
  <2>1. /\ pc[t] = "parent" /\ pc'[t] = "status" /\ child' = child /\ pipe' = pipe
        /\ fds'[Guji] = fds[Guji] \ Ends(t, Stream, {"w"}) /\ fds'[t] = fds[t]
    BY <1>1, <1>3 DEF CloseWriteEnds, Goto, program
  <2>2. QED
    BY <1>2, <2>1 DEF Tidy, Told, Counted, Reported, Reading, Early
<1>4. CASE ReadStatus(t)
  <2>1. /\ pc[t] = "status" /\ child' = child /\ fds'[t] = fds[t]
        /\ fds[Guji] \cap Ends(t, Stream, {"w"}) = {}
    BY <1>1, <1>4 DEF ReadStatus, program, Tidy
  <2>2. pipe'[t]["exec"] = 0 /\ \A s \in Output : pipe'[t][s] = pipe[t][s]
    BY <1>1, <1>4 DEF ReadStatus, Stream, Output
  <2>3. CASE pipe[t]["exec"] > 0
    <3>1. pc'[t] = "failed" /\ fds'[Guji] = fds[Guji] \ Ends(t, Stream, {"r"})
      BY <1>1, <1>4, <2>3 DEF ReadStatus, Goto
    <3>2. fds'[Guji] \cap Ends(t, Stream, {"r", "w"}) = {}
      BY <2>1, <3>1, OwnEnds
    <3>3. child[t] = "zombie" /\ status[t] = <<>>
      BY <2>3 DEF Told
    <3>4. QED
      BY <1>2, <2>1, <2>2, <3>1, <3>2, <3>3 DEF Tidy, Told, Counted, Reported, Reading, Early
  <2>4. CASE ~(pipe[t]["exec"] > 0)
    <3>1. pc'[t] = "poll" /\ fds'[Guji] = fds[Guji] \ {<<t, "exec", "r">>} /\ unread'[t] = Output
      BY <1>1, <1>4, <2>4 DEF ReadStatus, Goto
    <3>2. fds'[Guji] \cap Ends(t, Stream, {"r", "w"}) \subseteq Ends(t, Output, {"r"})
      BY <2>1, <3>1, OwnEnds
    <3>3. HungUp(t, "exec")
      BY <1>4, <2>4 DEF ReadStatus, Readable
    <3>4. child[t] \notin {"forked", "wired"}
      BY <3>3 DEF HungUp, Told
    <3>5. child[t] = "running" \/ (child[t] = "zombie" /\ status[t] # <<>>)
      BY <1>1, <2>1, <2>4, <3>4 DEF Told
    <3>6. QED
      BY <1>2, <2>1, <2>2, <3>1, <3>2, <3>5 DEF Tidy, Told, Counted, Reported, Reading, Early
  <2>5. QED
    BY <2>3, <2>4
<1>5. CASE ReapFailed(t)
  <2>1. /\ pc[t] = "failed" /\ pc'[t] = "done" /\ child'[t] = "reaped" /\ pipe' = pipe
        /\ fds' = fds /\ result'[t] = Err
    BY <1>1, <1>5 DEF ReapFailed, Return, Goto
  <2>2. QED
    BY <1>2, <2>1 DEF Tidy, Told, Counted, Reported, Reading, Early
<1>6. QED
  BY <1>3, <1>4, <1>5

\* One read: a stream that poll has reported and that has nothing is at its end.
LEMMA ReadKnown == ASSUME Typed, NEW t \in Task, Known(t), Read(t) PROVE Known(t)'
<1> USE Parents
<1>1. /\ fds \in [Process -> SUBSET PipeEnd] /\ pc \in [Task -> Place] /\ child' = child
      /\ unread \in [Task -> SUBSET Output] /\ ready \in [Task -> SUBSET Output]
      /\ pipe[t] \in [Stream -> Nat] /\ taken[t] \in [Output -> Nat] /\ wrote[t] \in [Output -> Nat]
      /\ pipe \in [Task -> [Stream -> Nat]] /\ taken \in [Task -> [Output -> Nat]]
      /\ wrote' = wrote /\ status' = status /\ pc[t] = "read"
  BY DEF Typed, Read, program
<1>2. PICK s, n, left :
        /\ s = IF "out" \in ready[t] THEN "out" ELSE "err"
        /\ n = AtMost(pipe[t][s], Chunk)
        /\ left = IF n = 0 THEN unread[t] \ {s} ELSE unread[t]
        /\ pipe' = [pipe EXCEPT ![t] = [pipe[t] EXCEPT ![s] = pipe[t][s] - n]]
        /\ taken' = [taken EXCEPT ![t] = [taken[t] EXCEPT ![s] = taken[t][s] + n]]
        /\ unread' = [unread EXCEPT ![t] = left]
        /\ ready' = [ready EXCEPT ![t] = ready[t] \ {s}]
        /\ pc' = [pc EXCEPT ![t] = IF ready[t] # {s} THEN "read" ELSE IF left # {} THEN "poll" ELSE "wait"]
        /\ fds' = IF ready[t] = {s} /\ left = {}
                  THEN [fds EXCEPT ![Guji] = fds[Guji] \ Ends(t, Output, {"r"})] ELSE fds
  BY DEF Read, Goto
<1>3. ready[t] # {} /\ ready[t] \subseteq unread[t] /\ \A x \in ready[t] : Readable(t, x)
  BY <1>1 DEF Known, Counted
<1>4. s \in ready[t] /\ s \in Output /\ s \in Stream /\ s # "exec"
  BY <1>1, <1>2, <1>3 DEF Output, Stream
<1>5. n \in Nat /\ (n = 0 => pipe[t][s] = 0)
  BY <1>1, <1>2, <1>4, RunAssumption DEF AtMost
<1>6. pipe'[t] = [pipe[t] EXCEPT ![s] = pipe[t][s] - n] /\ taken'[t] = [taken[t] EXCEPT ![s] = taken[t][s] + n]
      /\ unread'[t] = left /\ ready'[t] = ready[t] \ {s}
  BY <1>1, <1>2
<1>7. /\ pipe'[t][s] = pipe[t][s] - n /\ \A x \in Stream \ {s} : pipe'[t][x] = pipe[t][x]
      /\ taken'[t][s] = taken[t][s] + n /\ \A x \in Output \ {s} : taken'[t][x] = taken[t][x]
  BY <1>1, <1>4, <1>6
<1>8. \A x \in Stream : HungUp(t, x) => HungUp(t, x)'
  BY <1>1, HungUpStays DEF Step, Caller, Stream, Output
<1>9. pc'[t] = IF ready[t] # {s} THEN "read" ELSE IF left # {} THEN "poll" ELSE "wait"
  BY <1>1, <1>2
<1>10. child[t] = "running" \/ (child[t] = "zombie" /\ status[t] # <<>>)
  BY <1>1 DEF Known, Told, Reading
<1>11. Tidy(t)'
  <2>1. fds[Guji] \cap Ends(t, Stream, {"r", "w"}) \subseteq Ends(t, Output, {"r"})
    BY <1>1 DEF Known, Tidy
  <2>2. CASE ready[t] = {s} /\ left = {}
    <3>1. fds'[Guji] = fds[Guji] \ Ends(t, Output, {"r"})
      BY <1>1, <1>2, <2>2
    <3>2. fds'[Guji] \cap Ends(t, Stream, {"r", "w"}) = {}
      BY <2>1, <3>1
    <3>3. pc'[t] = "wait"
      BY <1>9, <2>2
    <3>4. QED
      BY <3>2, <3>3 DEF Tidy, Early
  <2>3. CASE ~(ready[t] = {s} /\ left = {})
    <3>1. fds' = fds /\ pc'[t] \in {"read", "poll"}
      BY <1>2, <1>9, <2>3
    <3>2. QED
      BY <2>1, <3>1 DEF Tidy, Early
  <2>4. QED
    BY <2>2, <2>3
<1>12. Told(t)'
  <2>1. pipe'[t]["exec"] = pipe[t]["exec"] /\ pc'[t] \in {"read", "poll", "wait"}
    BY <1>4, <1>7, <1>9 DEF Stream
  <2>2. QED
    BY <1>1, <1>10, <2>1 DEF Known, Told, Reading
<1>13. Counted(t)'
  <2>1. \A x \in Output : wrote'[t][x] = taken'[t][x] + pipe'[t][x]
    <3>1. pipe[t][s] \in Nat /\ taken[t][s] \in Nat /\ wrote[t][s] = taken[t][s] + pipe[t][s]
      BY <1>1, <1>4 DEF Known, Counted
    <3>2. wrote'[t][s] = taken'[t][s] + pipe'[t][s]
      BY <1>1, <1>5, <1>7, <3>1
    <3>3. \A x \in Output \ {s} : wrote'[t][x] = taken'[t][x] + pipe'[t][x]
      BY <1>1, <1>7 DEF Known, Counted, Stream
    <3>4. QED
      BY <3>2, <3>3
  <2>2. ASSUME NEW x \in Output \ unread'[t] PROVE pipe'[t][x] = 0 /\ HungUp(t, x)'
    <3>1. CASE x \notin unread[t]
      BY <1>1, <1>3, <1>4, <1>7, <1>8, <2>2, <3>1 DEF Known, Counted, Reading, Stream
    <3>2. CASE x \in unread[t]
      <4>1. x = s /\ n = 0
        BY <1>2, <1>6, <2>2, <3>2
      <4>2. pipe[t][s] = 0 /\ HungUp(t, s)
        BY <1>3, <1>4, <1>5, <4>1 DEF Readable
      <4>3. QED
        BY <1>4, <1>7, <1>8, <4>1, <4>2
    <3>3. QED
      BY <3>1, <3>2
  <2>3. \A x \in ready'[t] : Readable(t, x)'
    BY <1>1, <1>3, <1>6, <1>7, <1>8 DEF Readable, Stream
  <2>4. ready'[t] \subseteq unread'[t]
    BY <1>2, <1>3, <1>6
  <2>5. pc'[t] = "read" => ready'[t] # {}
    BY <1>4, <1>6, <1>9
  <2>6. pc'[t] = "wait" => unread'[t] = {}
    BY <1>6, <1>9
  <2>7. QED
    BY <2>1, <2>2, <2>3, <2>4, <2>5, <2>6 DEF Counted
<1>14. Reported(t)'
  BY <1>9 DEF Reported
<1>15. QED
  BY <1>11, <1>12, <1>13, <1>14 DEF Known

\* The end of a call that has read all there was.
LEMMA WaitKnown == ASSUME Typed, NEW t \in Task, Known(t), Wait(t) PROVE Known(t)'
<1>1. /\ fds' = fds /\ pipe' = pipe /\ wrote' = wrote /\ taken' = taken /\ status' = status
      /\ pc[t] = "wait" /\ child[t] = "zombie" /\ pc'[t] = "done" /\ child'[t] = "reaped"
      /\ result'[t] = [exit |-> ExitCode(status[t]), output |-> taken[t]]
  BY DEF Wait, Return, Goto, Typed
<1>2. status[t] # <<>> /\ pipe[t]["exec"] = 0
  <2>1. status[t] # <<>> /\ ~(pipe[t]["exec"] > 0)
    BY <1>1 DEF Known, Told, Reading
  <2>2. pipe[t]["exec"] \in Nat
    BY DEF Typed, Stream
  <2>3. QED
    BY <2>1, <2>2
<1>3. wrote[t] = taken[t]
  <2>1. wrote[t] \in [Output -> Nat] /\ taken[t] \in [Output -> Nat]
    BY DEF Typed
  <2>2. \A s \in Output : wrote[t][s] = taken[t][s] + 0
    BY <1>1 DEF Known, Counted, Reading
  <2>3. \A s \in Output : wrote[t][s] = taken[t][s]
    BY <2>1, <2>2
  <2>4. QED
    BY <2>1, <2>3
<1>4. Tidy(t)' /\ Told(t)' /\ Counted(t)'
  BY <1>1, <1>2 DEF Known, Tidy, Told, Counted, Early, Reading
<1>5. Reported(t)'
  BY <1>1, <1>2, <1>3 DEF Reported, ExitCode
<1>6. QED
  BY <1>4, <1>5 DEF Known

LEMMA PollKnown == ASSUME Typed, NEW t \in Task, Known(t), Poll(t) PROVE Known(t)'
<1>1. /\ fds' = fds /\ pipe' = pipe /\ wrote' = wrote /\ taken' = taken /\ status' = status
      /\ child' = child /\ unread' = unread
      /\ pc[t] = "poll" /\ pc'[t] = "read"
  BY DEF Poll, Goto, program, Typed
<1>2. /\ ready'[t] = {s \in unread[t] : Readable(t, s)}
      /\ {s \in unread[t] : Readable(t, s)} # {}
  BY DEF Poll, Polled, Typed
<1>3. \A s \in Stream : HungUp(t, s)' <=> HungUp(t, s)
  BY <1>1 DEF HungUp
<1>4. \A s \in ready'[t] : Readable(t, s)'
  BY <1>1, <1>2 DEF Readable, HungUp
<1>5. Counted(t)'
  BY <1>1, <1>2, <1>3, <1>4 DEF Known, Counted, Reading, Stream
<1>6. Tidy(t)' /\ Told(t)' /\ Reported(t)'
  BY <1>1 DEF Known, Tidy, Told, Reported, Early, Reading
<1>7. QED
  BY <1>5, <1>6 DEF Known

\* The child, and the program in it.
LEMMA ChildKnown ==
  ASSUME Typed, NEW t \in Task, Known(t),
         Launch(t) \/ Program(t) \/ Kill(t) \/ \E s \in Output : CloseStream(t, s)
  PROVE  Known(t)'
<1> USE Parents
<1>1. /\ fds \in [Process -> SUBSET PipeEnd] /\ pc[t] \in Place
      /\ child \in [Task -> {"none", "forked", "wired", "running", "zombie", "reaped"}]
      /\ status \in [Task -> Status \cup {<<>>}]
      /\ pipe[t] \in [Stream -> Nat] /\ wrote[t] \in [Output -> Nat] /\ taken[t] \in [Output -> Nat]
      /\ pipe \in [Task -> [Stream -> Nat]] /\ wrote \in [Task -> [Output -> Nat]]
  BY DEF Typed
<1>2. /\ pc' = pc /\ taken' = taken /\ ready' = ready /\ unread' = unread /\ result' = result
      /\ child[t] \in {"forked", "wired", "running"}
  BY DEF Launch, Wire, Exec, Program, Write, Exit, Kill, End1, CloseStream, local, program
<1>3. pc[t] \in {"parent", "status"} \cup Reading /\ status[t] = <<>>
  BY <1>1, <1>2 DEF Known, Tidy, Told, Place
<1>4. pipe[t]["exec"] = 0
  BY <1>1, <1>2 DEF Known, Told, Stream
<1>5. Step(t)
  BY DEF Step
<1>6. \A s \in Stream : HungUp(t, s) => HungUp(t, s)'
  BY <1>3, <1>5, HungUpStays DEF Reading, Stream, Output
<1>7. Reported(t)'
  BY <1>2, <1>3 DEF Reported, Reading
<1>8. ASSUME fds'[Guji] = fds[Guji] PROVE Tidy(t)'
  BY <1>2, <1>3, <1>8 DEF Known, Tidy, Early, Reading
<1>9. ASSUME pipe' = pipe, wrote' = wrote PROVE Counted(t)'
  BY <1>2, <1>6, <1>9 DEF Known, Counted, Readable, Typed, Stream
<1>10. CASE Wire(t)
  <2>1. /\ child[t] = "forked" /\ child'[t] = "wired" /\ pipe' = pipe /\ wrote' = wrote /\ status' = status
        /\ fds'[t] = fds[t] \ Ends(t, Stream, {"r"}) /\ fds'[Guji] = fds[Guji]
    BY <1>1, <1>10 DEF Wire, local
  <2>2. <<t, "exec", "w">> \in fds'[t]
    BY <2>1, OwnEnds DEF Known, Told, Stream
  <2>3. pc[t] \notin Reading
    BY <2>1 DEF Known, Told
  <2>4. Told(t)'
    BY <1>2, <1>3, <1>4, <2>1, <2>2, <2>3 DEF Told, Reading
  <2>5. QED
    BY <1>7, <1>8, <1>9, <2>1, <2>4 DEF Known
<1>11. CASE Exec(t)
  <2>1. child[t] = "wired" /\ wrote' = wrote /\ status' = status
    BY <1>11 DEF Exec
  <2>2. pc[t] \notin Reading
    BY <2>1 DEF Known, Told
  <2>3. CASE child' = [child EXCEPT ![t] = "running"] /\ fds' = [fds EXCEPT ![t] = fds[t] \ cloexec[t]] /\ pipe' = pipe
    <3>1. child'[t] = "running" /\ fds'[Guji] = fds[Guji]
      BY <1>1, <2>3
    <3>2. Told(t)'
      BY <1>2, <1>3, <1>4, <2>1, <2>2, <2>3, <3>1 DEF Told, Reading
    <3>3. QED
      BY <1>7, <1>8, <1>9, <2>1, <2>3, <3>1, <3>2 DEF Known
  <2>4. CASE child' = [child EXCEPT ![t] = "zombie"] /\ fds' = [fds EXCEPT ![t] = {}]
             /\ pipe' = [pipe EXCEPT ![t] = [pipe[t] EXCEPT !["exec"] = 1]]
    <3>1. /\ child'[t] = "zombie" /\ fds'[Guji] = fds[Guji] /\ pipe'[t]["exec"] = 1
          /\ \A s \in Output : pipe'[t][s] = pipe[t][s]
      BY <1>1, <2>4 DEF Stream, Output
    <3>2. Told(t)'
      BY <1>2, <1>3, <2>1, <2>2, <3>1 DEF Told, Reading
    <3>3. Counted(t)'
      BY <1>2, <1>3, <2>1, <2>2, <3>1 DEF Known, Counted, Reading
    <3>4. QED
      BY <1>7, <1>8, <3>1, <3>2, <3>3 DEF Known
  <2>5. QED
    BY <1>11, <2>3, <2>4 DEF Exec
<1>12. ASSUME NEW s \in Output, Write(t, s) PROVE Known(t)'
  <2>1. /\ child[t] = "running" /\ child' = child /\ status' = status /\ fds' = fds
        /\ <<t, s, "w">> \in fds[t] /\ s \in Stream /\ s # "exec"
        /\ pipe' = [pipe EXCEPT ![t] = [pipe[t] EXCEPT ![s] = pipe[t][s] + 1]]
        /\ wrote' = [wrote EXCEPT ![t] = [wrote[t] EXCEPT ![s] = wrote[t][s] + 1]]
    BY <1>12 DEF Write, Output, Stream
  <2>2. /\ pipe'[t][s] = pipe[t][s] + 1 /\ \A x \in Stream \ {s} : pipe'[t][x] = pipe[t][x]
        /\ wrote'[t][s] = wrote[t][s] + 1 /\ \A x \in Output \ {s} : wrote'[t][x] = wrote[t][x]
    BY <1>1, <2>1
  <2>3. ~HungUp(t, s)
    BY <2>1 DEF HungUp
  <2>4. pipe'[t]["exec"] = 0
    BY <1>4, <2>1, <2>2 DEF Stream
  <2>5. Told(t)'
    BY <1>2, <1>3, <2>1, <2>4 DEF Known, Told, Reading
  <2>6. Counted(t)'
    <3>1. \A x \in Output : wrote'[t][x] = taken'[t][x] + pipe'[t][x]
      <4>1. pipe[t][s] \in Nat /\ taken[t][s] \in Nat /\ wrote[t][s] = taken[t][s] + pipe[t][s]
        BY <1>1, <2>1, <1>12 DEF Known, Counted
      <4>2. wrote'[t][s] = taken'[t][s] + pipe'[t][s]
        BY <1>2, <2>2, <4>1
      <4>3. \A x \in Output \ {s} : wrote'[t][x] = taken'[t][x] + pipe'[t][x]
        BY <1>2, <2>2 DEF Known, Counted, Stream
      <4>4. QED
        BY <4>2, <4>3
    <3>2. \A x \in Stream : Readable(t, x) => Readable(t, x)'
      <4>1. pipe[t][s] \in Nat
        BY <1>1, <2>1
      <4>2. pipe'[t][s] > 0
        BY <2>2, <4>1
      <4>3. QED
        BY <1>6, <2>2, <4>2 DEF Readable
    <3>3. pc[t] \in Reading => \A x \in Output \ unread[t] : pipe'[t][x] = 0 /\ HungUp(t, x)'
      BY <1>6, <2>2, <2>3 DEF Known, Counted, Stream
    <3>4. ready[t] \subseteq Stream
      BY DEF Typed, Stream
    <3>5. QED
      BY <1>2, <3>1, <3>2, <3>3, <3>4 DEF Known, Counted
  <2>7. QED
    BY <1>7, <1>8, <2>1, <2>5, <2>6 DEF Known
<1>13. ASSUME NEW s \in Output, CloseStream(t, s) PROVE Known(t)'
  <2>1. child[t] = "running" /\ child' = child /\ status' = status /\ pipe' = pipe /\ wrote' = wrote
        /\ fds'[Guji] = fds[Guji]
    BY <1>1, <1>13 DEF CloseStream, program, local
  <2>2. Told(t)'
    BY <1>2, <1>3, <1>4, <2>1 DEF Known, Told, Reading
  <2>3. QED
    BY <1>7, <1>8, <1>9, <2>1, <2>2 DEF Known
<1>14. ASSUME NEW st \in Status, End1(t, st) PROVE Known(t)'
  <2>1. child'[t] = "zombie" /\ status'[t] = st /\ pipe' = pipe /\ wrote' = wrote /\ fds'[Guji] = fds[Guji]
    BY <1>1, <1>14 DEF End1, local
  <2>2. st # <<>>
    BY <1>14 DEF Status
  <2>3. Told(t)'
    BY <1>2, <1>3, <1>4, <2>1, <2>2 DEF Told, Reading
  <2>4. QED
    BY <1>7, <1>8, <1>9, <2>1, <2>3 DEF Known
<1>15. QED
  BY <1>10, <1>11, <1>12, <1>13, <1>14 DEF Launch, Program, Exit, Kill

-----------------------------------------------------------------------------
(* The theorems.                                                           *)

LEMMA InvInit == RunInit => Inv
<1>1. ASSUME RunInit, NEW t \in Task PROVE Known(t)
  <2>1. /\ pc[t] = "idle" /\ child[t] = "none" /\ fds[Guji] = {} /\ status[t] = <<>>
        /\ \A s \in Stream : pipe[t][s] = 0
        /\ \A s \in Output : wrote[t][s] = 0 /\ taken[t][s] = 0
    BY <1>1 DEF RunInit, Calls, Process
  <2>2. QED
    BY <2>1 DEF Known, Tidy, Told, Counted, Reported, Early, Reading, Stream
<1>2. QED
  BY <1>1, TypedInit DEF Inv

LEMMA InvNext == Inv /\ [RunNext]_runVars => Inv'
<1>1. ASSUME Inv, NEW t \in Task, Step(t) PROVE Inv'
  <2>1. Typed'
    BY <1>1, NextTyped DEF Inv, RunNext, Step
  <2>2. Known(t)'
    BY <1>1, BeginningKnown, StatusKnown, PollKnown, ReadKnown, WaitKnown, ChildKnown DEF Inv, Step, Caller
  <2>3. \A u \in Task \ {t} : Known(u)'
    BY <1>1, Bystander DEF Inv
  <2>4. QED
    BY <2>1, <2>2, <2>3 DEF Inv
<1>2. ASSUME Inv, UNCHANGED runVars PROVE Inv'
  <2>1. ASSUME NEW t \in Task PROVE Known(t)'
    BY <1>2, <2>1 DEF Inv, Known, Tidy, Told, Counted, Reported, Readable, HungUp, runVars
  <2>2. QED
    BY <1>2, <2>1, NextTyped DEF Inv
<1>3. QED
  BY <1>1, <1>2 DEF RunNext, Step, Done

\* The invariant holds of every call, whatever the others do meanwhile.
THEOREM CallsKnown == RunSpec => []Inv
<1>1. QED
  BY InvInit, InvNext, PTL DEF RunSpec

\* Outcome for every number of tasks, capacity and program: the exit code and
\* every byte that was written to each stream, or Err if it was not started.
THEOREM EveryOutcome == RunSpec => []Outcome
<1>1. Inv => Outcome
  BY DEF Inv, Known, Reported, Outcome
<1>2. QED
  BY <1>1, CallsKnown, PTL

\* NothingLeft: neither descriptors nor zombies, also when a pipe or the fork failed.
THEOREM EveryCallTidy == RunSpec => []NothingLeft
<1>1. Inv => NothingLeft
  BY DEF Inv, Known, Tidy, NothingLeft
<1>2. QED
  BY <1>1, CallsKnown, PTL

=============================================================================
