-------------------------- MODULE GujiCaptureProofs --------------------------
(***************************************************************************)
(* What the conformance harness reports of a program is so, for any        *)
(* program, limit, input and capacity of the pipes.                        *)
(***************************************************************************)
EXTENDS GujiCapture, Sequences, TLAPS

AnyStream == Flow \cup {"stdin"}

CaptureTypeOK ==
  /\ stage \in {"spawn", "exec", "configure", "top", "select", "serve", "feed", "kill", "wait", "done"}
  /\ after \in {"spawn", "serve", "top", "wait"}
  /\ member \in [Member -> {"none", "forked", "grouped", "running", "zombie", "gone"}]
  /\ open \in [Member -> SUBSET AnyStream]
  /\ bytes \in [AnyStream -> Nat]
  /\ said \in [Flow -> Nat]
  /\ buf \in [Flow -> Nat]
  /\ readers \subseteq Flow /\ readable \subseteq Flow
  /\ writing \in BOOLEAN /\ writable \in BOOLEAN /\ late \in BOOLEAN
  /\ timedOut \in BOOLEAN /\ failed \in BOOLEAN
  /\ limited \in Flow \cup {"none"}
  /\ offset \in 0 .. InputLen

\* Who there is: the group exists from the fork to the end, a member that has
\* not run its program has no helper, and a leader that lives has not ended.
Family ==
  /\ stage = "spawn" => \A p \in Member : member[p] = "none" /\ open[p] = {}
  /\ member[Leader] \in {"forked", "grouped"} => stage = "exec" /\ member[Helper] = "none"
  /\ member[Helper] \in {"none", "running", "gone"}
  /\ member[Leader] = "none" => stage \in {"spawn", "done"} /\ member[Helper] = "none"
  /\ member[Leader] = "gone" => stage = "done"
  /\ stage = "done" => member[Leader] \in {"none", "gone"}
  /\ member[Leader] \notin {"zombie", "gone"} => ended = <<>>
  /\ ended = <<"unexecuted">> => member[Helper] = "none"

\* Every byte is captured, or still in the pipe; an end that was seen is one.
Flowing ==
  /\ \A s \in Flow :
       /\ buf[s] <= Limit
       /\ IF limited = s THEN buf[s] = Limit /\ said[s] > Limit ELSE said[s] = bytes[s] + buf[s]
       /\ s \in readable => bytes[s] > 0 \/ ~HasOpen(s)
       /\ s \notin readers => failed \/ (bytes[s] = 0 /\ ~HasOpen(s))
  /\ ~writing => offset = InputLen \/ ~HasOpen("stdin")
  /\ stage = "spawn" => readers = Flow /\ readable = {} /\ (~writing => offset = InputLen)

\* Why the harness is where it is.
Bad == failed \/ timedOut \/ limited # "none"
Verdicts ==
  /\ Bad => stage \notin {"spawn", "exec", "configure"} /\ (stage = "kill" \/ Grouped = {})
  /\ timedOut => late /\ limited = "none" /\ (stage \in {"wait", "done"} \/ (stage = "kill" /\ after = "wait"))
  /\ limited # "none" =>
       \/ stage \in {"wait", "done"}
       \/ readable = {} /\ (stage = "serve" \/ (stage = "kill" /\ after = "serve"))
  /\ stage = "kill" => Bad /\ after \in {"serve", "top", "wait"} /\ (after = "wait" => failed \/ timedOut)
  /\ stage = "wait" /\ ~Bad => readers = {} /\ ~writing

\* The report of a capture that did not fail, and when there is one.
Verdict == [error |-> FALSE, output |-> buf, timedOut |-> timedOut, limited |-> limited,
            exit |-> IF timedOut THEN 124 ELSE IF limited # "none" THEN 125 ELSE Code(ended)]
Reporting ==
  /\ stage = "spawn" => report = [error |-> TRUE]
  /\ stage = "done" =>
       \/ report = [error |-> TRUE] /\ Grouped = {}
       \/ report = Verdict /\ ~failed /\ (Bad \/ (readers = {} /\ ~writing))

CaptureInv == CaptureTypeOK /\ Family /\ Flowing /\ Verdicts /\ Reporting

-----------------------------------------------------------------------------
(* What the steps share.                                                   *)

LEMMA Ways ==
  /\ <<"exit", 1>> # <<"unexecuted">> /\ <<"signal", 15>> # <<"unexecuted">>
  /\ <<"signal", 9>> # <<"unexecuted">> /\ <<>> # <<"unexecuted">>
  <1>1. Len(<<"exit", 1>>) = 2 /\ Len(<<"signal", 15>>) = 2 /\ Len(<<"signal", 9>>) = 2
    OBVIOUS
  <1>2. Len(<<"unexecuted">>) = 1 /\ Len(<<>>) = 0
    OBVIOUS
  <1> QED BY <1>1, <1>2

\* A report of a failed capture and one of another are told apart.
LEMMA Fields ==
  /\ [error |-> TRUE].error = TRUE
  /\ Verdict.error = FALSE /\ Verdict.output = buf /\ Verdict.timedOut = timedOut
  /\ Verdict.limited = limited
  /\ Verdict.exit = IF timedOut THEN 124 ELSE IF limited # "none" THEN 125 ELSE Code(ended)
  BY DEF Verdict

\* The members of the group that end have no stream open any more, and nobody
\* else opens one.
LEMMA Dying ==
  ASSUME CaptureTypeOK, Family, NEW S \in SUBSET Grouped, NEW how, how # <<"unexecuted">>, Die(S, how)
  PROVE  /\ member' \in [Member -> {"none", "forked", "grouped", "running", "zombie", "gone"}]
         /\ open' \in [Member -> SUBSET AnyStream]
         /\ Grouped' = Grouped \ S
         /\ \A s \in AnyStream : HasOpen(s)' => HasOpen(s)
         /\ member'[Helper] \in {"none", "running", "gone"}
         /\ member[Helper] = "none" => member'[Helper] = "none"
         /\ IF Leader \in S THEN member'[Leader] = "zombie" ELSE member'[Leader] = member[Leader] /\ ended' = ended
         /\ ended' = <<"unexecuted">> => ended = <<"unexecuted">>
  <1> USE CaptureAssumption DEF CaptureAssumption, Die, CaptureTypeOK, Family, Grouped
  <1>1. /\ member' \in [Member -> {"none", "forked", "grouped", "running", "zombie", "gone"}]
        /\ open' \in [Member -> SUBSET AnyStream]
    OBVIOUS
  <1>2. \A p \in Member : member'[p] = IF p \notin S THEN member[p] ELSE IF p = Leader THEN "zombie" ELSE "gone"
    OBVIOUS
  <1>3. \A p \in Member : open'[p] = IF p \in S THEN {} ELSE open[p]
    OBVIOUS
  <1>4. Grouped' = Grouped \ S
    BY <1>2
  <1>5. \A s \in AnyStream : HasOpen(s)' => HasOpen(s)
    BY <1>3 DEF HasOpen
  <1>6. Leader \in Member /\ Helper \in Member
    BY DEF Member
  <1>7. /\ member'[Helper] \in {"none", "running", "gone"}
        /\ member[Helper] = "none" => member'[Helper] = "none"
    BY <1>2, <1>6
  <1>8. IF Leader \in S THEN member'[Leader] = "zombie" ELSE member'[Leader] = member[Leader] /\ ended' = ended
    BY <1>2, <1>6
  <1> QED BY <1>1, <1>4, <1>5, <1>7, <1>8

\* _terminate_group leaves the harness waiting before SIGKILL.
LEMMA Terminated ==
  ASSUME CaptureTypeOK, Family, NEW st, Terminate(st)
  PROVE  /\ member' \in [Member -> {"none", "forked", "grouped", "running", "zombie", "gone"}]
         /\ open' \in [Member -> SUBSET AnyStream]
         /\ \A s \in AnyStream : HasOpen(s)' => HasOpen(s)
         /\ member'[Helper] \in {"none", "running", "gone"}
         /\ member[Helper] = "none" => member'[Helper] = "none"
         /\ \/ member'[Leader] = "zombie"
            \/ member'[Leader] = member[Leader] /\ ended' = ended
         /\ ended' = <<"unexecuted">> => ended = <<"unexecuted">>
         /\ stage' = "kill" /\ after' = st /\ said' = said
  <1>1. PICK dying \in SUBSET Grouped : Die(dying, <<"signal", 15>>)
    BY DEF Terminate
  <1> QED BY <1>1, Dying, Ways DEF Terminate

-----------------------------------------------------------------------------
(* The invariant, action by action.                                        *)

LEMMA FirstCapture == CaptureInit => CaptureInv
  <1> SUFFICES ASSUME CaptureInit PROVE CaptureInv
    OBVIOUS
  <1> USE CaptureAssumption DEF CaptureAssumption, CaptureInit, Ready
  <1>0. Leader \in Member /\ Helper \in Member
    BY DEF Member
  <1>a. bytes \in [AnyStream -> Nat] /\ said \in [Flow -> Nat] /\ buf \in [Flow -> Nat]
    BY DEF AnyStream
  <1>b. member \in [Member -> {"none"}] /\ open \in [Member -> SUBSET AnyStream]
    OBVIOUS
  <1>c. offset \in 0 .. InputLen /\ writing \in BOOLEAN /\ (~writing => offset = InputLen)
    <2>1. offset = 0 /\ InputLen \in Nat /\ writing = (InputLen > 0)
      OBVIOUS
    <2>2. writing \in BOOLEAN
      <3> DEFINE some == InputLen > 0
      <3> SUFFICES ASSUME writing = some, some = TRUE \/ some = FALSE PROVE writing \in BOOLEAN
        BY <2>1
      <3> QED OBVIOUS
    <2>3. ~(InputLen > 0) => InputLen = 0
      BY <2>1
    <2>4. ~writing => offset = InputLen
      BY <2>1, <2>3, Zenon
    <2>5. offset \in 0 .. InputLen
      BY <2>1
    <2> QED BY <2>2, <2>4, <2>5
  <1>1. CaptureTypeOK
    BY <1>a, <1>b, <1>c DEF CaptureTypeOK
  <1>2. Family
    BY <1>0, Ways DEF Family
  <1>3. Flowing
    BY <1>c DEF Flowing, Flow
  <1>4. Verdicts
    BY DEF Verdicts, Bad
  <1>5. Reporting
    BY DEF Reporting
  <1> QED BY <1>1, <1>2, <1>3, <1>4, <1>5 DEF CaptureInv

LEMMA StepStartChild == CaptureInv /\ StartChild => CaptureInv'
  <1> SUFFICES ASSUME CaptureInv, StartChild PROVE CaptureInv'
    OBVIOUS
  <1> USE CaptureAssumption DEF CaptureAssumption, CaptureInv, StartChild, capture, verdictVars
  <1>0. Leader \in Member /\ Helper \in Member
    BY DEF Member
  <1>1. CaptureTypeOK'
    BY <1>0 DEF CaptureTypeOK, AnyStream, Flow
  <1>2. Family'
    BY <1>0, Ways DEF Family, CaptureTypeOK
  <1>3. Flowing'
    BY DEF Flowing, Verdicts, Bad, CaptureTypeOK
  <1>4. Verdicts'
    BY DEF Verdicts, Bad
  <1>5. Grouped = {}
    BY DEF Grouped, Family
  <1>6. Reporting'
    BY <1>5 DEF Reporting, Grouped
  <1> QED BY <1>1, <1>2, <1>3, <1>4, <1>6

LEMMA StepJoinGroup == CaptureInv /\ (JoinGroup \/ Execute) => CaptureInv'
  <1> SUFFICES ASSUME CaptureInv, JoinGroup \/ Execute PROVE CaptureInv'
    OBVIOUS
  <1> USE CaptureAssumption DEF CaptureAssumption, CaptureInv, JoinGroup, Execute, capture, verdictVars
  <1>0. Leader \in Member /\ Helper \in Member /\ Leader # Helper
    BY DEF Member
  <1>a. stage = "exec" /\ stage' = "exec" /\ member[Helper] = "none" /\ ~Bad
    BY DEF Family, Verdicts
  <1>b. UNCHANGED <<stage, after, said, bytes, readers, writing, offset, buf, readable, writable, late,
                    timedOut, limited, failed, report>>
    OBVIOUS
  <1>c. /\ member' \in [Member -> {"none", "forked", "grouped", "running", "zombie", "gone"}]
        /\ open' \in [Member -> SUBSET AnyStream]
        /\ member'[Helper] = "none"
        /\ \/ member'[Leader] \in {"grouped", "running"} /\ ended' = ended
           \/ member'[Leader] = "zombie"
    BY <1>0, <1>a DEF CaptureTypeOK, Die
  <1>d. \A s \in AnyStream : HasOpen(s)' => HasOpen(s)
    BY <1>0 DEF HasOpen, Die, CaptureTypeOK
  <1>1. CaptureTypeOK'
    BY <1>b, <1>c DEF CaptureTypeOK
  <1>2. Family'
    BY <1>a, <1>c DEF Family
  <1>3. Flowing'
    BY <1>a, <1>b, <1>d DEF Flowing, AnyStream
  <1>4. Verdicts'
    BY <1>a, <1>b DEF Verdicts, Bad
  <1>5. Reporting'
    BY <1>a DEF Reporting
  <1> QED BY <1>1, <1>2, <1>3, <1>4, <1>5

LEMMA StepAwaitExec == CaptureInv /\ AwaitExec => CaptureInv'
  <1> SUFFICES ASSUME CaptureInv, AwaitExec PROVE CaptureInv'
    OBVIOUS
  <1> USE DEF CaptureInv, AwaitExec, capture, group, verdictVars
  <1>0. Leader \in Member /\ Helper \in Member
    BY DEF Member
  <1>a. /\ failed' \in BOOLEAN /\ failed' = (ended = <<"unexecuted">>)
        /\ stage' \in {"wait", "configure"} /\ (failed' <=> stage' = "wait")
    OBVIOUS
  <1>b. ~failed /\ ~timedOut /\ limited = "none"
    BY DEF Verdicts, Bad
  <1>c. failed' => Grouped' = {}
    <2>1. ASSUME failed' PROVE member[Helper] = "none" /\ member[Leader] \in {"zombie", "gone"}
      BY <2>1, <1>0, <1>a, Ways DEF Family
    <2> QED BY <2>1 DEF Grouped, Member
  <1>1. CaptureTypeOK'
    BY <1>a DEF CaptureTypeOK
  <1>2. Family'
    BY <1>0, <1>a DEF Family, Launched
  <1>3. Flowing'
    BY <1>a, <1>b DEF Flowing, HasOpen
  <1>4. Verdicts'
    BY <1>a, <1>b, <1>c DEF Verdicts, Bad
  <1>5. Reporting'
    BY <1>a DEF Reporting
  <1> QED BY <1>1, <1>2, <1>3, <1>4, <1>5

\* What ends the group and sends the harness to "kill" keeps what is said of
\* the group.
LEMMA Terminating ==
  ASSUME CaptureTypeOK, Family, stage \notin {"spawn", "exec", "done"}, NEW st, Terminate(st)
  PROVE  /\ member' \in [Member -> {"none", "forked", "grouped", "running", "zombie", "gone"}]
         /\ open' \in [Member -> SUBSET AnyStream] /\ Family'
  <1>1. stage' = "kill" /\ member[Leader] \in {"running", "zombie"}
    BY Terminated, CaptureAssumption DEF Family, CaptureTypeOK, Member, CaptureAssumption
  <1>2. Family'
    BY <1>1, Terminated DEF Family
  <1> QED BY <1>2, Terminated

LEMMA StepConfigure == CaptureInv /\ Configure => CaptureInv'
  <1> SUFFICES ASSUME CaptureInv, Configure PROVE CaptureInv'
    OBVIOUS
  <1> USE DEF CaptureInv, Configure, capture, group
  <1>b. ~failed /\ ~timedOut /\ limited = "none"
    BY DEF Verdicts, Bad
  <1>1. CASE stage' = "top" /\ UNCHANGED <<after, group, failed>>
    <2>1. CaptureTypeOK'
      BY <1>1 DEF CaptureTypeOK
    <2>2. Family'
      BY <1>1 DEF Family
    <2>3. Flowing'
      BY <1>1 DEF Flowing, HasOpen
    <2>4. Verdicts'
      BY <1>1, <1>b DEF Verdicts, Bad
    <2>5. Reporting'
      BY <1>1 DEF Reporting
    <2> QED BY <2>1, <2>2, <2>3, <2>4, <2>5
  <1>2. CASE failed' = TRUE /\ Terminate("wait")
    <2>a. /\ member' \in [Member -> {"none", "forked", "grouped", "running", "zombie", "gone"}]
          /\ open' \in [Member -> SUBSET AnyStream] /\ Family'
          /\ (\A s \in AnyStream : HasOpen(s)' => HasOpen(s))
          /\ stage' = "kill" /\ after' = "wait" /\ said' = said
      BY <1>2, Terminating, Terminated
    <2>1. CaptureTypeOK'
      BY <1>2, <2>a DEF CaptureTypeOK
    <2>3. Flowing'
      BY <1>2, <2>a DEF Flowing, AnyStream
    <2>4. Verdicts'
      BY <1>2, <1>b, <2>a DEF Verdicts, Bad
    <2>5. Reporting'
      BY <1>2, <2>a DEF Reporting
    <2> QED BY <2>a, <2>1, <2>3, <2>4, <2>5
  <1> QED BY <1>1, <1>2

LEMMA StepTop == CaptureInv /\ Top => CaptureInv'
  <1> SUFFICES ASSUME CaptureInv, Top PROVE CaptureInv'
    OBVIOUS
  <1> USE DEF CaptureInv, Top, capture, group
  <1>b. ~timedOut /\ limited = "none"
    BY DEF Verdicts, Bad
  <1>1. CASE /\ UNCHANGED <<after, group, timedOut>>
             /\ \/ stage' = "select"
                \/ stage' = "wait" /\ readers = {} /\ ~writing
    <2>1. CaptureTypeOK'
      BY <1>1 DEF CaptureTypeOK
    <2>2. Family'
      BY <1>1 DEF Family
    <2>3. Flowing'
      BY <1>1 DEF Flowing, HasOpen
    <2>4. Verdicts'
      BY <1>1, <1>b DEF Verdicts, Bad, Grouped
    <2>5. Reporting'
      BY <1>1 DEF Reporting
    <2> QED BY <2>1, <2>2, <2>3, <2>4, <2>5
  <1>2. CASE late /\ timedOut' = TRUE /\ Terminate("wait")
    <2>a. /\ member' \in [Member -> {"none", "forked", "grouped", "running", "zombie", "gone"}]
          /\ open' \in [Member -> SUBSET AnyStream] /\ Family'
          /\ (\A s \in AnyStream : HasOpen(s)' => HasOpen(s))
          /\ stage' = "kill" /\ after' = "wait" /\ said' = said
      BY <1>2, Terminating, Terminated
    <2>1. CaptureTypeOK'
      BY <1>2, <2>a DEF CaptureTypeOK
    <2>3. Flowing'
      BY <1>2, <2>a DEF Flowing, AnyStream
    <2>4. Verdicts'
      BY <1>2, <1>b, <2>a DEF Verdicts, Bad
    <2>5. Reporting'
      BY <1>2, <2>a DEF Reporting
    <2> QED BY <2>a, <2>1, <2>3, <2>4, <2>5
  <1> QED BY <1>1, <1>2

LEMMA StepKillGroup == CaptureInv /\ KillGroup => CaptureInv'
  <1> SUFFICES ASSUME CaptureInv, KillGroup PROVE CaptureInv'
    OBVIOUS
  <1> USE DEF CaptureInv, KillGroup, capture, verdictVars
  <1>a. /\ member' \in [Member -> {"none", "forked", "grouped", "running", "zombie", "gone"}]
        /\ open' \in [Member -> SUBSET AnyStream]
        /\ Grouped' = {}
        /\ \A s \in AnyStream : HasOpen(s)' => HasOpen(s)
        /\ member'[Helper] \in {"none", "running", "gone"}
        /\ member[Helper] = "none" => member'[Helper] = "none"
        /\ \/ member'[Leader] = "zombie"
           \/ member'[Leader] = member[Leader] /\ ended' = ended
        /\ ended' = <<"unexecuted">> => ended = <<"unexecuted">>
    BY Dying, Ways DEF Doomed
  <1>b. stage' = after /\ stage = "kill" /\ after \in {"serve", "top", "wait"} /\ Bad
    BY DEF Verdicts
  <1>1. CaptureTypeOK'
    BY <1>a, <1>b DEF CaptureTypeOK
  <1>2. Family'
    <2>1. member[Leader] \in {"running", "zombie"}
      BY <1>b, CaptureAssumption DEF Family, CaptureTypeOK, Member
    <2> QED BY <1>a, <1>b, <2>1 DEF Family
  <1>3. Flowing'
    BY <1>a, <1>b DEF Flowing, AnyStream
  <1>4. Verdicts'
    BY <1>a, <1>b DEF Verdicts, Bad
  <1>5. Reporting'
    BY <1>b DEF Reporting
  <1> QED BY <1>1, <1>2, <1>3, <1>4, <1>5

LEMMA StepSelect == CaptureInv /\ Select => CaptureInv'
  <1> SUFFICES ASSUME CaptureInv, Select PROVE CaptureInv'
    OBVIOUS
  <1> USE DEF CaptureInv, Select, capture, group, verdictVars
  <1>a. /\ stage = "select" /\ stage' \in {"serve", "top"} /\ readable' \subseteq readers
        /\ \A s \in readable' : bytes[s] > 0 \/ ~HasOpen(s)
    OBVIOUS
  <1>b. writable' \in BOOLEAN
    <2>1. writing \in BOOLEAN
      BY DEF CaptureTypeOK
    <2> DEFINE room == bytes["stdin"] < PipeRoom \/ ~HasOpen("stdin")
    <2> SUFFICES ASSUME writable' = (writing /\ room), writing \in BOOLEAN PROVE writable' \in BOOLEAN
      BY <2>1
    <2> HIDE DEF room
    <2> QED OBVIOUS
  <1>1. CaptureTypeOK'
    BY <1>a, <1>b DEF CaptureTypeOK
  <1>2. Family'
    BY <1>a DEF Family
  <1>3. Flowing'
    BY <1>a DEF Flowing, HasOpen
  <1>4. Verdicts'
    BY <1>a DEF Verdicts, Bad, Grouped
  <1>5. Reporting'
    BY <1>a DEF Reporting
  <1> QED BY <1>1, <1>2, <1>3, <1>4, <1>5

\* One read: what fits is kept, and what does not makes the stream the one
\* that exceeded the limit.
LEMMA StepTake ==
  ASSUME CaptureInv, stage = "serve", NEW s \in readable, Take(s),
         UNCHANGED <<readers, failed, writing, offset, writable, late, timedOut, report>>
  PROVE  CaptureInv'
  <1> USE DEF CaptureInv
  <1>a. PICK n \in 1 .. bytes[s] :
          /\ buf' = [buf EXCEPT ![s] = @ + Kept(n, Limit - buf[s])]
          /\ bytes' = [bytes EXCEPT ![s] = @ - n]
          /\ IF n > Limit - buf[s]
             THEN limited' = s /\ readable' = {} /\ Terminate("serve")
             ELSE readable' = readable \ {s} /\ UNCHANGED <<limited, stage, after, group>>
    BY DEF Take
  <1>b. /\ s \in Flow /\ s \in AnyStream /\ readable \subseteq Flow /\ Flow \subseteq AnyStream /\ s # "stdin" /\ s # "none" /\ "none" \notin Flow
        /\ limited = "none" /\ ~timedOut
    BY DEF CaptureTypeOK, AnyStream, Verdicts, Flow
  <1>c. /\ bytes[s] \in Nat /\ buf[s] \in Nat /\ said[s] \in Nat /\ Limit \in Nat /\ buf[s] <= Limit /\ n \in Nat
        /\ said[s] = bytes[s] + buf[s] /\ n <= bytes[s]
    BY <1>b, CaptureAssumption DEF CaptureTypeOK, Flowing, CaptureAssumption
  <1>d. /\ buf' \in [Flow -> Nat] /\ bytes' \in [AnyStream -> Nat]
        /\ buf'[s] = buf[s] + (IF n > Limit - buf[s] THEN Limit - buf[s] ELSE n) /\ bytes'[s] = bytes[s] - n
        /\ \A f \in Flow : f # s => buf'[f] = buf[f]
        /\ \A f \in AnyStream : f # s => bytes'[f] = bytes[f]
    BY <1>a, <1>b, <1>c DEF CaptureTypeOK, Kept
  <1>1. CASE n > Limit - buf[s]
    <2>a. /\ member' \in [Member -> {"none", "forked", "grouped", "running", "zombie", "gone"}]
          /\ open' \in [Member -> SUBSET AnyStream] /\ Family'
          /\ (\A f \in AnyStream : HasOpen(f)' => HasOpen(f))
          /\ stage' = "kill" /\ after' = "serve" /\ said' = said /\ limited' = s /\ readable' = {}
      BY <1>1, <1>a, Terminating, Terminated
    <2>b. buf'[s] = Limit /\ said'[s] > Limit
      BY <1>1, <1>c, <1>d, <2>a
    <2>1. CaptureTypeOK'
      BY <1>b, <1>d, <2>a DEF CaptureTypeOK
    <2>3. Flowing'
      <3>1. \A f \in Flow : buf'[f] <= Limit
        BY <1>c, <1>d, <2>b DEF Flowing
      <3>2. \A f \in Flow : IF limited' = f THEN buf'[f] = Limit /\ said'[f] > Limit ELSE said'[f] = bytes'[f] + buf'[f]
        BY <1>b, <1>d, <2>a, <2>b DEF Flowing
      <3>3. \A f \in Flow : f \notin readers' => failed' \/ (bytes'[f] = 0 /\ ~HasOpen(f)')
        BY <1>b, <1>c, <1>d, <2>a DEF Flowing
      <3>4. ~writing' => offset' = InputLen \/ ~HasOpen("stdin")'
        BY <2>a DEF Flowing, AnyStream
      <3> QED BY <2>a, <3>1, <3>2, <3>3, <3>4 DEF Flowing
    <2>4. Verdicts'
      BY <1>b, <2>a DEF Verdicts, Bad
    <2>5. Reporting'
      BY <2>a DEF Reporting
    <2> QED BY <2>a, <2>1, <2>3, <2>4, <2>5
  <1>2. CASE ~(n > Limit - buf[s])
    <2>a. /\ readable' = readable \ {s} /\ limited' = "none" /\ stage' = "serve" /\ after' = after
          /\ UNCHANGED <<member, open, said, ended>>
      BY <1>2, <1>a, <1>b DEF group
    <2>b. buf'[s] <= Limit /\ said[s] = bytes'[s] + buf'[s]
      BY <1>2, <1>c, <1>d
    <2>1. CaptureTypeOK'
      BY <1>d, <2>a DEF CaptureTypeOK
    <2>2. Family'
      BY <2>a DEF Family
    <2>3. Flowing'
      <3>0. \A f \in AnyStream : HasOpen(f)' = HasOpen(f)
        BY <2>a DEF HasOpen
      <3>1. \A f \in Flow : buf'[f] <= Limit
        BY <1>d, <2>b DEF Flowing
      <3>2. \A f \in Flow : IF limited' = f THEN buf'[f] = Limit /\ said'[f] > Limit ELSE said'[f] = bytes'[f] + buf'[f]
        BY <1>b, <1>d, <2>a, <2>b DEF Flowing
      <3>3. \A f \in Flow : f \notin readers' => failed' \/ (bytes'[f] = 0 /\ ~HasOpen(f)')
        BY <1>b, <1>c, <1>d, <3>0 DEF Flowing
      <3>4. \A f \in Flow : f \in readable' => bytes'[f] > 0 \/ ~HasOpen(f)'
        BY <1>b, <1>d, <2>a, <3>0 DEF Flowing
      <3>5. ~writing' => offset' = InputLen \/ ~HasOpen("stdin")'
        BY <3>0 DEF Flowing, AnyStream
      <3> QED BY <2>a, <3>1, <3>2, <3>3, <3>4, <3>5 DEF Flowing
    <2>4. Verdicts'
      BY <1>b, <2>a DEF Verdicts, Bad, Grouped
    <2>5. Reporting'
      BY <2>a DEF Reporting
    <2> QED BY <2>1, <2>2, <2>3, <2>4, <2>5
  <1> QED BY <1>1, <1>2

LEMMA StepServe == CaptureInv /\ Serve => CaptureInv'
  <1> SUFFICES ASSUME CaptureInv, Serve PROVE CaptureInv'
    OBVIOUS
  <1>a. PICK s \in readable :
          \/ Take(s) /\ UNCHANGED <<readers, failed>>
          \/ /\ bytes[s] = 0
             /\ readers' = readers \ {s} /\ readable' = readable \ {s}
             /\ UNCHANGED <<buf, bytes, limited, failed, stage, after, group>>
          \/ /\ Faults /\ failed' = TRUE /\ Terminate("serve")
             /\ readers' = readers \ {s} /\ readable' = readable \ {s}
             /\ UNCHANGED <<buf, bytes, limited>>
    BY DEF Serve
  <1>b. stage = "serve" /\ UNCHANGED <<writing, offset, writable, late, timedOut, report>>
    BY DEF Serve
  <1>c. s \in Flow /\ s \in AnyStream /\ limited = "none" /\ ~timedOut
    BY <1>a, <1>b DEF CaptureInv, CaptureTypeOK, AnyStream, Verdicts
  <1>1. CASE Take(s) /\ UNCHANGED <<readers, failed>>
    BY <1>1, <1>b, StepTake
  <1>2. CASE /\ bytes[s] = 0
             /\ readers' = readers \ {s} /\ readable' = readable \ {s}
             /\ UNCHANGED <<buf, bytes, limited, failed, stage, after, group>>
    <2> USE DEF CaptureInv, group
    <2>0. ~HasOpen(s)
      BY <1>2, <1>c DEF Flowing
    <2>1. CaptureTypeOK'
      BY <1>2, <1>b DEF CaptureTypeOK
    <2>2. Family'
      BY <1>2 DEF Family
    <2>3. Flowing'
      BY <1>2, <1>b, <1>c, <2>0 DEF Flowing, HasOpen
    <2>4. Verdicts'
      BY <1>2, <1>b, <1>c DEF Verdicts, Bad, Grouped
    <2>5. Reporting'
      BY <1>2, <1>b DEF Reporting
    <2> QED BY <2>1, <2>2, <2>3, <2>4, <2>5
  <1>3. CASE /\ failed' = TRUE /\ Terminate("serve")
             /\ readers' = readers \ {s} /\ readable' = readable \ {s}
             /\ UNCHANGED <<buf, bytes, limited>>
    <2> USE DEF CaptureInv
    <2>a. /\ member' \in [Member -> {"none", "forked", "grouped", "running", "zombie", "gone"}]
          /\ open' \in [Member -> SUBSET AnyStream] /\ Family'
          /\ (\A f \in AnyStream : HasOpen(f)' => HasOpen(f))
          /\ stage' = "kill" /\ after' = "serve" /\ said' = said
      BY <1>3, <1>b, Terminating, Terminated
    <2>1. CaptureTypeOK'
      BY <1>3, <1>b, <2>a DEF CaptureTypeOK
    <2>3. Flowing'
      BY <1>3, <1>b, <2>a DEF Flowing, AnyStream
    <2>4. Verdicts'
      BY <1>3, <1>b, <1>c, <2>a DEF Verdicts, Bad
    <2>5. Reporting'
      BY <2>a DEF Reporting
    <2> QED BY <2>a, <2>1, <2>3, <2>4, <2>5
  <1> QED BY <1>a, <1>1, <1>2, <1>3

LEMMA StepServed == CaptureInv /\ Served => CaptureInv'
  <1> SUFFICES ASSUME CaptureInv, Served PROVE CaptureInv'
    OBVIOUS
  <1> USE DEF CaptureInv, Served, capture, group, verdictVars
  <1>a. /\ stage = "serve" /\ stage' \in {"wait", "feed", "top"} /\ readable = {} /\ ~timedOut
        /\ stage' = "wait" <=> failed \/ limited # "none"
    BY DEF Verdicts
  <1>1. CaptureTypeOK'
    BY <1>a DEF CaptureTypeOK
  <1>2. Family'
    BY <1>a DEF Family
  <1>3. Flowing'
    BY <1>a DEF Flowing, HasOpen
  <1>4. Verdicts'
    BY <1>a DEF Verdicts, Bad, Grouped
  <1>5. Reporting'
    BY <1>a DEF Reporting
  <1> QED BY <1>1, <1>2, <1>3, <1>4, <1>5

LEMMA StepFeed == CaptureInv /\ Feed => CaptureInv'
  <1> SUFFICES ASSUME CaptureInv, Feed PROVE CaptureInv'
    OBVIOUS
  <1> USE DEF CaptureInv
  <1>a. /\ stage = "feed" /\ UNCHANGED <<readers, buf, readable, writable, late, timedOut, limited, report>>
        /\ ~timedOut /\ limited = "none"
    BY DEF Feed, Verdicts
  <1>1. CASE /\ ~HasOpen("stdin")
             /\ writing' = FALSE /\ stage' = "top"
             /\ UNCHANGED <<offset, bytes, failed, after, group>>
    <2>1. CaptureTypeOK'
      BY <1>1, <1>a DEF CaptureTypeOK, group
    <2>2. Family'
      BY <1>1, <1>a DEF Family, group
    <2>3. Flowing'
      BY <1>1, <1>a DEF Flowing, HasOpen, group
    <2>4. Verdicts'
      BY <1>1, <1>a DEF Verdicts, Bad, Grouped, group
    <2>5. Reporting'
      BY <1>1 DEF Reporting
    <2> QED BY <2>1, <2>2, <2>3, <2>4, <2>5
  <1>2. CASE /\ HasOpen("stdin")
             /\ \E n \in 1 .. InputLen - offset :
                  /\ n <= PipeRoom - bytes["stdin"]
                  /\ offset' = offset + n
                  /\ bytes' = [bytes EXCEPT !["stdin"] = @ + n]
             /\ writing' = (offset' # InputLen) /\ stage' = "top"
             /\ UNCHANGED <<failed, after, group>>
    <2>a. /\ offset' \in 0 .. InputLen /\ bytes' \in [AnyStream -> Nat]
          /\ \A f \in Flow : bytes'[f] = bytes[f]
      BY <1>2, CaptureAssumption DEF CaptureTypeOK, CaptureAssumption, AnyStream, Flow
    <2>b. writing' \in BOOLEAN /\ (~writing' => offset' = InputLen)
      <3> DEFINE more == offset' # InputLen
      <3>1. writing' = more
        BY <1>2
      <3> QED BY <3>1
    <2>1. CaptureTypeOK'
      BY <1>2, <1>a, <2>a, <2>b DEF CaptureTypeOK, group
    <2>2. Family'
      BY <1>2, <1>a DEF Family, group
    <2>3. Flowing'
      BY <1>2, <1>a, <2>a, <2>b DEF Flowing, HasOpen, group
    <2>4. Verdicts'
      BY <1>2, <1>a DEF Verdicts, Bad, Grouped, group
    <2>5. Reporting'
      BY <1>2 DEF Reporting
    <2> QED BY <2>1, <2>2, <2>3, <2>4, <2>5
  <1>3. CASE failed' = TRUE /\ Terminate("top") /\ UNCHANGED <<writing, offset, bytes>>
    <2>a. /\ member' \in [Member -> {"none", "forked", "grouped", "running", "zombie", "gone"}]
          /\ open' \in [Member -> SUBSET AnyStream] /\ Family'
          /\ (\A f \in AnyStream : HasOpen(f)' => HasOpen(f))
          /\ stage' = "kill" /\ after' = "top" /\ said' = said
      BY <1>3, <1>a, Terminating, Terminated
    <2>1. CaptureTypeOK'
      BY <1>3, <1>a, <2>a DEF CaptureTypeOK
    <2>3. Flowing'
      BY <1>3, <1>a, <2>a DEF Flowing, AnyStream
    <2>4. Verdicts'
      BY <1>3, <1>a, <2>a DEF Verdicts, Bad
    <2>5. Reporting'
      BY <2>a DEF Reporting
    <2> QED BY <2>a, <2>1, <2>3, <2>4, <2>5
  <1> QED BY <1>1, <1>2, <1>3 DEF Feed

LEMMA StepWaitForPid == CaptureInv /\ WaitForPid => CaptureInv'
  <1> SUFFICES ASSUME CaptureInv, WaitForPid PROVE CaptureInv'
    OBVIOUS
  <1> USE DEF CaptureInv, WaitForPid, capture, verdictVars
  <1>0. Leader \in Member /\ Helper \in Member /\ Leader # Helper
    BY CaptureAssumption DEF Member, CaptureAssumption
  <1>a. /\ member'[Leader] = "gone" /\ member'[Helper] = member[Helper]
        /\ member' \in [Member -> {"none", "forked", "grouped", "running", "zombie", "gone"}]
        /\ stage = "wait" /\ stage' = "done" /\ member[Leader] = "zombie"
    BY <1>0 DEF CaptureTypeOK
  <1>b. Grouped' = Grouped
    BY <1>0, <1>a DEF Grouped, CaptureTypeOK
  <1>1. CaptureTypeOK'
    BY <1>a DEF CaptureTypeOK
  <1>2. Family'
    BY <1>a DEF Family
  <1>3. Flowing'
    BY <1>a DEF Flowing, HasOpen
  <1>4. Verdicts'
    BY <1>a, <1>b DEF Verdicts, Bad
  <1>5. Reporting'
    <2>1. CASE failed
      BY <2>1, <1>a, <1>b DEF Reporting, Verdicts, Bad
    <2>2. CASE ~failed
      <3>1. report' = Verdict'
        BY <2>2 DEF Verdict
      <3>2. (Bad \/ (readers = {} /\ ~writing))'
        BY <1>a DEF Verdicts, Bad
      <3> QED BY <2>2, <3>1, <3>2, <1>a DEF Reporting
    <2> QED BY <2>1, <2>2
  <1> QED BY <1>1, <1>2, <1>3, <1>4, <1>5

\* What the group does: it writes where it has a stream open, and has fewer
\* open afterwards, and ends; only a running leader has a helper.
GroupWorks ==
  /\ member' \in [Member -> {"none", "forked", "grouped", "running", "zombie", "gone"}]
  /\ open' \in [Member -> SUBSET AnyStream] /\ bytes' \in [AnyStream -> Nat] /\ said' \in [Flow -> Nat]
  /\ \A s \in AnyStream : HasOpen(s)' => HasOpen(s)
  /\ \A s \in Flow :
       \/ bytes'[s] = bytes[s] /\ said'[s] = said[s]
       \/ bytes'[s] = bytes[s] + 1 /\ said'[s] = said[s] + 1 /\ HasOpen(s)
  /\ (Grouped = {} => Grouped' = {}) /\ Family'
  /\ stage = "done" => ended' = ended

LEMMA Working == CaptureInv /\ Work => GroupWorks
  <1> SUFFICES ASSUME CaptureInv, Work PROVE GroupWorks
    OBVIOUS
  <1> USE DEF CaptureInv
  <1>0. /\ Leader \in Member /\ Helper \in Member /\ Leader # Helper /\ (\A p \in Member : p = Leader \/ p = Helper)
        /\ Flow \subseteq AnyStream /\ "stdin" \in AnyStream /\ "stdin" \notin Flow
    BY CaptureAssumption DEF Member, CaptureAssumption, AnyStream, Flow
  <1>1. ASSUME NEW p \in Member, member[p] = "running", Consume(p) 
        PROVE  /\ member' = member /\ open' = open /\ said' = said /\ ended' = ended
               /\ bytes' \in [AnyStream -> Nat] /\ \A s \in Flow : bytes'[s] = bytes[s]
    BY <1>0, <1>1 DEF Consume, group, CaptureTypeOK
  <1>2. ASSUME NEW p \in Member, NEW s \in Flow, Say(p, s)
        PROVE  /\ member' = member /\ open' = open /\ ended' = ended
               /\ bytes' \in [AnyStream -> Nat] /\ said' \in [Flow -> Nat]
               /\ bytes'[s] = bytes[s] + 1 /\ said'[s] = said[s] + 1 /\ HasOpen(s)
               /\ \A f \in Flow : f # s => bytes'[f] = bytes[f] /\ said'[f] = said[f]
    BY <1>0, <1>2 DEF Say, CaptureTypeOK, HasOpen
  <1>3. ASSUME NEW p \in Member, NEW s \in AnyStream, Shut(p, s)
        PROVE  /\ UNCHANGED <<member, said, ended, bytes>> /\ open' \in [Member -> SUBSET AnyStream]
               /\ \A f \in AnyStream : HasOpen(f)' => HasOpen(f)
    <2>1. /\ UNCHANGED <<member, said, ended, bytes>> /\ open' \in [Member -> SUBSET AnyStream]
          /\ \A q \in Member : open'[q] \subseteq open[q]
      BY <1>3 DEF Shut, CaptureTypeOK
    <2> QED BY <2>1 DEF HasOpen
  <1>4. ASSUME Assist
        PROVE  /\ UNCHANGED <<said, ended, bytes>> /\ open' \in [Member -> SUBSET AnyStream]
               /\ member' \in [Member -> {"none", "forked", "grouped", "running", "zombie", "gone"}]
               /\ member'[Helper] = "running" /\ member'[Leader] = "running" /\ member[Leader] = "running"
               /\ \A f \in AnyStream : HasOpen(f)' => HasOpen(f)
    <2>1. /\ UNCHANGED <<said, ended, bytes>> /\ open' \in [Member -> SUBSET AnyStream]
          /\ member' \in [Member -> {"none", "forked", "grouped", "running", "zombie", "gone"}]
          /\ member'[Helper] = "running" /\ member'[Leader] = "running" /\ member[Leader] = "running"
          /\ \A q \in Member : open'[q] = open[q] \/ open'[q] = open[Leader]
      BY <1>0, <1>4 DEF Assist, CaptureTypeOK
    <2> QED BY <1>0, <2>1 DEF HasOpen
  <1>5. ASSUME NEW p \in Member, member[p] = "running", Finish(p)
        PROVE  /\ UNCHANGED <<said, bytes>> /\ open' \in [Member -> SUBSET AnyStream]
               /\ member' \in [Member -> {"none", "forked", "grouped", "running", "zombie", "gone"}]
               /\ \A f \in AnyStream : HasOpen(f)' => HasOpen(f)
               /\ (Grouped = {} => Grouped' = {}) /\ Family'
               /\ stage = "done" /\ stage' = stage => ended' = ended
    <2>1. {p} \in SUBSET Grouped /\ Die({p}, <<"exit", 1>>) /\ UNCHANGED <<said, bytes>>
      BY <1>5 DEF Finish, Grouped
    <2>2. /\ member' \in [Member -> {"none", "forked", "grouped", "running", "zombie", "gone"}]
          /\ open' \in [Member -> SUBSET AnyStream]
          /\ Grouped' = Grouped \ {p}
          /\ \A s \in AnyStream : HasOpen(s)' => HasOpen(s)
          /\ member'[Helper] \in {"none", "running", "gone"}
          /\ member[Helper] = "none" => member'[Helper] = "none"
          /\ IF Leader \in {p} THEN member'[Leader] = "zombie" ELSE member'[Leader] = member[Leader] /\ ended' = ended
          /\ ended' = <<"unexecuted">> => ended = <<"unexecuted">>
      BY <2>1, Dying, Ways
    <2>3. stage' = stage
      BY DEF Work
    <2>4. stage = "done" => ended' = ended
      BY <2>2, <1>5 DEF Family
    <2>5. Family'
      BY <2>2, <2>3, <1>5, <1>0 DEF Family
    <2> QED BY <2>1, <2>2, <2>4, <2>5
  <1>a. stage' = stage
    BY DEF Work
  <1>6. ASSUME member' = member, ended' = ended, stage # "spawn"
        PROVE  /\ member' \in [Member -> {"none", "forked", "grouped", "running", "zombie", "gone"}]
               /\ (Grouped = {} => Grouped' = {}) /\ Family'
    BY <1>6, <1>a DEF Grouped, Family, CaptureTypeOK
  <1>7. CASE Assist
    <2>1. Family'
      BY <1>0, <1>4, <1>7, <1>a, Ways DEF Family
    <2>2. Leader \in Grouped
      BY <1>0, <1>4, <1>7 DEF Grouped
    <2> QED BY <2>1, <2>2, <1>4, <1>7, <1>a DEF CaptureTypeOK, GroupWorks
  <1>8. CASE ~Assist
    <2>1. PICK p \in Member :
            /\ member[p] = "running"
            /\ \/ Consume(p) \/ Finish(p)
               \/ \E s \in Flow : Say(p, s)
               \/ \E s \in Flow \cup {"stdin"} : Shut(p, s)
      BY <1>8 DEF Work
    <2>0. stage # "spawn"
      BY <2>1 DEF Family
    <2>2. CASE Consume(p)
      BY <2>0, <2>1, <2>2, <1>1, <1>6 DEF HasOpen, CaptureTypeOK, GroupWorks
    <2>3. CASE Finish(p)
      BY <2>1, <2>3, <1>5, <1>a DEF CaptureTypeOK, GroupWorks
    <2>4. ASSUME NEW s \in Flow, Say(p, s)
          PROVE  GroupWorks
      BY <2>0, <2>4, <1>2, <1>6 DEF HasOpen, CaptureTypeOK, GroupWorks
    <2>5. ASSUME NEW s \in AnyStream, Shut(p, s)
          PROVE  GroupWorks
      BY <2>0, <2>5, <1>3, <1>6 DEF CaptureTypeOK, GroupWorks
    <2> QED BY <2>1, <2>2, <2>3, <2>4, <2>5 DEF AnyStream
  <1> QED BY <1>7, <1>8

LEMMA StepWork == CaptureInv /\ Work => CaptureInv'
  <1> SUFFICES ASSUME CaptureInv, Work PROVE CaptureInv'
    OBVIOUS
  <1>a. GroupWorks
    BY Working
  <1>b. UNCHANGED <<stage, after, readers, writing, offset, buf, readable, writable, late,
                    timedOut, limited, failed, report>>
    BY DEF Work, capture, verdictVars
  <1> USE DEF CaptureInv
  <1>1. CaptureTypeOK'
    BY <1>a, <1>b DEF CaptureTypeOK, GroupWorks
  <1>2. Family'
    BY <1>a DEF GroupWorks
  <1>3. Flowing'
    <2>1. ASSUME NEW s \in Flow
          PROVE  /\ buf'[s] <= Limit
                 /\ IF limited' = s THEN buf'[s] = Limit /\ said'[s] > Limit ELSE said'[s] = bytes'[s] + buf'[s]
                 /\ s \in readable' => bytes'[s] > 0 \/ ~HasOpen(s)'
                 /\ s \notin readers' => failed' \/ (bytes'[s] = 0 /\ ~HasOpen(s)')
      <3>1. /\ bytes[s] \in Nat /\ said[s] \in Nat /\ buf[s] \in Nat /\ Limit \in Nat
            /\ HasOpen(s)' => HasOpen(s)
            /\ \/ bytes'[s] = bytes[s] /\ said'[s] = said[s]
               \/ bytes'[s] = bytes[s] + 1 /\ said'[s] = said[s] + 1 /\ HasOpen(s)
        BY <1>a, CaptureAssumption DEF GroupWorks, CaptureTypeOK, AnyStream, CaptureAssumption
      <3>2. /\ buf[s] <= Limit
            /\ IF limited = s THEN buf[s] = Limit /\ said[s] > Limit ELSE said[s] = bytes[s] + buf[s]
            /\ s \in readable => bytes[s] > 0 \/ ~HasOpen(s)
            /\ s \notin readers => failed \/ (bytes[s] = 0 /\ ~HasOpen(s))
        BY DEF Flowing
      <3> HIDE DEF CaptureInv
      <3> QED BY <3>1, <3>2, <1>b
    <2>2. ~writing' => offset' = InputLen \/ ~HasOpen("stdin")'
      BY <1>a, <1>b DEF Flowing, GroupWorks, AnyStream
    <2>3. (stage = "spawn" => readers = Flow /\ readable = {} /\ (~writing => offset = InputLen))'
      BY <1>b DEF Flowing
    <2> QED BY <2>1, <2>2, <2>3 DEF Flowing
  <1>4. Verdicts'
    BY <1>a, <1>b DEF Verdicts, Bad, GroupWorks
  <1>5. Reporting'
    <2>1. Verdict' = Verdict \/ ended' # ended
      BY <1>b DEF Verdict
    <2> QED BY <1>a, <1>b, <2>1 DEF Reporting, Bad, GroupWorks
  <1> QED BY <1>1, <1>2, <1>3, <1>4, <1>5

-----------------------------------------------------------------------------
(* The theorem.                                                            *)

LEMMA CaptureStep == CaptureInv /\ [CaptureNext]_captureVars => CaptureInv'
  <1> SUFFICES ASSUME CaptureInv, [CaptureNext]_captureVars PROVE CaptureInv'
    OBVIOUS
  <1>1. CASE DeadlinePasses
    BY <1>1 DEF DeadlinePasses, CaptureInv, CaptureTypeOK, Family, Flowing, Verdicts, Reporting, Verdict, Bad, Grouped,
                HasOpen, group, capture, verdictVars
  <1>2. CASE UNCHANGED captureVars
    BY <1>2 DEF captureVars, CaptureInv, CaptureTypeOK, Family, Flowing, Verdicts, Reporting, Verdict, Bad, Grouped,
                HasOpen, group, capture, verdictVars
  <1>3. CASE Harness
    BY <1>3, StepStartChild, StepAwaitExec, StepConfigure, StepTop, StepSelect, StepServe, StepServed, StepFeed,
       StepKillGroup, StepWaitForPid DEF Harness
  <1> QED BY <1>1, <1>2, <1>3, StepJoinGroup, StepWork DEF CaptureNext, Captured

LEMMA CaptureAlways == CaptureSpec => []CaptureInv
  <1> QED BY FirstCapture, CaptureStep, PTL DEF CaptureSpec

LEMMA Honest == CaptureInv => ReportHonest
  <1> SUFFICES ASSUME CaptureInv, stage = "done" PROVE ReportHonest
    BY DEF ReportHonest
  <1> USE DEF CaptureInv
  <1>1. member[Leader] \in {"none", "gone"}
    BY DEF Family
  <1>2. CASE report = [error |-> TRUE] /\ Grouped = {}
    BY <1>1, <1>2, Fields DEF ReportHonest
  <1>3. CASE report = Verdict /\ ~failed /\ (Bad \/ (readers = {} /\ ~writing))
    <2>1. /\ report.error = FALSE /\ report.output = buf /\ report.timedOut = timedOut
          /\ report.limited = limited
          /\ report.exit = IF timedOut THEN 124 ELSE IF limited # "none" THEN 125 ELSE Code(ended)
      BY <1>3, Fields
    <2>2. ~Whole => Grouped = {}
      BY <2>1 DEF Whole, Verdicts, Bad
    <2>3. ASSUME Whole
          PROVE  report.output = said /\ report.exit = Code(ended) /\ (offset = InputLen \/ ~HasOpen("stdin"))
      <3>1. ~timedOut /\ limited = "none" /\ readers = {} /\ ~writing
        BY <2>1, <2>3, <1>3 DEF Whole, Bad
      <3>2. \A s \in Flow : said[s] = buf[s]
        BY <3>1, <1>3 DEF Flowing, CaptureTypeOK, Flow
      <3>3. said = buf
        BY <3>2 DEF CaptureTypeOK
      <3> QED BY <2>1, <3>1, <3>3 DEF Flowing
    <2>4. report.timedOut => report.exit = 124 /\ late
      BY <2>1 DEF Verdicts
    <2>5. report.limited # "none" =>
            report.exit = 125 /\ report.output[report.limited] = Limit /\ said[report.limited] > Limit
      BY <2>1 DEF Verdicts, Flowing, CaptureTypeOK
    <2>6. \A s \in Flow : report.output[s] <= said[s] /\ report.output[s] <= Limit
      BY <2>1, CaptureAssumption DEF Flowing, CaptureTypeOK, CaptureAssumption, AnyStream
    <2> QED BY <1>1, <2>1, <2>2, <2>3, <2>4, <2>5, <2>6 DEF ReportHonest
  <1> QED BY <1>2, <1>3 DEF Reporting

\* What _capture reports of a program is so, whatever the program does and
\* however large input, limit and pipes are: with an exit code come all of the
\* output and the input written or refused; 125 with the first bytes of a
\* stream that had more; 124 after the deadline only; and a capture that
\* failed or was cut short leaves nobody of the group behind.
THEOREM HonestReport == CaptureSpec => []ReportHonest
  <1> QED BY CaptureAlways, Honest, PTL

=============================================================================
