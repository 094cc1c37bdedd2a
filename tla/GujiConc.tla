------------------------------ MODULE GujiConc -------------------------------
(***************************************************************************)
(* The concurrency runtime of guji, src/selfhost/rt/guji_conc.c: tasks,    *)
(* channels, select and the deadlock detector, run by a program of bounded *)
(* size.                                                                   *)
(*                                                                         *)
(* Granularity.  A critical section of guji_sched_mu is one step.  A       *)
(* critical section of a channel mutex that contains at most one of them   *)
(* is one step too: taking the mutex moves right, releasing it moves left. *)
(* One that contains several is cut after each, with the mutex still held  *)
(* (mu[c] = t) in between, because a task that uses another channel, or    *)
(* none, can run there.                                                    *)
(*                                                                         *)
(* The program is one of Programs: p.start are the tasks that run from the *)
(* beginning, p.may[t] what task t may do and p.calls[t] how often.  A     *)
(* task calls any of its operations in any order, and may return at any    *)
(* time.  A send takes the next message number.  p.calls and MaxMsg are    *)
(* the only bounds of the model.                                           *)
(***************************************************************************)
EXTENDS GujiSched, GujiChan

CONSTANTS Programs,  \* the programs, [start, may, calls]
          MaxMsg,    \* how many messages are sent in all
          Prompt,    \* BOOLEAN: a woken task runs before a whole window passes
          Spurious   \* BOOLEAN: condition variables may wake up spuriously

Arm == [dir : {"send", "recv"}, ch : Chan]
Op  == [fn : {"send", "recv", "close", "select", "spawn"},
        arms : Seq(Arm), els : BOOLEAN, task : Task]

ASSUME ProgramAssumption ==
  /\ NoTask \notin Task
  /\ \A p \in Programs :
        /\ p.start \subseteq Task /\ Main \in p.start
        /\ p.may \in [Task -> SUBSET Op]
        /\ p.calls \in [Task -> Nat]
        /\ \A t \in Task : \A o \in p.may[t] :
              /\ o.fn \in {"send", "recv", "close"} => Len(o.arms) = 1
              /\ o.fn = "select" => o.arms # <<>>
              /\ IF o.fn = "spawn" THEN o.task \in Task \ p.start ELSE o.task = Main
  /\ MaxMsg \in Nat /\ Msg = 1 .. MaxMsg
  /\ Prompt \in BOOLEAN /\ Spurious \in BOOLEAN

\* The operations of a program.
OneArm(fn, dir, c) ==
  [fn |-> fn, arms |-> <<[dir |-> dir, ch |-> c]>>, els |-> FALSE, task |-> Main]
SendOp(c)  == OneArm("send", "send", c)
RecvOp(c)  == OneArm("recv", "recv", c)
CloseOp(c) == OneArm("close", "send", c)
SpawnOp(u) == [fn |-> "spawn", arms |-> <<>>, els |-> FALSE, task |-> u]
SelectOp(arms, els) ==
  [fn |-> "select", arms |-> arms, els |-> els, task |-> Main]
Idle       == [fn |-> "spawn", arms |-> <<>>, els |-> FALSE, task |-> Main]

VARIABLES pc,        \* where the task is
          op, arm,   \* the operation it executes, and which arm of it
          msg,       \* the message it sends
          cont,      \* the loop that guji_task_block_wait returns to
          may, todo, \* the operations it may call, and how many more
          nextMsg,   \* the next message
          completed, \* guji_completed_tasks: join records not yet claimed
          claimed,   \* claimed[t]: records t has claimed and still has to join
          process,   \* "up", "exited" (_exit), "returned" or "panicked"
          owed       \* owed[t]: see the section on time below

\* What the program has seen of its messages.
VARIABLES used,      \* messages handed to the runtime
          got,       \* got[c]: messages received from c, in order
          drops,     \* drops[m]: how often elem_drop was called on m
          verdict,   \* verdict[m]: "none", "ok" or "closed"
          drained,   \* channels a recv of which has returned None
          joined     \* tasks whose thread has been joined

taskVars == <<pc, op, arm, msg, cont>>
progVars == <<may, todo, nextMsg>>
lifeVars == <<completed, claimed, process, joined>>
history  == <<used, got, drops, verdict, drained>>
vars == <<schedVars, chanVars, taskVars, progVars, lifeVars, history, owed>>

InWait == {"block", "parked", "expired", "unblock"}
PC == InWait \cup
      {"unborn", "run", "send", "offer", "recv", "close", "reap", "join",
       "selTop", "poll", "selWait", "selParked", "selExpired", "exitConfirm",
       "exitCheck", "exit", "mainReap", "mainJoin", "panic", "paused", "ended"}

TaskTypeOK ==
  /\ pc \in [Task -> PC]
  /\ op \in [Task -> Op]
  /\ arm \in [Task -> Nat \ {0}]
  /\ msg \in [Task -> Msg \cup {NoMsg}]
  /\ cont \in [Task -> {"none", "send", "offer", "recv"}]

LifeTypeOK ==
  /\ may \in {p.may : p \in Programs}
  /\ todo \in [Task -> Nat]
  /\ nextMsg \in Nat \ {0}
  /\ completed \subseteq Task
  /\ claimed \in [Task -> SUBSET Task]
  /\ joined \subseteq Task
  /\ process \in {"up", "exited", "returned", "panicked"}

HistoryTypeOK ==
  /\ used \subseteq Msg
  /\ got \in [Chan -> Seq(Msg \cup {NoMsg})]
  /\ drops \in [Msg -> Nat]
  /\ verdict \in [Msg -> {"none", "ok", "closed"}]
  /\ drained \subseteq Chan

TypeOK ==
  /\ SchedTypeOK
  /\ ChanTypeOK(Task)
  /\ TaskTypeOK
  /\ LifeTypeOK
  /\ HistoryTypeOK
  /\ owed \in [Task -> SUBSET Task]

Init ==
  /\ \E p \in Programs :
        /\ SchedInit(p.start)
        /\ pc = [t \in Task |-> IF t \in p.start THEN "run" ELSE "unborn"]
        /\ may = p.may
        /\ todo = p.calls
  /\ ChanInit
  /\ op = [t \in Task |-> Idle]
  /\ arm = [t \in Task |-> 1]
  /\ msg = [t \in Task |-> NoMsg]
  /\ cont = [t \in Task |-> "none"]
  /\ nextMsg = 1
  /\ completed = {} /\ joined = {}
  /\ claimed = [t \in Task |-> {}]
  /\ process = "up"
  /\ owed = [t \in Task |-> {}]
  /\ used = {}
  /\ got = [c \in Chan |-> <<>>]
  /\ drops = [m \in Msg |-> 0]
  /\ verdict = [m \in Msg |-> "none"]
  /\ drained = {}

-----------------------------------------------------------------------------
(* Control flow.                                                            *)

Ch(t)     == op[t].arms[arm[t]].ch
Select(t) == op[t].fn = "select"

Goto(t, label) ==
  /\ pc' = [pc EXCEPT ![t] = label]
  /\ UNCHANGED <<op, arm, msg, cont>>

\* The operation is over: the task runs its own code again.
Return(t) ==
  /\ pc' = [pc EXCEPT ![t] = "run"]
  /\ op' = [op EXCEPT ![t] = Idle]
  /\ arm' = [arm EXCEPT ![t] = 1]
  /\ msg' = [msg EXCEPT ![t] = NoMsg]
  /\ cont' = [cont EXCEPT ![t] = "none"]

\* An arm of a select was not ready.
NextArm(t) ==
  /\ arm' = [arm EXCEPT ![t] = IF @ < Len(op[t].arms) THEN @ + 1 ELSE 1]
  /\ pc' = [pc EXCEPT ![t] = IF arm[t] < Len(op[t].arms) THEN "poll" ELSE "selWait"]
  /\ UNCHANGED <<op, msg, cont>>

\* Task t is at `label' of operation fn or of an arm of that direction, and
\* can run its critical section of channel c.
At(t, label, c) == pc[t] = label /\ c = Ch(t) /\ CanLock(t, c)
AtArm(t, dir, c) == At(t, "poll", c) /\ op[t].arms[arm[t]].dir = dir

\* Results.
Accepted(m) == verdict' = [verdict EXCEPT ![m] = "ok"]
Refused(m)  == /\ verdict' = [verdict EXCEPT ![m] = "closed"]
               /\ drops' = [drops EXCEPT ![m] = @ + 1]
Deliver(c)  == /\ got' = [got EXCEPT ![c] = Append(@, Head(Queue(c)))]
               /\ UNCHANGED <<used, drops, verdict, drained>>

-----------------------------------------------------------------------------
(* The program calls an operation.                                          *)

Sends(o) == o.fn = "send" \/ \E i \in DOMAIN o.arms : o.fn = "select" /\ o.arms[i].dir = "send"

Entry(fn) == CASE fn = "select" -> "selTop"
               [] fn = "spawn"  -> "reap"
               [] OTHER         -> fn

Call(t, o) ==
  /\ pc[t] = "run" /\ todo[t] > 0
  /\ Sends(o) => nextMsg <= MaxMsg
  /\ o.fn = "spawn" => pc[o.task] = "unborn" /\ \A u \in Task : op[u].task # o.task
  /\ todo' = [todo EXCEPT ![t] = @ - 1]
  /\ nextMsg' = IF Sends(o) THEN nextMsg + 1 ELSE nextMsg
  /\ msg' = [msg EXCEPT ![t] = IF Sends(o) THEN nextMsg ELSE NoMsg]
  /\ used' = IF o.fn = "send" THEN used \cup {nextMsg} ELSE used
  /\ op' = [op EXCEPT ![t] = o]
  /\ pc' = [pc EXCEPT ![t] = Entry(o.fn)]
  /\ UNCHANGED <<schedVars, chanVars, arm, cont, may, lifeVars, got, drops, verdict,
                 drained>>

-----------------------------------------------------------------------------
(* guji_task_block_wait.                                                    *)

\* Faulty: the window compares against a counter it has never read.
WindowUnread(t) == OpenWindow(t) /\ UNCHANGED current

\* The candidate condition holds: seen = guji_progress, and a timed wait.
Suspect(t) == OpenWindow(t) /\ ReadProgress(t)

\* blocked++, the candidate check, and the wait on the condition variable of
\* c: the channel mutex is released.
BlockOn(t, c, loop) ==
  /\ blocked' = blocked + 1
  /\ IF AllBlocked(blocked + 1)
     THEN Suspect(t)
     ELSE UNCHANGED <<current, armed, older>>
  /\ cv' = [cv EXCEPT ![c] = @ \cup {t}]
  /\ Unlock(c)
  /\ pc' = [pc EXCEPT ![t] = "parked"]
  /\ cont' = [cont EXCEPT ![t] = loop]
  /\ UNCHANGED <<live, exiting, panicking, schedCv, slotVars, closed, recvWaiters,
                 op, arm, msg, progVars, lifeVars, history>>

\* Faulty: a receive is still counted when it no longer waits.
WaiterStays(t) == UNCHANGED recvWaiters

\* recv_waiters--, in guji_chan_recv, as soon as its wait is over.
WaiterGone(t) ==
  recvWaiters' = IF cont[t] = "recv" THEN [recvWaiters EXCEPT ![Ch(t)] = @ - 1]
                                     ELSE recvWaiters

\* blocked--, guji_progress++; back in the caller's loop, mutex held.
Resume(t) ==
  /\ blocked' = blocked - 1
  /\ ProgressTick
  /\ WaiterGone(t)
  /\ pc' = [pc EXCEPT ![t] = cont[t]]
  /\ cont' = [cont EXCEPT ![t] = "none"]
  /\ UNCHANGED <<live, exiting, panicking, schedCv, armed, older,
                 cv, slotVars, closed, op, arm, msg, progVars, lifeVars, history>>

\* The wait ended because of a broadcast (or spuriously).
WakeSignaled(t) ==
  /\ At(t, "parked", Ch(t)) /\ t \notin cv[Ch(t)]
  /\ Lock(t, Ch(t))
  /\ Resume(t)

\* The window of t expires: its wait ends with ETIMEDOUT, or its sleep is over.
Timeout(t) ==
  /\ Expires(t) /\ (Prompt => owed[t] = {})
  /\ CloseWindows({t})
  /\ \/ /\ pc[t] = "parked"
        /\ cv' = [cv EXCEPT ![Ch(t)] = @ \ {t}]
        /\ Goto(t, "expired")
        /\ UNCHANGED schedCv
     \/ /\ pc[t] = "selParked"
        /\ schedCv' = schedCv \ {t}
        /\ Goto(t, "selExpired")
        /\ UNCHANGED cv
     \/ /\ pc[t] = "exitConfirm"
        /\ Goto(t, "exitCheck")
        /\ UNCHANGED <<cv, schedCv>>
  /\ UNCHANGED <<live, blocked, current, exiting, panicking, mu, slotVars, closed,
                 recvWaiters, progVars, lifeVars, history>>

\* guji_deadlock_panic_locked
DeadlockPanic(t) ==
  /\ Goto(t, IF panicking THEN "paused" ELSE "panic")
  /\ panicking' = TRUE

\* The check after a window: panic, or go back to the caller.
Confirm(t) ==
  /\ At(t, "expired", Ch(t))
  /\ Lock(t, Ch(t))
  /\ IF Confirmed(t)
     THEN DeadlockPanic(t)
     ELSE Goto(t, "unblock") /\ UNCHANGED panicking
  /\ UNCHANGED <<live, blocked, current, exiting, schedCv, armed, older,
                 cv, slotVars, closed, recvWaiters, progVars, lifeVars, history>>

Unblock(t) ==
  /\ pc[t] = "unblock"
  /\ UNCHANGED mu
  /\ Resume(t)

\* A condition variable lets a waiter go for no reason.
SpuriousWake(t) ==
  /\ Spurious
  /\ t \in schedCv \/ \E c \in Chan : t \in cv[c]
  /\ schedCv' = schedCv \ {t}
  /\ cv' = [c \in Chan |-> cv[c] \ {t}]
  /\ CloseWindows({t})
  /\ UNCHANGED <<live, blocked, current, exiting, panicking, mu, slotVars, closed,
                 recvWaiters, taskVars, progVars, lifeVars, history>>

-----------------------------------------------------------------------------
(* guji_chan_send, and the rendezvous it shares with guji_chan_try_send.    *)

\* Faulty: only the scheduler hears of it, not the waiters of c.
AnnounceToSelects(c) ==
  /\ ProgressBump({})
  /\ UNCHANGED cv
  /\ UNCHANGED <<live, blocked, exiting, panicking>>

\* A step that deposits or takes a message, or closes c: guji_progress_bump,
\* then a broadcast on c.
Announce(c) ==
  /\ ProgressBump(cv[c])
  /\ Broadcast(c)
  /\ UNCHANGED <<live, blocked, exiting, panicking>>

SendWait(t, c) ==
  /\ At(t, "send", c) /\ ~closed[c] /\ Full(c)
  /\ BlockOn(t, c, "send")

SendClosed(t, c) ==
  /\ At(t, "send", c) /\ closed[c]
  /\ Refused(msg[t])
  /\ Unlock(c)
  /\ Return(t)
  /\ UNCHANGED <<schedVars, cv, slotVars, closed, recvWaiters, progVars, lifeVars,
                 used, got, drained>>

\* The value goes into the handoff slot; the sender goes on to wait.
OfferValue(t, c) ==
  /\ Offer(c, msg[t])
  /\ Announce(c)
  /\ Lock(t, c)
  /\ Goto(t, "offer")
  /\ UNCHANGED <<closed, recvWaiters, progVars, lifeVars, got, drops, verdict, drained>>

\* The value goes into the ring: Ok(()).
PutValue(t, c) ==
  /\ Enqueue(c, msg[t])
  /\ Announce(c)
  /\ Unlock(c)
  /\ Accepted(msg[t])
  /\ Return(t)
  /\ UNCHANGED <<closed, recvWaiters, progVars, lifeVars, got, drops, drained>>

SendOffer(t, c) ==
  /\ At(t, "send", c) /\ ~closed[c] /\ ~Full(c) /\ Unbuffered(c)
  /\ OfferValue(t, c)
  /\ UNCHANGED used

SendPut(t, c) ==
  /\ At(t, "send", c) /\ ~closed[c] /\ ~Full(c) /\ ~Unbuffered(c)
  /\ PutValue(t, c)
  /\ UNCHANGED used

OfferWait(t, c) ==
  /\ At(t, "offer", c) /\ handoff[c] = 1 /\ ~closed[c]
  /\ BlockOn(t, c, "offer")

OfferTaken(t, c) ==
  /\ At(t, "offer", c) /\ handoff[c] = 2
  /\ FreeSlot(c)
  /\ CloseWindows(cv[c]) /\ Broadcast(c)
  /\ Unlock(c)
  /\ Accepted(msg[t])
  /\ Return(t)
  /\ UNCHANGED <<live, blocked, current, exiting, panicking, schedCv, closed,
                 recvWaiters, progVars, lifeVars, used, got, drops, drained>>

\* Faulty: takes the offer back although somebody has it already.
UntakenOrClosed(c) == closed[c]

\* The wait is over, and nobody has taken the offer.
Untaken(c) == handoff[c] # 2 /\ (handoff[c] = 1 => closed[c])

\* Closed while the offer sat untaken.
OfferReclaim(t, c) ==
  /\ At(t, "offer", c) /\ Untaken(c)
  /\ FreeSlot(c)
  /\ Unlock(c)
  /\ Refused(buf[c][0])
  /\ Return(t)
  /\ UNCHANGED <<schedVars, cv, closed, recvWaiters, progVars, lifeVars,
                 used, got, drained>>

-----------------------------------------------------------------------------
(* guji_chan_recv, and the parts it shares with guji_chan_try_recv.         *)

Readable(c) == Offered(c) \/ Available(c)

AtEnd(c) == ~Readable(c) /\ closed[c]

\* Some(v): the oldest message leaves the channel.
TakeValue(t, c) ==
  /\ IF Unbuffered(c) THEN Take(c) ELSE Dequeue(c)
  /\ Announce(c)
  /\ Unlock(c)
  /\ Deliver(c)
  /\ Return(t)
  /\ UNCHANGED <<closed, recvWaiters, progVars, lifeVars>>

\* None: closed and drained.
SeeEnd(t, c) ==
  /\ drained' = drained \cup {c}
  /\ Unlock(c)
  /\ Return(t)
  /\ UNCHANGED <<schedVars, cv, slotVars, closed, recvWaiters, progVars, lifeVars,
                 used, got, drops, verdict>>

RecvTake(t, c) == At(t, "recv", c) /\ Readable(c) /\ TakeValue(t, c)
RecvNone(t, c) == At(t, "recv", c) /\ AtEnd(c) /\ SeeEnd(t, c)

\* Faulty: a receive starts to wait without telling the selects.
ArriveQuietly(c) ==
  /\ recvWaiters' = [recvWaiters EXCEPT ![c] = @ + 1]
  /\ UNCHANGED <<current, schedCv, armed, older>>

Arrive(c) ==
  /\ recvWaiters' = [recvWaiters EXCEPT ![c] = @ + 1]
  /\ ProgressBump({})

\* recv_waiters++; guji_progress_bump, so that a select that wants to send
\* looks again; then guji_task_block_wait.
RecvWait(t, c) ==
  /\ At(t, "recv", c) /\ ~Readable(c) /\ ~closed[c]
  /\ Arrive(c)
  /\ Lock(t, c)
  /\ Goto(t, "block")
  /\ UNCHANGED <<live, blocked, exiting, panicking, cv, slotVars, closed,
                 progVars, lifeVars, history>>

RecvBlock(t, c) == At(t, "block", c) /\ BlockOn(t, c, "recv")

-----------------------------------------------------------------------------
(* guji_chan_close.                                                         *)

CloseOk(t, c) ==
  /\ At(t, "close", c) /\ ~closed[c]
  /\ closed' = [closed EXCEPT ![c] = TRUE]
  /\ Announce(c)
  /\ Unlock(c)
  /\ Return(t)
  /\ UNCHANGED <<slotVars, recvWaiters, progVars, lifeVars, history>>

CloseAgain(t, c) ==
  /\ At(t, "close", c) /\ closed[c]
  /\ Unlock(c)
  /\ Return(t)
  /\ UNCHANGED <<schedVars, cv, slotVars, closed, recvWaiters, progVars, lifeVars, history>>

-----------------------------------------------------------------------------
(* select: the loop that the compiler emits around guji_progress_snapshot,  *)
(* guji_chan_try_send, guji_chan_try_recv and guji_select_wait.             *)

Snapshot(t) ==
  /\ pc[t] = "selTop"
  /\ ReadProgress(t)
  /\ Goto(t, "poll")
  /\ UNCHANGED <<live, blocked, exiting, panicking, schedCv, armed, older,
                 chanVars, progVars, lifeVars, history>>

\* The arm would block: the copy that try_send was given is dropped again.
Miss(t) ==
  /\ NextArm(t)
  /\ UNCHANGED <<schedVars, chanVars, progVars, lifeVars, history>>

\* Faulty: offers a value although nobody waits for one.
CanSendAlone(c) == ~Full(c)

CanSendNow(c) == ~Full(c) /\ (Unbuffered(c) => recvWaiters[c] # 0)

TrySendClosed(t, c) ==
  /\ AtArm(t, "send", c) /\ closed[c]
  /\ used' = used \cup {msg[t]}
  /\ Refused(msg[t])
  /\ Return(t)
  /\ UNCHANGED <<schedVars, chanVars, progVars, lifeVars, got, drained>>

TrySendMiss(t, c) ==
  /\ AtArm(t, "send", c) /\ ~closed[c] /\ ~CanSendNow(c)
  /\ Miss(t)

TrySendOffer(t, c) ==
  /\ AtArm(t, "send", c) /\ ~closed[c] /\ CanSendNow(c) /\ Unbuffered(c)
  /\ used' = used \cup {msg[t]}
  /\ OfferValue(t, c)

TrySendPut(t, c) ==
  /\ AtArm(t, "send", c) /\ ~closed[c] /\ CanSendNow(c) /\ ~Unbuffered(c)
  /\ used' = used \cup {msg[t]}
  /\ PutValue(t, c)

TryRecvTake(t, c) == AtArm(t, "recv", c) /\ Readable(c) /\ TakeValue(t, c)
TryRecvNone(t, c) == AtArm(t, "recv", c) /\ AtEnd(c) /\ SeeEnd(t, c)
TryRecvMiss(t, c) == AtArm(t, "recv", c) /\ ~Readable(c) /\ ~closed[c] /\ Miss(t)

SelectElse(t) ==
  /\ pc[t] = "selWait" /\ op[t].els
  /\ Return(t)
  /\ UNCHANGED <<schedVars, chanVars, progVars, lifeVars, history>>

SelectWindow(t, n) == IF n = live THEN OpenWindow(t) ELSE UNCHANGED <<armed, older>>

\* The loop of guji_select_wait, entered with n tasks blocked, t among them:
\* wait again, with a window if everybody is blocked, or leave.
SelectLoop(t, n) ==
  IF t \in current /\ ~exiting
  THEN /\ blocked' = n
       /\ schedCv' = schedCv \cup {t}
       /\ SelectWindow(t, n)
       /\ Goto(t, "selParked")
       /\ UNCHANGED current
  ELSE /\ blocked' = n - 1
       /\ ProgressTick
       /\ Goto(t, "selTop")
       /\ UNCHANGED <<schedCv, armed, older>>

SelectWait(t) ==
  /\ pc[t] = "selWait" /\ ~op[t].els
  /\ SelectLoop(t, blocked + 1)
  /\ UNCHANGED <<live, exiting, panicking, chanVars, progVars, lifeVars, history>>

SelectWake(t) ==
  /\ pc[t] = "selParked" /\ t \notin schedCv
  /\ SelectLoop(t, blocked)
  /\ UNCHANGED <<live, exiting, panicking, chanVars, progVars, lifeVars, history>>

SelectTimeout(t) ==
  /\ pc[t] = "selExpired"
  /\ IF Confirmed(t)
     THEN DeadlockPanic(t) /\ UNCHANGED <<blocked, current, schedCv, armed, older>>
     ELSE SelectLoop(t, blocked) /\ UNCHANGED panicking
  /\ UNCHANGED <<live, exiting, chanVars, progVars, lifeVars, history>>

-----------------------------------------------------------------------------
(* Tasks: guji_task_spawn, guji_task_trampoline, guji_task_reap_completed,  *)
(* guji_conc_main_exit.                                                     *)

\* Faulty: two reapers can claim the same record.
ClaimShared(t, label) ==
  /\ claimed' = [claimed EXCEPT ![t] = completed]
  /\ Goto(t, label)
  /\ UNCHANGED <<completed, schedVars, chanVars, progVars, process, joined, history>>

\* The records of completed tasks become t's to join.
Claim(t, label) ==
  /\ claimed' = [claimed EXCEPT ![t] = completed]
  /\ completed' = {}
  /\ Goto(t, label)
  /\ UNCHANGED <<schedVars, chanVars, progVars, process, joined, history>>

SpawnReap(t) == pc[t] = "reap" /\ Claim(t, "join")

\* pthread_join(u): u's thread has to be gone.
Join(t, u) ==
  /\ pc[t] \in {"join", "mainJoin"}
  /\ u \in claimed[t] /\ pc[u] = "ended"
  /\ claimed' = [claimed EXCEPT ![t] = @ \ {u}]
  /\ joined' = joined \cup {u}
  /\ UNCHANGED <<schedVars, chanVars, taskVars, progVars, completed, process, history>>

\* Faulty: a new task is not counted.
BornUncounted == UNCHANGED live

Born == live' = live + 1

SpawnCreate(t) ==
  /\ pc[t] = "join" /\ claimed[t] = {}
  /\ Born
  /\ ProgressTick
  /\ pc' = [pc EXCEPT ![t] = "run", ![op[t].task] = "run"]
  /\ op' = [op EXCEPT ![t] = Idle]
  /\ UNCHANGED <<blocked, exiting, panicking, schedCv, armed, older, chanVars,
                 arm, msg, cont, progVars, lifeVars, history>>

\* Faulty: the exiting task leaves the check to others.
LeavesOnlyBlockedNever(n) == FALSE

\* Of the n tasks that stay behind, all are blocked.
LeavesOnlyBlocked(n) == n > 0 /\ blocked = n /\ ~exiting

\* The task's function returns.  If that leaves only blocked tasks, the
\* exiting task waits out the window on their behalf.
Exit(t) ==
  /\ pc[t] = "run" /\ t # Main
  /\ completed' = completed \cup {t}
  /\ live' = live - 1
  /\ IF LeavesOnlyBlocked(live - 1)
     THEN current' = {t} /\ OpenWindow(t) /\ Goto(t, "exitConfirm")
     ELSE ProgressTick /\ UNCHANGED <<armed, older>> /\ Goto(t, "ended")
  /\ UNCHANGED <<blocked, exiting, panicking, schedCv, chanVars, progVars,
                 claimed, process, joined, history>>

ExitConfirm(t) ==
  /\ pc[t] = "exitCheck"
  /\ IF live > 0 /\ Confirmed(t)
     THEN DeadlockPanic(t)
     ELSE Goto(t, "ended") /\ UNCHANGED panicking
  /\ UNCHANGED <<live, blocked, current, exiting, schedCv, armed, older,
                 chanVars, progVars, lifeVars, history>>

\* main returns.
MainExit ==
  /\ pc[Main] = "run"
  /\ exiting' = TRUE
  /\ live' = live - 1
  /\ Goto(Main, IF live - 1 > 0 THEN "exit" ELSE "mainReap")
  /\ UNCHANGED <<blocked, current, panicking, schedCv, armed, older,
                 chanVars, progVars, lifeVars, history>>

MainReap == pc[Main] = "mainReap" /\ Claim(Main, "mainJoin")

\* _exit in the middle of things, the end of a panic, or a normal return.
EndProcess(t, how) ==
  /\ \/ how = "exited"   /\ pc[t] = "exit"
     \/ how = "panicked" /\ pc[t] = "panic"
     \/ how = "returned" /\ pc[t] = "mainJoin" /\ claimed[t] = {}
  /\ process' = how
  /\ UNCHANGED <<schedVars, chanVars, taskVars, progVars, completed, claimed,
                 joined, history>>

-----------------------------------------------------------------------------
(* Time.  The detector relies on a woken task being scheduled before a      *)
(* whole confirmation window goes by.  owed[t] are the tasks that had been  *)
(* woken, but had not left their wait, when t's window opened, and still    *)
(* have not: with Prompt, t's window does not expire before they do.        *)

Woken ==
  {u \in Task : \/ pc[u] = "parked" /\ u \notin cv[Ch(u)]
                \/ pc[u] = "selParked" /\ u \notin schedCv
                \/ pc[u] \in {"expired", "unblock", "selExpired"}}

Owe ==
  owed' = [u \in Task |-> IF u \notin armed' THEN {}
                          ELSE IF u \in armed THEN owed[u] \cap Woken'
                          ELSE Woken' \ {u}]

-----------------------------------------------------------------------------
ChannelStep(t, c) ==
  \/ SendWait(t, c)     \/ SendClosed(t, c)   \/ SendOffer(t, c)   \/ SendPut(t, c)
  \/ OfferWait(t, c)    \/ OfferTaken(t, c)   \/ OfferReclaim(t, c)
  \/ RecvTake(t, c)     \/ RecvNone(t, c)     \/ RecvWait(t, c)    \/ RecvBlock(t, c)
  \/ CloseOk(t, c)      \/ CloseAgain(t, c)
  \/ TrySendClosed(t, c) \/ TrySendMiss(t, c) \/ TrySendOffer(t, c) \/ TrySendPut(t, c)
  \/ TryRecvTake(t, c)  \/ TryRecvNone(t, c)  \/ TryRecvMiss(t, c)

TaskStep(t) ==
  \/ WakeSignaled(t)    \/ Confirm(t)         \/ Unblock(t)
  \/ Snapshot(t)        \/ SelectElse(t)      \/ SelectWait(t)
  \/ SelectWake(t)      \/ SelectTimeout(t)
  \/ SpawnReap(t)       \/ SpawnCreate(t)     \/ ExitConfirm(t)
  \/ \E u \in Task : Join(t, u)
  \/ \E how \in {"exited", "panicked", "returned"} : EndProcess(t, how)

\* What the runtime does for task t, of its own accord.
RuntimeStep(t) == (\E c \in Chan : ChannelStep(t, c)) \/ TaskStep(t) \/ (t = Main /\ MainReap)

\* What the program does.
ProgramStep(t) == (\E o \in may[t] : Call(t, o)) \/ Exit(t) \/ (t = Main /\ MainExit)

Runtime(t)  == process = "up" /\ RuntimeStep(t) /\ Owe
Elapse(t)   == process = "up" /\ Timeout(t) /\ Owe
Environment(t) == process = "up" /\ (ProgramStep(t) \/ SpuriousWake(t)) /\ Owe

\* A process that is gone takes no steps.
Gone == process # "up" /\ UNCHANGED vars

Next == (\E t \in Task : Runtime(t) \/ Elapse(t) \/ Environment(t)) \/ Gone

Spec == Init /\ [][Next]_vars

\* The kernel runs every thread that can run, and lets every window expire.
Fairness == \A t \in Task : WF_vars(Runtime(t)) /\ WF_vars(Elapse(t))

FairSpec == Spec /\ Fairness

-----------------------------------------------------------------------------
(* Who is where.  A task that panics stays where it was for the counters;   *)
(* one that panics on behalf of others has exited (op is Idle).             *)

Panicked(t) == pc[t] \in {"panic", "paused"}

Blocked == {t \in Task : \/ pc[t] \in (InWait \ {"block"}) \cup {"selParked", "selExpired"}
                         \/ Panicked(t) /\ op[t] # Idle}
Live == {t \in Task : /\ pc[t] \notin {"unborn", "ended", "exitConfirm", "exitCheck",
                                       "exit", "mainReap", "mainJoin"}
                      /\ Panicked(t) => op[t] # Idle}

\* In the wait loop of a blocking operation, and where it goes from there.
InLoop(t, loop, c) == op[t].arms # <<>> /\ c = Ch(t) /\ (pc[t] = loop \/ cont[t] = loop)
Offering(c)  == {t \in Task : InLoop(t, "offer", c)}
Receivers(c) == {t \in Task : /\ op[t].fn = "recv" /\ c = Ch(t)
                              /\ pc[t] \in InWait \/ Panicked(t)}

-----------------------------------------------------------------------------
(* Safety.                                                                  *)

\* The scheduler's counters, which every deadlock verdict and the choice
\* between _exit and a normal return rest on, agree with what the tasks do.
Accounting == live = Cardinality(Live) /\ blocked = Cardinality(Blocked)

\* The handoff slot of an unbuffered channel belongs to exactly one sender
\* from its offer until that sender frees it, and holds that sender's value;
\* an empty slot belongs to nobody.  (guji_chan_send and guji_chan_try_send
\* never overwrite another sender's offer, nor reclaim one.)
OneOffer ==
  \A c \in Chan :
    IF handoff[c] = 0
    THEN Offering(c) = {}
    ELSE \E t \in Task : Offering(c) = {t} /\ buf[c][0] = msg[t]

\* Every message handed to the runtime is in exactly one place: with its
\* sender, in a channel, with a receiver, or dropped - once.  Neither lost,
\* nor delivered twice, nor dropped twice, nor dropped after its delivery.
Held(m) == {t \in Task : msg[t] = m /\ op[t].fn = "send" /\ InLoop(t, "send", Ch(t))}
Places(m, s(_)) == {p \in Chan \X (1 .. MaxMsg) : p[2] <= Len(s(p[1])) /\ s(p[1])[p[2]] = m}
Received(c) == got[c]
OnePlace ==
  \A m \in Msg :
    Cardinality(Held(m)) + Cardinality(Places(m, Queue)) + Cardinality(Places(m, Received))
      + drops[m] = IF m \in used THEN 1 ELSE 0

\* recv_waiters counts the receives that wait, so a select that sends on an
\* unbuffered channel commits itself only if a receive will see its offer.
WaitersCounted == \A c \in Chan : recvWaiters[c] = Cardinality(Receivers(c))

\* What a task in a wait waits for has not happened.
Waits(t) ==
  LET c == Ch(t) IN
  CASE op[t].fn = "select" /\ cont[t] = "none" ->
         \A i \in DOMAIN op[t].arms :
            LET d == op[t].arms[i].ch IN
            /\ ~closed[d]
            /\ IF op[t].arms[i].dir = "send" THEN ~CanSendNow(d) ELSE ~Readable(d)
    [] cont[t] = "send"  -> Full(c) /\ ~closed[c]
    [] cont[t] = "offer" -> handoff[c] = 1 /\ ~closed[c]
    [] cont[t] = "recv"  -> ~Readable(c) /\ ~closed[c]
    [] OTHER             -> FALSE

\* No lost wakeup in send and recv: a task that no broadcast has reached yet
\* has nothing to be woken for.
NoLostWakeup ==
  \A t \in Task : pc[t] = "parked" /\ t \in cv[Ch(t)] => Waits(t)

\* No lost wakeup in select, which watches the progress counter only: if an
\* arm of a select that nobody has signalled is ready, it sends on an
\* unbuffered channel, and a receive on that channel is awake and will take
\* the slot or announce itself again.
NoLostSelect ==
  \A t \in Task : pc[t] = "selParked" /\ t \in schedCv /\ ~Waits(t) =>
    \E i \in DOMAIN op[t].arms :
      LET d == op[t].arms[i].ch IN
      /\ op[t].arms[i].dir = "send" /\ Unbuffered(d) /\ CanSendNow(d)
      /\ \E r \in Receivers(d) : r \notin cv[d] /\ pc[r] # "block"

\* The program is dead: every live task is in a wait, and what it waits
\* for cannot happen unless another task runs.
Dead == ~exiting /\ Live # {} /\ \A t \in Live : t \in Blocked /\ Waits(t)

\* Every thread is joined by one reaper, and all are when main returns
\* normally.
Reaped ==
  /\ \A t \in Task : claimed[t] \cap (completed \cup joined) = {}
  /\ \A t, u \in Task : t # u => claimed[t] \cap claimed[u] = {}
  /\ completed \cap joined = {}
  /\ process = "returned" => joined = {t \in Task \ {Main} : pc[t] # "unborn"}

\* A dead program is never unwatched: somebody is inside a confirmation
\* window or about to look again, so the deadlock cannot go unnoticed because
\* each task left the check to another.
Watched ==
  Dead /\ process = "up" =>
    armed \cup Woken \cup {t \in Task : pc[t] \in {"exitCheck", "panic"}} # {}

-----------------------------------------------------------------------------
(* What a step may never do.                                                *)

\* Once main has returned, no task turns the exit into a deadlock panic.
ExitStands == [][exiting => panicking' = panicking]_vars

\* The detector never cries wolf: the program is dead when it panics.
PanicSound == [][panicking' # panicking => Dead]_vars

\* Read as the language puts it (guji-spec.md 17.6, "no channel operation can
\* make progress"): when the detector panics, no two blocked tasks want to
\* send and to receive on the same channel.
Wants(t, dir, c) ==
  t \in Blocked /\ \E i \in DOMAIN op[t].arms : op[t].arms[i] = [dir |-> dir, ch |-> c]
NothingLeftToDo ==
  [][panicking' # panicking =>
       ~ \E c \in Chan : \E t, u \in Task :
           t # u /\ Wants(t, "send", c) /\ Wants(u, "recv", c)]_vars

-----------------------------------------------------------------------------
(* Liveness.                                                                *)

\* A dead program panics.
DeadlockDetected == Dead ~> process = "panicked"

\* A dead program panics, once only one window is open, nobody else is about
\* to look again, and the owner of the window does not disturb a select.
Alone ==
  /\ Woken = {} /\ \A t \in Task : pc[t] # "exitCheck"
  /\ \E t \in Task : /\ armed = {t} /\ pc[t] # "exitConfirm"
                     /\ cont[t] = "recv" => \A u \in Task : pc[u] # "selParked"
LoneWindowPanics == (Dead /\ Alone) ~> process = "panicked"

\* A select that has committed itself to a send on an unbuffered channel
\* returns, however often it is woken and waits again: no deadlock panic takes
\* it down, and only the program's exit cuts it short.
SelectSendEnds ==
  \A t \in Task :
    (Select(t) /\ InLoop(t, "offer", Ch(t))) ~> (~Select(t) \/ process \in {"exited", "returned"})

-----------------------------------------------------------------------------
(* Refinement.                                                              *)

Promise == INSTANCE ChanSpec WITH
  queue <- [c \in Chan |-> Queue(c)],
  dropped <- {k \in Msg : drops[k] > 0}

\* The channels keep the promise of the language: FIFO order, Ok only after
\* the rendezvous, nothing accepted after close, None only when drained.
ChannelPromise == Promise!Spec

=============================================================================
