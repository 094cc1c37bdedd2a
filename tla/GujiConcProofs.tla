--------------------------- MODULE GujiConcProofs ----------------------------
(***************************************************************************)
(* Theorems about the concurrency runtime, for any program, any number of  *)
(* tasks and channels and any capacities: its counters, its records of     *)
(* tasks, select and the deadlock detector.  A select that sleeps has      *)
(* missed nothing, a dead program is never unwatched, and a program that   *)
(* panics is dead.                                                         *)
(***************************************************************************)
EXTENDS GujiConc, FiniteSetTheorems, TLAPS

-----------------------------------------------------------------------------
(* How a task's program counter, its operation and its other registers      *)
(* belong together.                                                         *)

ControlOf(t) ==
  /\ op[t].fn # "spawn" => arm[t] \in DOMAIN op[t].arms
  /\ Sends(op[t]) => msg[t] \in Msg
  /\ cont[t] # "none" => pc[t] \in {"parked", "expired", "unblock", "panic", "paused"}
  /\ pc[t] \in {"parked", "expired", "unblock"} => cont[t] # "none"
  /\ pc[t] = "send" \/ cont[t] = "send" => op[t].fn = "send"
  /\ pc[t] = "offer" \/ cont[t] = "offer" => op[t].fn # "spawn" /\ Sends(op[t])
  /\ pc[t] \in {"recv", "block"} \/ cont[t] = "recv" => op[t].fn = "recv"
  /\ pc[t] = "close" => op[t].fn = "close"
  /\ pc[t] \in {"poll", "selTop", "selWait", "selParked", "selExpired"} => Select(t)
  /\ pc[t] \in {"run", "unborn", "reap", "join", "selTop", "selWait", "selParked", "selExpired"} =>
       arm[t] = 1
  /\ pc[t] \in {"reap", "join"} =>
       op[t].fn = "spawn" /\ op[t].task # Main /\ pc[op[t].task] = "unborn"

Control == \A t \in Task : ControlOf(t)

\* No two tasks spawn the same task.
Spawners ==
  \A t, u \in Task : t # u /\ op[t].task = op[u].task => op[t].task = Main

Typed == TypeOK /\ Control /\ Spawners

\* The steps that are not critical sections of a channel.
OtherStep(t) ==
  \/ TaskStep(t) \/ Timeout(t) \/ SpuriousWake(t) \/ Exit(t)
  \/ \E o \in may[t] : Call(t, o)
  \/ t = Main /\ (MainReap \/ MainExit)

\* What Next allows, without the bookkeeping of time.
LEMMA NextCases ==
  ASSUME [Next]_vars
  PROVE  \/ UNCHANGED vars
         \/ \E t \in Task : \/ Owe /\ \E c \in Chan : ChannelStep(t, c)
                            \/ Owe /\ OtherStep(t)
BY DEF Next, Runtime, RuntimeStep, Elapse, Environment, ProgramStep, Gone, OtherStep

-----------------------------------------------------------------------------
(* Types.                                                                   *)

LEMMA IdleOp == Idle \in Op /\ Idle.arms = <<>> /\ Idle.fn = "spawn" /\ Idle.task = Main
BY SchedAssumption DEF Idle, Op

LEMMA ModSlot == ASSUME NEW x \in Nat, NEW n \in Nat, n # 0 PROVE x % n \in 0 .. n - 1
OBVIOUS

\* What ProgramAssumption says of the operations of the chosen program.
LEMMA Allowed ==
  ASSUME TypeOK, NEW t \in Task, NEW o \in may[t]
  PROVE  /\ o \in Op
         /\ o.fn \in {"send", "recv", "close"} => Len(o.arms) = 1
         /\ o.fn = "select" => o.arms # <<>>
         /\ IF o.fn = "spawn" THEN o.task # Main ELSE o.task = Main
<1>1. PICK p \in Programs : may = p.may
  BY DEF TypeOK, LifeTypeOK
<1>2. p.may \in [Task -> SUBSET Op] /\ Main \in p.start
  BY ProgramAssumption
<1>3. /\ o.fn \in {"send", "recv", "close"} => Len(o.arms) = 1
      /\ o.fn = "select" => o.arms # <<>>
      /\ IF o.fn = "spawn" THEN o.task \in Task \ p.start ELSE o.task = Main
  BY <1>1, ProgramAssumption, Zenon
<1>4. QED
  BY <1>1, <1>2, <1>3

LEMMA OwedTyped ==
  ASSUME TypeOK, Owe
  PROVE  owed' \in [Task -> SUBSET Task]
<1>1. Woken' \subseteq Task
  BY DEF Woken
<1>2. QED
  BY <1>1 DEF Owe, TypeOK

\* The counters, the window and the waiters for progress.
LEMMA SchedTyped ==
  ASSUME TypeOK, NEW t \in Task, OtherStep(t) \/ \E c \in Chan : ChannelStep(t, c)
  PROVE  SchedTypeOK'
<1> USE DEF TypeOK, SchedTypeOK, schedVars, OpenWindow, CloseWindows,
            ReadProgress, ProgressTick, ProgressBump
<1>1. ASSUME NEW c \in Chan, ChannelStep(t, c) PROVE SchedTypeOK'
  <2>1. CASE SendWait(t, c) \/ OfferWait(t, c) \/ RecvBlock(t, c)
    BY <2>1 DEF SendWait, OfferWait, RecvBlock, BlockOn, Suspect
  <2>2. CASE \/ SendClosed(t, c) \/ OfferReclaim(t, c) \/ RecvNone(t, c) \/ CloseAgain(t, c)
             \/ TrySendClosed(t, c) \/ TrySendMiss(t, c) \/ TryRecvNone(t, c) \/ TryRecvMiss(t, c)
    BY <2>2 DEF SendClosed, OfferReclaim, RecvNone, CloseAgain, TrySendClosed, TrySendMiss,
                TryRecvNone, TryRecvMiss, SeeEnd, Miss
  <2>3. CASE \/ SendOffer(t, c) \/ SendPut(t, c) \/ RecvTake(t, c) \/ CloseOk(t, c)
             \/ TrySendOffer(t, c) \/ TrySendPut(t, c) \/ TryRecvTake(t, c)
    BY <2>3 DEF SendOffer, SendPut, RecvTake, CloseOk, TrySendOffer, TrySendPut, TryRecvTake,
                OfferValue, PutValue, TakeValue, Announce
  <2>4. CASE RecvWait(t, c)
    BY <2>4 DEF RecvWait, Arrive
  <2>5. CASE OfferTaken(t, c)
    BY <2>5 DEF OfferTaken
  <2>6. QED
    BY <1>1, <2>1, <2>2, <2>3, <2>4, <2>5 DEF ChannelStep
<1>2. ASSUME OtherStep(t) PROVE SchedTypeOK'
  <2>1. CASE WakeSignaled(t) \/ Unblock(t)
    BY <2>1 DEF WakeSignaled, Unblock, Resume
  <2>2. CASE Confirm(t) \/ ExitConfirm(t)
    BY <2>2 DEF Confirm, ExitConfirm, DeadlockPanic
  <2>3. CASE Snapshot(t) \/ SelectElse(t)
    BY <2>3 DEF Snapshot, SelectElse
  <2>4. CASE SelectWait(t) \/ SelectWake(t) \/ SelectTimeout(t)
    <3>1. ASSUME NEW n \in Int, SelectLoop(t, n), UNCHANGED <<live, exiting>>,
                 panicking' \in BOOLEAN
          PROVE  SchedTypeOK'
      BY <3>1 DEF SelectLoop, SelectWindow
    <3>2. CASE SelectWait(t)
      BY <3>1, <3>2 DEF SelectWait
    <3>3. CASE SelectWake(t)
      BY <3>1, <3>3 DEF SelectWake
    <3>4. CASE SelectTimeout(t)
      BY <3>1, <3>4 DEF SelectTimeout, DeadlockPanic
    <3>5. QED
      BY <2>4, <3>2, <3>3, <3>4
  <2>5. CASE SpawnReap(t) \/ SpawnCreate(t) \/ MainReap \/ \E u \in Task : Join(t, u)
    BY <2>5 DEF SpawnReap, SpawnCreate, MainReap, Join, Claim, Born
  <2>6. CASE Timeout(t)
    BY <2>6 DEF Timeout
  <2>7. CASE SpuriousWake(t)
    BY <2>7 DEF SpuriousWake
  <2>8. CASE Exit(t) \/ MainExit
    <3>1. CASE Exit(t) /\ LeavesOnlyBlocked(live - 1)
      BY <3>1 DEF Exit
    <3>2. CASE Exit(t) /\ ~LeavesOnlyBlocked(live - 1)
      BY <3>2 DEF Exit
    <3>3. CASE MainExit
      BY <3>3 DEF MainExit
    <3>4. QED
      BY <2>8, <3>1, <3>2, <3>3
  <2>9. CASE \/ \E o \in may[t] : Call(t, o)
             \/ \E how \in {"exited", "panicked", "returned"} : EndProcess(t, how)
    BY <2>9 DEF Call, EndProcess
  <2>10. QED
    BY <1>2, <2>1, <2>2, <2>3, <2>4, <2>5, <2>6, <2>7, <2>8, <2>9, Zenon DEF OtherStep, TaskStep
<1>3. QED
  BY <1>1, <1>2

\* The slots.
LEMMA SlotsFilled ==
  ASSUME SlotTypeOK, NEW c \in Chan, NEW m \in Msg,
         \/ Unbuffered(c) /\ Offer(c, m)
         \/ ~Unbuffered(c) /\ ~Full(c) /\ Enqueue(c, m)
  PROVE  SlotTypeOK'
<1> DEFINE Stored(i) == buf' = [buf EXCEPT ![c][i] = m]
<1>1. Cap[c] \in Nat /\ head[c] \in Nat /\ len[c] \in Nat /\ len[c] <= Cap[c]
  BY ChanAssumption DEF SlotTypeOK
<1>2. ASSUME NEW i \in Slots(c), Stored(i) PROVE BufTypeOK'
  <2>1. BufTypeOK /\ buf[c] \in [Slots(c) -> Msg \cup {NoMsg}]
    BY DEF SlotTypeOK, BufTypeOK
  <2>2. [buf[c] EXCEPT ![i] = m] \in [Slots(c) -> Msg \cup {NoMsg}]
    BY <2>1, <1>2
  <2>3. buf' = [d \in Chan |-> IF d = c THEN [buf[c] EXCEPT ![i] = m] ELSE buf[d]]
    BY <2>1, <1>2, Zenon DEF BufTypeOK
  <2>4. QED
    BY <2>1, <2>2, <2>3 DEF BufTypeOK
<1> HIDE DEF Stored
<1>3. CASE Unbuffered(c) /\ Offer(c, m)
  <2>1. 0 \in Slots(c)
    BY <1>3 DEF Slots
  <2>2. Stored(0)
    BY <1>3 DEF Offer, Stored
  <2>3. QED
    BY <1>2, <1>3, <2>1, <2>2 DEF Offer, SlotTypeOK
<1>4. CASE ~Unbuffered(c) /\ ~Full(c) /\ Enqueue(c, m)
  <2>1. (head[c] + len[c]) % Cap[c] \in 0 .. Cap[c] - 1
    <3>1. head[c] + len[c] \in Nat /\ Cap[c] # 0
      BY <1>1, <1>4 DEF Unbuffered
    <3>2. QED
      BY <1>1, <3>1, ModSlot, Zenon
  <2>2. (head[c] + len[c]) % Cap[c] \in Slots(c) /\ len[c] + 1 \in Nat /\ len[c] + 1 <= Cap[c]
    BY <1>1, <1>4, <2>1 DEF Full, Unbuffered, Slots
  <2>3. len' = [d \in Chan |-> IF d = c THEN len[c] + 1 ELSE len[d]]
    BY <1>4 DEF Enqueue, SlotTypeOK
  <2>4. len' \in [Chan -> Nat] /\ \A d \in Chan : len'[d] <= Cap[d]
    BY <2>2, <2>3 DEF SlotTypeOK
  <2>5. QED
    BY <1>2, <1>4, <2>2, <2>4 DEF Enqueue, SlotTypeOK, Stored
<1>5. QED
  BY <1>3, <1>4

LEMMA SlotsFreed ==
  ASSUME SlotTypeOK, NEW c \in Chan,
         Take(c) \/ FreeSlot(c) \/ (Available(c) /\ Dequeue(c)) \/ UNCHANGED slotVars
  PROVE  SlotTypeOK'
<1>1. CASE Take(c) \/ FreeSlot(c)
  BY <1>1 DEF Take, FreeSlot, SlotTypeOK, BufTypeOK
<1>2. CASE Available(c) /\ Dequeue(c)
  <2>1. Cap[c] \in Nat /\ Cap[c] # 0 /\ len[c] \in Nat /\ len[c] - 1 \in Nat
    BY <1>2, ChanAssumption DEF SlotTypeOK, Available, Unbuffered
  <2>2. (head[c] + 1) % Cap[c] \in 0 .. Cap[c] - 1
    <3>1. head[c] + 1 \in Nat
      BY DEF SlotTypeOK
    <3>2. QED
      BY <2>1, <3>1, ModSlot, Zenon
  <2>3. (head[c] + 1) % Cap[c] \in Slots(c)
    BY <2>1, <2>2 DEF Unbuffered, Slots
  <2>4. /\ head' = [d \in Chan |-> IF d = c THEN (head[c] + 1) % Cap[c] ELSE head[d]]
        /\ len' = [d \in Chan |-> IF d = c THEN len[c] - 1 ELSE len[d]]
    BY <1>2 DEF Dequeue, SlotTypeOK
  <2>5. len' \in [Chan -> Nat] /\ \A d \in Chan : len'[d] <= Cap[d]
    BY <2>1, <2>4, ChanAssumption DEF SlotTypeOK
  <2>6. head' \in [Chan -> Nat] /\ \A d \in Chan : head'[d] \in Slots(d)
    BY <2>1, <2>2, <2>3, <2>4 DEF SlotTypeOK
  <2>7. BufTypeOK'
    BY <1>2 DEF Dequeue, SlotTypeOK, BufTypeOK
  <2>8. QED
    BY <1>2, <2>5, <2>6, <2>7 DEF Dequeue, SlotTypeOK
<1>3. CASE UNCHANGED slotVars
  BY <1>3 DEF slotVars, SlotTypeOK, BufTypeOK
<1>4. QED
  BY <1>1, <1>2, <1>3

\* Whatever sends has a message to send.
LEMMA SendsMsg ==
  ASSUME Typed, NEW t \in Task, NEW c \in Chan,
         \/ At(t, "send", c)
         \/ At(t, "offer", c)
         \/ AtArm(t, "send", c)
  PROVE  msg[t] \in Msg
<1>1. CASE At(t, "send", c) \/ At(t, "offer", c)
  BY <1>1 DEF At, Typed, Control, ControlOf, Sends
<1>2. CASE AtArm(t, "send", c)
  <2>1. op[t].fn = "select"
    BY <1>2 DEF AtArm, At, Typed, Control, ControlOf, Select
  <2>2. arm[t] \in DOMAIN op[t].arms /\ op[t].arms[arm[t]].dir = "send"
    BY <1>2, <2>1 DEF AtArm, Typed, Control, ControlOf
  <2>3. QED
    BY <2>1, <2>2 DEF Sends, Typed, Control, ControlOf
<1>3. QED
  BY <1>1, <1>2

LEMMA SlotsTyped ==
  ASSUME Typed, NEW t \in Task, NEW c \in Chan, ChannelStep(t, c)
  PROVE  SlotTypeOK'
<1> USE DEF Typed, TypeOK, ChanTypeOK
<1>1. CASE \/ SendWait(t, c) \/ OfferWait(t, c) \/ RecvBlock(t, c) \/ SendClosed(t, c)
           \/ RecvNone(t, c) \/ CloseAgain(t, c) \/ TrySendClosed(t, c) \/ TrySendMiss(t, c)
           \/ TryRecvNone(t, c) \/ TryRecvMiss(t, c) \/ RecvWait(t, c) \/ CloseOk(t, c)
  <2>1. UNCHANGED slotVars
    BY <1>1 DEF SendWait, OfferWait, RecvBlock, BlockOn, SendClosed, RecvNone, SeeEnd,
                CloseAgain, TrySendClosed, TrySendMiss, TryRecvNone, TryRecvMiss, Miss,
                RecvWait, CloseOk, chanVars, slotVars
  <2>2. QED
    BY <2>1, SlotsFreed
<1>2. CASE SendOffer(t, c) \/ TrySendOffer(t, c)
  <2>1. msg[t] \in Msg /\ Unbuffered(c) /\ Offer(c, msg[t])
    BY <1>2, SendsMsg DEF SendOffer, TrySendOffer, OfferValue
  <2>2. QED
    BY <2>1, SlotsFilled
<1>3. CASE SendPut(t, c) \/ TrySendPut(t, c)
  <2>1. msg[t] \in Msg /\ ~Unbuffered(c) /\ ~Full(c) /\ Enqueue(c, msg[t])
    BY <1>3, SendsMsg DEF SendPut, TrySendPut, PutValue, CanSendNow
  <2>2. QED
    BY <2>1, SlotsFilled
<1>4. CASE OfferTaken(t, c) \/ OfferReclaim(t, c)
  <2>1. FreeSlot(c)
    BY <1>4 DEF OfferTaken, OfferReclaim
  <2>2. QED
    BY <2>1, SlotsFreed
<1>5. CASE RecvTake(t, c) \/ TryRecvTake(t, c)
  <2>1. IF Unbuffered(c) THEN Take(c) ELSE Available(c) /\ Dequeue(c)
    BY <1>5 DEF RecvTake, TryRecvTake, TakeValue, Readable, Offered
  <2>2. QED
    BY <2>1, SlotsFreed
<1>6. QED
  BY <1>1, <1>2, <1>3, <1>4, <1>5 DEF ChannelStep

LEMMA ChanTyped ==
  ASSUME Typed, NEW t \in Task, OtherStep(t) \/ \E c \in Chan : ChannelStep(t, c)
  PROVE  ChanTypeOK(Task)'
<1> USE DEF Typed, TypeOK, ChanTypeOK, Lock, Unlock, Broadcast, slotVars, chanVars
<1>1. ASSUME NEW c \in Chan, ChannelStep(t, c) PROVE ChanTypeOK(Task)'
  <2>1. SlotTypeOK'
    BY <1>1, SlotsTyped
  <2>2. CASE SendWait(t, c) \/ OfferWait(t, c) \/ RecvBlock(t, c)
    BY <2>1, <2>2 DEF SendWait, OfferWait, RecvBlock, BlockOn
  <2>3. CASE \/ SendClosed(t, c) \/ OfferReclaim(t, c) \/ RecvNone(t, c) \/ CloseAgain(t, c)
             \/ TrySendClosed(t, c) \/ TrySendMiss(t, c) \/ TryRecvNone(t, c) \/ TryRecvMiss(t, c)
    BY <2>1, <2>3 DEF SendClosed, OfferReclaim, RecvNone, CloseAgain, TrySendClosed, TrySendMiss,
                TryRecvNone, TryRecvMiss, SeeEnd, Miss
  <2>4. CASE \/ SendOffer(t, c) \/ SendPut(t, c) \/ RecvTake(t, c) \/ CloseOk(t, c)
             \/ TrySendOffer(t, c) \/ TrySendPut(t, c) \/ TryRecvTake(t, c)
    BY <2>1, <2>4 DEF SendOffer, SendPut, RecvTake, CloseOk, TrySendOffer, TrySendPut,
                      TryRecvTake, OfferValue, PutValue, TakeValue, Announce
  <2>5. CASE RecvWait(t, c) \/ OfferTaken(t, c)
    BY <2>1, <2>5 DEF RecvWait, Arrive, OfferTaken
  <2>6. QED
    BY <1>1, <2>2, <2>3, <2>4, <2>5 DEF ChannelStep
<1>2. ASSUME OtherStep(t) PROVE ChanTypeOK(Task)'
  <2>1. SlotTypeOK' /\ UNCHANGED closed
    <3>1. UNCHANGED <<slotVars, closed>>
      BY <1>2 DEF OtherStep, TaskStep, WakeSignaled, Unblock, Resume, Confirm, Snapshot,
                  SelectElse, SelectWait, SelectWake, SelectTimeout, SpawnReap, Claim,
                  SpawnCreate, ExitConfirm, Join, EndProcess, Timeout, SpuriousWake, Exit,
                  Call, MainReap, MainExit
    <3>2. QED
      BY <3>1 DEF SlotTypeOK, BufTypeOK
  <2>2. CASE WakeSignaled(t) \/ Unblock(t)
    BY <2>1, <2>2 DEF WakeSignaled, Unblock, Resume, WaiterGone
  <2>3. CASE Confirm(t)
    BY <2>1, <2>3 DEF Confirm
  <2>4. CASE Timeout(t)
    BY <2>1, <2>4 DEF Timeout
  <2>5. CASE SpuriousWake(t)
    BY <2>1, <2>5 DEF SpuriousWake
  <2>6. CASE UNCHANGED chanVars
    BY <2>1, <2>6
  <2>7. QED
    BY <1>2, <2>2, <2>3, <2>4, <2>5, <2>6
       DEF OtherStep, TaskStep, Snapshot, SelectElse, SelectWait, SelectWake, SelectTimeout,
           SpawnReap, Claim, SpawnCreate, ExitConfirm, Join, EndProcess, Exit, Call, MainReap,
           MainExit
<1>3. QED
  BY <1>1, <1>2

LEMMA LifeTyped ==
  ASSUME Typed, NEW t \in Task, OtherStep(t) \/ \E c \in Chan : ChannelStep(t, c)
  PROVE  LifeTypeOK'
<1> USE DEF Typed, TypeOK, LifeTypeOK, progVars, lifeVars
<1>1. ASSUME NEW c \in Chan, ChannelStep(t, c) PROVE LifeTypeOK'
  <2>1. UNCHANGED <<progVars, lifeVars>>
    BY <1>1 DEF ChannelStep, SendWait, OfferWait, RecvBlock, BlockOn, SendClosed, RecvNone,
                SeeEnd, CloseAgain, TrySendClosed, TrySendMiss, TryRecvNone, TryRecvMiss, Miss,
                RecvWait, CloseOk, SendOffer, SendPut, RecvTake, TrySendOffer, TrySendPut,
                TryRecvTake, OfferValue, PutValue, TakeValue, OfferTaken, OfferReclaim
  <2>2. QED
    BY <2>1
<1>2. ASSUME OtherStep(t) PROVE LifeTypeOK'
  <2>1. CASE SpawnReap(t) \/ MainReap
    BY <2>1, SchedAssumption DEF SpawnReap, MainReap, Claim
  <2>2. CASE \E u \in Task : Join(t, u)
    BY <2>2 DEF Join
  <2>3. CASE Exit(t)
    BY <2>3 DEF Exit
  <2>4. CASE \E how \in {"exited", "panicked", "returned"} : EndProcess(t, how)
    BY <2>4 DEF EndProcess
  <2>5. CASE \E o \in may[t] : Call(t, o)
    BY <2>5 DEF Call
  <2>6. CASE UNCHANGED <<progVars, lifeVars>>
    BY <2>6
  <2>7. QED
    BY <1>2, <2>1, <2>2, <2>3, <2>4, <2>5, <2>6
       DEF OtherStep, TaskStep, WakeSignaled, Unblock, Resume, Confirm, Snapshot, SelectElse,
           SelectWait, SelectWake, SelectTimeout, SpawnCreate, ExitConfirm, Timeout,
           SpuriousWake, MainExit
<1>3. QED
  BY <1>1, <1>2

LEMMA HeadTyped ==
  ASSUME TypeOK, NEW c \in Chan, Readable(c)
  PROVE  Head(Queue(c)) \in Msg \cup {NoMsg}
<1> USE DEF TypeOK, ChanTypeOK, SlotTypeOK, BufTypeOK
<1>1. CASE Unbuffered(c)
  <2>1. buf[c][0] \in Msg \cup {NoMsg}
    BY <1>1 DEF Slots
  <2>2. Queue(c) = <<buf[c][0]>>
    BY <1>1 DEF Readable, Offered, Available, Queue
  <2>3. QED
    BY <2>1, <2>2
<1>2. CASE ~Unbuffered(c)
  <2>1. Cap[c] \in Nat /\ Cap[c] # 0 /\ len[c] \in Nat /\ len[c] > 0 /\ head[c] \in Nat
    BY <1>2, ChanAssumption DEF Readable, Offered, Available, Unbuffered
  <2>2. Queue(c) = [i \in 1 .. len[c] |-> buf[c][(head[c] + i - 1) % Cap[c]]]
    BY <1>2 DEF Queue
  <2>3. Head(Queue(c)) = buf[c][(head[c] + 1 - 1) % Cap[c]]
    BY <2>1, <2>2
  <2>4. (head[c] + 1 - 1) % Cap[c] \in 0 .. Cap[c] - 1
    <3>1. head[c] + 1 - 1 \in Nat
      BY <2>1
    <3>2. QED
      BY <2>1, <3>1, ModSlot, Zenon
  <2>5. QED
    BY <1>2, <2>1, <2>3, <2>4 DEF Slots
<1>3. QED
  BY <1>1, <1>2

\* The message a call to send takes.
LEMMA NextMsgTyped ==
  ASSUME TypeOK, NEW t \in Task, NEW o \in may[t], Call(t, o), Sends(o)
  PROVE  nextMsg \in Msg
BY ProgramAssumption DEF TypeOK, LifeTypeOK, Call

LEMMA HistoryTyped ==
  ASSUME Typed, NEW t \in Task, OtherStep(t) \/ \E c \in Chan : ChannelStep(t, c)
  PROVE  HistoryTypeOK'
<1> USE DEF Typed, HistoryTypeOK, history
<1>1. ASSUME NEW c \in Chan, ChannelStep(t, c) PROVE HistoryTypeOK'
  <2>1. CASE SendWait(t, c) \/ OfferWait(t, c) \/ RecvBlock(t, c) \/ RecvWait(t, c) \/ CloseOk(t, c)
             \/ CloseAgain(t, c) \/ TrySendMiss(t, c) \/ TryRecvMiss(t, c)
    BY <2>1 DEF TypeOK, SendWait, OfferWait, RecvBlock, BlockOn, RecvWait, CloseOk, CloseAgain,
                TrySendMiss, TryRecvMiss, Miss
  <2>2. CASE SendClosed(t, c) \/ TrySendClosed(t, c) \/ OfferReclaim(t, c)
    <3>1. \E m : Refused(m)
      BY <2>2 DEF SendClosed, TrySendClosed, OfferReclaim
    <3>2. drops' \in [Msg -> Nat] /\ verdict' \in [Msg -> {"none", "ok", "closed"}]
      <4>1. PICK m : Refused(m)
        BY <3>1
      <4>2. CASE m \in Msg
        BY <4>1, <4>2 DEF TypeOK, Refused
      <4>3. CASE m \notin Msg
        BY <4>1, <4>3 DEF TypeOK, Refused
      <4>4. QED
        BY <4>2, <4>3
    <3>3. used' \subseteq Msg /\ UNCHANGED <<got, drained>>
      BY <2>2, SendsMsg DEF TypeOK, SendClosed, TrySendClosed, OfferReclaim
    <3>4. QED
      BY <3>2, <3>3 DEF TypeOK
  <2>3. CASE \/ SendOffer(t, c) \/ SendPut(t, c) \/ TrySendOffer(t, c) \/ TrySendPut(t, c)
             \/ OfferTaken(t, c)
    <3>1. used' \subseteq Msg /\ UNCHANGED <<got, drained, drops>>
      BY <2>3, SendsMsg DEF TypeOK, SendOffer, SendPut, TrySendOffer, TrySendPut, OfferTaken,
                            OfferValue, PutValue
    <3>2. UNCHANGED verdict \/ Accepted(msg[t])
      BY <2>3 DEF SendOffer, SendPut, TrySendOffer, TrySendPut, OfferTaken, OfferValue, PutValue
    <3>3. QED
      BY <3>1, <3>2 DEF TypeOK, Accepted
  <2>4. CASE RecvTake(t, c) \/ TryRecvTake(t, c)
    <3>1. Readable(c) /\ Deliver(c)
      BY <2>4 DEF RecvTake, TryRecvTake, TakeValue
    <3>2. Head(Queue(c)) \in Msg \cup {NoMsg}
      BY <3>1, HeadTyped
    <3>3. QED
      BY <3>1, <3>2 DEF TypeOK, Deliver
  <2>5. CASE RecvNone(t, c) \/ TryRecvNone(t, c)
    BY <2>5 DEF TypeOK, RecvNone, TryRecvNone, SeeEnd
  <2>6. QED
    BY <1>1, <2>1, <2>2, <2>3, <2>4, <2>5 DEF ChannelStep
<1>2. ASSUME OtherStep(t) PROVE HistoryTypeOK'
  <2>1. CASE \E o \in may[t] : Call(t, o)
    <3>1. PICK o \in may[t] : Call(t, o)
      BY <2>1
    <3>2. used' = used \/ (Sends(o) /\ used' = used \cup {nextMsg})
      BY <3>1 DEF Call, Sends
    <3>3. Sends(o) => nextMsg \in Msg
      BY <3>1, NextMsgTyped, Zenon
    <3>4. used' \subseteq Msg
      BY <3>2, <3>3 DEF TypeOK
    <3>5. QED
      BY <3>1, <3>4 DEF TypeOK, Call
  <2>2. CASE UNCHANGED history
    BY <2>2 DEF TypeOK
  <2>3. QED
    BY <1>2, <2>1, <2>2
       DEF OtherStep, TaskStep, WakeSignaled, Unblock, Resume, Confirm, Snapshot, SelectElse,
           SelectWait, SelectWake, SelectTimeout, SpawnReap, Claim, SpawnCreate, ExitConfirm,
           Join, EndProcess, Timeout, SpuriousWake, Exit, MainReap, MainExit
<1>3. QED
  BY <1>1, <1>2

LEMMA GotoTyped ==
  ASSUME TaskTypeOK, NEW t \in Task, NEW l \in PC, Goto(t, l)
  PROVE  TaskTypeOK'
BY DEF TaskTypeOK, Goto

LEMMA ReturnTyped ==
  ASSUME TaskTypeOK, NEW t \in Task, Return(t)
  PROVE  TaskTypeOK'
BY IdleOp DEF TaskTypeOK, Return, PC

LEMMA TaskTyped ==
  ASSUME Typed, NEW t \in Task, OtherStep(t) \/ \E c \in Chan : ChannelStep(t, c)
  PROVE  TaskTypeOK'
<1> USE DEF Typed, TypeOK
<1>1. ASSUME NEW c \in Chan, ChannelStep(t, c) PROVE TaskTypeOK'
  <2>1. CASE SendWait(t, c) \/ OfferWait(t, c) \/ RecvBlock(t, c)
    BY <2>1 DEF SendWait, OfferWait, RecvBlock, BlockOn, TaskTypeOK, PC, InWait
  <2>2. CASE TrySendMiss(t, c) \/ TryRecvMiss(t, c)
    BY <2>2 DEF TrySendMiss, TryRecvMiss, Miss, NextArm, TaskTypeOK, PC
  <2>3. CASE RecvWait(t, c) \/ SendOffer(t, c) \/ TrySendOffer(t, c)
    BY <2>3, GotoTyped DEF RecvWait, SendOffer, TrySendOffer, OfferValue, PC, InWait
  <2>4. CASE Return(t)
    BY <2>4, ReturnTyped
  <2>5. QED
    BY <1>1, <2>1, <2>2, <2>3, <2>4
       DEF ChannelStep, SendClosed, SendPut, PutValue, OfferTaken, OfferReclaim, RecvTake,
           RecvNone, TakeValue, SeeEnd, CloseOk, CloseAgain, TrySendClosed, TrySendPut,
           TryRecvTake, TryRecvNone
<1>2. ASSUME OtherStep(t) PROVE TaskTypeOK'
  <2>1. CASE \E l \in PC : Goto(t, l)
    BY <2>1, GotoTyped
  <2>2. CASE WakeSignaled(t) \/ Unblock(t)
    BY <2>2 DEF WakeSignaled, Unblock, Resume, TaskTypeOK, Control, ControlOf, At, PC, InWait
  <2>3. CASE SelectElse(t)
    BY <2>3, ReturnTyped DEF SelectElse
  <2>4. CASE SpawnCreate(t)
    BY <2>4, IdleOp DEF SpawnCreate, TaskTypeOK, PC
  <2>5. CASE \E o \in may[t] : Call(t, o)
    <3>1. PICK o \in may[t] : Call(t, o)
      BY <2>5
    <3>2. o \in Op
      BY Allowed, Zenon DEF Typed
    <3>3. Entry(o.fn) \in PC
      BY <3>2 DEF Op, Entry, PC
    <3>4. msg' \in [Task -> Msg \cup {NoMsg}]
      BY <3>1, NextMsgTyped DEF Call, TaskTypeOK
    <3>5. QED
      BY <3>1, <3>2, <3>3, <3>4 DEF Call, TaskTypeOK
  <2>6. CASE UNCHANGED taskVars
    BY <2>6 DEF taskVars, TaskTypeOK
  <2>7. CASE Confirm(t) \/ ExitConfirm(t) \/ SelectTimeout(t) \/ SelectWait(t) \/ SelectWake(t)
    <3>1. Goto(t, "panic") \/ Goto(t, "paused") \/ Goto(t, "unblock") \/ Goto(t, "ended")
          \/ Goto(t, "selParked") \/ Goto(t, "selTop")
      BY <2>7, Zenon DEF Confirm, ExitConfirm, SelectTimeout, SelectWait, SelectWake,
                         SelectLoop, DeadlockPanic
    <3>2. QED
      BY <2>1, <3>1, Zenon DEF PC, InWait
  <2>8. CASE Timeout(t) \/ Snapshot(t) \/ SpawnReap(t) \/ Exit(t)
    <3>1. Goto(t, "expired") \/ Goto(t, "selExpired") \/ Goto(t, "exitCheck")
          \/ Goto(t, "poll") \/ Goto(t, "join") \/ Goto(t, "exitConfirm") \/ Goto(t, "ended")
      BY <2>8, Zenon DEF Timeout, Snapshot, SpawnReap, Claim, Exit
    <3>2. QED
      BY <2>1, <3>1, Zenon DEF PC, InWait
  <2>9. CASE t = Main /\ (MainReap \/ MainExit)
    <3>1. Goto(t, "mainJoin") \/ Goto(t, "exit") \/ Goto(t, "mainReap")
      BY <2>9, Zenon DEF MainReap, MainExit, Claim
    <3>2. QED
      BY <2>1, <3>1, Zenon DEF PC, InWait
  <2>10. QED
    BY <1>2, <2>2, <2>3, <2>4, <2>5, <2>6, <2>7, <2>8, <2>9
       DEF OtherStep, TaskStep, Join, EndProcess, SpuriousWake
<1>3. QED
  BY <1>1, <1>2

-----------------------------------------------------------------------------
(* Control and Spawners are kept.                                           *)

\* Only t moves.
Only(t) ==
  \A u \in Task : u # t => /\ pc'[u] = pc[u] /\ op'[u] = op[u] /\ arm'[u] = arm[u]
                           /\ msg'[u] = msg[u] /\ cont'[u] = cont[u]

LEMMA OthersControlled ==
  ASSUME Typed, NEW t \in Task, Only(t), pc[t] # "unborn", ControlOf(t)'
  PROVE  Control'
<1> SUFFICES ASSUME NEW u \in Task, u # t PROVE ControlOf(u)'
  BY DEF Control
<1>1. ControlOf(u)
  BY DEF Typed, Control
<1>2. pc[u] \in {"reap", "join"} => pc'[op[u].task] = "unborn"
  <2>1. op[u].task \in Task
    BY DEF Typed, TypeOK, TaskTypeOK, Op
  <2>2. QED
    BY <1>1, <2>1 DEF Only, ControlOf
<1>3. QED
  BY <1>1, <1>2 DEF Only, ControlOf, Select

LEMMA ReturnControlled ==
  ASSUME Typed, NEW t \in Task, Return(t), pc[t] # "unborn"
  PROVE  Control' /\ Spawners'
<1> USE DEF Typed, TypeOK, TaskTypeOK
<1>1. Only(t)
  BY DEF Return, Only
<1>2. ControlOf(t)'
  BY IdleOp DEF Return, ControlOf, Sends, Select
<1>3. Control'
  BY <1>1, <1>2, OthersControlled
<1>4. Spawners'
  BY <1>1, IdleOp DEF Return, Spawners, Only
<1>5. QED
  BY <1>3, <1>4

\* A step after which t is somewhere else in the same operation.
LEMMA MoveControlled ==
  ASSUME Typed, NEW t \in Task, Only(t), op' = op, pc[t] # "unborn", ControlOf(t)'
  PROVE  Control' /\ Spawners'
BY OthersControlled DEF Typed, Spawners

LEMMA GotoControlled ==
  ASSUME Typed, NEW t \in Task, NEW l \in PC, Goto(t, l),
         \/ l \in {"exitConfirm", "exitCheck", "exit", "mainReap", "mainJoin", "ended"}
            /\ cont[t] = "none" /\ pc[t] # "unborn"
         \/ l = "block" /\ pc[t] = "recv"
         \/ l = "offer" /\ (pc[t] = "send" \/ (pc[t] = "poll" /\ op[t].arms[arm[t]].dir = "send"))
         \/ l = "expired" /\ pc[t] = "parked"
         \/ l = "unblock" /\ pc[t] = "expired"
         \/ l \in {"panic", "paused"} /\ pc[t] \in {"expired", "exitCheck", "selExpired"}
         \/ l \in {"poll", "selParked", "selExpired", "selTop"}
            /\ pc[t] \in {"selTop", "selWait", "selParked", "selExpired"}
         \/ l = "join" /\ pc[t] = "reap"
  PROVE  Control' /\ Spawners'
<1> USE DEF Typed, TypeOK, TaskTypeOK, Goto
<1>1. Only(t) /\ op' = op /\ pc[t] # "unborn"
  BY DEF Only
<1>2. pc'[t] = l /\ op'[t] = op[t] /\ arm'[t] = arm[t] /\ msg'[t] = msg[t] /\ cont'[t] = cont[t]
  OBVIOUS
<1>3. ControlOf(t) /\ op[t].task \in Task
  BY DEF Control, Op
<1>4. l = "offer" => op[t].fn # "spawn" /\ Sends(op[t])
  BY <1>3 DEF ControlOf, Sends, Select
<1>5. l = "join" => pc'[op[t].task] = "unborn"
  BY <1>3 DEF ControlOf
<1>6. ControlOf(t)'
  BY <1>2, <1>3, <1>4, <1>5 DEF ControlOf, Select, InWait
<1>7. QED
  BY <1>1, <1>6, MoveControlled

LEMMA CallControlled ==
  ASSUME Typed, NEW t \in Task, NEW o \in may[t], Call(t, o)
  PROVE  Control' /\ Spawners'
<1> USE DEF Typed, TypeOK, TaskTypeOK
<1>1. Only(t) /\ pc[t] # "unborn" /\ UNCHANGED <<arm, cont>>
  BY DEF Call, Only
<1>2. /\ op'[t] = o /\ pc'[t] = Entry(o.fn) /\ arm'[t] = 1 /\ cont'[t] = "none"
      /\ Sends(o) => msg'[t] = nextMsg /\ nextMsg \in Msg
  BY NextMsgTyped DEF Call, Control, ControlOf
<1>3. o \in Op /\ o.fn \in {"send", "recv", "close", "select", "spawn"} /\ o.task \in Task
  BY Allowed DEF Op
<1>4. o.fn # "spawn" => 1 \in DOMAIN o.arms /\ o.task = Main
  BY <1>3, Allowed DEF Op
<1>5. o.fn = "spawn" => /\ o.task # Main /\ pc[o.task] = "unborn"
                        /\ \A u \in Task : op[u].task # o.task
  BY Allowed DEF Call
<1>6. o.fn = "spawn" => pc'[o.task] = "unborn"
  BY <1>1, <1>3, <1>5 DEF Only, Call
<1>7. ControlOf(t)'
  BY <1>2, <1>3, <1>4, <1>5, <1>6 DEF ControlOf, Entry, Select
<1>8. Control'
  BY <1>1, <1>7, OthersControlled
<1>9. Spawners'
  BY <1>1, <1>2, <1>4, <1>5 DEF Spawners, Only
<1>10. QED
  BY <1>8, <1>9

LEMMA SpawnControlled ==
  ASSUME Typed, NEW t \in Task, SpawnCreate(t)
  PROVE  Control' /\ Spawners'
<1> USE DEF Typed, TypeOK, TaskTypeOK
<1>0. PICK s \in Task : s = op[t].task
  BY DEF Op
<1>1. /\ s # t /\ pc[s] = "unborn" /\ s # Main /\ op[t].fn = "spawn" /\ arm[t] = 1
      /\ cont[t] = "none" /\ pc[t] = "join"
  BY <1>0 DEF SpawnCreate, Control, ControlOf
<1>2. /\ op' = [op EXCEPT ![t] = Idle] /\ pc' = [pc EXCEPT ![t] = "run", ![s] = "run"]
      /\ UNCHANGED <<arm, msg, cont>>
  BY <1>0 DEF SpawnCreate
<1>3. ControlOf(t)'
  BY <1>1, <1>2, IdleOp DEF ControlOf, Sends, Select
<1>4. ControlOf(s)'
  <2>1. ControlOf(s) /\ pc'[s] = "run" /\ op'[s] = op[s]
    BY <1>1, <1>2 DEF Control
  <2>2. QED
    BY <1>1, <1>2, <2>1 DEF ControlOf, Sends, Select
<1>5. ASSUME NEW u \in Task, u # t, u # s PROVE ControlOf(u)'
  <2>1. ControlOf(u) /\ pc'[u] = pc[u] /\ op'[u] = op[u] /\ op[u].task \in Task
    BY <1>2, <1>5 DEF Control, Op
  <2>2. pc[u] \in {"reap", "join"} => op[u].task # s /\ op[u].task # t
    BY <1>0, <1>1, <1>5, <2>1 DEF Spawners, ControlOf
  <2>3. pc[u] \in {"reap", "join"} => pc'[op[u].task] = "unborn"
    BY <1>2, <2>1, <2>2 DEF ControlOf
  <2>4. QED
    BY <1>2, <2>1, <2>3 DEF ControlOf, Sends, Select
<1>6. Spawners'
  BY <1>2, IdleOp DEF Spawners
<1>7. QED
  BY <1>1, <1>3, <1>4, <1>5, <1>6 DEF Control

LEMMA Controlled ==
  ASSUME Typed, NEW t \in Task, OtherStep(t) \/ \E c \in Chan : ChannelStep(t, c)
  PROVE  Control' /\ Spawners'
<1> USE DEF Typed, TypeOK
<1>0. ControlOf(t)
  BY DEF Control
<1>1. ASSUME NEW c \in Chan, ChannelStep(t, c) PROVE Control' /\ Spawners'
  <2>1. CASE SendWait(t, c) \/ OfferWait(t, c) \/ RecvBlock(t, c)
    <3>1. /\ Only(t) /\ op' = op /\ pc[t] \in {"send", "offer", "block"}
          /\ pc'[t] = "parked" /\ cont'[t] = IF pc[t] = "block" THEN "recv" ELSE pc[t]
          /\ arm' = arm /\ msg' = msg
      BY <2>1 DEF SendWait, OfferWait, RecvBlock, BlockOn, At, Only, TaskTypeOK
    <3>2. ControlOf(t)'
      BY <1>0, <3>1 DEF ControlOf, Sends, Select
    <3>3. QED
      BY <3>1, <3>2, MoveControlled
  <2>2. CASE TrySendMiss(t, c) \/ TryRecvMiss(t, c)
    <3>1. /\ Only(t) /\ op' = op /\ pc[t] = "poll" /\ cont' = cont /\ msg' = msg
          /\ arm'[t] = IF arm[t] < Len(op[t].arms) THEN arm[t] + 1 ELSE 1
          /\ pc'[t] = IF arm[t] < Len(op[t].arms) THEN "poll" ELSE "selWait"
      BY <2>2 DEF TrySendMiss, TryRecvMiss, AtArm, At, Miss, NextArm, Only, TaskTypeOK
    <3>2. op[t].fn = "select" /\ arm[t] \in 1 .. Len(op[t].arms) /\ Len(op[t].arms) \in Nat
      BY <1>0, <3>1 DEF ControlOf, Select, TaskTypeOK, Op
    <3>3. arm'[t] \in DOMAIN op[t].arms
      BY <3>1, <3>2 DEF TaskTypeOK, Op
    <3>4. ControlOf(t)'
      BY <1>0, <3>1, <3>2, <3>3 DEF ControlOf, Sends, Select
    <3>5. QED
      BY <3>1, <3>4, MoveControlled
  <2>3. CASE RecvWait(t, c) \/ SendOffer(t, c) \/ TrySendOffer(t, c)
    <3>1. \/ Goto(t, "block") /\ pc[t] = "recv"
          \/ Goto(t, "offer") /\ (pc[t] = "send" \/ (pc[t] = "poll" /\ op[t].arms[arm[t]].dir = "send"))
      BY <2>3 DEF RecvWait, SendOffer, TrySendOffer, OfferValue, At, AtArm
    <3>2. QED
      BY <3>1, GotoControlled DEF PC, InWait
  <2>4. CASE Return(t) /\ pc[t] # "unborn"
    BY <2>4, ReturnControlled
  <2>5. QED
    BY <1>1, <2>1, <2>2, <2>3, <2>4
       DEF ChannelStep, SendClosed, SendPut, PutValue, OfferTaken, OfferReclaim, RecvTake,
           RecvNone, TakeValue, SeeEnd, CloseOk, CloseAgain, TrySendClosed, TrySendPut,
           TryRecvTake, TryRecvNone, At, AtArm
<1>2. ASSUME OtherStep(t) PROVE Control' /\ Spawners'
  <2>1. CASE WakeSignaled(t) \/ Unblock(t)
    <3>1. /\ Only(t) /\ op' = op /\ pc[t] \in {"parked", "unblock"}
          /\ pc'[t] = cont[t] /\ cont'[t] = "none" /\ arm' = arm /\ msg' = msg
      BY <2>1 DEF WakeSignaled, Unblock, Resume, At, Only, TaskTypeOK
    <3>2. ControlOf(t)'
      BY <1>0, <3>1 DEF ControlOf, Sends, Select, TaskTypeOK
    <3>3. QED
      BY <3>1, <3>2, MoveControlled
  <2>2. CASE SelectElse(t)
    BY <2>2, ReturnControlled DEF SelectElse
  <2>3. CASE SpawnCreate(t)
    BY <2>3, SpawnControlled
  <2>4. CASE \E o \in may[t] : Call(t, o)
    BY <2>4, CallControlled
  <2>5. CASE UNCHANGED taskVars
    BY <2>5 DEF taskVars, Control, ControlOf, Spawners, Select
  <2>6. CASE Confirm(t) \/ ExitConfirm(t)
    <3>1. \/ (Goto(t, "panic") \/ Goto(t, "paused")) /\ pc[t] \in {"expired", "exitCheck"}
          \/ Goto(t, "unblock") /\ pc[t] = "expired"
          \/ Goto(t, "ended") /\ pc[t] = "exitCheck"
      BY <2>6 DEF Confirm, ExitConfirm, DeadlockPanic, At
    <3>2. QED
      BY <1>0, <3>1, GotoControlled DEF PC, InWait, ControlOf
  <2>7. CASE SelectTimeout(t) \/ SelectWait(t) \/ SelectWake(t)
    <3>1. \/ (Goto(t, "panic") \/ Goto(t, "paused")) /\ pc[t] = "selExpired"
          \/ /\ Goto(t, "selParked") \/ Goto(t, "selTop")
             /\ pc[t] \in {"selWait", "selParked", "selExpired"}
      BY <2>7 DEF SelectTimeout, SelectWait, SelectWake, SelectLoop, DeadlockPanic
    <3>2. QED
      BY <3>1, GotoControlled DEF PC, InWait
  <2>8. CASE Timeout(t) \/ Snapshot(t) \/ SpawnReap(t)
    <3>1. \/ Goto(t, "expired") /\ pc[t] = "parked"
          \/ Goto(t, "selExpired") /\ pc[t] = "selParked"
          \/ Goto(t, "exitCheck") /\ pc[t] = "exitConfirm"
          \/ Goto(t, "poll") /\ pc[t] = "selTop"
          \/ Goto(t, "join") /\ pc[t] = "reap"
      BY <2>8 DEF Timeout, Snapshot, SpawnReap, Claim
    <3>2. QED
      BY <1>0, <3>1, GotoControlled DEF PC, InWait, ControlOf
  <2>9. CASE Exit(t) \/ (t = Main /\ (MainReap \/ MainExit))
    <3>1. /\ \/ Goto(t, "exitConfirm") \/ Goto(t, "ended") \/ Goto(t, "exit")
             \/ Goto(t, "mainReap") \/ Goto(t, "mainJoin")
          /\ pc[t] \in {"run", "mainReap"}
      BY <2>9 DEF Exit, MainReap, MainExit, Claim
    <3>2. QED
      BY <1>0, <3>1, GotoControlled DEF PC, InWait, ControlOf
  <2>10. QED
    BY <1>2, <2>1, <2>2, <2>3, <2>4, <2>5, <2>6, <2>7, <2>8, <2>9, Zenon
       DEF OtherStep, TaskStep, Join, EndProcess, SpuriousWake
<1>3. QED
  BY <1>1, <1>2

-----------------------------------------------------------------------------
(* Typed is inductive.                                                      *)

LEMMA InitTyped == Init => Typed
<1> SUFFICES ASSUME Init PROVE Typed
  OBVIOUS
<1>1. SchedTypeOK
  <2>0. PICK p \in Programs : SchedInit(p.start)
    BY DEF Init
  <2>1. Cardinality(p.start) \in Nat
    BY SchedAssumption, ProgramAssumption, FS_Subset, FS_CardinalityType
  <2>2. SchedInit(p.start)
    BY <2>0
  <2>3. live \in Int /\ blocked \in Int
    BY <2>1, <2>2 DEF SchedInit
  <2>4. older \in [Task -> SUBSET Task]
    BY <2>2 DEF SchedInit
  <2>5. QED
    BY <2>2, <2>3, <2>4 DEF SchedInit, SchedTypeOK
<1> USE DEF Init
<1>2. ChanTypeOK(Task)
  <2>1. \A c \in Chan : 0 \in Slots(c) /\ Cap[c] \in Nat /\ 0 <= Cap[c]
    BY ChanAssumption DEF Slots, Unbuffered
  <2>2. BufTypeOK
    BY DEF ChanInit, BufTypeOK
  <2>3. SlotTypeOK
    BY <2>1, <2>2 DEF ChanInit, SlotTypeOK
  <2>4. QED
    BY <2>3 DEF ChanInit, ChanTypeOK
<1>3. TaskTypeOK
  BY IdleOp DEF TaskTypeOK, PC
<1>4. LifeTypeOK
  BY ProgramAssumption DEF LifeTypeOK
<1>5. HistoryTypeOK
  BY DEF HistoryTypeOK
<1>6. Control /\ Spawners
  BY IdleOp DEF Control, ControlOf, Spawners, Sends, Select
<1>7. QED
  BY <1>1, <1>2, <1>3, <1>4, <1>5, <1>6 DEF Typed, TypeOK

LEMMA NextTyped == Typed /\ [Next]_vars => Typed'
<1> SUFFICES ASSUME Typed, [Next]_vars PROVE Typed'
  OBVIOUS
<1>1. CASE UNCHANGED vars
  <2>1. UNCHANGED slotVars /\ UNCHANGED <<mu, cv, closed, recvWaiters>>
    BY <1>1 DEF vars, chanVars, slotVars
  <2>2. SlotTypeOK'
    BY <2>1 DEF Typed, TypeOK, ChanTypeOK, slotVars, SlotTypeOK, BufTypeOK
  <2>3. ChanTypeOK(Task)'
    BY <2>1, <2>2 DEF Typed, TypeOK, ChanTypeOK
  <2>4. Control' /\ Spawners'
    BY <1>1 DEF Typed, vars, taskVars, Control, ControlOf, Spawners, Select
  <2>5. SchedTypeOK' /\ TaskTypeOK' /\ LifeTypeOK' /\ HistoryTypeOK' /\ owed' \in [Task -> SUBSET Task]
    BY <1>1 DEF Typed, TypeOK, vars, schedVars, taskVars, progVars, lifeVars, history,
                SchedTypeOK, TaskTypeOK, LifeTypeOK, HistoryTypeOK
  <2>6. QED
    BY <2>3, <2>4, <2>5 DEF Typed, TypeOK
<1>2. ASSUME NEW t \in Task, Owe, OtherStep(t) \/ \E c \in Chan : ChannelStep(t, c)
      PROVE  Typed'
  BY <1>2, SchedTyped, ChanTyped, TaskTyped, LifeTyped, HistoryTyped, OwedTyped, Controlled
     DEF Typed, TypeOK
<1>3. QED
  BY <1>1, <1>2, NextCases

\* Every variable keeps its type, the ring indices and lengths stay within the
\* capacity of the channel (the memcpy of guji_chan_send and guji_chan_recv
\* stay within the slots that guji_chan_new allocated), and a task is where
\* its operation can be.
THEOREM Typing == Spec => []TypeOK
<1>1. Spec => []Typed
  BY InitTyped, NextTyped, PTL DEF Spec
<1>2. Typed => TypeOK
  BY DEF Typed
<1>3. QED
  BY <1>1, <1>2, PTL

-----------------------------------------------------------------------------
(* The handoff slot.                                                        *)

\* A buffered channel does not use its handoff state.
HandoffUnbuffered == \A c \in Chan : handoff[c] # 0 => Unbuffered(c)

Slot == OneOffer /\ HandoffUnbuffered

InOffer(t) == pc[t] = "offer" \/ cont[t] = "offer"

\* A step that is none of the offering tasks' business.
LEMMA SlotUntouched ==
  ASSUME Slot, UNCHANGED handoff,
         \A c \in Chan : Unbuffered(c) => buf'[c] = buf[c],
         \A u \in Task : /\ InOffer(u)' <=> InOffer(u)
                         /\ InOffer(u) => op'[u] = op[u] /\ arm'[u] = arm[u] /\ msg'[u] = msg[u]
  PROVE  Slot'
<1>1. HandoffUnbuffered'
  BY DEF Slot, HandoffUnbuffered, Unbuffered
<1>2. ASSUME NEW u \in Task, NEW c \in Chan PROVE InLoop(u, "offer", c)' <=> InLoop(u, "offer", c)
  BY DEF InLoop, Ch, InOffer
<1>3. ASSUME NEW c \in Chan PROVE Offering(c)' = Offering(c)
  BY <1>2, <1>3 DEF Offering
<1>4. ASSUME NEW c \in Chan, handoff[c] # 0
      PROVE  \E u \in Task : Offering(c)' = {u} /\ buf'[c][0] = msg'[u]
  <2>1. PICK u \in Task : Offering(c) = {u} /\ buf[c][0] = msg[u]
    BY <1>4 DEF Slot, OneOffer
  <2>2. InOffer(u)
    BY <2>1 DEF Offering, InLoop, InOffer
  <2>3. QED
    BY <1>3, <1>4, <2>1, <2>2 DEF Slot, HandoffUnbuffered
<1>5. OneOffer'
  BY <1>3, <1>4 DEF Slot, OneOffer
<1>6. QED
  BY <1>1, <1>5 DEF Slot

\* A task that is outside the loop before and after the step.
LEMMA SlotBystander ==
  ASSUME Slot, NEW t \in Task, Only(t), UNCHANGED handoff,
         \A c \in Chan : Unbuffered(c) => buf'[c] = buf[c],
         ~InOffer(t), ~InOffer(t)'
  PROVE  Slot'
<1>1. ASSUME NEW u \in Task
      PROVE  /\ InOffer(u)' <=> InOffer(u)
             /\ InOffer(u) => op'[u] = op[u] /\ arm'[u] = arm[u] /\ msg'[u] = msg[u]
  <2>1. CASE u = t
    BY <2>1
  <2>2. CASE u # t
    BY <2>2 DEF Only, InOffer
  <2>3. QED
    BY <2>1, <2>2
<1>2. QED
  BY <1>1, SlotUntouched

\* A task that stays in the loop.
LEMMA SlotStays ==
  ASSUME Slot, NEW t \in Task, Only(t), UNCHANGED <<handoff, buf, op, arm, msg>>,
         InOffer(t)' <=> InOffer(t)
  PROVE  Slot'
<1>1. ASSUME NEW u \in Task PROVE InOffer(u)' <=> InOffer(u)
  BY DEF Only, InOffer
<1>2. QED
  BY <1>1, SlotUntouched

LEMMA ReturnLeaves ==
  ASSUME Typed, NEW t \in Task, Return(t)
  PROVE  Only(t) /\ ~InOffer(t)'
BY DEF Typed, TypeOK, TaskTypeOK, Return, Only, InOffer

\* The sender that claims the slot, and the value that it puts there.
LEMMA SlotClaimed ==
  ASSUME Typed, Slot, NEW t \in Task, NEW c \in Chan,
         SendOffer(t, c) \/ TrySendOffer(t, c)
  PROVE  Slot'
<1> USE DEF Typed, TypeOK, ChanTypeOK, SlotTypeOK, TaskTypeOK
<1>1. /\ Unbuffered(c) /\ handoff[c] = 0 /\ c = Ch(t) /\ op[t].arms # <<>>
      /\ Offer(c, msg[t]) /\ Goto(t, "offer")
  BY DEF SendOffer, TrySendOffer, OfferValue, AtArm, At, Full, CanSendNow, Control, ControlOf,
         Select
<1>2. handoff' = [handoff EXCEPT ![c] = 1] /\ buf' = [buf EXCEPT ![c][0] = msg[t]]
  BY <1>1 DEF Offer
<1>3. 0 \in Slots(c) /\ buf'[c][0] = msg[t] /\ \A d \in Chan \ {c} : buf'[d] = buf[d]
  <2>1. 0 \in Slots(c)
    BY <1>1 DEF Slots
  <2>2. buf[c] \in [Slots(c) -> Msg \cup {NoMsg}] /\ buf = [d \in Chan |-> buf[d]]
    BY DEF BufTypeOK
  <2>3. buf' = [d \in Chan |-> IF d = c THEN [buf[c] EXCEPT ![0] = msg[t]] ELSE buf[d]]
    BY <1>2, <2>2, Zenon
  <2>4. QED
    BY <2>1, <2>2, <2>3
<1>4. HandoffUnbuffered'
  BY <1>1, <1>2 DEF Slot, HandoffUnbuffered, Unbuffered
<1>5. ASSUME NEW d \in Chan, d # c PROVE Offering(d)' = Offering(d)
  BY <1>1, <1>5 DEF Goto, Offering, InLoop, Ch, Slot, OneOffer
<1>6. Offering(c)' = {t}
  <2>1. Offering(c) = {}
    BY <1>1 DEF Slot, OneOffer
  <2>2. QED
    BY <1>1, <2>1 DEF Goto, Offering, InLoop, Ch
<1>7. ASSUME NEW d \in Chan
      PROVE  IF handoff'[d] = 0
             THEN Offering(d)' = {}
             ELSE \E u \in Task : Offering(d)' = {u} /\ buf'[d][0] = msg'[u]
  <2>1. msg' = msg /\ handoff'[c] = 1 /\ \A e \in Chan \ {c} : handoff'[e] = handoff[e]
    BY <1>1, <1>2 DEF Goto
  <2>2. CASE d = c
    BY <1>3, <1>6, <2>1, <2>2
  <2>3. CASE d # c
    <3>1. IF handoff[d] = 0
          THEN Offering(d) = {}
          ELSE \E u \in Task : Offering(d) = {u} /\ buf[d][0] = msg[u]
      BY DEF Slot, OneOffer
    <3>2. Offering(d)' = Offering(d) /\ handoff'[d] = handoff[d] /\ buf'[d] = buf[d]
      BY <1>3, <1>5, <2>1, <2>3
    <3>3. QED
      BY <2>1, <3>1, <3>2
  <2>4. QED
    BY <2>2, <2>3
<1>8. QED
  BY <1>4, <1>7 DEF Slot, OneOffer

\* A receiver takes the value: the slot stays with the sender.
LEMMA SlotTaken ==
  ASSUME Typed, Slot, NEW t \in Task, NEW c \in Chan,
         RecvTake(t, c) \/ TryRecvTake(t, c)
  PROVE  Slot'
<1> USE DEF Typed, TypeOK, ChanTypeOK, SlotTypeOK
<1>1. Only(t) /\ ~InOffer(t)' /\ ~InOffer(t)
  BY ReturnLeaves DEF RecvTake, TryRecvTake, TakeValue, AtArm, At, Control, ControlOf, InOffer
<1>2. CASE ~Unbuffered(c)
  BY <1>1, <1>2, SlotBystander DEF RecvTake, TryRecvTake, TakeValue, Dequeue
<1>3. CASE Unbuffered(c)
  <2>1. handoff[c] = 1 /\ handoff' = [handoff EXCEPT ![c] = 2] /\ buf' = buf
    BY <1>3 DEF RecvTake, TryRecvTake, TakeValue, Take, Readable, Offered, Available
  <2>2. ASSUME NEW u \in Task, NEW d \in Chan
        PROVE  InLoop(u, "offer", d)' <=> InLoop(u, "offer", d)
    BY <1>1 DEF Only, InLoop, Ch, InOffer
  <2>3. ASSUME NEW d \in Chan PROVE Offering(d)' = Offering(d)
    BY <2>2, <2>3 DEF Offering
  <2>4. \A d \in Chan : handoff'[d] = 0 <=> handoff[d] = 0
    BY <2>1
  <2>5. ASSUME NEW d \in Chan, handoff[d] # 0
        PROVE  \E u \in Task : Offering(d)' = {u} /\ buf'[d][0] = msg'[u]
    <3>1. PICK u \in Task : Offering(d) = {u} /\ buf[d][0] = msg[u]
      BY <2>5 DEF Slot, OneOffer
    <3>2. u # t
      BY <1>1, <3>1 DEF Offering, InLoop, InOffer
    <3>3. QED
      BY <1>1, <2>1, <2>3, <3>1, <3>2 DEF Only
  <2>6. OneOffer'
    BY <2>3, <2>4, <2>5 DEF Slot, OneOffer
  <2>7. HandoffUnbuffered'
    BY <2>4 DEF Slot, HandoffUnbuffered, Unbuffered
  <2>8. QED
    BY <2>6, <2>7 DEF Slot
<1>4. QED
  BY <1>2, <1>3

\* The sender frees the slot.
LEMMA SlotFreed ==
  ASSUME Typed, Slot, NEW t \in Task, NEW c \in Chan,
         OfferTaken(t, c) \/ OfferReclaim(t, c)
  PROVE  Slot'
<1> USE DEF Typed, TypeOK, ChanTypeOK, SlotTypeOK
<1>1. /\ pc[t] = "offer" /\ c = Ch(t) /\ FreeSlot(c) /\ Only(t) /\ ~InOffer(t)'
      /\ op[t].arms # <<>>
  BY ReturnLeaves DEF OfferTaken, OfferReclaim, At, Control, ControlOf
<1>2. handoff' = [handoff EXCEPT ![c] = 0] /\ buf' = buf
  BY <1>1 DEF FreeSlot
<1>3. Offering(c) = {t}
  <2>1. t \in Offering(c)
    BY <1>1 DEF Offering, InLoop
  <2>2. QED
    BY <2>1 DEF Slot, OneOffer
<1>4. ASSUME NEW d \in Chan PROVE Offering(d)' = Offering(d) \ {t}
  <2>1. ASSUME NEW u \in Task, u # t
        PROVE  InLoop(u, "offer", d)' <=> InLoop(u, "offer", d)
    BY <1>1, <2>1 DEF Only, InLoop, Ch
  <2>2. ~InLoop(t, "offer", d)'
    BY <1>1 DEF InLoop, InOffer
  <2>3. QED
    BY <2>1, <2>2 DEF Offering
<1>5. ASSUME NEW d \in Chan, d # c, handoff[d] # 0
      PROVE  \E u \in Task : Offering(d)' = {u} /\ buf'[d][0] = msg'[u]
  <2>1. PICK u \in Task : Offering(d) = {u} /\ buf[d][0] = msg[u]
    BY <1>5 DEF Slot, OneOffer
  <2>2. u # t
    BY <1>1, <1>5, <2>1 DEF Offering, InLoop
  <2>3. QED
    BY <1>1, <1>2, <1>4, <2>1, <2>2 DEF Only
<1>6. OneOffer'
  BY <1>2, <1>3, <1>4, <1>5 DEF Slot, OneOffer
<1>7. HandoffUnbuffered'
  BY <1>2 DEF Slot, HandoffUnbuffered, Unbuffered
<1>8. QED
  BY <1>6, <1>7 DEF Slot

LEMMA SlotStep ==
  ASSUME Typed, Slot, NEW t \in Task, OtherStep(t) \/ \E c \in Chan : ChannelStep(t, c)
  PROVE  Slot'
<1> USE DEF Typed, slotVars, chanVars
<1>1. ASSUME NEW c \in Chan, ChannelStep(t, c) PROVE Slot'
  <2>1. CASE SendWait(t, c) \/ OfferWait(t, c) \/ RecvBlock(t, c)
    <3>1. /\ Only(t) /\ UNCHANGED <<handoff, buf, op, arm, msg>>
          /\ InOffer(t)' <=> InOffer(t)
      BY <2>1 DEF TypeOK, TaskTypeOK, SendWait, OfferWait, RecvBlock, BlockOn, At, Only, InOffer,
                  Control, ControlOf
    <3>2. QED
      BY <3>1, SlotStays
  <2>2. CASE TrySendMiss(t, c) \/ TryRecvMiss(t, c) \/ RecvWait(t, c)
    <3>1. Only(t) /\ UNCHANGED <<handoff, buf>> /\ ~InOffer(t) /\ ~InOffer(t)'
      BY <2>2 DEF TypeOK, TaskTypeOK, TrySendMiss, TryRecvMiss, RecvWait, Miss, NextArm, Goto,
                  AtArm, At, Only, InOffer, Control, ControlOf
    <3>2. QED
      BY <3>1, SlotBystander
  <2>3. CASE SendOffer(t, c) \/ TrySendOffer(t, c)
    BY <2>3, SlotClaimed
  <2>4. CASE RecvTake(t, c) \/ TryRecvTake(t, c)
    BY <2>4, SlotTaken
  <2>5. CASE OfferTaken(t, c) \/ OfferReclaim(t, c)
    BY <2>5, SlotFreed
  <2>6. CASE SendPut(t, c) \/ TrySendPut(t, c)
    <3>1. Only(t) /\ ~InOffer(t) /\ ~InOffer(t)'
      BY <2>6, ReturnLeaves DEF SendPut, TrySendPut, PutValue, AtArm, At, InOffer, Control, ControlOf
    <3>2. UNCHANGED handoff /\ \A d \in Chan : Unbuffered(d) => buf'[d] = buf[d]
      BY <2>6 DEF TypeOK, ChanTypeOK, SlotTypeOK, BufTypeOK, SendPut, TrySendPut, PutValue, Enqueue
    <3>3. QED
      BY <3>1, <3>2, SlotBystander
  <2>7. CASE \/ SendClosed(t, c) \/ RecvNone(t, c) \/ CloseOk(t, c) \/ CloseAgain(t, c)
             \/ TrySendClosed(t, c) \/ TryRecvNone(t, c)
    <3>1. Only(t) /\ ~InOffer(t) /\ ~InOffer(t)'
      BY <2>7, ReturnLeaves DEF SendClosed, RecvNone, SeeEnd, CloseOk, CloseAgain, TrySendClosed,
                  TryRecvNone, AtArm, At, InOffer, Control, ControlOf
    <3>2. UNCHANGED <<handoff, buf>>
      BY <2>7 DEF SendClosed, RecvNone, SeeEnd, CloseOk, CloseAgain, TrySendClosed, TryRecvNone
    <3>3. QED
      BY <3>1, <3>2, SlotBystander
  <2>8. QED
    BY <1>1, <2>1, <2>2, <2>3, <2>4, <2>5, <2>6, <2>7 DEF ChannelStep
<1>2. ASSUME OtherStep(t) PROVE Slot'
  <2>0. UNCHANGED <<handoff, buf>>
    BY <1>2 DEF OtherStep, TaskStep, WakeSignaled, Unblock, Resume, Confirm, Snapshot,
                SelectElse, SelectWait, SelectWake, SelectTimeout, SpawnReap, Claim,
                SpawnCreate, ExitConfirm, Join, EndProcess, Timeout, SpuriousWake, Exit,
                Call, MainReap, MainExit
  <2>1. CASE WakeSignaled(t) \/ Unblock(t)
    <3>1. /\ Only(t) /\ UNCHANGED <<op, arm, msg>>
          /\ InOffer(t)' <=> InOffer(t)
      BY <2>1 DEF TypeOK, TaskTypeOK, WakeSignaled, Unblock, Resume, At, Only, InOffer
    <3>2. QED
      BY <2>0, <3>1, SlotStays
  <2>2. CASE SelectElse(t)
    BY <2>0, <2>2, ReturnLeaves, SlotBystander DEF SelectElse, InOffer, Control, ControlOf
  <2>3. CASE SpawnCreate(t)
    <3>1. ASSUME NEW u \in Task
          PROVE  /\ InOffer(u)' <=> InOffer(u)
                 /\ InOffer(u) => op'[u] = op[u] /\ arm'[u] = arm[u] /\ msg'[u] = msg[u]
      BY <2>3 DEF TypeOK, TaskTypeOK, SpawnCreate, InOffer, Control, ControlOf
    <3>2. QED
      BY <2>0, <3>1, SlotUntouched
  <2>4. CASE \E o \in may[t] : Call(t, o)
    <3>1. PICK o \in may[t] : Call(t, o)
      BY <2>4
    <3>2. o \in Op /\ Entry(o.fn) # "offer"
      BY Allowed DEF Typed, Op, Entry
    <3>3. Only(t) /\ ~InOffer(t) /\ ~InOffer(t)'
      BY <3>1, <3>2 DEF TypeOK, TaskTypeOK, Call, Only, InOffer, Control, ControlOf
    <3>4. QED
      BY <2>0, <3>3, SlotBystander
  <2>5. CASE UNCHANGED taskVars
    BY <2>0, <2>5, SlotUntouched DEF taskVars, InOffer
  <2>6. CASE \E l \in PC \ {"offer"} : Goto(t, l) /\ pc[t] # "offer"
    <3>1. Only(t) /\ UNCHANGED <<op, arm, msg>> /\ (InOffer(t)' <=> InOffer(t))
      BY <2>6 DEF TypeOK, TaskTypeOK, Goto, Only, InOffer
    <3>2. QED
      BY <2>0, <3>1, SlotStays
  <2>7. CASE Confirm(t) \/ ExitConfirm(t) \/ SelectTimeout(t) \/ SelectWait(t) \/ SelectWake(t)
    <3>1. /\ \/ Goto(t, "panic") \/ Goto(t, "paused") \/ Goto(t, "unblock") \/ Goto(t, "ended")
             \/ Goto(t, "selParked") \/ Goto(t, "selTop")
          /\ pc[t] # "offer"
      BY <2>7 DEF Confirm, ExitConfirm, SelectTimeout, SelectWait, SelectWake,
                  SelectLoop, DeadlockPanic, At
    <3>2. QED
      BY <2>6, <3>1, Zenon DEF PC, InWait
  <2>8. CASE Timeout(t) \/ Snapshot(t) \/ SpawnReap(t) \/ Exit(t) \/ (t = Main /\ (MainReap \/ MainExit))
    <3>1. /\ \/ Goto(t, "expired") \/ Goto(t, "selExpired") \/ Goto(t, "exitCheck")
             \/ Goto(t, "poll") \/ Goto(t, "join") \/ Goto(t, "exitConfirm") \/ Goto(t, "ended")
             \/ Goto(t, "mainJoin") \/ Goto(t, "exit") \/ Goto(t, "mainReap")
          /\ pc[t] # "offer"
      BY <2>8 DEF Timeout, Snapshot, SpawnReap, Claim, Exit, MainReap, MainExit
    <3>2. QED
      BY <2>6, <3>1, Zenon DEF PC, InWait
  <2>9. QED
    BY <1>2, <2>1, <2>2, <2>3, <2>4, <2>5, <2>7, <2>8, Zenon
       DEF OtherStep, TaskStep, Join, EndProcess, SpuriousWake
<1>3. QED
  BY <1>1, <1>2

LEMMA InitSlot == Init => Slot
BY DEF Init, ChanInit, Slot, OneOffer, HandoffUnbuffered, Offering, InLoop, Idle

LEMMA SlotNext == Typed /\ Slot /\ [Next]_vars => Slot'
<1> SUFFICES ASSUME Typed, Slot, [Next]_vars PROVE Slot'
  OBVIOUS
<1>1. CASE UNCHANGED vars
  BY <1>1, SlotUntouched DEF vars, chanVars, taskVars, InOffer
<1>2. QED
  BY <1>1, SlotStep, NextCases

\* The handoff slot of an unbuffered channel has exactly one owner from a
\* sender's offer until that sender frees it, and keeps that sender's value
\* (guji_chan_send, guji_chan_try_send, guji_chan_recv, guji_chan_try_recv).
THEOREM HandoffOwned == Spec => []OneOffer
<1>1. Spec => []Typed
  BY InitTyped, NextTyped, PTL DEF Spec
<1>2. Slot => OneOffer
  BY DEF Slot
<1>3. QED
  BY SlotNext, <1>1, <1>2, InitSlot, PTL DEF Spec

-----------------------------------------------------------------------------
(* No lost wakeup.                                                          *)

\* What a task in the wait of c waits for, by the loop it is in.
WaitsIn(loop, c) ==
  /\ ~closed[c]
  /\ loop = "send" => Full(c)
  /\ loop = "offer" => handoff[c] = 1
  /\ loop = "recv" => ~Readable(c)

Waiting(t) == pc[t] = "parked" /\ t \in cv[Ch(t)]

LEMMA WaitingChan ==
  ASSUME Typed, NEW t \in Task, pc[t] = "parked"
  PROVE  /\ Ch(t) \in Chan /\ cont[t] \in {"send", "offer", "recv"}
         /\ Waits(t) <=> WaitsIn(cont[t], Ch(t))
<1> USE DEF Typed, TypeOK, TaskTypeOK
<1>1. ControlOf(t) /\ cont[t] \in {"send", "offer", "recv"} /\ op[t].fn # "spawn"
  BY DEF Control, ControlOf
<1>2. Ch(t) \in Chan
  <2>1. op[t].arms \in Seq(Arm) /\ arm[t] \in DOMAIN op[t].arms
    BY <1>1 DEF ControlOf, Op
  <2>2. op[t].arms[arm[t]] \in Arm
    BY <2>1
  <2>3. QED
    BY <2>2 DEF Arm, Ch
<1>3. Waits(t) <=> WaitsIn(cont[t], Ch(t))
  BY <1>1 DEF Waits, WaitsIn
<1>4. QED
  BY <1>1, <1>2, <1>3

\* Everybody else stays in the wait or leaves it, and a channel whose state
\* changes has nobody waiting on it afterwards.
LEMMA WakeupsKept ==
  ASSUME Typed, Typed', NoLostWakeup, NEW t \in Task,
         \A u \in Task : u # t /\ pc'[u] = "parked" =>
            pc[u] = "parked" /\ op'[u] = op[u] /\ arm'[u] = arm[u] /\ cont'[u] = cont[u],
         \A d \in Chan : \/ cv'[d] = {}
                         \/ /\ cv'[d] \subseteq cv[d] \cup {t}
                            /\ handoff'[d] = handoff[d] /\ len'[d] = len[d] /\ closed'[d] = closed[d],
         Waiting(t)' => Waits(t)'
  PROVE  NoLostWakeup'
<1> SUFFICES ASSUME NEW u \in Task, u # t, Waiting(u)' PROVE Waits(u)'
  BY DEF NoLostWakeup, Waiting
<1>1. pc[u] = "parked" /\ op'[u] = op[u] /\ arm'[u] = arm[u] /\ cont'[u] = cont[u]
  BY DEF Waiting
<1>2. PICK d \in Chan, loop \in {"send", "offer", "recv"} :
        d = Ch(u) /\ d = Ch(u)' /\ loop = cont[u] /\ loop = cont'[u]
  BY <1>1, WaitingChan DEF Ch
<1>3. /\ u \in cv[d] /\ handoff'[d] = handoff[d] /\ len'[d] = len[d] /\ closed'[d] = closed[d]
  BY <1>2 DEF Waiting
<1>4. WaitsIn(loop, d)
  BY <1>1, <1>2, <1>3, WaitingChan DEF NoLostWakeup
<1>5. WaitsIn(loop, d)'
  BY <1>3, <1>4 DEF WaitsIn, Full, Readable, Offered, Available, Unbuffered
<1>6. QED
  BY <1>2, <1>5 DEF Waits, WaitsIn

\* A receive that has announced itself and goes to sleep still has the lock,
\* so nothing it has seen can change before it waits.
LockedToWait ==
  \A t \in Task : pc[t] = "block" => mu[Ch(t)] = t /\ WaitsIn("recv", Ch(t))

LEMMA HeldOthers ==
  ASSUME Typed, LockedToWait, NEW t \in Task,
         \A u \in Task : u # t /\ pc'[u] = "block" =>
            pc[u] = "block" /\ op'[u] = op[u] /\ arm'[u] = arm[u],
         \A d \in Chan : \/ CanLock(t, d)
                         \/ /\ mu'[d] = mu[d] /\ handoff'[d] = handoff[d]
                            /\ len'[d] = len[d] /\ closed'[d] = closed[d],
         pc'[t] = "block" => mu'[Ch(t)'] = t /\ WaitsIn("recv", Ch(t))'
  PROVE  LockedToWait'
<1> SUFFICES ASSUME NEW u \in Task, u # t, pc'[u] = "block"
             PROVE  mu'[Ch(u)'] = u /\ WaitsIn("recv", Ch(u))'
  BY DEF LockedToWait
<1>1. pc[u] = "block" /\ Ch(u)' = Ch(u)
  BY DEF Ch
<1>2. mu[Ch(u)] = u /\ WaitsIn("recv", Ch(u))
  BY <1>1 DEF LockedToWait
<1>3. Ch(u) \in Chan
  <2>1. op[u].arms \in Seq(Arm) /\ arm[u] \in DOMAIN op[u].arms
    BY <1>1 DEF Typed, TypeOK, TaskTypeOK, Control, ControlOf, Op
  <2>2. op[u].arms[arm[u]] \in Arm
    BY <2>1
  <2>3. QED
    BY <2>2 DEF Arm, Ch
<1>4. PICK d \in Chan : d = Ch(u) /\ d = Ch(u)'
  BY <1>1, <1>3
<1>5. ~CanLock(t, d)
  BY <1>2, <1>4, ProgramAssumption DEF CanLock
<1>6. mu'[d] = u /\ WaitsIn("recv", d)'
  BY <1>2, <1>4, <1>5 DEF WaitsIn, Readable, Offered, Available, Unbuffered
<1>7. QED
  BY <1>4, <1>6 DEF WaitsIn

LEMMA LockedStep ==
  ASSUME Typed, LockedToWait, NEW t \in Task,
         OtherStep(t) \/ \E c \in Chan : ChannelStep(t, c)
  PROVE  LockedToWait'
<1> USE DEF Typed, TypeOK, slotVars, chanVars
<1>1. ASSUME NEW c \in Chan, ChannelStep(t, c) PROVE LockedToWait'
  <2>1. c = Ch(t) /\ CanLock(t, c)
    BY <1>1 DEF ChannelStep, SendWait, SendClosed, SendOffer, SendPut, OfferWait, OfferTaken,
                OfferReclaim, RecvTake, RecvNone, RecvWait, RecvBlock, CloseOk, CloseAgain,
                TrySendClosed, TrySendMiss, TrySendOffer, TrySendPut, TryRecvTake, TryRecvNone,
                TryRecvMiss, At, AtArm
  <2>2. CASE SendWait(t, c) \/ OfferWait(t, c) \/ RecvBlock(t, c)
    <3>1. /\ Only(t) /\ pc'[t] = "parked"
          /\ \A d \in Chan \ {c} : /\ mu'[d] = mu[d] /\ handoff'[d] = handoff[d]
                                   /\ len'[d] = len[d] /\ closed'[d] = closed[d]
      BY <2>2 DEF SendWait, OfferWait, RecvBlock, BlockOn, Only, TaskTypeOK, ChanTypeOK, Unlock
    <3>2. QED
      BY <2>1, <3>1, HeldOthers DEF Only
  <2>3. CASE RecvWait(t, c)
    <3>1. /\ Only(t) /\ Ch(t)' = c /\ ~Readable(c) /\ ~closed[c]
          /\ mu' = [mu EXCEPT ![c] = t] /\ UNCHANGED <<handoff, len, closed>>
      BY <2>1, <2>3 DEF RecvWait, Goto, Only, TaskTypeOK, Lock, Ch
    <3>2. mu'[Ch(t)'] = t /\ WaitsIn("recv", Ch(t))'
      BY <3>1 DEF ChanTypeOK, WaitsIn, Readable, Offered, Available, Unbuffered
    <3>3. \A d \in Chan \ {c} : mu'[d] = mu[d]
      BY <3>1 DEF ChanTypeOK
    <3>4. QED
      BY <2>1, <3>1, <3>2, <3>3, HeldOthers DEF Only
  <2>4. CASE /\ ~RecvWait(t, c)
             /\ ~(SendWait(t, c) \/ OfferWait(t, c) \/ RecvBlock(t, c))
    <3>1. Return(t) \/ (NextArm(t) /\ pc[t] = "poll") \/ Goto(t, "offer")
      BY <1>1, <2>4 DEF ChannelStep, SendClosed, SendPut, PutValue, OfferTaken, OfferReclaim,
           RecvTake, RecvNone, TakeValue, SeeEnd, CloseOk, CloseAgain, TrySendClosed,
           TrySendPut, TryRecvTake, TryRecvNone, SendOffer, TrySendOffer, OfferValue,
           TrySendMiss, TryRecvMiss, Miss, AtArm, At
    <3>2. Only(t) /\ pc'[t] # "block"
      BY <3>1 DEF Return, NextArm, Goto, Only, TaskTypeOK
    <3>3. CASE \/ SendOffer(t, c) \/ SendPut(t, c) \/ OfferTaken(t, c) \/ OfferReclaim(t, c)
               \/ RecvTake(t, c) \/ CloseOk(t, c) \/ TrySendOffer(t, c) \/ TrySendPut(t, c)
               \/ TryRecvTake(t, c)
      <4>1. \A d \in Chan \ {c} : /\ mu'[d] = mu[d] /\ handoff'[d] = handoff[d]
                                  /\ len'[d] = len[d] /\ closed'[d] = closed[d]
        BY <3>3 DEF SendOffer, SendPut, OfferTaken, OfferReclaim, RecvTake, CloseOk,
                    TrySendOffer, TrySendPut, TryRecvTake, OfferValue, PutValue, TakeValue,
                    Offer, Enqueue, Take, Dequeue, FreeSlot, Lock, Unlock, ChanTypeOK, SlotTypeOK
      <4>2. QED
        BY <2>1, <3>2, <4>1, HeldOthers DEF Only
    <3>4. CASE \/ SendClosed(t, c) \/ RecvNone(t, c) \/ CloseAgain(t, c) \/ TrySendClosed(t, c)
               \/ TrySendMiss(t, c) \/ TryRecvNone(t, c) \/ TryRecvMiss(t, c)
      <4>1. UNCHANGED <<handoff, len, closed>> /\ \A d \in Chan \ {c} : mu'[d] = mu[d]
        BY <3>4 DEF SendClosed, RecvNone, SeeEnd, CloseAgain, TrySendClosed, TrySendMiss,
                    TryRecvNone, TryRecvMiss, Miss, Unlock, ChanTypeOK
      <4>2. QED
        BY <2>1, <3>2, <4>1, HeldOthers DEF Only
    <3>5. QED
      BY <1>1, <2>4, <3>3, <3>4 DEF ChannelStep
  <2>5. QED
    BY <2>2, <2>3, <2>4
<1>2. ASSUME OtherStep(t) PROVE LockedToWait'
  <2>1. UNCHANGED <<handoff, len, closed>>
    BY <1>2 DEF OtherStep, TaskStep, WakeSignaled, Unblock, Resume, Confirm, Snapshot,
                SelectElse, SelectWait, SelectWake, SelectTimeout, SpawnReap, Claim,
                SpawnCreate, ExitConfirm, Join, EndProcess, Timeout, SpuriousWake, Exit,
                Call, MainReap, MainExit
  <2>2. CASE WakeSignaled(t) \/ Confirm(t)
    <3>1. /\ Only(t) /\ pc'[t] # "block" /\ CanLock(t, Ch(t)) /\ pc[t] \in {"parked", "expired"}
          /\ mu' = [mu EXCEPT ![Ch(t)] = t]
      BY <2>2 DEF WakeSignaled, Resume, Confirm, DeadlockPanic, Goto, At, Lock, Only, TaskTypeOK
    <3>2. \A d \in Chan : CanLock(t, d) \/ mu'[d] = mu[d]
      BY <3>1 DEF ChanTypeOK
    <3>3. QED
      BY <2>1, <3>1, <3>2, HeldOthers DEF Only
  <2>3. CASE UNCHANGED <<pc, op, arm, mu>>
    BY <2>1, <2>3 DEF LockedToWait, Ch, WaitsIn, Readable, Offered, Available, Unbuffered
  <2>4. CASE /\ pc'[t] # "block" /\ mu' = mu
             /\ \A u \in Task : u # t /\ pc'[u] = "block" =>
                  pc[u] = "block" /\ op'[u] = op[u] /\ arm'[u] = arm[u]
    BY <2>1, <2>4, HeldOthers
  <2>5. CASE Unblock(t) \/ SelectElse(t) \/ SpawnCreate(t)
    BY <2>4, <2>5 DEF Unblock, Resume, SelectElse, Return, SpawnCreate, TaskTypeOK
  <2>6. CASE \E o \in may[t] : Call(t, o)
    <3>1. PICK o \in may[t] : Call(t, o)
      BY <2>6
    <3>2. Entry(o.fn) # "block"
      BY Allowed DEF Typed, Op, Entry
    <3>3. QED
      BY <2>4, <3>1, <3>2 DEF Call, TaskTypeOK
  <2>7. CASE mu' = mu /\ \E l \in PC \ {"block"} : Goto(t, l)
    BY <2>4, <2>7 DEF Goto, TaskTypeOK
  <2>8. CASE ExitConfirm(t) \/ SelectTimeout(t) \/ SelectWait(t) \/ SelectWake(t)
    <3>1. /\ mu' = mu
          /\ \/ Goto(t, "panic") \/ Goto(t, "paused") \/ Goto(t, "ended")
             \/ Goto(t, "selParked") \/ Goto(t, "selTop")
      BY <2>8 DEF ExitConfirm, SelectTimeout, SelectWait, SelectWake, SelectLoop, DeadlockPanic
    <3>2. QED
      BY <2>7, <3>1, Zenon DEF PC, InWait
  <2>9. CASE Timeout(t) \/ Snapshot(t) \/ SpawnReap(t) \/ Exit(t) \/ (t = Main /\ (MainReap \/ MainExit))
    <3>1. /\ mu' = mu
          /\ \/ Goto(t, "expired") \/ Goto(t, "selExpired") \/ Goto(t, "exitCheck")
             \/ Goto(t, "poll") \/ Goto(t, "join") \/ Goto(t, "exitConfirm") \/ Goto(t, "ended")
             \/ Goto(t, "mainJoin") \/ Goto(t, "exit") \/ Goto(t, "mainReap")
      BY <2>9 DEF Timeout, Snapshot, SpawnReap, Claim, Exit, MainReap, MainExit
    <3>2. QED
      BY <2>7, <3>1, Zenon DEF PC, InWait
  <2>10. CASE SpuriousWake(t) \/ (\E u \in Task : Join(t, u))
              \/ \E how \in {"exited", "panicked", "returned"} : EndProcess(t, how)
    BY <2>3, <2>10 DEF SpuriousWake, Join, EndProcess, taskVars
  <2>11. QED
    BY <1>2, <2>2, <2>5, <2>6, <2>8, <2>9, <2>10, Zenon DEF OtherStep, TaskStep
<1>3. QED
  BY <1>1, <1>2

LEMMA WakeupStep ==
  ASSUME Typed, Typed', Slot, LockedToWait, NoLostWakeup, NEW t \in Task,
         OtherStep(t) \/ \E c \in Chan : ChannelStep(t, c)
  PROVE  NoLostWakeup'
<1> USE DEF Typed, TypeOK, slotVars, chanVars, Broadcast
<1>1. ASSUME NEW c \in Chan, ChannelStep(t, c) PROVE NoLostWakeup'
  <2>0. c = Ch(t) /\ pc[t] # "parked" /\ cv \in [Chan -> SUBSET Task]
    BY <1>1 DEF ChannelStep, SendWait, SendClosed, SendOffer, SendPut, OfferWait, OfferTaken,
                OfferReclaim, RecvTake, RecvNone, RecvWait, RecvBlock, CloseOk, CloseAgain,
                TrySendClosed, TrySendMiss, TrySendOffer, TrySendPut, TryRecvTake, TryRecvNone,
                TryRecvMiss, At, AtArm, ChanTypeOK
  <2>1. CASE SendWait(t, c) \/ OfferWait(t, c) \/ RecvBlock(t, c)
    <3>1. /\ Only(t) /\ UNCHANGED <<op, arm, handoff, len, closed>>
          /\ cv' = [cv EXCEPT ![c] = @ \cup {t}]
      BY <2>1 DEF SendWait, OfferWait, RecvBlock, BlockOn, At, Only, TaskTypeOK
    <3>2. \E loop \in {"send", "offer", "recv"} : loop = cont'[t] /\ WaitsIn(loop, c)
      <4>1. CASE SendWait(t, c)
        BY <4>1 DEF SendWait, BlockOn, TaskTypeOK, WaitsIn
      <4>2. CASE OfferWait(t, c)
        BY <4>2 DEF OfferWait, BlockOn, TaskTypeOK, WaitsIn
      <4>3. CASE RecvBlock(t, c)
        BY <4>3 DEF RecvBlock, At, BlockOn, TaskTypeOK, LockedToWait, WaitsIn
      <4>4. QED
        BY <2>1, <4>1, <4>2, <4>3
    <3>3. Waiting(t)' => Waits(t)'
      BY <2>0, <3>1, <3>2 DEF WaitsIn, Waits, Ch, Full, Readable, Offered, Available
    <3>4. QED
      BY <2>0, <3>1, <3>3, WakeupsKept DEF Only
  <2>2. CASE Return(t) \/ (NextArm(t) /\ pc[t] = "poll") \/ Goto(t, "offer") \/ Goto(t, "block")
    <3>1. Only(t) /\ pc'[t] # "parked"
      BY <2>2 DEF Return, NextArm, Goto, Only, TaskTypeOK
    <3>2. CASE \/ SendOffer(t, c) \/ SendPut(t, c) \/ OfferTaken(t, c) \/ RecvTake(t, c)
               \/ CloseOk(t, c) \/ TrySendOffer(t, c) \/ TrySendPut(t, c) \/ TryRecvTake(t, c)
      <4>1. /\ cv' = [cv EXCEPT ![c] = {}]
            /\ \A d \in Chan \ {c} : /\ handoff'[d] = handoff[d] /\ len'[d] = len[d]
                                     /\ closed'[d] = closed[d]
        BY <3>2 DEF SendOffer, SendPut, OfferTaken, RecvTake, CloseOk, TrySendOffer, TrySendPut,
                    TryRecvTake, OfferValue, PutValue, TakeValue, Announce, Offer, Enqueue,
                    Take, Dequeue, FreeSlot, ChanTypeOK, SlotTypeOK
      <4>2. QED
        BY <2>0, <3>1, <4>1, WakeupsKept DEF Only, Waiting
    <3>3. CASE \/ SendClosed(t, c) \/ RecvNone(t, c) \/ RecvWait(t, c) \/ CloseAgain(t, c)
               \/ TrySendClosed(t, c) \/ TrySendMiss(t, c) \/ TryRecvNone(t, c) \/ TryRecvMiss(t, c)
      <4>1. UNCHANGED <<cv, handoff, len, closed>>
        BY <3>3 DEF SendClosed, RecvNone, SeeEnd, RecvWait, CloseAgain, TrySendClosed, TrySendMiss,
                    TryRecvNone, TryRecvMiss, Miss
      <4>2. QED
        BY <2>0, <3>1, <4>1, WakeupsKept DEF Only, Waiting
    <3>4. CASE OfferReclaim(t, c)
      <4>1. /\ Return(t) /\ UNCHANGED <<cv, len, closed>>
            /\ \A d \in Chan \ {c} : handoff'[d] = handoff[d]
        BY <3>4 DEF OfferReclaim, FreeSlot, ChanTypeOK, SlotTypeOK
      <4>2. closed[c]
        <5>1. op[t].arms # <<>>
          BY <3>4 DEF OfferReclaim, At, Control, ControlOf
        <5>2. t \in Offering(c)
          BY <3>4, <5>1 DEF OfferReclaim, At, Offering, InLoop
        <5>3. handoff[c] # 0
          BY <5>2 DEF Slot, OneOffer
        <5>4. QED
          BY <3>4, <5>3 DEF OfferReclaim, Untaken, ChanTypeOK, SlotTypeOK
      <4>3. ASSUME NEW u \in Task, pc[u] = "parked", Ch(u) = c PROVE u \notin cv[c]
        BY <4>2, <4>3, WaitingChan DEF NoLostWakeup, WaitsIn
      <4>4. SUFFICES ASSUME NEW u \in Task, Waiting(u)' PROVE Waits(u)'
        BY DEF NoLostWakeup, Waiting
      <4>5. u # t /\ pc[u] = "parked" /\ op'[u] = op[u] /\ arm'[u] = arm[u] /\ cont'[u] = cont[u]
        BY <3>1, <4>4 DEF Only, Waiting
      <4>6. Ch(u) # c /\ Ch(u)' = Ch(u)
        BY <4>1, <4>3, <4>4, <4>5 DEF Waiting, Ch
      <4>7. PICK d \in Chan, loop \in {"send", "offer", "recv"} :
              d = Ch(u) /\ d = Ch(u)' /\ loop = cont[u] /\ loop = cont'[u]
        BY <4>5, <4>6, WaitingChan
      <4>8. WaitsIn(loop, d)
        BY <4>1, <4>4, <4>5, <4>7, WaitingChan DEF NoLostWakeup, Waiting
      <4>9. WaitsIn(loop, d)'
        BY <4>1, <4>6, <4>7, <4>8 DEF WaitsIn, Full, Readable, Offered, Available, Unbuffered
      <4>10. QED
        BY <4>7, <4>9 DEF Waits, WaitsIn
    <3>5. QED
      BY <1>1, <2>1, <3>2, <3>3, <3>4 DEF ChannelStep
  <2>3. QED
    BY <1>1, <2>1, <2>2
       DEF ChannelStep, SendClosed, SendPut, PutValue, OfferTaken, OfferReclaim, RecvTake,
           RecvNone, TakeValue, SeeEnd, CloseOk, CloseAgain, TrySendClosed, TrySendPut,
           TryRecvTake, TryRecvNone, SendOffer, TrySendOffer, OfferValue, RecvWait,
           TrySendMiss, TryRecvMiss, Miss, AtArm, At
<1>2. ASSUME OtherStep(t) PROVE NoLostWakeup'
  <2>1. UNCHANGED <<handoff, len, closed>> /\ \A d \in Chan : cv'[d] \subseteq cv[d]
    BY <1>2 DEF OtherStep, TaskStep, WakeSignaled, Unblock, Resume, Confirm, Snapshot,
                SelectElse, SelectWait, SelectWake, SelectTimeout, SpawnReap, Claim,
                SpawnCreate, ExitConfirm, Join, EndProcess, Timeout, SpuriousWake, Exit,
                Call, MainReap, MainExit, ChanTypeOK
  <2>2. CASE UNCHANGED <<pc, op, arm, cont>>
    <3>1. ASSUME NEW u \in Task, Waiting(u)' PROVE Waits(u)'
      <4>1. Waits(u) /\ pc[u] = "parked"
        BY <2>1, <2>2, <3>1, WaitingChan DEF NoLostWakeup, Waiting, Ch
      <4>2. QED
        BY <2>1, <2>2, <4>1, WaitingChan
           DEF Waits, Ch, Full, Readable, Offered, Available, Unbuffered
    <3>2. QED
      BY <3>1 DEF NoLostWakeup, Waiting
  <2>3. CASE /\ pc'[t] # "parked"
             /\ \A u \in Task : u # t /\ pc'[u] = "parked" =>
                  pc[u] = "parked" /\ op'[u] = op[u] /\ arm'[u] = arm[u] /\ cont'[u] = cont[u]
    BY <2>1, <2>3, WakeupsKept DEF Waiting
  <2>4. CASE WakeSignaled(t) \/ Unblock(t)
    BY <2>3, <2>4 DEF WakeSignaled, Unblock, Resume, TaskTypeOK
  <2>5. CASE SelectElse(t)
    BY <2>3, <2>5 DEF SelectElse, Return, TaskTypeOK
  <2>6. CASE SpawnCreate(t)
    BY <2>3, <2>6 DEF SpawnCreate, TaskTypeOK
  <2>7. CASE \E o \in may[t] : Call(t, o)
    <3>1. PICK o \in may[t] : Call(t, o)
      BY <2>7
    <3>2. Entry(o.fn) # "parked"
      BY Allowed DEF Typed, Op, Entry
    <3>3. QED
      BY <2>3, <3>1, <3>2 DEF Call, TaskTypeOK
  <2>8. CASE \E l \in PC \ {"parked"} : Goto(t, l)
    BY <2>3, <2>8 DEF Goto, TaskTypeOK
  <2>9. CASE Confirm(t) \/ ExitConfirm(t) \/ SelectTimeout(t) \/ SelectWait(t) \/ SelectWake(t)
    <3>1. \/ Goto(t, "panic") \/ Goto(t, "paused") \/ Goto(t, "unblock") \/ Goto(t, "ended")
          \/ Goto(t, "selParked") \/ Goto(t, "selTop")
      BY <2>9, Zenon DEF Confirm, ExitConfirm, SelectTimeout, SelectWait, SelectWake,
                  SelectLoop, DeadlockPanic
    <3>2. QED
      BY <2>8, <3>1, Zenon DEF PC, InWait
  <2>10. CASE Timeout(t) \/ Snapshot(t) \/ SpawnReap(t) \/ Exit(t) \/ (t = Main /\ (MainReap \/ MainExit))
    <3>1. \/ Goto(t, "expired") \/ Goto(t, "selExpired") \/ Goto(t, "exitCheck")
          \/ Goto(t, "poll") \/ Goto(t, "join") \/ Goto(t, "exitConfirm") \/ Goto(t, "ended")
          \/ Goto(t, "mainJoin") \/ Goto(t, "exit") \/ Goto(t, "mainReap")
      BY <2>10, Zenon DEF Timeout, Snapshot, SpawnReap, Claim, Exit, MainReap, MainExit
    <3>2. QED
      BY <2>8, <3>1, Zenon DEF PC, InWait
  <2>11. QED
    BY <1>2, <2>2, <2>4, <2>5, <2>6, <2>7, <2>9, <2>10, Zenon
       DEF OtherStep, TaskStep, Join, EndProcess, SpuriousWake, taskVars
<1>3. QED
  BY <1>1, <1>2

LEMMA InitWakeups == Init => NoLostWakeup /\ LockedToWait
BY DEF Init, NoLostWakeup, LockedToWait

LEMMA Awakened == Spec => [](Slot /\ LockedToWait /\ NoLostWakeup)
<1>1. Typed /\ Typed' /\ Slot /\ LockedToWait /\ NoLostWakeup /\ [Next]_vars =>
        LockedToWait' /\ NoLostWakeup'
  <2> SUFFICES ASSUME Typed, Typed', Slot, LockedToWait, NoLostWakeup, [Next]_vars
               PROVE  LockedToWait' /\ NoLostWakeup'
    OBVIOUS
  <2>1. CASE UNCHANGED vars
    <3>1. UNCHANGED <<pc, op, arm, cont, mu, cv, handoff, len, closed>>
      BY <2>1 DEF vars, chanVars, taskVars
    <3>2. LockedToWait'
      BY <3>1 DEF LockedToWait, WaitsIn, Ch, Readable, Offered, Available, Unbuffered
    <3>3. ASSUME NEW u \in Task, Waiting(u)' PROVE Waits(u)'
      <4>1. Waits(u) /\ pc[u] = "parked"
        BY <3>1, <3>3 DEF NoLostWakeup, Waiting, Ch
      <4>2. QED
        BY <3>1, <4>1, WaitingChan DEF Waits, Ch, Full, Readable, Offered, Available, Unbuffered
    <3>4. QED
      BY <3>2, <3>3 DEF NoLostWakeup, Waiting
  <2>2. QED
    BY <2>1, LockedStep, WakeupStep, NextCases
<1>2. Spec => []Typed
  BY InitTyped, NextTyped, PTL DEF Spec
<1>3. Spec => []Slot
  <2>1. Typed /\ Slot /\ [Next]_vars => Slot'
    BY SlotNext
  <2>2. QED
    BY <1>2, <2>1, InitSlot, PTL DEF Spec
<1>4. QED
  BY <1>1, <1>2, <1>3, InitWakeups, PTL DEF Spec

\* A task asleep in a send or a receive that no broadcast has reached has
\* nothing to be woken for: every change that lets it go on broadcasts on the
\* channel's condition variable (guji_chan_send, guji_chan_recv, their try
\* variants and guji_chan_close).
THEOREM WakeupsReach == Spec => []NoLostWakeup
BY Awakened, PTL

-----------------------------------------------------------------------------
(* The counters count what their names say: guji_live_tasks and              *)
(* guji_blocked_tasks, on which the deadlock detector and the exit of main   *)
(* rest, recv_waiters of every channel, on which select rests, and the join  *)
(* records of completed tasks.                                               *)

Bit(b) == IF b THEN 1 ELSE 0

\* A set that changes in one element at most changes its size accordingly.
LEMMA CountOne ==
  ASSUME NEW S, NEW T, NEW x, IsFiniteSet(S), T \ {x} = S \ {x}
  PROVE  /\ IsFiniteSet(T) /\ Cardinality(S) \in Nat
         /\ Cardinality(T) = Cardinality(S) + Bit(x \in T) - Bit(x \in S)
<1> DEFINE R == S \ {x}
<1>0. IsFiniteSet(R) /\ Cardinality(R) = IF x \in S THEN Cardinality(S) - 1 ELSE Cardinality(S)
  BY FS_RemoveElement
<1>2. Cardinality(R) \in Nat /\ Cardinality(S) \in Nat
  BY <1>0, FS_CardinalityType
<1>1. IsFiniteSet(R) /\ Cardinality(S) = Cardinality(R) + Bit(x \in S)
  <2> HIDE DEF R
  <2>1. QED
    BY <1>0, <1>2 DEF Bit
<1>3. x \notin R
  OBVIOUS
<1>4. IsFiniteSet(R \cup {x}) /\ Cardinality(R \cup {x}) = Cardinality(R) + 1
  BY <1>1, <1>3, FS_AddElement
<1>5. CASE x \in T
  <2>1. T = R \cup {x}
    BY <1>5
  <2>2. QED
    BY <1>1, <1>2, <1>4, <1>5, <2>1 DEF Bit
<1>6. CASE x \notin T
  <2>1. T = R
    BY <1>6
  <2>2. QED
    BY <1>1, <1>2, <1>6, <2>1 DEF Bit
<1>7. QED
  BY <1>5, <1>6

-----------------------------------------------------------------------------
(* What a step does to the task that takes it, and to the counters.         *)

InWaitLoop == {"parked", "expired", "unblock"}
Busy   == {"send", "offer", "recv", "close", "reap", "join", "selTop", "poll", "selWait"}
Exited == {"exitConfirm", "exitCheck", "ended"}
Left   == Exited \cup {"exit", "mainReap", "mainJoin"}

\* A task that runs its own code, or none, is in no operation.
Outside == \A t \in Task : pc[t] \in {"unborn", "run"} \cup Left => op[t] = Idle

Steady == UNCHANGED <<live, blocked, recvWaiters>>

Parks(t) ==
  /\ pc[t] \in {"send", "offer", "block"} /\ pc'[t] = "parked"
  /\ cont'[t] = (IF pc[t] = "block" THEN "recv" ELSE pc[t])
  /\ op' = op /\ arm' = arm
  /\ blocked' = blocked + 1 /\ UNCHANGED <<live, recvWaiters>>

Resumes(t) ==
  /\ pc[t] \in {"parked", "unblock"} /\ pc'[t] = cont[t] /\ cont'[t] = "none"
  /\ op' = op /\ arm' = arm
  /\ blocked' = blocked - 1 /\ WaiterGone(t) /\ UNCHANGED live

Arrives(t) ==
  /\ pc[t] = "recv" /\ pc'[t] = "block" /\ cont' = cont
  /\ op' = op /\ arm' = arm
  /\ recvWaiters' = [recvWaiters EXCEPT ![Ch(t)] = @ + 1] /\ UNCHANGED <<live, blocked>>

\* From one place to another that counts the same.
Moves(t) ==
  /\ \/ pc[t] \in Busy /\ pc'[t] \in Busy
     \/ pc[t] \in InWaitLoop /\ pc'[t] \in InWaitLoop \cup {"panic", "paused"}
     \/ /\ pc[t] \in {"selParked", "selExpired"}
        /\ pc'[t] \in {"selParked", "selExpired", "panic", "paused"}
     \/ pc[t] \in Exited /\ pc'[t] \in Exited \cup {"panic", "paused"}
     \/ pc[t] = "mainReap" /\ pc'[t] = "mainJoin" /\ t = Main /\ MainReap
  /\ op' = op /\ cont' = cont
  /\ pc[t] # "poll" => arm' = arm
  /\ Steady

Returns(t) == pc[t] \in Busy /\ Return(t) /\ Steady

SelectParks(t) ==
  /\ pc[t] = "selWait" /\ pc'[t] = "selParked" /\ op' = op /\ arm' = arm /\ cont' = cont
  /\ blocked' = blocked + 1 /\ UNCHANGED <<live, recvWaiters>>

SelectResumes(t) ==
  /\ pc[t] \in {"selParked", "selExpired"} /\ pc'[t] = "selTop"
  /\ op' = op /\ arm' = arm /\ cont' = cont
  /\ blocked' = blocked - 1 /\ UNCHANGED <<live, recvWaiters>>

Calls(t) ==
  /\ pc[t] = "run" /\ pc'[t] \in Busy
  /\ arm' = arm /\ cont' = cont
  /\ Steady

Leaves(t) ==
  /\ pc[t] = "run" /\ pc'[t] \in IF t = Main THEN {"exit", "mainReap"} ELSE Exited
  /\ t # Main => Exit(t)
  /\ op' = op /\ arm' = arm /\ cont' = cont
  /\ live' = live - 1 /\ UNCHANGED <<blocked, recvWaiters>>

Stays == UNCHANGED <<pc, op, arm, cont, live, blocked, recvWaiters>>

\* The forms that the steps of a task take, but for the creation of another.
Form(t) ==
  /\ Only(t)
  /\ \/ Parks(t) \/ Resumes(t) \/ Arrives(t) \/ Moves(t) \/ Returns(t)
     \/ SelectParks(t) \/ SelectResumes(t) \/ Calls(t) \/ Leaves(t) \/ Stays

LEMMA ChannelForm ==
  ASSUME Typed, NEW t \in Task, NEW c \in Chan, ChannelStep(t, c)
  PROVE  Form(t)
<1> USE DEF Typed, TypeOK, TaskTypeOK
<1>1. CASE SendWait(t, c) \/ OfferWait(t, c) \/ RecvBlock(t, c)
  <2>1. Only(t) /\ Parks(t)
    BY <1>1 DEF SendWait, OfferWait, RecvBlock, At, BlockOn, Parks, Only
  <2>2. QED
    BY <2>1 DEF Form
<1>2. CASE RecvWait(t, c)
  <2>1. Only(t) /\ Arrives(t)
    BY <1>2 DEF RecvWait, Arrive, At, Goto, Arrives, Only
  <2>2. QED
    BY <2>1 DEF Form
<1>3. CASE TrySendMiss(t, c) \/ TryRecvMiss(t, c)
  <2>1. Only(t) /\ Moves(t)
    BY <1>3 DEF TrySendMiss, TryRecvMiss, AtArm, At, Miss, NextArm, Moves, Busy, Steady, Only,
                schedVars, chanVars
  <2>2. QED
    BY <2>1 DEF Form
<1>4. CASE SendOffer(t, c) \/ TrySendOffer(t, c)
  <2>1. Only(t) /\ Moves(t)
    BY <1>4 DEF SendOffer, TrySendOffer, AtArm, At, OfferValue, Announce, Goto, Moves, Busy,
                Steady, Only
  <2>2. QED
    BY <2>1 DEF Form
<1>5. CASE \/ SendClosed(t, c) \/ SendPut(t, c) \/ OfferTaken(t, c) \/ OfferReclaim(t, c)
           \/ RecvTake(t, c) \/ RecvNone(t, c) \/ CloseOk(t, c) \/ CloseAgain(t, c)
           \/ TrySendClosed(t, c) \/ TrySendPut(t, c) \/ TryRecvTake(t, c) \/ TryRecvNone(t, c)
  <2>1. Return(t) /\ pc[t] \in Busy
    BY <1>5 DEF SendClosed, SendPut, PutValue, OfferTaken, OfferReclaim, RecvTake,
           RecvNone, TakeValue, SeeEnd, CloseOk, CloseAgain, TrySendClosed, TrySendPut,
           TryRecvTake, TryRecvNone, At, AtArm, Busy
  <2>2. Steady
    BY <1>5 DEF SendClosed, SendPut, PutValue, OfferTaken, OfferReclaim, RecvTake,
           RecvNone, TakeValue, SeeEnd, CloseOk, CloseAgain, TrySendClosed, TrySendPut,
           TryRecvTake, TryRecvNone, Announce, schedVars, chanVars, Steady
  <2>3. QED
    BY <2>1, <2>2, ReturnLeaves DEF Form, Returns
<1>6. QED
  BY <1>1, <1>2, <1>3, <1>4, <1>5 DEF ChannelStep

LEMMA OtherForm ==
  ASSUME Typed, NEW t \in Task, OtherStep(t), ~SpawnCreate(t)
  PROVE  Form(t)
<1> USE DEF Typed, TypeOK, TaskTypeOK
<1>1. CASE WakeSignaled(t) \/ Unblock(t)
  <2>1. Only(t) /\ Resumes(t)
    BY <1>1 DEF WakeSignaled, Unblock, At, Resume, Resumes, Only
  <2>2. QED
    BY <2>1 DEF Form
<1>2. CASE Confirm(t)
  <2>1. Only(t) /\ Moves(t)
    BY <1>2 DEF Confirm, At, DeadlockPanic, Goto, Moves, InWaitLoop, Steady, Only
  <2>2. QED
    BY <2>1 DEF Form
<1>3. CASE Snapshot(t) \/ SpawnReap(t)
  <2>1. Only(t) /\ Moves(t)
    BY <1>3 DEF Snapshot, SpawnReap, Claim, Goto, Moves, Busy, Steady, Only, schedVars, chanVars
  <2>2. QED
    BY <2>1 DEF Form
<1>4. CASE SelectElse(t)
  <2>1. Only(t) /\ Returns(t)
    BY <1>4, ReturnLeaves DEF SelectElse, Returns, Busy, Steady, schedVars, chanVars
  <2>2. QED
    BY <2>1 DEF Form
<1>5. CASE SelectWait(t)
  <2>1. Only(t) /\ (SelectParks(t) \/ Moves(t))
    BY <1>5 DEF SelectWait, SelectLoop, Goto, SelectParks, Moves, Busy, Steady, Only,
                SchedTypeOK, chanVars
  <2>2. QED
    BY <2>1 DEF Form
<1>6. CASE SelectWake(t) \/ (SelectTimeout(t) /\ ~Confirmed(t))
  <2>1. pc[t] \in {"selParked", "selExpired"} /\ SelectLoop(t, blocked) /\ UNCHANGED <<live, chanVars>>
    BY <1>6 DEF SelectWake, SelectTimeout
  <2>2. Only(t) /\ (SelectResumes(t) \/ Moves(t))
    BY <2>1 DEF SelectLoop, Goto, SelectResumes, Moves, Steady, Only, SchedTypeOK, chanVars
  <2>3. QED
    BY <2>2 DEF Form
<1>7. CASE SelectTimeout(t) /\ Confirmed(t)
  <2>1. Only(t) /\ Moves(t)
    BY <1>7 DEF SelectTimeout, DeadlockPanic, Goto, Moves, Steady, Only, chanVars
  <2>2. QED
    BY <2>1 DEF Form
<1>8. CASE ExitConfirm(t) \/ (t = Main /\ MainReap)
  <2>1. Only(t) /\ Moves(t)
    BY <1>8 DEF ExitConfirm, MainReap, Claim, DeadlockPanic, Goto, Moves, Left, Exited, Steady, Only,
                schedVars, chanVars
  <2>2. QED
    BY <2>1 DEF Form
<1>9. CASE Timeout(t)
  <2>1. Only(t) /\ Moves(t)
    BY <1>9 DEF Timeout, Goto, Moves, InWaitLoop, Left, Exited, Steady, Only
  <2>2. QED
    BY <2>1 DEF Form
<1>10. CASE Exit(t) \/ (t = Main /\ MainExit)
  <2>1. Only(t) /\ Leaves(t)
    BY <1>10 DEF Exit, MainExit, Goto, Leaves, Left, Exited, Only, chanVars
  <2>2. QED
    BY <2>1 DEF Form
<1>11. CASE \E o \in may[t] : Call(t, o)
  <2>1. PICK o \in may[t] : Call(t, o)
    BY <1>11
  <2>2. Entry(o.fn) \in Busy
    BY Allowed DEF Typed, Op, Entry, Busy
  <2>3. Only(t) /\ Calls(t)
    BY <2>1, <2>2 DEF Call, Calls, Steady, Only, schedVars, chanVars
  <2>4. QED
    BY <2>3 DEF Form
<1>12. CASE SpuriousWake(t) \/ (\E u \in Task : Join(t, u))
            \/ \E how \in {"exited", "panicked", "returned"} : EndProcess(t, how)
  <2>1. Only(t) /\ Stays
    BY <1>12 DEF SpuriousWake, Join, EndProcess, Stays, Only, taskVars, schedVars, chanVars
  <2>2. QED
    BY <2>1 DEF Form
<1>13. QED
  BY <1>1, <1>2, <1>3, <1>4, <1>5, <1>6, <1>7, <1>8, <1>9, <1>10, <1>11, <1>12, Zenon
     DEF OtherStep, TaskStep

-----------------------------------------------------------------------------
(* Outside is kept.                                                         *)

LEMMA OutsideForm ==
  ASSUME Typed, Outside, NEW t \in Task, Form(t)
  PROVE  Outside'
<1> USE DEF Typed, TypeOK, TaskTypeOK
<1>1. ASSUME NEW u \in Task, u # t, pc'[u] \in {"unborn", "run"} \cup Left PROVE op'[u] = Idle
  BY <1>1 DEF Form, Only, Outside
<1>2. ASSUME pc'[t] \in {"unborn", "run"} \cup Left PROVE op'[t] = Idle
  <2>1. CASE Parks(t) \/ Arrives(t) \/ SelectParks(t) \/ SelectResumes(t) \/ Calls(t)
    BY <1>2, <2>1 DEF Parks, Arrives, SelectParks, SelectResumes, Calls, Busy, Left, Exited
  <2>2. CASE Resumes(t)
    BY <1>2, <2>2 DEF Resumes, Left, Exited
  <2>3. CASE Moves(t) \/ Leaves(t) \/ Stays
    BY <1>2, <2>3 DEF Moves, Leaves, Stays, Busy, InWaitLoop, Left, Exited, Outside
  <2>4. CASE Returns(t)
    BY <2>4 DEF Returns, Return
  <2>5. QED
    BY <2>1, <2>2, <2>3, <2>4 DEF Form
<1>3. QED
  BY <1>1, <1>2 DEF Outside

\* The task that a spawn creates was waiting to be born, in no operation.
LEMMA SpawnForm ==
  ASSUME Typed, Outside, NEW t \in Task, SpawnCreate(t)
  PROVE  \E s \in Task \ {t} :
           /\ pc[s] = "unborn" /\ op[s] = Idle /\ pc'[s] = "run" /\ s # Main
           /\ pc[t] = "join" /\ op[t].fn = "spawn" /\ pc'[t] = "run" /\ op'[t] = Idle
           /\ op[t] # Idle
           /\ \A u \in Task \ {s, t} : pc'[u] = pc[u]
           /\ \A u \in Task \ {t} : op'[u] = op[u]
           /\ UNCHANGED <<arm, cont, recvWaiters, blocked, completed, claimed, joined, process>>
           /\ live' = live + 1
<1> USE DEF Typed, TypeOK, TaskTypeOK
<1>1. PICK s \in Task : s = op[t].task
  BY DEF Op
<1>2. /\ s # t /\ pc[s] = "unborn" /\ pc[t] = "join" /\ s # Main /\ op[t].fn = "spawn"
      /\ op[t] # Idle
  BY <1>1, IdleOp DEF SpawnCreate, Control, ControlOf
<1>3. /\ pc' = [pc EXCEPT ![t] = "run", ![s] = "run"] /\ op' = [op EXCEPT ![t] = Idle]
      /\ live' = live + 1
      /\ UNCHANGED <<arm, cont, recvWaiters, blocked, completed, claimed, joined, process>>
  BY <1>1 DEF SpawnCreate, Born, chanVars, lifeVars
<1>4. op[s] = Idle
  BY <1>2 DEF Outside
<1>5. WITNESS s \in Task \ {t}
<1>6. QED
  BY <1>2, <1>3, <1>4

LEMMA OutsideStep ==
  ASSUME Typed, Outside, NEW t \in Task, OtherStep(t) \/ \E c \in Chan : ChannelStep(t, c)
  PROVE  Outside'
<1>1. CASE SpawnCreate(t)
  <2>1. PICK s \in Task \ {t} :
           /\ op[s] = Idle /\ op'[t] = Idle
           /\ \A u \in Task \ {s, t} : pc'[u] = pc[u]
           /\ \A u \in Task \ {t} : op'[u] = op[u]
    BY <1>1, SpawnForm
  <2>2. QED
    BY <2>1 DEF Outside
<1>2. CASE ~SpawnCreate(t)
  BY <1>2, ChannelForm, OtherForm, OutsideForm
<1>3. QED
  BY <1>1, <1>2

-----------------------------------------------------------------------------
(* guji_live_tasks and guji_blocked_tasks.                                  *)

\* Adds up the bits of the only task whose place changes.
LEMMA CountersMoved ==
  ASSUME Typed, Accounting, NEW x \in Task,
         \A u \in Task \ {x} : pc'[u] = pc[u] /\ op'[u] = op[u],
         live' = live + Bit(x \in Live') - Bit(x \in Live),
         blocked' = blocked + Bit(x \in Blocked') - Bit(x \in Blocked)
  PROVE  Accounting'
<1>1. IsFiniteSet(Live) /\ IsFiniteSet(Blocked)
  BY SchedAssumption, FS_Subset DEF Live, Blocked
<1>2. Live' \ {x} = Live \ {x}
  BY DEF Live, Panicked
<1>3. Blocked' \ {x} = Blocked \ {x}
  BY DEF Blocked, Panicked
<1>4. Cardinality(Live') = Cardinality(Live) + Bit(x \in Live') - Bit(x \in Live)
  BY <1>1, <1>2, CountOne
<1>5. Cardinality(Blocked') = Cardinality(Blocked) + Bit(x \in Blocked') - Bit(x \in Blocked)
  BY <1>1, <1>3, CountOne
<1>6. QED
  BY <1>4, <1>5 DEF Accounting

LEMMA CountersStep ==
  ASSUME Typed, Outside, Accounting, NEW t \in Task,
         OtherStep(t) \/ \E c \in Chan : ChannelStep(t, c)
  PROVE  Accounting'
<1> USE DEF Typed, TypeOK, TaskTypeOK
<1>1. CASE SpawnCreate(t)
  <2>1. PICK s \in Task \ {t} :
           /\ pc[s] = "unborn" /\ pc'[s] = "run" /\ pc[t] = "join" /\ pc'[t] = "run"
           /\ \A u \in Task \ {s, t} : pc'[u] = pc[u]
           /\ \A u \in Task \ {t} : op'[u] = op[u]
           /\ live' = live + 1 /\ blocked' = blocked
    BY <1>1, SpawnForm
  <2>2. /\ Live' \ {s} = Live \ {s} /\ s \in Live' /\ s \notin Live
        /\ Blocked' = Blocked
    BY <2>1 DEF Live, Blocked, Panicked, InWait
  <2>3. IsFiniteSet(Live)
    BY SchedAssumption, FS_Subset DEF Live
  <2>4. Cardinality(Live') = Cardinality(Live) + 1 /\ Cardinality(Live) \in Nat
    BY <2>2, <2>3, CountOne DEF Bit
  <2>5. QED
    BY <2>1, <2>2, <2>4 DEF Accounting
<1>2. CASE ~SpawnCreate(t)
  <2>1. Form(t)
    BY <1>2, ChannelForm, OtherForm
  <2>2. ControlOf(t)
    BY DEF Control
  <2>3. live \in Int /\ blocked \in Int
    BY DEF SchedTypeOK
  <2>4. /\ live' = live + Bit(t \in Live') - Bit(t \in Live)
        /\ blocked' = blocked + Bit(t \in Blocked') - Bit(t \in Blocked)
    <3> USE <2>2, <2>3, IdleOp DEF Live, Blocked, Panicked, Bit, InWait, Steady
    <3>1. CASE Parks(t)
      BY <3>1 DEF Parks
    <3>2. CASE Resumes(t)
      BY <3>2 DEF Resumes, ControlOf
    <3>3. CASE Arrives(t) \/ SelectParks(t) \/ SelectResumes(t)
      BY <3>3 DEF Arrives, SelectParks, SelectResumes
    <3>4. CASE Moves(t)
      <4>1. pc[t] \in InWaitLoop \cup {"selParked", "selExpired"} => op[t] # Idle
        BY DEF InWaitLoop, ControlOf, Select, Sends
      <4>2. pc[t] \in Left => op[t] = Idle
        BY DEF Outside
      <4>3. QED
        BY <3>4, <4>1, <4>2 DEF Moves, Busy, InWaitLoop, Left, Exited
    <3>5. CASE Returns(t)
      BY <3>5 DEF Returns, Return, Busy
    <3>6. CASE Calls(t)
      BY <3>6 DEF Calls, Busy
    <3>7. CASE Leaves(t)
      <4>1. pc'[t] \in Left /\ pc[t] = "run" /\ live' = live - 1 /\ blocked' = blocked
        BY <3>7 DEF Leaves, Left, Exited
      <4>2. QED
        BY <4>1 DEF Left, Exited
    <3>8. CASE Stays
      BY <3>8 DEF Stays
    <3>9. QED
      BY <2>1, <3>1, <3>2, <3>3, <3>4, <3>5, <3>6, <3>7, <3>8 DEF Form
  <2>5. \A u \in Task \ {t} : pc'[u] = pc[u] /\ op'[u] = op[u]
    BY <2>1 DEF Form, Only
  <2>6. QED
    BY <2>4, <2>5, CountersMoved
<1>3. QED
  BY <1>1, <1>2

LEMMA InitCounted == Init => Outside /\ Accounting
<1> SUFFICES ASSUME Init PROVE Outside /\ Accounting
  OBVIOUS
<1>1. PICK p \in Programs :
        /\ SchedInit(p.start)
        /\ pc = [t \in Task |-> IF t \in p.start THEN "run" ELSE "unborn"]
  BY DEF Init
<1>2. p.start \subseteq Task
  BY ProgramAssumption
<1>3. op = [t \in Task |-> Idle]
  BY DEF Init
<1>4. Live = p.start /\ Blocked = {}
  BY <1>1, <1>2, <1>3 DEF Live, Blocked, Panicked, InWait
<1>5. Accounting
  BY <1>1, <1>4, FS_EmptySet DEF SchedInit, Accounting
<1>6. QED
  BY <1>3, <1>5 DEF Outside

LEMMA NextCounted == Typed /\ Outside /\ Accounting /\ [Next]_vars => Outside' /\ Accounting'
<1> SUFFICES ASSUME Typed, Outside, Accounting, [Next]_vars PROVE Outside' /\ Accounting'
  OBVIOUS
<1>1. CASE UNCHANGED vars
  <2>1. UNCHANGED <<pc, op, live, blocked>>
    BY <1>1 DEF vars, schedVars, taskVars
  <2>2. Live' = Live /\ Blocked' = Blocked
    BY <2>1 DEF Live, Blocked, Panicked
  <2>3. QED
    BY <2>1, <2>2 DEF Outside, Accounting
<1>2. QED
  BY <1>1, OutsideStep, CountersStep, NextCases

LEMMA Counted == Spec => [](Typed /\ Outside /\ Accounting)
BY InitTyped, NextTyped, InitCounted, NextCounted, PTL DEF Spec

\* guji_live_tasks counts the tasks that have started and not finished, and
\* guji_blocked_tasks those of them that are inside a wait, at every moment at
\* which guji_sched_mu is free: the counters that every deadlock verdict, and
\* the choice of main between _exit and a normal return, compare.
THEOREM CountersRight == Spec => []Accounting
BY Counted, PTL

-----------------------------------------------------------------------------
(* recv_waiters.                                                            *)

\* The channel of an operation with arms.
LEMMA ChanOf ==
  ASSUME Typed, NEW t \in Task, op[t].fn # "spawn"
  PROVE  Ch(t) \in Chan
<1>1. op[t].arms \in Seq(Arm) /\ arm[t] \in DOMAIN op[t].arms
  BY DEF Typed, TypeOK, TaskTypeOK, Control, ControlOf, Op
<1>2. op[t].arms[arm[t]] \in Arm
  BY <1>1
<1>3. QED
  BY <1>2 DEF Arm, Ch

\* Receivers(c) gains or loses t, and recv_waiters of c is adapted.
LEMMA WaitersMoved ==
  ASSUME WaitersCounted, NEW t \in Task, Only(t),
         \A c \in Chan : recvWaiters'[c] =
            recvWaiters[c] + Bit(t \in Receivers(c)') - Bit(t \in Receivers(c))
  PROVE  WaitersCounted'
<1> SUFFICES ASSUME NEW c \in Chan PROVE recvWaiters'[c] = Cardinality(Receivers(c)')
  BY DEF WaitersCounted
<1>1. IsFiniteSet(Receivers(c))
  BY SchedAssumption, FS_Subset DEF Receivers
<1>2. Receivers(c)' \ {t} = Receivers(c) \ {t}
  BY DEF Only, Receivers, Panicked, Ch
<1>3. Cardinality(Receivers(c)') =
        Cardinality(Receivers(c)) + Bit(t \in Receivers(c)') - Bit(t \in Receivers(c))
  BY <1>1, <1>2, CountOne
<1>4. QED
  BY <1>3 DEF WaitersCounted

LEMMA WaitersStep ==
  ASSUME Typed, Outside, WaitersCounted, NEW t \in Task,
         OtherStep(t) \/ \E c \in Chan : ChannelStep(t, c)
  PROVE  WaitersCounted'
<1> USE DEF Typed, TypeOK, TaskTypeOK
<1>1. CASE SpawnCreate(t)
  <2>1. PICK s \in Task \ {t} :
           /\ op[s] = Idle /\ op[t].fn = "spawn" /\ op'[t] = Idle
           /\ \A u \in Task \ {s, t} : pc'[u] = pc[u]
           /\ \A u \in Task \ {t} : op'[u] = op[u]
           /\ UNCHANGED <<arm, recvWaiters>>
    BY <1>1, SpawnForm
  <2>2. ASSUME NEW c \in Chan PROVE Receivers(c)' = Receivers(c)
    BY <2>1, IdleOp DEF Receivers, Panicked, Ch
  <2>3. QED
    BY <2>1, <2>2 DEF WaitersCounted
<1>2. CASE ~SpawnCreate(t)
  <2>1. Form(t)
    BY <1>2, ChannelForm, OtherForm
  <2>2. ControlOf(t) /\ recvWaiters \in [Chan -> Int] /\ (op[t].fn # "spawn" => Ch(t) \in Chan)
    BY ChanOf DEF Control, ChanTypeOK
  <2>3. ASSUME NEW c \in Chan
        PROVE  recvWaiters'[c] =
                 recvWaiters[c] + Bit(t \in Receivers(c)') - Bit(t \in Receivers(c))
    <3>0. recvWaiters[c] \in Int
      BY <2>2
    <3> USE <3>0 DEF Receivers, Panicked, Ch, Bit, InWait, Steady
    <3>1. CASE Parks(t)
      BY <2>2, <3>1 DEF Parks, ControlOf, Sends
    <3>2. CASE Resumes(t)
      <4>1. CASE cont[t] = "recv"
        <5>1. op[t].fn = "recv" /\ recvWaiters' = [recvWaiters EXCEPT ![Ch(t)] = @ - 1]
          BY <2>2, <3>2, <4>1 DEF ControlOf, Resumes, WaiterGone
        <5>2. recvWaiters'[c] = IF c = Ch(t) THEN recvWaiters[c] - 1 ELSE recvWaiters[c]
          BY <2>2, <5>1
        <5>3. QED
          BY <3>2, <4>1, <5>1, <5>2 DEF Resumes
      <4>2. CASE cont[t] # "recv"
        <5>1. op[t].fn # "recv" /\ recvWaiters' = recvWaiters
          BY <2>2, <3>2, <4>2 DEF ControlOf, Resumes, WaiterGone, Sends
        <5>2. QED
          BY <3>2, <5>1 DEF Resumes
      <4>3. QED
        BY <4>1, <4>2
    <3>3. CASE Arrives(t)
      <4>1. op[t].fn = "recv" /\ recvWaiters' = [recvWaiters EXCEPT ![Ch(t)] = @ + 1]
        BY <2>2, <3>3 DEF ControlOf, Arrives
      <4>2. recvWaiters'[c] = IF c = Ch(t) THEN recvWaiters[c] + 1 ELSE recvWaiters[c]
        BY <2>2, <4>1
      <4>3. QED
        BY <3>3, <4>1, <4>2 DEF Arrives
    <3>4. CASE SelectParks(t) \/ SelectResumes(t)
      BY <2>2, <3>4 DEF SelectParks, SelectResumes, ControlOf, Select
    <3>5. CASE Moves(t)
      <4>1. pc[t] \in {"selParked", "selExpired", "poll"} => op[t].fn # "recv"
        BY <2>2 DEF ControlOf, Select
      <4>2. pc[t] \in Left => op[t].fn # "recv"
        BY IdleOp DEF Outside
      <4>3. QED
        BY <3>5, <4>1, <4>2 DEF Moves, Busy, InWaitLoop, Left, Exited
    <3>6. CASE Returns(t)
      BY <3>6, IdleOp DEF Returns, Return, Busy
    <3>7. CASE Calls(t)
      <4>1. op[t].fn # "recv" /\ pc'[t] \notin InWait
        BY <3>7, IdleOp DEF Calls, Outside, Busy
      <4>2. QED
        BY <3>7, <4>1 DEF Calls, Busy
    <3>8. CASE Leaves(t)
      BY <3>8 DEF Leaves, Left, Exited
    <3>9. CASE Stays
      BY <3>9 DEF Stays
    <3>10. QED
      BY <2>1, <3>1, <3>2, <3>3, <3>4, <3>5, <3>6, <3>7, <3>8, <3>9 DEF Form
  <2>4. QED
    BY <2>1, <2>3, WaitersMoved DEF Form
<1>3. QED
  BY <1>1, <1>2

\* recv_waiters of a channel is the number of receives that wait on it, so a
\* select that commits itself to a send because the count is not zero
\* (guji_chan_try_send) has a receive to commit itself to.
THEOREM WaitersRight == Spec => []WaitersCounted
<1>1. Init => WaitersCounted
  <2> SUFFICES ASSUME Init, NEW c \in Chan PROVE recvWaiters[c] = Cardinality(Receivers(c))
    BY DEF WaitersCounted
  <2>1. recvWaiters[c] = 0 /\ Receivers(c) = {}
    BY IdleOp DEF Init, ChanInit, Receivers
  <2>2. QED
    BY <2>1, FS_EmptySet
<1>2. Typed /\ Outside /\ WaitersCounted /\ [Next]_vars => WaitersCounted'
  <2> SUFFICES ASSUME Typed, Outside, WaitersCounted, [Next]_vars PROVE WaitersCounted'
    OBVIOUS
  <2>1. CASE UNCHANGED vars
    <3>1. UNCHANGED <<pc, op, arm, recvWaiters>>
      BY <2>1 DEF vars, chanVars, taskVars
    <3>2. ASSUME NEW c \in Chan PROVE Receivers(c)' = Receivers(c)
      BY <3>1 DEF Receivers, Panicked, Ch
    <3>3. QED
      BY <3>1, <3>2 DEF WaitersCounted
  <2>2. QED
    BY <2>1, WaitersStep, NextCases
<1>3. QED
  BY <1>1, <1>2, Counted, PTL DEF Spec

-----------------------------------------------------------------------------
(* Join records.                                                            *)

\* u's function has returned, and u has pushed its record.
Finished(u) ==
  /\ u # Main
  /\ pc[u] \in Exited \/ (Panicked(u) /\ op[u] = Idle)

Recorded(u) == u \in completed \cup joined \/ \E t \in Task : u \in claimed[t]

OneRecord ==
  /\ \A t \in Task : claimed[t] \cap (completed \cup joined) = {}
  /\ \A t, u \in Task : t # u => claimed[t] \cap claimed[u] = {}
  /\ completed \cap joined = {}

\* A task has a record exactly if it has finished; only a task that reaps has
\* records to join; and when main reaps, nobody is left to push another.
Records ==
  /\ OneRecord
  /\ \A u \in Task : Recorded(u) <=> Finished(u)
  /\ \A t \in Task : claimed[t] # {} => pc[t] \in {"join", "mainJoin"}
  /\ \A t \in Task : pc[t] \in {"exit", "mainReap", "mainJoin"} => t = Main
  /\ pc[Main] \in {"mainReap", "mainJoin"} => Live = {}
  /\ pc[Main] = "mainJoin" => completed = {}
  /\ process = "returned" => joined = {t \in Task \ {Main} : pc[t] # "unborn"}

\* The steps of a running process.
LEMMA NextUp ==
  ASSUME [Next]_vars
  PROVE  \/ UNCHANGED vars
         \/ /\ process = "up"
            /\ \E t \in Task : OtherStep(t) \/ \E c \in Chan : ChannelStep(t, c)
BY DEF Next, Runtime, RuntimeStep, Elapse, Environment, ProgramStep, Gone, OtherStep

\* Nobody is left, so nobody comes back.
LEMMA NobodyStays ==
  ASSUME Typed, Outside, Live = {}, NEW t \in Task,
         OtherStep(t) \/ \E c \in Chan : ChannelStep(t, c)
  PROVE  Live' = {}
<1> USE DEF Typed, TypeOK, TaskTypeOK
<1>1. pc[t] \in {"unborn"} \cup Left \/ (Panicked(t) /\ op[t] = Idle)
  BY DEF Live, Left, Exited, Panicked
<1>2. ~SpawnCreate(t)
  BY <1>1 DEF SpawnCreate, Left, Exited, Panicked
<1>3. Form(t)
  BY <1>2, ChannelForm, OtherForm
<1>4. Moves(t) \/ Stays
  BY <1>1, <1>3 DEF Form, Parks, Resumes, Arrives, Returns, SelectParks, SelectResumes, Calls,
                    Leaves, Busy, Left, Exited, Panicked
<1>5. t \notin Live'
  <2>1. CASE Stays
    BY <2>1 DEF Stays, Live, Panicked
  <2>2. CASE Moves(t)
    <3>1. pc[t] \in Left /\ op[t] = Idle /\ pc'[t] \in Left \cup {"panic", "paused"} /\ op' = op
      BY <1>1, <2>2 DEF Moves, Busy, InWaitLoop, Left, Exited, Panicked, Outside
    <3>2. QED
      BY <3>1 DEF Live, Panicked, Left, Exited
  <2>3. QED
    BY <1>4, <2>1, <2>2
<1>6. \A u \in Task \ {t} : u \notin Live'
  BY <1>3 DEF Form, Only, Live, Panicked
<1>7. QED
  BY <1>5, <1>6 DEF Live

\* A task pushes its record when its function returns, and never takes
\* another step that would make it unfinished.
LEMMA FinishedKept ==
  ASSUME Typed, Outside, NEW t \in Task, OtherStep(t) \/ \E c \in Chan : ChannelStep(t, c)
  PROVE  /\ \A u \in Task \ {t} : Finished(u)' <=> Finished(u)
         /\ ~Exit(t) => (Finished(t)' <=> Finished(t))
<1> USE DEF Typed, TypeOK, TaskTypeOK
<1>1. CASE SpawnCreate(t)
  <2>1. PICK s \in Task \ {t} :
           /\ pc[s] = "unborn" /\ pc'[s] = "run" /\ pc[t] = "join" /\ pc'[t] = "run"
           /\ \A u \in Task \ {s, t} : pc'[u] = pc[u]
           /\ \A u \in Task \ {t} : op'[u] = op[u]
    BY <1>1, SpawnForm
  <2>2. QED
    BY <2>1 DEF Finished, Panicked, Exited
<1>2. CASE ~SpawnCreate(t)
  <2>1. Form(t)
    BY <1>2, ChannelForm, OtherForm
  <2>2. \A u \in Task \ {t} : Finished(u)' <=> Finished(u)
    BY <2>1 DEF Form, Only, Finished, Panicked
  <2>3. ASSUME ~Exit(t) PROVE Finished(t)' <=> Finished(t)
    <3> USE DEF Finished, Panicked, Exited
    <3>1. CASE Parks(t) \/ Arrives(t) \/ SelectParks(t) \/ SelectResumes(t) \/ Calls(t)
      BY <3>1 DEF Parks, Arrives, SelectParks, SelectResumes, Calls, Busy
    <3>2. CASE Resumes(t)
      BY <3>2 DEF Resumes, Control, ControlOf
    <3>3. CASE Returns(t)
      BY <3>3 DEF Returns, Return, Busy
    <3>4. CASE Stays
      BY <3>4 DEF Stays
    <3>5. CASE Leaves(t)
      BY <2>3, <3>5 DEF Leaves
    <3>6. CASE Moves(t)
      <4>1. pc[t] \in InWaitLoop \cup {"selParked", "selExpired"} => op[t] # Idle
        BY IdleOp DEF InWaitLoop, Control, ControlOf, Select, Sends
      <4>2. pc[t] \in Left => op[t] = Idle
        BY DEF Outside
      <4>3. QED
        BY <3>6, <4>1, <4>2 DEF Moves, Busy, InWaitLoop, Left, Exited
    <3>7. QED
      BY <2>1, <3>1, <3>2, <3>3, <3>4, <3>5, <3>6 DEF Form
  <2>4. QED
    BY <2>2, <2>3
<1>3. QED
  BY <1>1, <1>2

LEMMA JoinStays ==
  ASSUME Typed, NEW t \in Task, pc[t] \in {"join", "mainJoin"}, ~SpawnCreate(t),
         OtherStep(t) \/ \E c \in Chan : ChannelStep(t, c)
  PROVE  pc' = pc
<1>1. ASSUME NEW c \in Chan PROVE ~ChannelStep(t, c)
  BY DEF ChannelStep, SendWait, SendClosed, SendOffer, SendPut, OfferWait, OfferTaken,
         OfferReclaim, RecvTake, RecvNone, RecvWait, RecvBlock, CloseOk, CloseAgain,
         TrySendClosed, TrySendMiss, TrySendOffer, TrySendPut, TryRecvTake, TryRecvNone,
         TryRecvMiss, At, AtArm
<1>2. \/ SpuriousWake(t) \/ (\E u \in Task : Join(t, u))
      \/ \E how \in {"exited", "panicked", "returned"} : EndProcess(t, how)
  BY <1>1 DEF OtherStep, TaskStep, WakeSignaled, Unblock, Confirm, Snapshot, SelectElse,
     SelectWait, SelectWake, SelectTimeout, SpawnReap, ExitConfirm, Timeout, Exit, Call,
     MainReap, MainExit, At
<1>3. QED
  BY <1>2 DEF SpuriousWake, Join, EndProcess, taskVars

\* Which steps touch the records.
LEMMA RecordSteps ==
  ASSUME NEW t \in Task, OtherStep(t) \/ \E c \in Chan : ChannelStep(t, c)
  PROVE  \/ Exit(t) \/ SpawnReap(t) \/ (t = Main /\ MainReap) \/ \E u \in Task : Join(t, u)
         \/ EndProcess(t, "returned")
         \/ UNCHANGED <<completed, claimed, joined>> /\ (process' = process \/ process' # "returned")
<1> USE DEF lifeVars
<1>1. ASSUME NEW c \in Chan, ChannelStep(t, c) PROVE UNCHANGED lifeVars
  BY <1>1 DEF ChannelStep, SendWait, OfferWait, RecvBlock, BlockOn, SendClosed, RecvNone,
              SeeEnd, CloseAgain, TrySendClosed, TrySendMiss, TryRecvNone, TryRecvMiss, Miss,
              RecvWait, CloseOk, SendOffer, SendPut, RecvTake, TrySendOffer, TrySendPut,
              TryRecvTake, OfferValue, PutValue, TakeValue, OfferTaken, OfferReclaim
<1>2. CASE OtherStep(t)
  BY <1>2 DEF OtherStep, TaskStep, WakeSignaled, Unblock, Resume, Confirm, Snapshot, SelectElse,
     SelectWait, SelectWake, SelectTimeout, SpawnCreate, ExitConfirm, Timeout, EndProcess,
     SpuriousWake, MainExit, Call
<1>3. QED
  BY <1>1, <1>2

\* The records themselves.
LEMMA RecordsMoved ==
  ASSUME Typed, Outside, Records, NEW t \in Task,
         OtherStep(t) \/ \E c \in Chan : ChannelStep(t, c)
  PROVE  /\ OneRecord'
         /\ \A u \in Task : Recorded(u)' <=> Finished(u)'
         /\ \A u \in Task \ {t} : claimed'[u] = claimed[u]
         /\ claimed'[t] # {} => pc'[t] \in {"join", "mainJoin"}
<1> USE DEF Typed, TypeOK, TaskTypeOK, LifeTypeOK
<1>0. /\ \A u \in Task \ {t} : Finished(u)' <=> Finished(u)
      /\ ~Exit(t) => (Finished(t)' <=> Finished(t))
  BY FinishedKept
<1>1. CASE Exit(t)
  <2>1. /\ completed' = completed \cup {t} /\ UNCHANGED <<claimed, joined>>
        /\ t # Main /\ pc[t] = "run" /\ pc'[t] \in Exited
    BY <1>1 DEF Exit, Goto, Exited
  <2>2. ~Finished(t) /\ Finished(t)'
    BY <2>1 DEF Finished, Panicked, Exited
  <2>3. ~Recorded(t) /\ \A u \in Task : t \notin claimed[u]
    BY <2>2 DEF Records, Recorded
  <2>4. \A u \in Task : Recorded(u)' <=> (Recorded(u) \/ u = t)
    BY <2>1 DEF Recorded
  <2>5. OneRecord'
    BY <2>1, <2>3 DEF Records, OneRecord, Recorded
  <2>6. claimed[t] = {}
    BY <2>1 DEF Records
  <2>7. QED
    BY <1>0, <2>1, <2>2, <2>4, <2>5, <2>6 DEF Records
<1>2. CASE SpawnReap(t) \/ (t = Main /\ MainReap)
  <2>1. /\ claimed' = [claimed EXCEPT ![t] = completed] /\ completed' = {} /\ joined' = joined
        /\ pc[t] \in {"reap", "mainReap"} /\ pc'[t] \in {"join", "mainJoin"} /\ ~Exit(t)
    BY <1>2 DEF SpawnReap, MainReap, Claim, Goto, Exit
  <2>2. claimed[t] = {}
    BY <2>1 DEF Records
  <2>3. \A u \in Task : Recorded(u)' <=> Recorded(u)
    <3>1. ASSUME NEW u \in Task, Recorded(u) PROVE Recorded(u)'
      <4>1. CASE u \in completed
        BY <2>1, <4>1 DEF Recorded
      <4>2. CASE u \in joined
        BY <2>1, <4>2 DEF Recorded
      <4>3. CASE \E v \in Task : u \in claimed[v]
        BY <2>1, <2>2, <4>3 DEF Recorded
      <4>4. QED
        BY <3>1, <4>1, <4>2, <4>3 DEF Recorded
    <3>2. ASSUME NEW u \in Task, Recorded(u)' PROVE Recorded(u)
      BY <2>1, <3>2 DEF Recorded
    <3>3. QED
      BY <3>1, <3>2
  <2>4. OneRecord'
    BY <2>1 DEF Records, OneRecord
  <2>5. QED
    BY <1>0, <2>1, <2>3, <2>4 DEF Records
<1>3. ASSUME NEW u \in Task, Join(t, u) PROVE
         /\ OneRecord'
         /\ \A v \in Task : Recorded(v)' <=> Finished(v)'
         /\ \A v \in Task \ {t} : claimed'[v] = claimed[v]
         /\ claimed'[t] # {} => pc'[t] \in {"join", "mainJoin"}
  <2>1. /\ u \in claimed[t] /\ claimed' = [claimed EXCEPT ![t] = @ \ {u}]
        /\ joined' = joined \cup {u} /\ completed' = completed /\ pc' = pc /\ op' = op
        /\ pc[t] \in {"join", "mainJoin"}
    BY <1>3 DEF Join, taskVars
  <2>2. \A v \in Task : Recorded(v)' <=> Recorded(v)
    <3>1. ASSUME NEW v \in Task, Recorded(v) PROVE Recorded(v)'
      BY <2>1, <3>1 DEF Recorded
    <3>2. ASSUME NEW v \in Task, Recorded(v)' PROVE Recorded(v)
      BY <2>1, <3>2 DEF Recorded
    <3>3. QED
      BY <3>1, <3>2
  <2>3. OneRecord'
    BY <2>1 DEF Records, OneRecord
  <2>4. \A v \in Task : Finished(v)' <=> Finished(v)
    BY <2>1 DEF Finished, Panicked
  <2>5. QED
    BY <2>1, <2>2, <2>3, <2>4 DEF Records
<1>4. CASE UNCHANGED <<completed, claimed, joined>> /\ ~Exit(t)
  <2>1. OneRecord' /\ \A u \in Task : Recorded(u)' <=> Recorded(u)
    BY <1>4 DEF Records, OneRecord, Recorded
  <2>2. claimed'[t] # {} => pc'[t] \in {"join", "mainJoin"}
    <3>1. CASE SpawnCreate(t)
      BY <1>4, <3>1 DEF SpawnCreate
    <3>2. CASE ~SpawnCreate(t)
      BY <1>4, <3>2, JoinStays DEF Records
    <3>3. QED
      BY <3>1, <3>2
  <2>3. QED
    BY <1>0, <1>4, <2>1, <2>2 DEF Records
<1>5. CASE EndProcess(t, "returned")
  BY <1>4, <1>5 DEF EndProcess, Exit
<1>6. QED
  BY <1>1, <1>2, <1>3, <1>4, <1>5, RecordSteps

\* main leaves its code only by returning.
LEMMA MainLeaves ==
  ASSUME pc[Main] = "run", pc'[Main] = "mainReap", Main \in Task, Typed,
         OtherStep(Main) \/ \E c \in Chan : ChannelStep(Main, c)
  PROVE  MainExit
<1> USE DEF Typed, TypeOK, TaskTypeOK
<1>1. ASSUME NEW c \in Chan PROVE ~ChannelStep(Main, c)
  BY DEF ChannelStep, SendWait, SendClosed, SendOffer, SendPut, OfferWait, OfferTaken,
         OfferReclaim, RecvTake, RecvNone, RecvWait, RecvBlock, CloseOk, CloseAgain,
         TrySendClosed, TrySendMiss, TrySendOffer, TrySendPut, TryRecvTake, TryRecvNone,
         TryRecvMiss, At, AtArm
<1>2. ASSUME NEW o \in may[Main] PROVE ~Call(Main, o)
  <2>1. Entry(o.fn) # "mainReap"
    BY Allowed DEF Op, Entry
  <2>2. QED
    BY <2>1 DEF Call
<1>3. QED
  BY <1>1, <1>2 DEF OtherStep, TaskStep, WakeSignaled, Unblock, Confirm, Snapshot, SelectElse,
     SelectWait, SelectWake, SelectTimeout, SpawnReap, SpawnCreate, ExitConfirm, Timeout, Exit,
     MainReap, SpuriousWake, Join, EndProcess, taskVars, At

\* main reaps only when nobody else is left, and then claims every record.
LEMMA MainLast ==
  ASSUME Typed, Typed', Outside, Accounting, Accounting', Records, NEW t \in Task,
         OtherStep(t) \/ \E c \in Chan : ChannelStep(t, c)
  PROVE  /\ \A u \in Task : pc'[u] \in {"exit", "mainReap", "mainJoin"} => u = Main
         /\ pc'[Main] \in {"mainReap", "mainJoin"} => Live' = {}
         /\ pc'[Main] = "mainJoin" => completed' = {}
<1> USE DEF Typed, TypeOK, TaskTypeOK
<1>0. Main \in Task
  BY SchedAssumption
<1>1. CASE SpawnCreate(t)
  <2>1. PICK s \in Task \ {t} :
           /\ pc[s] = "unborn" /\ pc'[s] = "run" /\ pc[t] = "join" /\ pc'[t] = "run"
           /\ \A u \in Task \ {s, t} : pc'[u] = pc[u]
           /\ UNCHANGED completed
    BY <1>1, SpawnForm
  <2>2. t \in Live
    BY <2>1 DEF Live, Panicked
  <2>3. pc[Main] \notin {"mainReap", "mainJoin"}
    BY <2>2 DEF Records
  <2>4. QED
    BY <1>0, <2>1, <2>3 DEF Records
<1>2. CASE ~SpawnCreate(t)
  <2>1. Form(t)
    BY <1>2, ChannelForm, OtherForm
  <2>2. pc'[t] \in {"exit", "mainReap", "mainJoin"} /\ pc'[t] # pc[t] =>
          t = Main /\ (Leaves(t) \/ MainReap)
    <3>1. CASE Resumes(t)
      BY <3>1 DEF Resumes
    <3>2. CASE \/ Parks(t) \/ Arrives(t) \/ SelectParks(t) \/ SelectResumes(t) \/ Calls(t)
               \/ Moves(t) \/ Stays \/ Leaves(t)
      BY <3>2 DEF Parks, Arrives, SelectParks, SelectResumes, Calls, Moves, Stays, Leaves, Busy,
                  InWaitLoop, Exited
    <3>3. CASE Returns(t)
      BY <3>3 DEF Returns, Return
    <3>4. QED
      BY <2>1, <3>1, <3>2, <3>3 DEF Form
  <2>3. \A u \in Task \ {t} : pc'[u] = pc[u]
    BY <2>1 DEF Form, Only
  <2>4. \A u \in Task : pc'[u] \in {"exit", "mainReap", "mainJoin"} => u = Main
    BY <2>2, <2>3 DEF Records
  <2>5. ASSUME pc'[Main] \in {"mainReap", "mainJoin"}
        PROVE  Live' = {} /\ (pc'[Main] = "mainJoin" => completed' = {})
    <3>1. CASE pc[Main] \in {"mainReap", "mainJoin"}
      <4>1. Live = {}
        BY <3>1 DEF Records
      <4>2. ~Exit(t) /\ ~SpawnReap(t)
        BY <4>1 DEF Exit, SpawnReap, Live, Panicked
      <4>3. pc'[Main] = "mainJoin" => completed' = {}
        <5>1. CASE t = Main /\ MainReap
          BY <5>1 DEF MainReap, Claim
        <5>2. CASE ~(t = Main /\ MainReap)
          <6>1. pc'[Main] = "mainJoin" => pc[Main] = "mainJoin"
            BY <1>0, <2>2, <2>3, <3>1, <5>2 DEF Leaves
          <6>2. completed' = completed
            BY <4>2, <5>2, RecordSteps DEF Join, EndProcess
          <6>3. QED
            BY <6>1, <6>2 DEF Records
        <5>3. QED
          BY <5>1, <5>2
      <4>4. QED
        BY <4>1, <4>3, NobodyStays
    <3>2. CASE pc[Main] \notin {"mainReap", "mainJoin"}
      <4>1. t = Main /\ (Leaves(t) \/ MainReap)
        BY <1>0, <2>2, <2>3, <2>5, <3>2
      <4>2. pc[Main] = "run" /\ Leaves(Main)
        BY <3>2, <4>1 DEF MainReap, Leaves
      <4>3. MainExit
        BY <1>0, <2>5, <4>1, <4>2, MainLeaves DEF Leaves
      <4>4. pc'[Main] = "mainReap" /\ ~(live - 1 > 0) /\ live' = live - 1
        BY <1>0, <2>5, <4>3 DEF MainExit, Goto
      <4>5. IsFiniteSet(Live')
        BY SchedAssumption, FS_Subset DEF Live
      <4>6. Live' = {}
        <5>1. Cardinality(Live') \in Nat /\ live' = Cardinality(Live') /\ live \in Int
          BY <4>5, FS_CardinalityType DEF Accounting, SchedTypeOK
        <5>2. Cardinality(Live') = 0
          BY <4>4, <5>1
        <5>3. QED
          BY <4>5, <5>2, FS_EmptySet
      <4>7. QED
        BY <4>4, <4>6
    <3>3. QED
      BY <3>1, <3>2
  <2>6. QED
    BY <2>4, <2>5
<1>3. QED
  BY <1>1, <1>2

LEMMA RecordsStep ==
  ASSUME Typed, Typed', Outside, Accounting, Accounting', Records, process = "up", NEW t \in Task,
         OtherStep(t) \/ \E c \in Chan : ChannelStep(t, c)
  PROVE  Records'
<1> USE DEF Typed, TypeOK, TaskTypeOK, LifeTypeOK
<1>1. /\ OneRecord'
      /\ \A u \in Task : Recorded(u)' <=> Finished(u)'
      /\ \A u \in Task \ {t} : claimed'[u] = claimed[u]
      /\ claimed'[t] # {} => pc'[t] \in {"join", "mainJoin"}
  BY RecordsMoved
<1>2. \A u \in Task \ {t} : claimed[u] # {} => pc'[u] \in {"join", "mainJoin"}
  <2>1. CASE SpawnCreate(t)
    BY <2>1, SpawnForm DEF Records
  <2>2. CASE ~SpawnCreate(t)
    BY <2>2, ChannelForm, OtherForm DEF Form, Only, Records
  <2>3. QED
    BY <2>1, <2>2
<1>3. process' = "returned" => joined' = {u \in Task \ {Main} : pc'[u] # "unborn"}
  <2> SUFFICES ASSUME process' = "returned"
               PROVE  joined' = {u \in Task \ {Main} : pc'[u] # "unborn"}
    OBVIOUS
  <2>1. EndProcess(t, "returned")
    BY RecordSteps DEF Exit, SpawnReap, MainReap, Claim, Join
  <2>2. pc[t] = "mainJoin" /\ claimed[t] = {} /\ pc' = pc /\ joined' = joined
    BY <2>1 DEF EndProcess, taskVars
  <2>3. t = Main /\ Live = {} /\ completed = {}
    BY <2>2 DEF Records
  <2>4. ASSUME NEW u \in Task, u # Main, pc[u] # "unborn" PROVE u \in joined
    <3>1. Finished(u)
      <4>1. u \notin Live
        BY <2>3
      <4>2. pc[u] \notin {"exit", "mainReap", "mainJoin"}
        BY <2>4 DEF Records
      <4>3. QED
        BY <2>4, <4>1, <4>2 DEF Live, Finished, Exited
    <3>2. Recorded(u)
      BY <3>1 DEF Records
    <3>3. \A v \in Task : claimed[v] = {}
      BY <2>2, <2>3 DEF Records, Live, Panicked
    <3>4. QED
      BY <2>3, <3>2, <3>3 DEF Recorded
  <2>5. ASSUME NEW u \in joined PROVE u \in Task \ {Main} /\ pc[u] # "unborn"
    BY <2>5 DEF Records, Recorded, Finished, Panicked, Exited
  <2>6. QED
    BY <2>2, <2>4, <2>5
<1>4. QED
  BY <1>1, <1>2, <1>3, MainLast DEF Records

\* The records of completed tasks are handed on without loss or duplication
\* (guji_completed_tasks, guji_task_reap_completed): no thread is joined
\* twice, and when main returns normally every task that ever ran has been
\* joined.
THEOREM EveryThreadJoined == Spec => []Reaped
<1>1. Init => Records
  <2> SUFFICES ASSUME Init PROVE Records
    OBVIOUS
  <2>1. /\ completed = {} /\ joined = {} /\ claimed = [t \in Task |-> {}] /\ process = "up"
        /\ \A t \in Task : pc[t] \in {"run", "unborn"}
    BY DEF Init
  <2>2. QED
    BY <2>1, SchedAssumption DEF Records, OneRecord, Recorded, Finished, Panicked, Exited
<1>2. /\ Typed /\ Typed' /\ Outside /\ Accounting /\ Accounting' /\ Records /\ [Next]_vars
      => Records'
  <2> SUFFICES ASSUME Typed, Typed', Outside, Accounting, Accounting', Records, [Next]_vars
               PROVE  Records'
    OBVIOUS
  <2>1. CASE UNCHANGED vars
    BY <2>1 DEF vars, taskVars, lifeVars, Records, OneRecord, Recorded, Finished, Panicked, Live
  <2>2. QED
    BY <2>1, RecordsStep, NextUp
<1>3. Records => Reaped
  BY DEF Records, OneRecord, Reaped
<1>4. QED
  BY <1>1, <1>2, <1>3, Counted, PTL DEF Spec

-----------------------------------------------------------------------------
(* The end of main.                                                         *)

\* Only the steps after a window touch guji_deadlock_panicking.
LEMMA PanicOnly ==
  ASSUME NEW t \in Task, OtherStep(t) \/ \E c \in Chan : ChannelStep(t, c), panicking' # panicking
  PROVE  Confirm(t) \/ SelectTimeout(t) \/ ExitConfirm(t)
<1> USE DEF schedVars
<1>1. ASSUME NEW c \in Chan PROVE ~ChannelStep(t, c)
  BY DEF ChannelStep, SendWait, OfferWait, RecvBlock, BlockOn, SendClosed, RecvNone,
         SeeEnd, CloseAgain, TrySendClosed, TrySendMiss, TryRecvNone, TryRecvMiss, Miss,
         RecvWait, CloseOk, SendOffer, SendPut, RecvTake, TrySendOffer, TrySendPut, TryRecvTake,
         OfferValue, PutValue, TakeValue, OfferTaken, OfferReclaim, Announce
<1>2. QED
  BY <1>1 DEF OtherStep, TaskStep, WakeSignaled, Unblock, Resume, Snapshot, SelectElse,
     SelectWait, SelectWake, SpawnReap, Claim, SpawnCreate, Join, EndProcess, Timeout,
     SpuriousWake, Exit, Call, MainReap, MainExit

\* A deadlock panic starts only where the confirmed candidate condition
\* holds, guji_main_exiting included.
LEMMA PanicConfirmed ==
  ASSUME [Next]_vars, panicking' # panicking
  PROVE  \E t \in Task : /\ Confirmed(t)
                         /\ Confirm(t) \/ SelectTimeout(t) \/ (ExitConfirm(t) /\ live > 0)
<1>1. ~UNCHANGED vars
  BY DEF vars, schedVars
<1>2. PICK t \in Task : OtherStep(t) \/ \E c \in Chan : ChannelStep(t, c)
  BY <1>1, NextUp
<1>3. QED
  BY <1>2, PanicOnly DEF Confirm, SelectTimeout, ExitConfirm

\* Once main has returned (guji_main_exiting), no task turns the exit of the
\* process into a deadlock panic, not even one whose window expires after.
THEOREM ExitFinal == Spec => ExitStands
<1>1. [Next]_vars => [exiting => panicking' = panicking]_vars
  BY PanicConfirmed DEF Confirmed, AllBlocked
<1>2. QED
  BY <1>1, PTL DEF Spec, ExitStands

-----------------------------------------------------------------------------
(* Sleep.  Only a task in a wait is on a condition variable, and only one   *)
(* that sleeps, or that exits, is inside a window.                          *)

SleepOf(t) ==
  /\ t \in schedCv => pc[t] = "selParked"
  /\ \A c \in Chan : t \in cv[c] => pc[t] = "parked" /\ c = Ch(t)
  /\ t \in armed => pc[t] = "exitConfirm" \/ t \in schedCv \/ \E c \in Chan : t \in cv[c]

Sleeping == \A t \in Task : SleepOf(t)

\* Where a task can be asleep, or inside a window.
Asleep(t) == pc[t] \in {"parked", "selParked", "exitConfirm"}

LEMMA AwakeNowhere ==
  ASSUME Sleeping, NEW t \in Task, ~Asleep(t)
  PROVE  t \notin schedCv /\ t \notin armed /\ \A c \in Chan : t \notin cv[c]
BY DEF Sleeping, SleepOf, Asleep

\* The others stay where they are, and on the condition variable on which
\* they are if they are in a window.
LEMMA SleepKept ==
  ASSUME Sleeping, NEW t \in Task,
         \A u \in Task \ {t} : Asleep(u) => pc'[u] = pc[u] /\ op'[u] = op[u] /\ arm'[u] = arm[u],
         \A u \in Task \ {t} : u \in schedCv' => u \in schedCv,
         \A u \in Task \ {t}, c \in Chan : u \in cv'[c] => u \in cv[c],
         \A u \in Task \ {t} : u \in armed' =>
            u \in armed /\ (u \in schedCv => u \in schedCv') /\ \A c \in Chan : u \in cv[c] => u \in cv'[c],
         SleepOf(t)'
  PROVE  Sleeping'
<1> SUFFICES ASSUME NEW u \in Task \ {t} PROVE SleepOf(u)'
  BY DEF Sleeping
<1>1. SleepOf(u)
  BY DEF Sleeping
<1>2. CASE Asleep(u)
  <2>1. pc'[u] = pc[u] /\ Ch(u)' = Ch(u)
    BY <1>2 DEF Ch
  <2>2. QED
    BY <1>1, <2>1 DEF SleepOf
<1>3. CASE ~Asleep(u)
  BY <1>3, AwakeNowhere DEF SleepOf
<1>4. QED
  BY <1>2, <1>3

\* A step of a task that is awake, and puts nobody to sleep.
LEMMA SleepUndisturbed ==
  ASSUME Sleeping, NEW t \in Task, ~Asleep(t),
         \A u \in Task \ {t} : Asleep(u) => pc'[u] = pc[u] /\ op'[u] = op[u] /\ arm'[u] = arm[u],
         schedCv' = schedCv, armed' = armed, \A c \in Chan : cv'[c] = cv[c]
  PROVE  Sleeping'
<1>1. SleepOf(t)'
  BY AwakeNowhere DEF SleepOf
<1>2. QED
  BY <1>1, SleepKept

\* guji_progress_bump, with a broadcast on c or without.
LEMMA SleepBumped ==
  ASSUME Typed, Sleeping, NEW t \in Task, NEW c \in Chan, Only(t), ~Asleep(t),
         \/ ProgressBump(cv[c]) /\ Broadcast(c)
         \/ ProgressBump({}) /\ cv' = cv
  PROVE  Sleeping'
<1> USE DEF Typed, TypeOK, SchedTypeOK, ChanTypeOK
<1>0. cv \in [Chan -> SUBSET Task]
  BY DEF Typed, TypeOK, ChanTypeOK
<1>1. /\ schedCv' = {} /\ armed' \subseteq armed \ schedCv
      /\ \A d \in Chan : \/ cv'[d] = cv[d]
                         \/ d = c /\ cv'[d] = {} /\ armed' \cap cv[d] = {}
  BY <1>0 DEF ProgressBump, CloseWindows, Broadcast
<1>2. SleepOf(t)'
  BY <1>1, AwakeNowhere DEF SleepOf
<1>3. QED
  BY <1>1, <1>2, SleepKept DEF Only

\* BlockOn.
LEMMA SleepParks ==
  ASSUME Typed, Sleeping, NEW t \in Task, NEW c \in Chan, Only(t), ~Asleep(t), c = Ch(t),
         pc'[t] = "parked", UNCHANGED <<op, arm, schedCv>>,
         cv' = [cv EXCEPT ![c] = @ \cup {t}], armed' = armed \/ armed' = armed \cup {t}
  PROVE  Sleeping'
<1>1. \A d \in Chan : cv'[d] = IF d = c THEN cv[c] \cup {t} ELSE cv[d]
  BY DEF Typed, TypeOK, ChanTypeOK
<1>2. SleepOf(t)'
  BY <1>1, AwakeNowhere DEF SleepOf, Ch
<1>3. QED
  BY <1>1, <1>2, SleepKept DEF Only

LEMMA SleepChannel ==
  ASSUME Typed, Sleeping, NEW t \in Task, NEW c \in Chan, ChannelStep(t, c)
  PROVE  Sleeping'
<1> USE DEF Asleep
<1>0. Only(t)
  BY ChannelForm DEF Form
<1>1. c = Ch(t) /\ pc[t] \in {"send", "offer", "recv", "block", "close", "poll"}
  BY DEF ChannelStep, SendWait, SendClosed, SendOffer, SendPut, OfferWait, OfferTaken,
         OfferReclaim, RecvTake, RecvNone, RecvWait, RecvBlock, CloseOk, CloseAgain,
         TrySendClosed, TrySendMiss, TrySendOffer, TrySendPut, TryRecvTake, TryRecvNone,
         TryRecvMiss, At, AtArm
<1>2. CASE SendWait(t, c) \/ OfferWait(t, c) \/ RecvBlock(t, c)
  <2>1. /\ pc'[t] = "parked" /\ UNCHANGED <<op, arm, schedCv>>
        /\ cv' = [cv EXCEPT ![c] = @ \cup {t}] /\ (armed' = armed \/ armed' = armed \cup {t})
    BY <1>2 DEF SendWait, OfferWait, RecvBlock, BlockOn, Suspect, OpenWindow, Typed, TypeOK,
                TaskTypeOK
  <2>2. QED
    BY <1>0, <1>1, <2>1, SleepParks
<1>3. CASE \/ SendClosed(t, c) \/ OfferReclaim(t, c) \/ RecvNone(t, c) \/ CloseAgain(t, c)
           \/ TrySendClosed(t, c) \/ TrySendMiss(t, c) \/ TryRecvNone(t, c) \/ TryRecvMiss(t, c)
  <2>1. UNCHANGED <<schedCv, armed, cv>>
    BY <1>3 DEF SendClosed, OfferReclaim, RecvNone, CloseAgain, TrySendClosed, TrySendMiss,
                TryRecvNone, TryRecvMiss, SeeEnd, Miss, schedVars, chanVars
  <2>2. QED
    BY <1>0, <1>1, <2>1, SleepUndisturbed DEF Only
<1>4. CASE \/ SendOffer(t, c) \/ SendPut(t, c) \/ RecvTake(t, c) \/ CloseOk(t, c)
           \/ TrySendOffer(t, c) \/ TrySendPut(t, c) \/ TryRecvTake(t, c)
  <2>1. ProgressBump(cv[c]) /\ Broadcast(c)
    BY <1>4 DEF SendOffer, SendPut, RecvTake, CloseOk, TrySendOffer, TrySendPut, TryRecvTake,
                OfferValue, PutValue, TakeValue, Announce
  <2>2. QED
    BY <1>0, <1>1, <2>1, SleepBumped
<1>5. CASE RecvWait(t, c)
  <2>1. ProgressBump({}) /\ cv' = cv
    BY <1>5 DEF RecvWait, Arrive
  <2>2. QED
    BY <1>0, <1>1, <2>1, SleepBumped
<1>6. CASE OfferTaken(t, c)
  <2>1. /\ schedCv' = schedCv /\ armed' = armed \ cv[c]
        /\ \A d \in Chan : cv'[d] = IF d = c THEN {} ELSE cv[d]
    BY <1>6 DEF OfferTaken, CloseWindows, Broadcast, Typed, TypeOK, ChanTypeOK
  <2>2. SleepOf(t)'
    BY <1>1, <2>1, AwakeNowhere DEF SleepOf
  <2>3. QED
    BY <1>0, <2>1, <2>2, SleepKept DEF Only
<1>7. QED
  BY <1>2, <1>3, <1>4, <1>5, <1>6 DEF ChannelStep

LEMMA SleepOther ==
  ASSUME Typed, Sleeping, NEW t \in Task, OtherStep(t)
  PROVE  Sleeping'
<1> USE DEF Typed, TypeOK, TaskTypeOK, chanVars, schedVars
<1>0. cv \in [Chan -> SUBSET Task] /\ SleepOf(t)
  BY DEF ChanTypeOK, Sleeping
<1>1. CASE WakeSignaled(t)
  <2>1. /\ Only(t) /\ UNCHANGED <<schedCv, armed, cv>>
        /\ pc[t] = "parked" /\ t \notin cv[Ch(t)]
    BY <1>1 DEF WakeSignaled, At, Resume, Only
  <2>2. t \notin schedCv /\ t \notin armed /\ \A c \in Chan : t \notin cv[c]
    BY <1>0, <2>1 DEF SleepOf
  <2>3. SleepOf(t)'
    BY <2>1, <2>2 DEF SleepOf
  <2>4. QED
    BY <2>1, <2>3, SleepKept DEF Only
<1>2. CASE \/ Confirm(t) \/ Unblock(t) \/ Snapshot(t) \/ SelectElse(t) \/ SpawnReap(t)
           \/ SpawnCreate(t) \/ ExitConfirm(t) \/ (t = Main /\ (MainReap \/ MainExit))
           \/ (\E o \in may[t] : Call(t, o)) \/ (\E u \in Task : Join(t, u))
           \/ \E how \in {"exited", "panicked", "returned"} : EndProcess(t, how)
  <2>1. UNCHANGED <<schedCv, armed, cv>> /\ ~Asleep(t)
    BY <1>2 DEF Confirm, At, Unblock, Resume, Snapshot, SelectElse, SpawnReap, Claim, SpawnCreate,
                ExitConfirm, MainReap, MainExit, Call, Join, EndProcess, Asleep
  <2>2. CASE SpawnCreate(t)
    <3>1. \A u \in Task \ {t} : u # op[t].task => pc'[u] = pc[u]
      BY <2>2 DEF SpawnCreate
    <3>2. pc[op[t].task] = "unborn"
      BY <2>2 DEF SpawnCreate, Control, ControlOf
    <3>3. \A u \in Task \ {t} : Asleep(u) => pc'[u] = pc[u] /\ op'[u] = op[u] /\ arm'[u] = arm[u]
      BY <2>2, <3>1, <3>2 DEF SpawnCreate, Asleep
    <3>4. QED
      BY <2>1, <3>3, SleepUndisturbed
  <2>3. CASE ~SpawnCreate(t)
    BY <2>1, <2>3, OtherForm, SleepUndisturbed DEF Form, Only
  <2>4. QED
    BY <2>2, <2>3
<1>3. CASE SelectWait(t) \/ SelectWake(t) \/ SelectTimeout(t)
  <2>1. /\ pc[t] \in {"selWait", "selExpired"} \/ (pc[t] = "selParked" /\ t \notin schedCv)
        /\ Only(t) /\ cv' = cv
        /\ \/ UNCHANGED <<schedCv, armed>>
           \/ /\ schedCv' = schedCv \cup {t} /\ pc'[t] = "selParked"
              /\ armed' = armed \/ armed' = armed \cup {t}
    BY <1>3 DEF SelectWait, SelectWake, SelectTimeout, DeadlockPanic, Goto, SelectLoop,
                SelectWindow, OpenWindow, Only
  <2>2. t \notin schedCv /\ t \notin armed /\ \A c \in Chan : t \notin cv[c]
    BY <1>0, <2>1, AwakeNowhere DEF SleepOf, Asleep
  <2>3. SleepOf(t)'
    BY <2>1, <2>2 DEF SleepOf
  <2>4. QED
    BY <2>1, <2>3, SleepKept DEF Only
<1>4. CASE Timeout(t)
  <2>1. /\ Only(t) /\ pc'[t] \notin {"parked", "selParked", "exitConfirm"} /\ armed' = armed \ {t}
        /\ \/ /\ pc[t] = "parked" /\ schedCv' = schedCv
              /\ cv' = [cv EXCEPT ![Ch(t)] = @ \ {t}]
           \/ pc[t] = "selParked" /\ schedCv' = schedCv \ {t} /\ cv' = cv
           \/ pc[t] = "exitConfirm" /\ UNCHANGED <<cv, schedCv>>
    BY <1>4 DEF Timeout, CloseWindows, Goto, Only
  <2>2. \A u \in Task \ {t} : /\ u \in schedCv' <=> u \in schedCv
                              /\ \A c \in Chan : u \in cv'[c] <=> u \in cv[c]
    BY <1>0, <2>1
  <2>3. t \notin schedCv' /\ t \notin armed' /\ \A c \in Chan : t \notin cv'[c]
    BY <1>0, <2>1 DEF SleepOf
  <2>4. SleepOf(t)'
    BY <2>3 DEF SleepOf
  <2>5. QED
    BY <2>1, <2>2, <2>4, SleepKept DEF Only
<1>5. CASE SpuriousWake(t)
  <2>1. /\ Only(t) /\ schedCv' = schedCv \ {t} /\ armed' = armed \ {t}
        /\ \A c \in Chan : cv'[c] = cv[c] \ {t}
    BY <1>5 DEF SpuriousWake, CloseWindows, Only, taskVars
  <2>2. SleepOf(t)'
    BY <2>1 DEF SleepOf
  <2>3. QED
    BY <2>1, <2>2, SleepKept DEF Only
<1>6. CASE Exit(t)
  <2>1. /\ Only(t) /\ UNCHANGED <<schedCv, cv>> /\ pc[t] = "run"
        /\ armed' = armed \/ (armed' = armed \cup {t} /\ pc'[t] = "exitConfirm")
    BY <1>6 DEF Exit, OpenWindow, Goto, Only
  <2>2. SleepOf(t)'
    BY <2>1, AwakeNowhere DEF SleepOf, Asleep
  <2>3. QED
    BY <2>1, <2>2, SleepKept DEF Only
<1>7. QED
  BY <1>1, <1>2, <1>3, <1>4, <1>5, <1>6, Zenon DEF OtherStep, TaskStep

-----------------------------------------------------------------------------
(* Locks.  A sender that comes back to its offer, and a task that has been  *)
(* told it is no deadlock, hold the mutex of their channel.                 *)

Owned == \A u \in Task : pc[u] \in {"offer", "unblock"} => mu[Ch(u)] = u

\* A task changes only channels that nobody else has locked.
LEMMA LockedOnly ==
  ASSUME Typed, NEW t \in Task, OtherStep(t) \/ \E c \in Chan : ChannelStep(t, c)
  PROVE  \A d \in Chan : CanLock(t, d) \/ (mu'[d] = mu[d] /\ handoff'[d] = handoff[d])
<1> USE DEF Typed, TypeOK, ChanTypeOK, SlotTypeOK, slotVars, chanVars, Lock, Unlock
<1>1. ASSUME NEW c \in Chan, ChannelStep(t, c)
      PROVE  CanLock(t, c) /\ \A d \in Chan \ {c} : mu'[d] = mu[d] /\ handoff'[d] = handoff[d]
  <2>1. CanLock(t, c)
    BY <1>1 DEF ChannelStep, SendWait, SendClosed, SendOffer, SendPut, OfferWait, OfferTaken,
                OfferReclaim, RecvTake, RecvNone, RecvWait, RecvBlock, CloseOk, CloseAgain,
                TrySendClosed, TrySendMiss, TrySendOffer, TrySendPut, TryRecvTake, TryRecvNone,
                TryRecvMiss, At, AtArm
  <2>2. CASE \/ SendOffer(t, c) \/ SendPut(t, c) \/ OfferTaken(t, c) \/ OfferReclaim(t, c)
             \/ RecvTake(t, c) \/ CloseOk(t, c) \/ TrySendOffer(t, c) \/ TrySendPut(t, c)
             \/ TryRecvTake(t, c)
    BY <2>1, <2>2 DEF SendOffer, SendPut, OfferTaken, OfferReclaim, RecvTake, CloseOk,
                    TrySendOffer, TrySendPut, TryRecvTake, OfferValue, PutValue, TakeValue,
                    Offer, Enqueue, Take, Dequeue, FreeSlot
  <2>3. CASE \/ SendClosed(t, c) \/ RecvNone(t, c) \/ CloseAgain(t, c) \/ TrySendClosed(t, c)
             \/ TrySendMiss(t, c) \/ TryRecvNone(t, c) \/ TryRecvMiss(t, c) \/ RecvWait(t, c)
             \/ SendWait(t, c) \/ OfferWait(t, c) \/ RecvBlock(t, c)
    BY <2>1, <2>3 DEF SendClosed, RecvNone, SeeEnd, CloseAgain, TrySendClosed, TrySendMiss,
                    TryRecvNone, TryRecvMiss, Miss, RecvWait, SendWait, OfferWait, RecvBlock,
                    BlockOn
  <2>4. QED
    BY <1>1, <2>2, <2>3 DEF ChannelStep
<1>2. ASSUME OtherStep(t)
      PROVE  handoff' = handoff /\ \A d \in Chan : CanLock(t, d) \/ mu'[d] = mu[d]
  <2>1. handoff' = handoff
    BY <1>2 DEF OtherStep, TaskStep, WakeSignaled, Unblock, Resume, Confirm, Snapshot,
                SelectElse, SelectWait, SelectWake, SelectTimeout, SpawnReap, Claim,
                SpawnCreate, ExitConfirm, Join, EndProcess, Timeout, SpuriousWake, Exit,
                Call, MainReap, MainExit
  <2>2. CASE WakeSignaled(t) \/ Confirm(t)
    BY <2>1, <2>2 DEF WakeSignaled, Confirm, At
  <2>3. CASE mu' = mu
    BY <2>1, <2>3
  <2>4. QED
    BY <1>2, <2>2, <2>3 DEF OtherStep, TaskStep, Unblock, Snapshot,
                SelectElse, SelectWait, SelectWake, SelectTimeout, SpawnReap, Claim,
                SpawnCreate, ExitConfirm, Join, EndProcess, Timeout, SpuriousWake, Exit,
                Call, MainReap, MainExit
<1>3. QED
  BY <1>1, <1>2

LEMMA OwnedKept ==
  ASSUME Typed, Owned, NEW t \in Task,
         \A u \in Task \ {t} : pc'[u] \in {"offer", "unblock"} =>
            pc'[u] = pc[u] /\ op'[u] = op[u] /\ arm'[u] = arm[u],
         \A d \in Chan : CanLock(t, d) \/ mu'[d] = mu[d],
         pc'[t] \in {"offer", "unblock"} => mu'[Ch(t)'] = t
  PROVE  Owned'
<1> SUFFICES ASSUME NEW u \in Task \ {t}, pc'[u] \in {"offer", "unblock"}
             PROVE  mu'[Ch(u)'] = u
  BY DEF Owned
<1>1. pc[u] \in {"offer", "unblock"} /\ Ch(u)' = Ch(u) /\ mu[Ch(u)] = u
  BY DEF Owned, Ch
<1>2. op[u].fn # "spawn"
  BY <1>1 DEF Typed, TypeOK, TaskTypeOK, Control, ControlOf
<1>3. PICK d \in Chan : d = Ch(u)
  BY <1>2, ChanOf
<1>4. mu[d] = u /\ ~CanLock(t, d)
  BY <1>1, <1>3, ProgramAssumption DEF CanLock
<1>5. QED
  BY <1>1, <1>3, <1>4

LEMMA OwnedStep ==
  ASSUME Typed, Owned, NEW t \in Task, OtherStep(t) \/ \E c \in Chan : ChannelStep(t, c)
  PROVE  Owned'
<1> USE DEF Typed, TypeOK, TaskTypeOK
<1>0. mu \in [Chan -> Task \cup {NoTask}] /\ \A d \in Chan : CanLock(t, d) \/ mu'[d] = mu[d]
  BY LockedOnly DEF ChanTypeOK
<1>1. CASE SpawnCreate(t)
  <2>1. \A u \in Task : pc'[u] \in {"offer", "unblock"} =>
            u # t /\ pc'[u] = pc[u] /\ op'[u] = op[u] /\ arm'[u] = arm[u]
    BY <1>1 DEF SpawnCreate
  <2>2. QED
    BY <1>0, <2>1, OwnedKept
<1>2. CASE ~SpawnCreate(t)
  <2>1. Only(t) /\ Form(t)
    BY <1>2, ChannelForm, OtherForm DEF Form
  <2>2. ASSUME pc'[t] \in {"offer", "unblock"} PROVE mu'[Ch(t)'] = t
    <3>1. CASE \E c \in Chan : ChannelStep(t, c)
      <4>1. PICK c \in Chan : ChannelStep(t, c)
        BY <3>1
      <4>2. SendOffer(t, c) \/ TrySendOffer(t, c)
        BY <2>2, <4>1 DEF ChannelStep, SendWait, SendClosed, SendPut, OfferWait, OfferTaken,
                OfferReclaim, RecvTake, RecvNone, RecvWait, RecvBlock, CloseOk, CloseAgain,
                TrySendClosed, TrySendMiss, TrySendPut, TryRecvTake, TryRecvNone,
                TryRecvMiss, BlockOn, PutValue, TakeValue, SeeEnd, Return, Goto, Miss, NextArm
      <4>3. c = Ch(t) /\ UNCHANGED <<op, arm>> /\ mu' = [mu EXCEPT ![c] = t]
        BY <4>2 DEF SendOffer, TrySendOffer, OfferValue, AtArm, At, Goto, Lock
      <4>4. QED
        BY <1>0, <4>3 DEF Ch
    <3>2. CASE OtherStep(t)
      <4>1. CASE WakeSignaled(t) \/ Confirm(t)
        <5>1. UNCHANGED <<op, arm>> /\ mu' = [mu EXCEPT ![Ch(t)] = t] /\ op[t].fn # "spawn"
          BY <4>1 DEF WakeSignaled, Resume, Confirm, DeadlockPanic, Goto, At, Lock, Control, ControlOf
        <5>2. QED
          BY <1>0, <5>1, ChanOf DEF Ch
      <4>2. CASE Unblock(t)
        BY <4>2 DEF Unblock, Resume, Owned, Ch
      <4>3. CASE SpuriousWake(t) \/ (\E u \in Task : Join(t, u))
                 \/ \E how \in {"exited", "panicked", "returned"} : EndProcess(t, how)
        BY <2>2, <4>3 DEF SpuriousWake, Join, EndProcess, taskVars, chanVars, Owned, Ch
      <4>4. CASE SelectElse(t)
        BY <2>2, <4>4 DEF SelectElse, Return
      <4>5. CASE \E o \in may[t] : Call(t, o)
        <5>1. PICK o \in may[t] : Call(t, o)
          BY <4>5
        <5>2. Entry(o.fn) \notin {"offer", "unblock"}
          BY Allowed DEF Op, Entry
        <5>3. QED
          BY <2>2, <5>1, <5>2 DEF Call
      <4>6. CASE \E l \in PC \ {"offer", "unblock"} : Goto(t, l)
        BY <2>2, <4>6 DEF Goto
      <4>7. CASE ExitConfirm(t) \/ SelectTimeout(t) \/ SelectWait(t) \/ SelectWake(t)
        <5>1. \/ Goto(t, "panic") \/ Goto(t, "paused") \/ Goto(t, "ended")
              \/ Goto(t, "selParked") \/ Goto(t, "selTop")
          BY <4>7 DEF ExitConfirm, SelectTimeout, SelectWait, SelectWake, SelectLoop, DeadlockPanic
        <5>2. QED
          BY <4>6, <5>1, Zenon DEF PC, InWait
      <4>8. CASE Timeout(t) \/ Snapshot(t) \/ SpawnReap(t) \/ Exit(t) \/ (t = Main /\ (MainReap \/ MainExit))
        <5>1. \/ Goto(t, "expired") \/ Goto(t, "selExpired") \/ Goto(t, "exitCheck")
              \/ Goto(t, "poll") \/ Goto(t, "join") \/ Goto(t, "exitConfirm") \/ Goto(t, "ended")
              \/ Goto(t, "mainJoin") \/ Goto(t, "exit") \/ Goto(t, "mainReap")
          BY <4>8 DEF Timeout, Snapshot, SpawnReap, Claim, Exit, MainReap, MainExit
        <5>2. QED
          BY <4>6, <5>1, Zenon DEF PC, InWait
      <4>9. QED
        BY <1>2, <3>2, <4>1, <4>2, <4>3, <4>4, <4>5, <4>7, <4>8, Zenon DEF OtherStep, TaskStep
    <3>3. QED
      BY <3>1, <3>2
  <2>3. QED
    BY <1>0, <2>1, <2>2, OwnedKept DEF Only
<1>3. QED
  BY <1>1, <1>2

-----------------------------------------------------------------------------
(* Select.                                                                  *)

\* The arms that the select of t has polled since it read guji_progress.
Polled(t) ==
  {i \in DOMAIN op[t].arms : \/ pc[t] = "poll" /\ i < arm[t]
                             \/ pc[t] \in {"selWait", "selParked", "selExpired"}}

Seen(t) == {op[t].arms[i] : i \in Polled(t)}

\* The arm would block.
Misses(a) == ~closed[a.ch] /\ IF a.dir = "send" THEN ~CanSendNow(a.ch) ELSE ~Readable(a.ch)

\* Every receive that waits on d has been woken.
AllAwake(d) == \A r \in Receivers(d) : r \notin cv[d] /\ pc[r] # "block"

\* The arm would not block, but will or be announced again.
Excused(a) == a.dir = "send" /\ Unbuffered(a.ch) /\ ~closed[a.ch] /\ AllAwake(a.ch)

\* While guji_progress stands, what a select has polled stays as it was; and
\* as long as nobody has signalled guji_sched_cv it has missed nothing.
SelectsRight ==
  \A t \in Task, a \in Arm : a \in Seen(t) =>
    /\ t \in current => Misses(a)
    /\ t \in schedCv => Misses(a) \/ Excused(a)

\* A sender frees the slot without telling the selects.  But it has told them
\* when it came back for that, and has locked the channel since.
TakenHeld ==
  \A u \in Task : pc[u] = "offer" /\ handoff[Ch(u)] = 2 =>
    \A t \in current : \A a \in Seen(t) : a.ch # Ch(u)

LEMMA PollStep ==
  ASSUME Typed, NEW x \in Task, OtherStep(x) \/ \E c \in Chan : ChannelStep(x, c)
  PROVE  /\ \A t \in Task \ {x} : op'[t] = op[t] /\ Polled(t)' = Polled(t)
         /\ \/ Polled(x)' = {}
            \/ op'[x] = op[x] /\ Polled(x)' = Polled(x)
            \/ \E c \in Chan :
                 /\ TrySendMiss(x, c) \/ TryRecvMiss(x, c)
                 /\ op'[x] = op[x] /\ Polled(x)' \subseteq Polled(x) \cup {arm[x]}
<1> USE DEF Typed, TypeOK, TaskTypeOK, Polled
<1>1. CASE SpawnCreate(x)
  <2>1. op[x].task \in Task /\ pc[op[x].task] = "unborn" /\ arm' = arm
        /\ pc' = [pc EXCEPT ![x] = "run", ![op[x].task] = "run"]
        /\ op' = [op EXCEPT ![x] = Idle]
    BY <1>1 DEF SpawnCreate, Control, ControlOf, Op
  <2>2. \A t \in Task \ {x} : op'[t] = op[t] /\ Polled(t)' = Polled(t)
    BY <2>1
  <2>3. Polled(x)' = {}
    BY <2>1
  <2>4. QED
    BY <2>2, <2>3
<1>2. CASE \E c \in Chan : TrySendMiss(x, c) \/ TryRecvMiss(x, c)
  <2>1. PICK c \in Chan : TrySendMiss(x, c) \/ TryRecvMiss(x, c)
    BY <1>2
  <2>2. NextArm(x) /\ pc[x] = "poll" /\ ChannelStep(x, c)
    BY <2>1 DEF TrySendMiss, TryRecvMiss, Miss, AtArm, At, ChannelStep
  <2>3. op[x].arms \in Seq(Arm) /\ arm[x] \in DOMAIN op[x].arms
    BY <2>2 DEF Control, ControlOf, Select, Op
  <2>4. op' = op /\ Polled(x)' \subseteq Polled(x) \cup {arm[x]}
    BY <2>2, <2>3 DEF NextArm
  <2>5. \A t \in Task \ {x} : op'[t] = op[t] /\ Polled(t)' = Polled(t)
    BY <2>2 DEF NextArm
  <2>6. QED
    BY <2>1, <2>4, <2>5
<1>3. CASE ~SpawnCreate(x) /\ ~\E c \in Chan : TrySendMiss(x, c) \/ TryRecvMiss(x, c)
  <2>1. Form(x)
    BY <1>3, ChannelForm, OtherForm
  <2>2. \A t \in Task \ {x} : op'[t] = op[t] /\ Polled(t)' = Polled(t)
    BY <2>1 DEF Form, Only
  <2>3. CASE \E c \in Chan : ChannelStep(x, c)
    <3>1. PICK c \in Chan : ChannelStep(x, c)
      BY <2>3
    <3>2. Return(x) \/ Goto(x, "offer") \/ Goto(x, "block") \/ pc' = [pc EXCEPT ![x] = "parked"]
      BY <1>3, <3>1 DEF ChannelStep, SendWait, SendClosed, SendOffer, SendPut, OfferWait, OfferTaken,
         OfferReclaim, RecvTake, RecvNone, RecvWait, RecvBlock, CloseOk, CloseAgain,
         TrySendClosed, TrySendOffer, TrySendPut, TryRecvTake, TryRecvNone,
         BlockOn, OfferValue, PutValue, TakeValue, SeeEnd
    <3>3. Polled(x)' = {}
      BY <3>2 DEF Return, Goto
    <3>4. QED
      BY <2>2, <3>3
  <2>4. CASE WakeSignaled(x) \/ Unblock(x)
    <3>1. pc'[x] = cont[x]
      BY <2>4 DEF WakeSignaled, Unblock, Resume
    <3>2. Polled(x)' = {}
      BY <3>1
    <3>3. QED
      BY <2>2, <3>2
  <2>5. CASE Snapshot(x)
    <3>1. arm'[x] = 1 /\ pc'[x] = "poll" /\ op' = op /\ op[x].arms \in Seq(Arm)
      BY <2>5 DEF Snapshot, Goto, Control, ControlOf, Op
    <3>2. Polled(x)' = {}
      BY <3>1
    <3>3. QED
      BY <2>2, <3>2
  <2>6. CASE SelectWait(x) \/ SelectWake(x) \/ SelectTimeout(x)
    <3>1. /\ pc[x] \in {"selWait", "selParked", "selExpired"} /\ UNCHANGED <<op, arm>>
          /\ pc'[x] \in {"selParked", "selTop", "panic", "paused"}
      BY <2>6 DEF SelectWait, SelectWake, SelectTimeout, SelectLoop, DeadlockPanic, Goto
    <3>2. Polled(x)' = {} \/ (op'[x] = op[x] /\ Polled(x)' = Polled(x))
      BY <3>1
    <3>3. QED
      BY <2>2, <3>2
  <2>7. CASE \E o \in may[x] : Call(x, o)
    <3>1. PICK o \in may[x] : Call(x, o)
      BY <2>7
    <3>2. pc'[x] = Entry(o.fn) /\ o \in Op
      BY <3>1, Allowed DEF Call
    <3>3. Polled(x)' = {}
      BY <3>2 DEF Entry, Op
    <3>4. QED
      BY <2>2, <3>3
  <2>8. CASE SelectElse(x)
    <3>1. Polled(x)' = {}
      BY <2>8 DEF SelectElse, Return
    <3>2. QED
      BY <2>2, <3>1
  <2>9. CASE UNCHANGED <<pc, op, arm>>
    BY <2>9
  <2>10. CASE Timeout(x)
    <3>1. \/ pc'[x] \in {"expired", "exitCheck"}
          \/ pc[x] = "selParked" /\ pc'[x] = "selExpired" /\ UNCHANGED <<op, arm>>
      BY <2>10 DEF Timeout, Goto
    <3>2. Polled(x)' = {} \/ (op'[x] = op[x] /\ Polled(x)' = Polled(x))
      BY <3>1
    <3>3. QED
      BY <2>2, <3>2
  <2>11. CASE \/ Confirm(x) \/ SpawnReap(x) \/ ExitConfirm(x) \/ Exit(x)
             \/ (x = Main /\ (MainReap \/ MainExit))
    <3>1. pc'[x] \notin {"poll", "selWait", "selParked", "selExpired"}
      BY <2>11 DEF Confirm, SpawnReap, Claim, ExitConfirm, DeadlockPanic, Exit, MainReap, MainExit, Goto
    <3>2. Polled(x)' = {}
      BY <3>1
    <3>3. QED
      BY <2>2, <3>2
  <2>12. QED
    BY <1>3, <2>3, <2>4, <2>5, <2>6, <2>7, <2>8, <2>9, <2>10, <2>11, Zenon
       DEF OtherStep, TaskStep, SpuriousWake, Join, EndProcess, taskVars
<1>4. QED
  BY <1>1, <1>2, <1>3

\* A receive that has been woken stays so until it announces itself again.
LEMMA AwakeKept ==
  ASSUME Typed, Outside, NEW x \in Task, Form(x), ~Arrives(x), NEW d \in Chan, AllAwake(d),
         \A u \in Task : u \in cv'[d] => u \in cv[d] \/ (u = x /\ Parks(x))
  PROVE  AllAwake(d)'
<1> USE DEF Typed, TypeOK, TaskTypeOK
<1> SUFFICES ASSUME NEW r \in Task, r \in Receivers(d)' PROVE r \notin cv'[d] /\ pc'[r] # "block"
  BY DEF AllAwake, Receivers
<1>1. CASE r # x
  <2>1. r \in Receivers(d) /\ pc'[r] = pc[r]
    BY <1>1 DEF Form, Only, Receivers, Panicked, Ch
  <2>2. QED
    BY <1>1, <2>1 DEF AllAwake
<1>2. CASE r = x
  <2>0. ControlOf(x) /\ op'[x].fn = "recv" /\ d = Ch(x)' /\ (pc'[x] \in InWait \/ Panicked(x)')
    BY <1>2 DEF Control, Receivers
  <2> USE <2>0 DEF Receivers, Panicked, Ch, InWait
  <2>1. CASE Parks(x)
    <3>1. pc[x] = "block" /\ x \in Receivers(d)
      BY <2>1 DEF Parks, ControlOf, Sends
    <3>2. QED
      BY <3>1 DEF AllAwake
  <2>2. CASE Resumes(x) \/ Calls(x)
    BY <2>2 DEF Resumes, Calls, Busy
  <2>3. CASE Moves(x)
    <3>1. pc[x] \in {"selParked", "selExpired", "poll"} => op[x].fn # "recv"
      BY DEF ControlOf, Select
    <3>2. pc[x] \in Left => op[x].fn # "recv"
      BY IdleOp DEF Outside
    <3>3. pc[x] \in InWaitLoop /\ pc'[x] \in InWaitLoop \cup {"panic", "paused"} /\ op' = op /\ arm' = arm
      BY <2>3, <3>1, <3>2 DEF Moves, Busy, InWaitLoop, Left, Exited
    <3>4. x \in Receivers(d) /\ pc'[x] # "block" /\ ~Parks(x)
      BY <3>3 DEF InWaitLoop, Parks
    <3>5. QED
      BY <1>2, <3>4 DEF AllAwake
  <2>4. CASE Returns(x)
    BY <2>4, IdleOp DEF Returns, Return
  <2>5. CASE SelectParks(x) \/ SelectResumes(x)
    BY <2>5 DEF SelectParks, SelectResumes, ControlOf, Select
  <2>6. CASE Leaves(x)
    BY <2>6 DEF Leaves, Left, Exited
  <2>7. CASE Stays
    <3>1. x \in Receivers(d) /\ pc'[x] = pc[x] /\ ~Parks(x)
      BY <2>7 DEF Stays, Parks
    <3>2. QED
      BY <1>2, <3>1 DEF AllAwake
  <2>8. QED
    BY <2>1, <2>2, <2>3, <2>4, <2>5, <2>6, <2>7 DEF Form
<1>3. QED
  BY <1>1, <1>2

LEMMA SeenArms == ASSUME Typed, NEW t \in Task PROVE Seen(t) \subseteq Arm
<1> SUFFICES ASSUME NEW i \in Polled(t) PROVE op[t].arms[i] \in Arm
  BY DEF Seen
<1>1. op[t].arms \in Seq(Arm) /\ i \in DOMAIN op[t].arms
  BY DEF Typed, TypeOK, TaskTypeOK, Op, Polled
<1>2. QED
  BY <1>1

LEMMA SeenStep ==
  ASSUME Typed, NEW x \in Task, OtherStep(x) \/ \E c \in Chan : ChannelStep(x, c)
  PROVE  /\ \A t \in Task \ {x} : Seen(t)' = Seen(t)
         /\ \/ Seen(x)' \subseteq Seen(x)
            \/ \E c \in Chan :
                 /\ TrySendMiss(x, c) \/ TryRecvMiss(x, c)
                 /\ Seen(x)' \subseteq Seen(x) \cup {op[x].arms[arm[x]]}
<1>1. \A t \in Task \ {x} : Seen(t)' = Seen(t)
  BY PollStep DEF Seen
<1>2. CASE Polled(x)' = {} \/ (op'[x] = op[x] /\ Polled(x)' = Polled(x))
  <2>1. Seen(x)' \subseteq Seen(x)
    BY <1>2 DEF Seen
  <2>2. QED
    BY <1>1, <2>1
<1>3. ASSUME NEW c \in Chan, TrySendMiss(x, c) \/ TryRecvMiss(x, c),
             op'[x] = op[x], Polled(x)' \subseteq Polled(x) \cup {arm[x]}
      PROVE  Seen(x)' \subseteq Seen(x) \cup {op[x].arms[arm[x]]}
  BY <1>3 DEF Seen
<1>4. QED
  BY <1>1, <1>2, <1>3, PollStep

\* A channel on which nothing happened but that a receive has gone, or
\* nothing at all.
LEMMA ArmKept ==
  ASSUME NEW a, NEW d \in Chan, d = a.ch,
         handoff'[d] = handoff[d], len'[d] = len[d], closed'[d] = closed[d],
         AllAwake(d) => AllAwake(d)'
  PROVE  /\ recvWaiters'[d] = recvWaiters[d] => (Misses(a) => Misses(a)')
         /\ recvWaiters'[d] = recvWaiters[d] \/ recvWaiters[d] # 0 =>
              (Misses(a) \/ Excused(a) => Misses(a)' \/ Excused(a)')
<1>1. /\ Full(d)' <=> Full(d)
      /\ Readable(d)' <=> Readable(d)
  BY DEF Full, Readable, Offered, Available, Unbuffered
<1>2. Excused(a) => Excused(a)'
  BY DEF Excused, Unbuffered
<1>3. QED
  BY <1>1, <1>2 DEF Misses, CanSendNow, Unbuffered

LEMMA SelectsMoved ==
  ASSUME Typed, SelectsRight, NEW x \in Task,
         \A t \in Task \ {x} : Seen(t)' = Seen(t),
         \A t \in Task \ {x} : (t \in current' => t \in current) /\ (t \in schedCv' => t \in schedCv),
         UNCHANGED <<handoff, len, closed>>,
         \A d \in Chan : \/ recvWaiters'[d] = recvWaiters[d]
                         \/ recvWaiters[d] # 0 /\ current' = {},
         \A d \in Chan : AllAwake(d) => AllAwake(d)',
         \A a \in Arm : a \in Seen(x)' =>
            /\ x \in current' => Misses(a)'
            /\ x \in schedCv' => Misses(a)' \/ Excused(a)'
  PROVE  SelectsRight'
<1> SUFFICES ASSUME NEW t \in Task \ {x}, NEW a \in Arm, a \in Seen(t)'
             PROVE  /\ t \in current' => Misses(a)'
                    /\ t \in schedCv' => Misses(a)' \/ Excused(a)'
  BY DEF SelectsRight
<1>1. a \in Seen(t)
  OBVIOUS
<1>2. /\ t \in current => Misses(a)
      /\ t \in schedCv => Misses(a) \/ Excused(a)
  BY <1>1 DEF SelectsRight
<1>3. PICK d \in Chan : d = a.ch
  BY DEF Arm
<1>4. QED
  BY <1>2, <1>3, ArmKept

LEMMA ReceiverCounted ==
  ASSUME WaitersCounted, NEW c \in Chan, NEW r \in Receivers(c)
  PROVE  recvWaiters[c] # 0
<1>1. IsFiniteSet(Receivers(c)) /\ Receivers(c) # {}
  BY SchedAssumption, FS_Subset DEF Receivers
<1>2. QED
  BY <1>1, FS_EmptySet DEF WaitersCounted

\* OfferTaken and OfferReclaim: the slot of c becomes free.
LEMMA SelectsFreed ==
  ASSUME Typed, Outside, Slot, LockedToWait, SelectsRight, TakenHeld,
         NEW x \in Task, NEW c \in Chan, OfferTaken(x, c) \/ OfferReclaim(x, c)
  PROVE  SelectsRight'
<1> USE DEF Typed, TypeOK, ChanTypeOK, SlotTypeOK
<1>0. /\ ChannelStep(x, c) /\ pc[x] = "offer" /\ c = Ch(x) /\ CanLock(x, c) /\ Return(x)
      /\ handoff' = [handoff EXCEPT ![c] = 0]
      /\ UNCHANGED <<len, closed, recvWaiters, current, schedCv>>
  BY DEF OfferTaken, OfferReclaim, At, FreeSlot, schedVars, ChannelStep
<1>1. Form(x) /\ ~Arrives(x) /\ ~Parks(x)
  BY <1>0, ChannelForm DEF Return, Arrives, Parks, TaskTypeOK
<1>2. \A d \in Chan : handoff'[d] = IF d = c THEN 0 ELSE handoff[d]
  BY <1>0
<1>3. \A t \in Task \ {x} : Seen(t)' = Seen(t)
  BY <1>0, SeenStep
<1>4. Seen(x)' = {}
  BY <1>0 DEF Return, Seen, Polled, TaskTypeOK
<1>5. \A d \in Chan : cv'[d] = cv[d] \/ (d = c /\ cv'[d] = {} /\ OfferTaken(x, c))
  BY DEF OfferTaken, OfferReclaim, Broadcast
<1>6. \A d \in Chan : AllAwake(d) => AllAwake(d)'
  BY <1>1, <1>5, AwakeKept
<1> SUFFICES ASSUME NEW t \in Task \ {x}, NEW a \in Arm, a \in Seen(t), t \in current \/ t \in schedCv
             PROVE  /\ t \in current => Misses(a)'
                    /\ t \in schedCv => Misses(a)' \/ Excused(a)'
  BY <1>0, <1>3, <1>4 DEF SelectsRight
<1>7. /\ t \in current => Misses(a)
      /\ t \in schedCv => Misses(a) \/ Excused(a)
      /\ ~closed[a.ch]
  BY DEF SelectsRight, Misses, Excused
<1>8. PICK d \in Chan : d = a.ch
  BY DEF Arm
<1>9. CASE d # c
  BY <1>0, <1>2, <1>6, <1>7, <1>8, <1>9, ArmKept
<1>10. CASE d = c
  <2>1. OfferTaken(x, c) /\ handoff[c] = 2 /\ Unbuffered(c)
    <3>1. op[x].arms # <<>>
      BY <1>0 DEF Control, ControlOf
    <3>2. x \in Offering(c)
      BY <1>0, <3>1 DEF Offering, InLoop
    <3>3. handoff[c] # 0 /\ Unbuffered(c)
      BY <3>2 DEF Slot, OneOffer, HandoffUnbuffered
    <3>4. ~OfferReclaim(x, c)
      BY <1>7, <1>8, <1>10, <3>3 DEF OfferReclaim, Untaken
    <3>5. QED
      BY <3>3, <3>4 DEF OfferTaken
  <2>2. t \notin current
    BY <1>0, <1>8, <1>10, <2>1 DEF TakenHeld
  <2>3. AllAwake(c)'
    <3>1. ASSUME NEW r \in Task, r \in Receivers(c)' PROVE pc'[r] # "block"
      <4>1. CASE r = x
        BY <1>0, <4>1 DEF Return, TaskTypeOK
      <4>2. CASE r # x
        <5>1. pc'[r] = pc[r] /\ Ch(r)' = Ch(r) /\ Ch(r)' = c
          BY <1>1, <3>1, <4>2 DEF Form, Only, Ch, Receivers
        <5>2. NoTask \notin Task /\ mu[c] \in {x, NoTask}
          BY <1>0, ProgramAssumption DEF CanLock
        <5>3. QED
          BY <4>2, <5>1, <5>2 DEF LockedToWait
      <4>3. QED
        BY <4>1, <4>2
    <3>2. cv'[c] = {}
      BY <2>1 DEF OfferTaken, Broadcast
    <3>3. QED
      BY <3>1, <3>2 DEF AllAwake, Receivers
  <2>4. CASE a.dir = "send"
    BY <1>0, <1>7, <1>8, <1>10, <2>1, <2>2, <2>3, <2>4 DEF Excused, Unbuffered
  <2>5. CASE a.dir # "send"
    <3>1. ~Readable(c)'
      BY <1>2, <2>1 DEF Readable, Offered, Available, Unbuffered
    <3>2. QED
      BY <1>0, <1>7, <1>8, <1>10, <2>2, <2>5, <3>1 DEF Misses
  <2>6. QED
    BY <2>4, <2>5
<1>11. QED
  BY <1>9, <1>10

LEMMA SelectsChannel ==
  ASSUME Typed, Outside, Slot, LockedToWait, SelectsRight, TakenHeld,
         NEW x \in Task, NEW c \in Chan, ChannelStep(x, c)
  PROVE  SelectsRight'
<1> USE DEF Typed, TypeOK, ChanTypeOK, TaskTypeOK
<1>0. Form(x) /\ \A t \in Task \ {x} : Seen(t)' = Seen(t)
  BY ChannelForm, SeenStep
<1>1. CASE current' = {} /\ schedCv' = {}
  BY <1>1 DEF SelectsRight
<1>2. CASE SendWait(x, c) \/ OfferWait(x, c) \/ RecvBlock(x, c)
  <2>1. /\ UNCHANGED <<handoff, len, closed, recvWaiters, schedCv>>
        /\ current' \subseteq current \cup {x} /\ cv' = [cv EXCEPT ![c] = @ \cup {x}]
        /\ pc'[x] = "parked" /\ pc[x] \in {"send", "offer", "block"}
    BY <1>2 DEF SendWait, OfferWait, RecvBlock, At, BlockOn, Suspect, ReadProgress, slotVars
  <2>2. Seen(x)' = {}
    BY <2>1 DEF Seen, Polled
  <2>3. ~Arrives(x) /\ Parks(x)
    BY <1>0, <2>1 DEF Form, Arrives, Resumes, Moves, Returns, Return, SelectParks, SelectResumes,
                      Calls, Leaves, Stays, Busy, InWaitLoop, Left, Exited
  <2>4. \A d \in Chan : AllAwake(d) => AllAwake(d)'
    BY <1>0, <2>1, <2>3, AwakeKept
  <2>5. QED
    BY <1>0, <2>1, <2>2, <2>4, SelectsMoved
<1>3. CASE SendClosed(x, c) \/ RecvNone(x, c) \/ CloseAgain(x, c) \/ TrySendClosed(x, c) \/ TryRecvNone(x, c)
  <2>1. UNCHANGED <<handoff, len, closed, recvWaiters, schedCv, current, cv>> /\ Return(x)
    BY <1>3 DEF SendClosed, RecvNone, CloseAgain, TrySendClosed, TryRecvNone, SeeEnd, schedVars,
                chanVars, slotVars
  <2>2. Seen(x)' = {} /\ ~Arrives(x)
    BY <2>1 DEF Return, Seen, Polled, Arrives
  <2>3. \A d \in Chan : AllAwake(d) => AllAwake(d)'
    BY <1>0, <2>1, <2>2, AwakeKept
  <2>4. QED
    BY <1>0, <2>1, <2>2, <2>3, SelectsMoved
<1>4. CASE TrySendMiss(x, c) \/ TryRecvMiss(x, c)
  <2>1. /\ UNCHANGED <<handoff, len, closed, recvWaiters, schedCv, current, cv>>
        /\ pc[x] = "poll" /\ op[x].fn # "spawn"
    BY <1>4 DEF TrySendMiss, TryRecvMiss, Miss, AtArm, At, Control, ControlOf, Select, schedVars,
                chanVars, slotVars
  <2>2. PICK a \in Arm : a = op[x].arms[arm[x]]
    BY <2>1 DEF Control, ControlOf, Op
  <2>3. Misses(a)
    BY <1>4, <2>2 DEF TrySendMiss, TryRecvMiss, AtArm, At, Ch, Misses
  <2>4. ~Arrives(x)
    BY <2>1 DEF Arrives
  <2>5. \A d \in Chan : AllAwake(d) => AllAwake(d)'
    BY <1>0, <2>1, <2>4, AwakeKept
  <2>6. ASSUME NEW b \in Arm, b \in Seen(x)'
        PROVE  /\ x \in current' => Misses(b)'
               /\ x \in schedCv' => Misses(b)' \/ Excused(b)'
    <3>1. b \in Seen(x) \/ b = a
      BY <2>2, <2>6, SeenStep
    <3>2. /\ x \in current => Misses(b)
          /\ x \in schedCv => Misses(b) \/ Excused(b)
      BY <2>3, <3>1 DEF SelectsRight
    <3>3. PICK d \in Chan : d = b.ch
      BY DEF Arm
    <3>4. QED
      BY <2>1, <2>5, <3>2, <3>3, ArmKept
  <2>7. QED
    BY <1>0, <2>1, <2>5, <2>6, SelectsMoved
<1>5. CASE OfferTaken(x, c) \/ OfferReclaim(x, c)
  BY <1>5, SelectsFreed
<1>6. CASE \/ SendOffer(x, c) \/ SendPut(x, c) \/ RecvTake(x, c) \/ CloseOk(x, c)
           \/ TrySendOffer(x, c) \/ TrySendPut(x, c) \/ TryRecvTake(x, c) \/ RecvWait(x, c)
  BY <1>1, <1>6 DEF SendOffer, SendPut, RecvTake, CloseOk, TrySendOffer, TrySendPut, TryRecvTake,
                OfferValue, PutValue, TakeValue, Announce, RecvWait, Arrive, ProgressBump, ProgressTick
<1>7. QED
  BY <1>2, <1>3, <1>4, <1>5, <1>6 DEF ChannelStep

\* What the steps outside of the channels can do to others, and who can read
\* guji_progress or go to sleep in them.
LEMMA OtherCalm ==
  ASSUME Typed, NEW x \in Task, OtherStep(x)
  PROVE  /\ UNCHANGED <<handoff, len, closed>>
         /\ \A d \in Chan : cv'[d] \subseteq cv[d]
         /\ \A t \in Task \ {x} : (t \in current' => t \in current) /\ (t \in schedCv' => t \in schedCv)
         /\ recvWaiters' = recvWaiters \/ WakeSignaled(x) \/ Unblock(x)
         /\ x \in current' => x \in current \/ Snapshot(x) \/ Exit(x)
         /\ x \in schedCv' => x \in schedCv \/ x \in current
<1> USE DEF Typed, TypeOK, schedVars, chanVars, slotVars
<1>1. CASE WakeSignaled(x) \/ Unblock(x)
  BY <1>1 DEF WakeSignaled, Unblock, Resume, ProgressTick
<1>2. CASE Confirm(x) \/ ExitConfirm(x)
  BY <1>2 DEF Confirm, ExitConfirm, DeadlockPanic
<1>3. CASE Snapshot(x) \/ SelectElse(x)
  BY <1>3 DEF Snapshot, SelectElse, ReadProgress
<1>4. CASE SelectWait(x) \/ SelectWake(x) \/ SelectTimeout(x)
  <2>1. UNCHANGED chanVars
    BY <1>4 DEF SelectWait, SelectWake, SelectTimeout
  <2>2. \/ UNCHANGED <<schedCv, current>>
        \/ schedCv' = schedCv \cup {x} /\ current' = current /\ x \in current
        \/ current' = {} /\ schedCv' = schedCv
    BY <1>4 DEF SelectWait, SelectWake, SelectTimeout, SelectLoop, ProgressTick
  <2>3. QED
    BY <2>1, <2>2
<1>5. CASE SpawnReap(x) \/ SpawnCreate(x) \/ MainReap \/ (\E u \in Task : Join(x, u)) \/ MainExit
  BY <1>5 DEF SpawnReap, SpawnCreate, MainReap, Join, Claim, MainExit, ProgressTick
<1>6. CASE Timeout(x)
  <2>1. /\ UNCHANGED <<handoff, len, closed, recvWaiters, current>> /\ schedCv' \subseteq schedCv
        /\ cv' = cv \/ cv' = [cv EXCEPT ![Ch(x)] = @ \ {x}]
    BY <1>6 DEF Timeout
  <2>2. \A d \in Chan : cv'[d] \subseteq cv[d]
    BY <2>1 DEF ChanTypeOK
  <2>3. QED
    BY <2>1, <2>2
<1>7. CASE SpuriousWake(x)
  BY <1>7 DEF SpuriousWake
<1>8. CASE Exit(x)
  BY <1>8 DEF Exit, ProgressTick
<1>9. CASE \/ \E o \in may[x] : Call(x, o)
           \/ \E how \in {"exited", "panicked", "returned"} : EndProcess(x, how)
  BY <1>9 DEF Call, EndProcess
<1>10. QED
  BY <1>1, <1>2, <1>3, <1>4, <1>5, <1>6, <1>7, <1>8, <1>9, Zenon DEF OtherStep, TaskStep

\* A task at a critical section of a channel does nothing else.
LEMMA OtherWhere ==
  ASSUME NEW x \in Task, OtherStep(x), pc[x] \in {"recv", "poll"}
  PROVE  UNCHANGED <<pc, op, arm>>
BY DEF OtherStep, TaskStep, WakeSignaled, At, Confirm, Unblock, Snapshot, SelectElse, SelectWait,
       SelectWake, SelectTimeout, SpawnReap, SpawnCreate, ExitConfirm, Join, EndProcess, Timeout,
       SpuriousWake, Exit, Call, MainReap, MainExit, taskVars

LEMMA AwakeOther ==
  ASSUME Typed, Outside, NEW x \in Task, OtherStep(x), NEW d \in Chan, AllAwake(d)
  PROVE  AllAwake(d)'
<1>1. CASE SpawnCreate(x)
  <2>1. PICK s \in Task \ {x} :
           /\ op[s] = Idle /\ op[x].fn = "spawn" /\ op'[x] = Idle
           /\ \A u \in Task \ {s, x} : pc'[u] = pc[u]
           /\ \A u \in Task \ {x} : op'[u] = op[u]
           /\ UNCHANGED arm
    BY <1>1, SpawnForm
  <2>2. cv' = cv
    BY <1>1 DEF SpawnCreate, chanVars
  <2>3. \A r \in Task : r \in Receivers(d)' => r \in Receivers(d) /\ pc'[r] = pc[r]
    BY <2>1, IdleOp DEF Receivers, Panicked, Ch
  <2>4. QED
    BY <2>2, <2>3 DEF AllAwake, Receivers
<1>2. CASE ~SpawnCreate(x)
  <2>1. Form(x)
    BY <1>2, OtherForm
  <2>2. ~Arrives(x)
    BY OtherWhere DEF Arrives
  <2>3. QED
    BY <2>1, <2>2, OtherCalm, AwakeKept
<1>3. QED
  BY <1>1, <1>2

LEMMA SelectsOther ==
  ASSUME Typed, Outside, WaitersCounted, SelectsRight, NEW x \in Task, OtherStep(x)
  PROVE  SelectsRight'
<1> USE DEF Typed, TypeOK, TaskTypeOK, ChanTypeOK
<1>1. \A t \in Task \ {x} : Seen(t)' = Seen(t)
  BY SeenStep
<1>2. \A d \in Chan : AllAwake(d) => AllAwake(d)'
  BY AwakeOther
<1>3. UNCHANGED <<handoff, len, closed>>
  BY OtherCalm
<1>4. ASSUME NEW d \in Chan
      PROVE  recvWaiters'[d] = recvWaiters[d] \/ (recvWaiters[d] # 0 /\ current' = {})
  <2>1. CASE recvWaiters' = recvWaiters
    BY <2>1
  <2>2. CASE WakeSignaled(x) \/ Unblock(x)
    <3>1. Resume(x) /\ pc[x] \in {"parked", "unblock"}
      BY <2>2 DEF WakeSignaled, Unblock, At
    <3>2. CASE cont[x] = "recv"
      <4>1. op[x].fn = "recv"
        BY <3>2 DEF Control, ControlOf
      <4>2. CASE d = Ch(x)
        <5>1. x \in Receivers(d)
          BY <3>1, <4>1, <4>2 DEF Receivers, InWait
        <5>2. QED
          BY <3>1, <5>1, ReceiverCounted DEF Resume, ProgressTick
      <4>3. CASE d # Ch(x)
        BY <3>1, <3>2, <4>3 DEF Resume, WaiterGone
      <4>4. QED
        BY <4>2, <4>3
    <3>3. CASE cont[x] # "recv"
      BY <3>1, <3>3 DEF Resume, WaiterGone
    <3>4. QED
      BY <3>2, <3>3
  <2>3. QED
    BY <2>1, <2>2, OtherCalm
<1>5. Seen(x)' \subseteq Seen(x)
  <2>1. CASE pc[x] = "poll"
    BY <2>1, OtherWhere DEF Seen, Polled
  <2>2. CASE pc[x] # "poll"
    <3>1. \A c \in Chan : ~TrySendMiss(x, c) /\ ~TryRecvMiss(x, c)
      BY <2>2 DEF TrySendMiss, TryRecvMiss, AtArm, At
    <3>2. QED
      BY <3>1, SeenStep
  <2>3. QED
    BY <2>1, <2>2
<1>6. Snapshot(x) \/ Exit(x) => Seen(x)' = {}
  <2>1. CASE Exit(x)
    BY <2>1 DEF Exit, Goto, Seen, Polled
  <2>2. CASE Snapshot(x)
    <3>1. arm'[x] = 1 /\ pc'[x] = "poll" /\ op' = op /\ op[x].arms \in Seq(Arm)
      BY <2>2 DEF Snapshot, Goto, Control, ControlOf, Op
    <3>2. QED
      BY <3>1 DEF Seen, Polled
  <2>3. QED
    BY <2>1, <2>2
<1>7. ASSUME NEW a \in Arm, a \in Seen(x)'
      PROVE  /\ x \in current' => Misses(a)'
             /\ x \in schedCv' => Misses(a)' \/ Excused(a)'
  <2>1. /\ x \in current => Misses(a)
        /\ x \in schedCv => Misses(a) \/ Excused(a)
    BY <1>5, <1>7 DEF SelectsRight
  <2>2. PICK d \in Chan : d = a.ch
    BY DEF Arm
  <2>3. /\ x \in current' => x \in current
        /\ x \in schedCv' => x \in schedCv \/ x \in current
    BY <1>6, <1>7, OtherCalm
  <2>4. QED
    BY <1>2, <1>3, <1>4, <2>1, <2>2, <2>3, ArmKept
<1>8. QED
  BY <1>1, <1>2, <1>3, <1>4, <1>7, OtherCalm, SelectsMoved

\* Who is up to date after a step, and who has an offer out.
LEMMA CurrentStep ==
  ASSUME Typed, NEW x \in Task, OtherStep(x) \/ \E c \in Chan : ChannelStep(x, c),
         current' # {}
  PROVE  /\ \A t \in Task \ {x} : t \in current' => t \in current
         /\ x \in current' => x \in current \/ Seen(x)' = {}
         /\ pc'[x] = "offer" => handoff' = handoff /\ UNCHANGED <<pc, op, arm>>
<1> USE DEF Typed, TypeOK, TaskTypeOK
<1>1. CASE \E c \in Chan : ChannelStep(x, c)
  <2>1. PICK c \in Chan : ChannelStep(x, c)
    BY <1>1
  <2>2. CASE SendWait(x, c) \/ OfferWait(x, c) \/ RecvBlock(x, c)
    <3>1. current' \subseteq current \cup {x} /\ pc'[x] = "parked"
      BY <2>2 DEF SendWait, OfferWait, RecvBlock, BlockOn, Suspect, ReadProgress
    <3>2. Seen(x)' = {}
      BY <3>1 DEF Seen, Polled
    <3>3. QED
      BY <3>1, <3>2
  <2>3. CASE \/ SendClosed(x, c) \/ OfferTaken(x, c) \/ OfferReclaim(x, c) \/ RecvNone(x, c)
             \/ CloseAgain(x, c) \/ TrySendClosed(x, c) \/ TryRecvNone(x, c)
    BY <2>3 DEF SendClosed, OfferTaken, OfferReclaim, RecvNone, CloseAgain, TrySendClosed,
                TryRecvNone, SeeEnd, Return, schedVars
  <2>4. CASE TrySendMiss(x, c) \/ TryRecvMiss(x, c)
    BY <2>4 DEF TrySendMiss, TryRecvMiss, Miss, NextArm, schedVars
  <2>5. QED
    BY <2>1, <2>2, <2>3, <2>4 DEF ChannelStep, SendOffer, SendPut, RecvTake, CloseOk, TrySendOffer,
       TrySendPut, TryRecvTake, OfferValue, PutValue, TakeValue, Announce, RecvWait, Arrive,
       ProgressBump, ProgressTick
<1>2. CASE OtherStep(x)
  <2>1. CASE Snapshot(x)
    <3>1. /\ arm'[x] = 1 /\ pc'[x] = "poll" /\ op' = op /\ op[x].arms \in Seq(Arm)
          /\ current' = current \cup {x}
      BY <2>1 DEF Snapshot, Goto, ReadProgress, Control, ControlOf, Op
    <3>2. Seen(x)' = {}
      BY <3>1 DEF Seen, Polled
    <3>3. QED
      BY <3>1, <3>2
  <2>2. CASE Exit(x)
    <3>1. pc'[x] = "exitConfirm" /\ current' = {x}
      BY <2>2 DEF Exit, Goto, ProgressTick
    <3>2. Seen(x)' = {}
      BY <3>1 DEF Seen, Polled
    <3>3. QED
      BY <3>1, <3>2
  <2>3. CASE ~Snapshot(x) /\ ~Exit(x)
    <3>1. ~WakeSignaled(x) /\ ~Unblock(x)
      BY DEF WakeSignaled, Unblock, Resume, ProgressTick
    <3>2. pc'[x] = "offer" => UNCHANGED <<pc, op, arm>>
      <4>1. CASE \E l \in PC \ {"offer"} : Goto(x, l)
        BY <4>1 DEF Goto
      <4>2. CASE SelectElse(x)
        BY <4>2 DEF SelectElse, Return
      <4>3. CASE SpawnCreate(x)
        BY <4>3 DEF SpawnCreate, ProgressTick
      <4>4. CASE UNCHANGED taskVars
        BY <4>4 DEF taskVars
      <4>5. CASE \E o \in may[x] : Call(x, o)
        <5>1. PICK o \in may[x] : Call(x, o)
          BY <4>5
        <5>2. Entry(o.fn) # "offer"
          BY Allowed DEF Op, Entry
        <5>3. QED
          BY <5>1, <5>2 DEF Call
      <4>6. CASE ExitConfirm(x) \/ SelectTimeout(x) \/ SelectWait(x) \/ SelectWake(x) \/ Confirm(x)
        <5>1. \/ Goto(x, "panic") \/ Goto(x, "paused") \/ Goto(x, "ended") \/ Goto(x, "unblock")
              \/ Goto(x, "selParked") \/ Goto(x, "selTop")
          BY <4>6 DEF ExitConfirm, SelectTimeout, SelectWait, SelectWake, SelectLoop,
                      DeadlockPanic, Confirm
        <5>2. QED
          BY <4>1, <5>1, Zenon DEF PC, InWait
      <4>7. CASE Timeout(x) \/ SpawnReap(x) \/ (x = Main /\ (MainReap \/ MainExit))
        <5>1. \/ Goto(x, "expired") \/ Goto(x, "selExpired") \/ Goto(x, "exitCheck")
              \/ Goto(x, "join") \/ Goto(x, "mainJoin") \/ Goto(x, "exit") \/ Goto(x, "mainReap")
          BY <4>7 DEF Timeout, SpawnReap, Claim, MainReap, MainExit
        <5>2. QED
          BY <4>1, <5>1, Zenon DEF PC, InWait
      <4>8. QED
        BY <1>2, <2>3, <3>1, <4>2, <4>3, <4>4, <4>5, <4>6, <4>7, Zenon
           DEF OtherStep, TaskStep, SpuriousWake, Join, EndProcess
    <3>3. QED
      BY <1>2, <2>3, <3>2, OtherCalm
  <2>4. QED
    BY <2>1, <2>2, <2>3
<1>3. QED
  BY <1>1, <1>2

LEMMA TakenStep ==
  ASSUME Typed, Owned, TakenHeld, NEW x \in Task, OtherStep(x) \/ \E c \in Chan : ChannelStep(x, c)
  PROVE  TakenHeld'
<1> USE DEF Typed, TypeOK, TaskTypeOK
<1> SUFFICES ASSUME NEW u \in Task, pc'[u] = "offer", handoff'[Ch(u)'] = 2,
                    NEW t \in current', NEW a \in Seen(t)', a.ch = Ch(u)'
             PROVE  FALSE
  BY DEF TakenHeld
<1>1. t \in Task /\ ~SpawnCreate(x) /\ (t \in current \/ Seen(t)' = {})
  <2>1. SchedTypeOK'
    BY SchedTyped
  <2>2. QED
    BY <2>1, CurrentStep DEF SchedTypeOK, SpawnCreate, ProgressTick
<1>2. Only(x)
  BY <1>1, ChannelForm, OtherForm DEF Form
<1>3. /\ pc[u] = "offer" /\ Ch(u)' = Ch(u) /\ mu[Ch(u)] = u
      /\ u = x => handoff' = handoff /\ UNCHANGED <<pc, op, arm>>
  <2>1. CASE u = x
    BY <2>1, CurrentStep DEF Ch, Owned
  <2>2. CASE u # x
    BY <1>2, <2>2 DEF Ch, Owned, Only
  <2>3. QED
    BY <2>1, <2>2
<1>4. PICK d \in Chan : d = Ch(u)
  BY <1>3, ChanOf DEF Control, ControlOf
<1>5. u # x => ~CanLock(x, d)
  BY <1>3, <1>4, ProgramAssumption DEF CanLock
<1>6. handoff[d] = 2
  BY <1>3, <1>4, <1>5, LockedOnly
<1>7. t \in current => \A b \in Seen(t) : b.ch # d
  BY <1>3, <1>4, <1>6 DEF TakenHeld
<1>8. a \in Seen(t)' /\ t \in current /\ a.ch = d /\ a \notin Seen(t)
  BY <1>1, <1>3, <1>4, <1>7
<1>9. t = x
  BY <1>1, <1>8, SeenStep
<1>10. PICK c \in Chan : (TrySendMiss(x, c) \/ TryRecvMiss(x, c)) /\ a = op[x].arms[arm[x]]
  BY <1>8, <1>9, SeenStep
<1>11. c = d /\ CanLock(x, c) /\ pc[x] = "poll"
  BY <1>8, <1>10 DEF TrySendMiss, TryRecvMiss, AtArm, At, Ch
<1>12. QED
  BY <1>3, <1>5, <1>11

-----------------------------------------------------------------------------
(* Nobody sleeps through it.                                                *)

Attentive == Sleeping /\ Owned /\ TakenHeld /\ SelectsRight

LEMMA InitAttentive == Init => Attentive
BY DEF Init, SchedInit, ChanInit, Attentive, Sleeping, SleepOf, Owned, TakenHeld, SelectsRight, Seen,
       Polled, Idle

LEMMA AttentiveStays ==
  ASSUME Attentive, UNCHANGED vars
  PROVE  Attentive'
BY DEF vars, schedVars, chanVars, slotVars, taskVars, Attentive, Sleeping, SleepOf, Owned, TakenHeld,
       SelectsRight, Seen, Polled, Misses, Excused, AllAwake, Receivers, Panicked, Ch, CanSendNow,
       Readable, Full, Offered, Available, Unbuffered

LEMMA NextAttentive ==
  ASSUME Typed, Outside, WaitersCounted, Slot, LockedToWait, Attentive, [Next]_vars
  PROVE  Attentive'
<1>1. CASE UNCHANGED vars
  BY <1>1, AttentiveStays
<1>2. ASSUME NEW t \in Task, OtherStep(t) \/ \E c \in Chan : ChannelStep(t, c)
      PROVE  Attentive'
  <2>1. Sleeping' /\ SelectsRight'
    BY <1>2, SleepChannel, SleepOther, SelectsChannel, SelectsOther DEF Attentive
  <2>2. Owned' /\ TakenHeld'
    BY <1>2, OwnedStep, TakenStep DEF Attentive
  <2>3. QED
    BY <2>1, <2>2 DEF Attentive
<1>3. QED
  BY <1>1, <1>2, NextCases

LEMMA Attended == Spec => [](Typed /\ Outside /\ WaitersCounted /\ Slot /\ LockedToWait /\ Attentive)
<1>1. Init => Attentive
  BY InitAttentive
<1>2. Typed /\ Outside /\ WaitersCounted /\ Slot /\ LockedToWait /\ Attentive /\ [Next]_vars => Attentive'
  BY NextAttentive
<1>3. QED
  BY <1>1, <1>2, Counted, WaitersRight, Awakened, PTL DEF Spec

\* A parked select that nobody has signalled has missed nothing, except a
\* receive that is awake (guji_select_wait, guji_progress_bump).
THEOREM SelectsWoken == Spec => []NoLostSelect
<1>1. ASSUME Typed, WaitersCounted, Attentive PROVE NoLostSelect
  <2> SUFFICES ASSUME NEW t \in Task, pc[t] = "selParked", t \in schedCv, ~Waits(t)
               PROVE  \E i \in DOMAIN op[t].arms :
                        LET d == op[t].arms[i].ch IN
                        /\ op[t].arms[i].dir = "send" /\ Unbuffered(d) /\ CanSendNow(d)
                        /\ \E r \in Receivers(d) : r \notin cv[d] /\ pc[r] # "block"
    BY DEF NoLostSelect
  <2>1. op[t].fn = "select" /\ cont[t] = "none" /\ op[t].arms \in Seq(Arm)
    BY <1>1 DEF Typed, TypeOK, TaskTypeOK, Control, ControlOf, Select, Op
  <2>2. PICK i \in DOMAIN op[t].arms : ~Misses(op[t].arms[i])
    BY <2>1 DEF Waits, Misses
  <2>3. PICK a \in Arm : a = op[t].arms[i]
    BY <2>1
  <2>4. a \in Seen(t)
    BY <2>3 DEF Seen, Polled
  <2>5. Excused(a)
    BY <1>1, <2>2, <2>3, <2>4 DEF Attentive, SelectsRight
  <2>6. CanSendNow(a.ch) /\ recvWaiters[a.ch] # 0
    BY <2>2, <2>3, <2>5 DEF Misses, Excused, CanSendNow
  <2>7. a.ch \in Chan
    BY DEF Arm
  <2>8. PICK r \in Receivers(a.ch) : TRUE
    <3>1. Cardinality(Receivers(a.ch)) # 0
      BY <1>1, <2>6, <2>7 DEF WaitersCounted
    <3>2. QED
      BY <3>1, FS_EmptySet
  <2>9. QED
    BY <2>3, <2>5, <2>6, <2>8 DEF Excused, AllAwake
<1>2. QED
  BY <1>1, Attended, PTL

-----------------------------------------------------------------------------
(* A dead program is watched.                                               *)

\* A panic, once it has begun, is on its way until the process is gone
\* (guji_deadlock_panic_locked: the first one wins, the others pause).
OnePanics ==
  /\ \A t \in Task : Panicked(t) => panicking
  /\ panicking /\ process = "up" => \E t \in Task : pc[t] = "panic"

\* Everybody is blocked: then a window is open that can still confirm it, or
\* somebody has been woken or has a window behind him, or panics.
Guarded ==
  \/ \E t \in armed : pc[t] = "exitConfirm" => t \in current
  \/ Woken # {}
  \/ \E t \in Task : pc[t] = "exitCheck" /\ t \in current
  \/ \E t \in Task : pc[t] = "panic"

Vigilant == process = "up" /\ ~exiting /\ Live # {} /\ Live = Blocked => Guarded

\* Where only the steps around a window lead.
Verdict == {"panic", "paused", "expired", "selExpired", "exitCheck"}

LEMMA VerdictEntered ==
  ASSUME Typed, NEW x \in Task, OtherStep(x) \/ \E c \in Chan : ChannelStep(x, c),
         ~(Confirm(x) \/ SelectTimeout(x) \/ ExitConfirm(x) \/ Timeout(x)), pc'[x] \in Verdict
  PROVE  pc'[x] = pc[x]
<1> USE DEF Typed, TypeOK, TaskTypeOK, Verdict
<1>1. ASSUME NEW c \in Chan, ChannelStep(x, c) PROVE FALSE
  <2>1. \/ Return(x) \/ Goto(x, "offer") \/ Goto(x, "block") \/ NextArm(x)
        \/ pc' = [pc EXCEPT ![x] = "parked"]
    BY <1>1 DEF ChannelStep, SendWait, SendClosed, SendOffer, SendPut, OfferWait, OfferTaken,
       OfferReclaim, RecvTake, RecvNone, RecvWait, RecvBlock, CloseOk, CloseAgain, TrySendMiss,
       TryRecvMiss, Miss, TrySendClosed, TrySendOffer, TrySendPut, TryRecvTake, TryRecvNone,
       BlockOn, OfferValue, PutValue, TakeValue, SeeEnd
  <2>2. QED
    BY <2>1 DEF Return, Goto, NextArm
<1>2. CASE OtherStep(x)
  <2>1. CASE \E l \in PC \ Verdict : Goto(x, l)
    BY <2>1 DEF Goto
  <2>2. CASE SelectElse(x)
    BY <2>2 DEF SelectElse, Return
  <2>3. CASE SpawnCreate(x)
    <3>1. op[x].task \in Task /\ pc' = [pc EXCEPT ![x] = "run", ![op[x].task] = "run"]
      BY <2>3 DEF SpawnCreate, Op
    <3>2. QED
      BY <3>1
  <2>4. CASE UNCHANGED taskVars
    BY <2>4 DEF taskVars
  <2>5. CASE \E o \in may[x] : Call(x, o)
    <3>1. PICK o \in may[x] : Call(x, o)
      BY <2>5
    <3>2. Entry(o.fn) \notin Verdict
      BY Allowed DEF Op, Entry
    <3>3. QED
      BY <3>1, <3>2 DEF Call
  <2>6. CASE WakeSignaled(x) \/ Unblock(x)
    BY <2>6 DEF WakeSignaled, Unblock, Resume
  <2>7. CASE \/ SelectWait(x) \/ SelectWake(x) \/ SpawnReap(x) \/ Snapshot(x) \/ Exit(x)
             \/ (x = Main /\ (MainReap \/ MainExit))
    <3>1. \/ Goto(x, "poll")
          \/ Goto(x, "join") \/ Goto(x, "mainJoin") \/ Goto(x, "exit") \/ Goto(x, "mainReap")
          \/ Goto(x, "selParked") \/ Goto(x, "selTop") \/ Goto(x, "exitConfirm") \/ Goto(x, "ended")
      BY <2>7 DEF SelectWait, SelectWake, SelectLoop, SpawnReap, Snapshot, Claim, Exit,
                  MainReap, MainExit
    <3>2. QED
      BY <2>1, <3>1, Zenon DEF PC, InWait, Verdict
  <2>8. QED
    BY <1>2, <2>2, <2>3, <2>4, <2>5, <2>6, <2>7, Zenon
       DEF OtherStep, TaskStep, SpuriousWake, Join, EndProcess
<1>3. QED
  BY <1>1, <1>2

LEMMA PanicEntered ==
  ASSUME Typed, NEW x \in Task, OtherStep(x) \/ \E c \in Chan : ChannelStep(x, c),
         ~(Confirm(x) \/ SelectTimeout(x) \/ ExitConfirm(x)), Panicked(x)'
  PROVE  Panicked(x)
<1>1. CASE Timeout(x)
  BY <1>1 DEF Timeout, Goto, Panicked, Typed, TypeOK, TaskTypeOK
<1>2. CASE ~Timeout(x)
  BY <1>2, VerdictEntered DEF Verdict, Panicked
<1>3. QED
  BY <1>1, <1>2

LEMMA PanicStep ==
  ASSUME Typed, Outside, OnePanics, NEW x \in Task, OtherStep(x) \/ \E c \in Chan : ChannelStep(x, c),
         process = "up"
  PROVE  OnePanics'
<1> USE DEF Typed, TypeOK, TaskTypeOK, SchedTypeOK
<1>1. CASE Confirm(x) \/ SelectTimeout(x) \/ ExitConfirm(x)
  <2>1. CASE DeadlockPanic(x)
    <3>1. panicking' = TRUE /\ pc[x] # "panic"
      BY <1>1, <2>1 DEF DeadlockPanic, Confirm, At, SelectTimeout, ExitConfirm
    <3>2. CASE panicking
      <4>1. PICK t \in Task : pc[t] = "panic"
        BY <3>2 DEF OnePanics
      <4>2. pc'[t] = "panic"
        BY <3>1, <4>1, <2>1 DEF DeadlockPanic, Goto
      <4>3. QED
        BY <3>1, <4>2 DEF OnePanics
    <3>3. CASE ~panicking
      <4>1. pc'[x] = "panic"
        BY <2>1, <3>3 DEF DeadlockPanic, Goto
      <4>2. QED
        BY <3>1, <4>1 DEF OnePanics
    <3>4. QED
      BY <3>2, <3>3
  <2>2. CASE ~DeadlockPanic(x)
    <3>1. Goto(x, "unblock") \/ Goto(x, "ended") \/ Goto(x, "selParked") \/ Goto(x, "selTop")
      BY <1>1, <2>2 DEF Confirm, SelectTimeout, ExitConfirm, SelectLoop
    <3>2. panicking' = panicking /\ pc[x] # "panic"
      BY <1>1, <2>2 DEF Confirm, SelectTimeout, ExitConfirm, At
    <3>3. process' = process
      BY <1>1 DEF Confirm, SelectTimeout, ExitConfirm, lifeVars
    <3>4. QED
      BY <3>1, <3>2, <3>3 DEF Goto, OnePanics, Panicked
  <2>3. QED
    BY <2>1, <2>2
<1>2. CASE ~(Confirm(x) \/ SelectTimeout(x) \/ ExitConfirm(x))
  <2>1. panicking' = panicking
    BY <1>2, PanicOnly
  <2>2. \A t \in Task : (Panicked(t) \/ Panicked(t)') => pc'[t] = pc[t]
    <3>1. CASE SpawnCreate(x)
      BY <3>1, SpawnForm DEF Panicked
    <3>2. CASE ~SpawnCreate(x)
      <4>1. Form(x)
        BY <3>2, ChannelForm, OtherForm
      <4>2. Panicked(x) \/ Panicked(x)' => pc'[x] = pc[x]
        <5>1. CASE Moves(x)
          BY <1>2, <5>1, PanicEntered DEF Moves, Busy, InWaitLoop, Exited, Panicked
        <5>2. QED
          BY <4>1, <5>1 DEF Form, Parks, Resumes, Arrives, Returns, Return, SelectParks,
             SelectResumes, Calls, Leaves, Stays, Busy, Exited, Panicked, Control, ControlOf
      <4>3. QED
        BY <4>1, <4>2 DEF Form, Only, Panicked
    <3>3. QED
      BY <3>1, <3>2
  <2>3. QED
    BY <2>1, <2>2 DEF OnePanics, Panicked
<1>3. QED
  BY <1>1, <1>2

LEMMA AllOfThem ==
  ASSUME NEW S \in SUBSET Task, NEW T \in SUBSET S
  PROVE  /\ Cardinality(S) = Cardinality(T) <=> S = T
         /\ Cardinality(S) > 0 <=> S # {}
<1>1. IsFiniteSet(S)
  BY SchedAssumption, FS_Subset
<1>2. QED
  BY <1>1, FS_Subset, FS_EmptySet, FS_CardinalityType

LEMMA BlockedLive == Blocked \subseteq Live /\ Live \subseteq Task
BY DEF Blocked, Live, Panicked, InWait

\* A task at work is alive, and not blocked.
LEMMA BusyEnds ==
  ASSUME NEW x \in Task,
         pc'[x] \in {"run", "send", "offer", "recv", "block", "close", "reap", "join", "selTop", "poll", "selWait"}
  PROVE  Live' # Blocked'
<1>1. x \in Live' /\ x \notin Blocked'
  BY DEF Live, Blocked, Panicked, InWait
<1>2. QED
  BY <1>1

\* A task that is not on watch moves, or one whose window expires after it
\* has exited.
LEMMA GuardKept ==
  ASSUME Typed, Guarded, NEW x \in Task, Only(x), UNCHANGED <<op, arm, cv, schedCv, current>>,
         pc'[x] = pc[x] \/ pc[x] \in {"exitConfirm", "exitCheck", "mainReap"},
         IF pc[x] = "exitConfirm" /\ pc'[x] # pc[x]
         THEN pc'[x] = "exitCheck" /\ armed' = armed \ {x}
         ELSE armed' = armed,
         pc[x] \in {"exitCheck", "mainReap"} => x \notin armed,
         pc[x] = "exitCheck" /\ pc'[x] # pc[x] => x \notin current
  PROVE  Guarded'
<1>0. \A u \in Task \ {x} : pc'[u] = pc[u]
  BY DEF Only
<1>1. ASSUME NEW t \in armed, pc[t] = "exitConfirm" => t \in current
      PROVE  Guarded'
  <2>1. t \in Task
    BY DEF Typed, TypeOK, SchedTypeOK
  <2>2. CASE pc'[t] = pc[t]
    BY <1>1, <2>1, <2>2 DEF Guarded
  <2>3. CASE pc'[t] # pc[t]
    BY <1>0, <1>1, <2>1, <2>3 DEF Guarded
  <2>4. QED
    BY <2>2, <2>3
<1>2. ASSUME NEW u \in Woken
      PROVE  Guarded'
  <2>1. u \in Task /\ pc'[u] = pc[u] /\ Ch(u)' = Ch(u)
    BY <1>0, <1>2 DEF Woken, Ch
  <2>2. u \in Woken'
    BY <1>2, <2>1 DEF Woken
  <2>3. QED
    BY <2>2 DEF Guarded
<1>3. ASSUME NEW t \in Task, (pc[t] = "exitCheck" /\ t \in current) \/ pc[t] = "panic"
      PROVE  Guarded'
  <2>1. pc'[t] = pc[t]
    BY <1>0, <1>3
  <2>2. QED
    BY <1>3, <2>1 DEF Guarded
<1>4. QED
  BY <1>1, <1>2, <1>3 DEF Guarded

\* A blocking task, or one that exits, opens a window if nobody else runs.
LEMMA Confirmable ==
  ASSUME Typed, NEW x \in Task, armed' = armed \cup {x}, pc'[x] = "exitConfirm" => x \in current'
  PROVE  Guarded'
BY DEF Guarded

LEMMA VigilantStep ==
  ASSUME Typed, Outside, Accounting, Accounting', Sleeping, OnePanics', Vigilant,
         NEW x \in Task, OtherStep(x) \/ \E c \in Chan : ChannelStep(x, c),
         process = "up"
  PROVE  Vigilant'
<1> USE DEF Typed, TypeOK, TaskTypeOK, SchedTypeOK
<1> SUFFICES ASSUME process' = "up", ~exiting', Live' # {}, Live' = Blocked'
             PROVE  Guarded'
  BY DEF Vigilant
<1>1. live' = blocked' /\ live' > 0
  BY AllOfThem DEF Accounting, Live
<1>2. live = blocked => Live = Blocked
  BY AllOfThem, BlockedLive DEF Accounting
<1>3. panicking' => Guarded'
  BY DEF OnePanics, Guarded
<1>4. CASE \E c \in Chan : ChannelStep(x, c)
  <2>1. PICK c \in Chan : ChannelStep(x, c)
    BY <1>4
  <2>2. CASE SendWait(x, c) \/ OfferWait(x, c) \/ RecvBlock(x, c)
    <3>1. PICK l \in {"send", "offer", "recv"} : BlockOn(x, c, l)
      BY <2>2 DEF SendWait, OfferWait, RecvBlock
    <3>2. AllBlocked(blocked + 1)
      BY <1>1, <3>1 DEF BlockOn, AllBlocked
    <3>3. armed' = armed \cup {x} /\ pc'[x] = "parked"
      BY <3>1, <3>2 DEF BlockOn, Suspect, OpenWindow
    <3>4. QED
      BY <3>3, Confirmable
  <2>3. CASE ~(SendWait(x, c) \/ OfferWait(x, c) \/ RecvBlock(x, c))
    <3>1. Return(x) \/ Goto(x, "offer") \/ Goto(x, "block") \/ NextArm(x)
      BY <2>1, <2>3 DEF ChannelStep, SendClosed, SendOffer, SendPut, OfferTaken,
         OfferReclaim, RecvTake, RecvNone, RecvWait, CloseOk, CloseAgain, TrySendMiss,
         TryRecvMiss, Miss, TrySendClosed, TrySendOffer, TrySendPut, TryRecvTake, TryRecvNone,
         OfferValue, PutValue, TakeValue, SeeEnd
    <3>2. pc'[x] \in {"run", "offer", "block", "poll", "selWait"}
      BY <3>1 DEF Return, Goto, NextArm
    <3>3. QED
      BY <3>2, BusyEnds
  <2>4. QED
    BY <2>2, <2>3
<1>5. CASE OtherStep(x)
  <2>1. CASE \/ WakeSignaled(x) \/ Unblock(x) \/ Snapshot(x) \/ SelectElse(x) \/ SpawnReap(x)
             \/ SpawnCreate(x) \/ \E o \in may[x] : Call(x, o)
    <3>1. CASE WakeSignaled(x) \/ Unblock(x)
      <4>1. pc'[x] = cont[x] /\ cont[x] \in {"send", "offer", "recv"}
        BY <3>1 DEF WakeSignaled, Unblock, At, Resume, Control, ControlOf
      <4>2. QED
        BY <4>1, BusyEnds
    <3>2. CASE Snapshot(x) \/ SelectElse(x) \/ SpawnReap(x)
      <4>1. pc'[x] \in {"poll", "run", "join"}
        BY <3>2 DEF Snapshot, SelectElse, Return, SpawnReap, Claim, Goto
      <4>2. QED
        BY <4>1, BusyEnds
    <3>3. CASE SpawnCreate(x)
      <4>1. pc'[x] = "run"
        BY <3>3, SpawnForm
      <4>2. QED
        BY <4>1, BusyEnds
    <3>4. CASE \E o \in may[x] : Call(x, o)
      <4>1. PICK o \in may[x] : Call(x, o)
        BY <3>4
      <4>2. pc'[x] = Entry(o.fn) /\ Entry(o.fn) \in {"selTop", "reap", "send", "recv", "close"}
        BY <4>1, Allowed DEF Op, Entry, Call
      <4>3. QED
        BY <4>2, BusyEnds
    <3>5. QED
      BY <2>1, <3>1, <3>2, <3>3, <3>4
  <2>2. CASE SelectWait(x) \/ SelectWake(x) \/ SelectTimeout(x)
    <3>1. CASE \E n \in Int : SelectLoop(x, n) /\ live' = live
      <4>1. PICK n \in Int : SelectLoop(x, n) /\ live' = live
        BY <3>1
      <4>2. CASE pc'[x] = "selTop"
        BY <4>2, BusyEnds
      <4>3. CASE pc'[x] # "selTop"
        <5>1. blocked' = n /\ SelectWindow(x, n) /\ pc'[x] = "selParked"
          BY <4>1, <4>3 DEF SelectLoop, Goto
        <5>2. armed' = armed \cup {x}
          BY <1>1, <4>1, <5>1 DEF SelectWindow, OpenWindow
        <5>3. QED
          BY <5>1, <5>2, Confirmable
      <4>4. QED
        BY <4>2, <4>3
    <3>2. CASE DeadlockPanic(x)
      BY <1>3, <3>2 DEF DeadlockPanic
    <3>3. QED
      BY <2>2, <3>1, <3>2 DEF SelectWait, SelectWake, SelectTimeout
  <2>3. CASE Exit(x)
    <3>1. LeavesOnlyBlocked(live - 1)
      BY <1>1, <2>3 DEF Exit, LeavesOnlyBlocked
    <3>2. armed' = armed \cup {x} /\ x \in current'
      BY <2>3, <3>1 DEF Exit, OpenWindow
    <3>3. QED
      BY <3>2, Confirmable
  <2>4. CASE x = Main /\ MainExit
    BY <2>4 DEF MainExit
  <2>5. CASE Confirm(x)
    <3>1. CASE DeadlockPanic(x)
      BY <1>3, <3>1 DEF DeadlockPanic
    <3>2. CASE ~DeadlockPanic(x)
      <4>1. pc'[x] = "unblock"
        BY <2>5, <3>2 DEF Confirm, Goto
      <4>2. QED
        BY <4>1 DEF Guarded, Woken
    <3>3. QED
      BY <3>1, <3>2
  <2>6. CASE SpuriousWake(x)
    <3>1. \/ pc[x] = "parked" \/ pc[x] = "selParked"
      BY <2>6 DEF SpuriousWake, Sleeping, SleepOf
    <3>2. pc' = pc /\ x \notin schedCv' /\ \A c \in Chan : x \notin cv'[c]
      BY <2>6 DEF SpuriousWake, taskVars
    <3>3. pc[x] = "parked" => Ch(x)' \in Chan
      <4>1. Ch(x)' = Ch(x) /\ (pc[x] = "parked" => op[x].fn # "spawn")
        BY <2>6 DEF SpuriousWake, taskVars, Ch, Control, ControlOf
      <4>2. QED
        BY <4>1, ChanOf
    <3>4. x \in Woken'
      BY <3>1, <3>2, <3>3 DEF Woken
    <3>5. QED
      BY <3>4 DEF Guarded
  <2>7. CASE Timeout(x) \/ ExitConfirm(x) \/ (x = Main /\ MainReap) \/ (\E u \in Task : Join(x, u))
             \/ \E how \in {"exited", "panicked", "returned"} : EndProcess(x, how)
    <3>1. CASE Timeout(x) /\ pc[x] # "exitConfirm"
      <4>1. pc'[x] \in {"expired", "selExpired"}
        BY <3>1 DEF Timeout, Goto
      <4>2. QED
        BY <4>1 DEF Guarded, Woken
    <3>2. CASE ExitConfirm(x) /\ DeadlockPanic(x)
      BY <1>3, <3>2 DEF DeadlockPanic
    <3>3. CASE Timeout(x) /\ pc[x] = "exitConfirm"
      <4>1. /\ Only(x) /\ UNCHANGED <<op, arm, cv, schedCv, current>> /\ pc'[x] = "exitCheck"
            /\ armed' = armed \ {x} /\ UNCHANGED <<live, blocked, exiting>>
        BY <3>3 DEF Timeout, CloseWindows, Goto, Only
      <4>2. Guarded
        BY <1>1, <1>2, <4>1, AllOfThem, BlockedLive DEF Vigilant, Accounting
      <4>3. QED
        BY <3>3, <4>1, <4>2, GuardKept
    <3>4. CASE \/ ExitConfirm(x) /\ ~DeadlockPanic(x)
               \/ (x = Main /\ MainReap) \/ (\E u \in Task : Join(x, u))
      <4>1. /\ Only(x) /\ UNCHANGED <<op, arm, cv, schedCv, current, armed, live, blocked, exiting>>
            /\ pc[x] \in {"exitCheck", "mainReap", "join", "mainJoin"}
            /\ pc'[x] = pc[x] \/ pc[x] \in {"exitCheck", "mainReap"}
        BY <3>4 DEF ExitConfirm, MainReap, Claim, Join, Goto, Only, schedVars, chanVars, taskVars
      <4>2. live = blocked /\ live > 0 /\ ~exiting
        BY <1>1, <4>1
      <4>3. Guarded
        BY <1>2, <4>2, AllOfThem, BlockedLive DEF Vigilant, Accounting
      <4>4. pc[x] = "exitCheck" => x \notin current
        BY <3>4, <4>1, <4>2 DEF ExitConfirm, Confirmed, AllBlocked, MainReap, Join
      <4>5. x \notin armed
        BY <4>1, AwakeNowhere DEF Asleep
      <4>6. QED
        BY <4>1, <4>3, <4>4, <4>5, GuardKept
    <3>5. CASE \E how \in {"exited", "panicked", "returned"} : EndProcess(x, how)
      BY <3>5 DEF EndProcess
    <3>6. QED
      BY <2>7, <3>1, <3>2, <3>3, <3>4, <3>5
  <2>8. QED
    BY <1>5, <2>1, <2>2, <2>3, <2>4, <2>5, <2>6, <2>7, Zenon DEF OtherStep, TaskStep
<1>6. QED
  BY <1>4, <1>5

\* Whoever watches.
Watchful == OnePanics /\ Vigilant

LEMMA InitWatchful == Init => Watchful
BY DEF Init, SchedInit, Watchful, OnePanics, Panicked, Vigilant, Live, Blocked, InWait

LEMMA WatchfulStays ==
  ASSUME Watchful, UNCHANGED vars
  PROVE  Watchful'
BY DEF vars, schedVars, chanVars, taskVars, lifeVars, Watchful, OnePanics, Panicked, Vigilant, Guarded,
       Live, Blocked, Woken, Ch

LEMMA NextWatchful ==
  ASSUME Typed, Outside, Accounting, Accounting', Sleeping, Watchful, [Next]_vars
  PROVE  Watchful'
<1>1. CASE UNCHANGED vars
  BY <1>1, WatchfulStays
<1>2. ASSUME NEW t \in Task, OtherStep(t) \/ \E c \in Chan : ChannelStep(t, c), process = "up"
      PROVE  Watchful'
  BY <1>2, PanicStep, VigilantStep DEF Watchful
<1>3. QED
  BY <1>1, <1>2, NextUp

LEMMA Watching == Spec => []Watchful
<1>1. Typed /\ Outside /\ Accounting /\ Accounting' /\ Attentive /\ Watchful /\ [Next]_vars => Watchful'
  BY NextWatchful DEF Attentive
<1>2. QED
  BY <1>1, InitWatchful, Counted, Attended, PTL DEF Spec

\* A dead program is never unwatched (guji_task_block_wait,
\* guji_select_wait, guji_task_trampoline): no task leaves the check to
\* others that are asleep already.
THEOREM DeadWatched == Spec => []Watched
<1>1. ASSUME Watchful PROVE Watched
  <2>1. Dead => ~exiting /\ Live # {} /\ Live = Blocked
    BY BlockedLive DEF Dead
  <2>2. QED
    BY <1>1, <2>1 DEF Watchful, Vigilant, Guarded, Watched
<1>2. QED
  BY <1>1, Watching, PTL

-----------------------------------------------------------------------------
(* No false alarm.                                                          *)

\* Whoever has not been woken waits for something that has not happened; or
\* a receive has been woken, and a select takes its word for it.
Settled ==
  ~panicking => \/ \A u \in Blocked \ Woken : Waits(u)
                \/ \E r \in Woken : op[r].fn = "recv"

LEMMA SettledNow ==
  ASSUME Typed, NoLostWakeup, NoLostSelect, OnePanics
  PROVE  Settled
<1> SUFFICES ASSUME ~panicking, \A r \in Woken : op[r].fn # "recv",
                    NEW u \in Blocked \ Woken
             PROVE  Waits(u)
  BY DEF Settled
<1>1. u \in Task /\ pc[u] \notin {"panic", "paused"}
  BY DEF OnePanics, Blocked, Panicked
<1>2. \/ pc[u] = "parked" /\ u \in cv[Ch(u)]
      \/ pc[u] = "selParked" /\ u \in schedCv
  BY <1>1 DEF Blocked, Woken, InWait, Panicked
<1>3. CASE pc[u] = "parked"
  BY <1>1, <1>2, <1>3 DEF NoLostWakeup
<1>4. CASE pc[u] = "selParked" /\ ~Waits(u)
  <2>1. PICK i \in DOMAIN op[u].arms :
           LET d == op[u].arms[i].ch IN \E r \in Receivers(d) : r \notin cv[d] /\ pc[r] # "block"
    BY <1>1, <1>2, <1>4 DEF NoLostSelect
  <2>2. PICK r \in Receivers(op[u].arms[i].ch) : r \notin cv[op[u].arms[i].ch] /\ pc[r] # "block"
    BY <2>1
  <2>3. r \in Task /\ op[r].fn = "recv" /\ op[u].arms[i].ch = Ch(r) /\ pc[r] \in InWait
    BY <2>2 DEF Receivers, OnePanics
  <2>4. r \in Woken
    BY <2>2, <2>3 DEF Woken, InWait
  <2>5. QED
    BY <2>3, <2>4
<1>5. QED
  BY <1>2, <1>3, <1>4

\* The tasks inside a window, or past one that they have yet to judge.
OnWatch(t) == t \in armed \/ pc[t] \in {"expired", "selExpired", "exitCheck"}

\* owed has no entry but for open windows, and only tasks that were woken.
OwedWoken == \A t \in Task : owed[t] \subseteq Woken /\ (t \notin armed => owed[t] = {})

LEMMA OwedStep ==
  ASSUME Owe
  PROVE  OwedWoken'
BY DEF Owe, OwedWoken

\* While guji_progress stands, the world of a window is frozen: everybody is
\* blocked, and only those that had been woken before have to find out why.
FrozenFor(t) ==
  /\ Blocked = Live
  /\ \/ \A u \in Blocked \ owed[t] : Waits(u)
     \/ \E r \in owed[t] : op[r].fn = "recv"

Frozen == ~panicking => \A t \in current : OnWatch(t) => FrozenFor(t)

\* The channels, and what the others want of them, stay as they are.
ProgramStill == UNCHANGED <<op, arm, cont, handoff, len, closed, recvWaiters>>

LEMMA WaitsStill ==
  ASSUME ProgramStill, NEW u
  PROVE  Waits(u)' = Waits(u)
BY DEF ProgramStill, Waits, Ch, CanSendNow, Readable, Full, Offered, Available, Unbuffered

\* A step that opens a window.
LEMMA Opened ==
  ASSUME Typed, Sleeping, NEW x \in Task, OtherStep(x) \/ \E c \in Chan : ChannelStep(x, c),
         NEW t \in armed', t \notin armed
  PROVE  /\ t = x /\ live' = blocked'
         /\ \/ pc'[x] = "parked" /\ x \in cv'[Ch(x)']
            \/ pc'[x] = "selParked" /\ x \in schedCv'
            \/ pc'[x] = "exitConfirm"
<1> USE DEF Typed, TypeOK, TaskTypeOK, SchedTypeOK, ChanTypeOK
<1>1. CASE \E c \in Chan : ChannelStep(x, c)
  <2>1. PICK c \in Chan : ChannelStep(x, c)
    BY <1>1
  <2>2. CASE SendWait(x, c) \/ OfferWait(x, c) \/ RecvBlock(x, c)
    <3>1. c = Ch(x) /\ \E l \in {"send", "offer", "recv"} : BlockOn(x, c, l)
      BY <2>2 DEF SendWait, OfferWait, RecvBlock, At
    <3>2. /\ blocked' = blocked + 1 /\ live' = live /\ AllBlocked(blocked + 1)
          /\ armed' = armed \cup {x} /\ pc'[x] = "parked" /\ x \in cv'[c] /\ Ch(x)' = Ch(x)
      BY <3>1 DEF BlockOn, Suspect, OpenWindow, Ch
    <3>3. QED
      BY <3>1, <3>2 DEF AllBlocked
  <2>3. CASE ~(SendWait(x, c) \/ OfferWait(x, c) \/ RecvBlock(x, c))
    BY <2>1, <2>3 DEF ChannelStep, SendClosed, SendOffer, SendPut, OfferTaken,
       OfferReclaim, RecvTake, RecvNone, RecvWait, Arrive, CloseOk, CloseAgain, TrySendMiss,
       TryRecvMiss, Miss, TrySendClosed, TrySendOffer, TrySendPut, TryRecvTake, TryRecvNone,
       OfferValue, PutValue, TakeValue, SeeEnd, Announce, ProgressBump, CloseWindows, schedVars
  <2>4. QED
    BY <2>2, <2>3
<1>2. CASE SelectWait(x) \/ SelectWake(x) \/ SelectTimeout(x)
  <2>1. PICK n \in Int : SelectLoop(x, n) /\ live' = live
    BY <1>2 DEF SelectWait, SelectWake, SelectTimeout
  <2>2. /\ blocked' = n /\ pc'[x] = "selParked" /\ x \in schedCv' /\ SelectWindow(x, n)
    BY <2>1 DEF SelectLoop, Goto
  <2>3. QED
    BY <2>1, <2>2 DEF SelectWindow, OpenWindow
<1>3. CASE Exit(x)
  <2>1. LeavesOnlyBlocked(live - 1) /\ armed' = armed \cup {x} /\ pc'[x] = "exitConfirm"
    BY <1>3 DEF Exit, OpenWindow, Goto
  <2>2. QED
    BY <1>3, <2>1 DEF Exit, LeavesOnlyBlocked
<1>4. QED
  BY <1>1, <1>2, <1>3 DEF OtherStep, TaskStep, WakeSignaled, Unblock, Resume, Confirm, Snapshot,
     SelectElse, SpawnReap, Claim, SpawnCreate, ExitConfirm, Join, EndProcess, Timeout, SpuriousWake,
     CloseWindows, Call, MainReap, MainExit, schedVars

\* Who was on watch already, and is still, has read guji_progress before.
LEMMA WatchedBefore ==
  ASSUME Typed, Sleeping, Sleeping', NEW x \in Task, OtherStep(x) \/ \E c \in Chan : ChannelStep(x, c),
         NEW t \in Task, t \in current', OnWatch(t)', t \in armed \/ t \notin armed'
  PROVE  OnWatch(t) /\ t \in current
<1> USE DEF Typed, TypeOK, TaskTypeOK, SchedTypeOK, ChanTypeOK
<1>1. ASSUME pc'[x] \in {"expired", "selExpired", "exitCheck"}
      PROVE  OnWatch(x)
  <2>1. CASE Timeout(x)
    BY <2>1 DEF Timeout, Expires, OnWatch
  <2>2. CASE Confirm(x) \/ SelectTimeout(x) \/ ExitConfirm(x)
    BY <1>1, <2>2 DEF Confirm, SelectTimeout, ExitConfirm, DeadlockPanic, SelectLoop, Goto
  <2>3. CASE ~(Confirm(x) \/ SelectTimeout(x) \/ ExitConfirm(x) \/ Timeout(x))
    BY <1>1, <2>3, VerdictEntered DEF Verdict, OnWatch
  <2>4. QED
    BY <2>1, <2>2, <2>3
<1>2. ASSUME x \in current', x \notin current, OnWatch(x)'
      PROVE  x \in armed' /\ x \notin armed
  <2>1. CASE \E c \in Chan : ChannelStep(x, c)
    <3>1. PICK c \in Chan : ChannelStep(x, c)
      BY <2>1
    <3>2. CASE SendWait(x, c) \/ OfferWait(x, c) \/ RecvBlock(x, c)
      <4>1. armed' = armed \cup {x} /\ ~Asleep(x)
        BY <1>2, <3>2 DEF SendWait, OfferWait, RecvBlock, At, BlockOn, Suspect, OpenWindow, Asleep
      <4>2. QED
        BY <4>1, AwakeNowhere
    <3>3. CASE ~(SendWait(x, c) \/ OfferWait(x, c) \/ RecvBlock(x, c))
      BY <1>2, <3>1, <3>3 DEF ChannelStep, SendClosed, SendOffer, SendPut, OfferTaken,
         OfferReclaim, RecvTake, RecvNone, RecvWait, Arrive, CloseOk, CloseAgain, TrySendMiss,
         TryRecvMiss, Miss, TrySendClosed, TrySendOffer, TrySendPut, TryRecvTake, TryRecvNone,
         OfferValue, PutValue, TakeValue, SeeEnd, Announce, ProgressBump, ProgressTick, schedVars
    <3>4. QED
      BY <3>2, <3>3
  <2>2. CASE Snapshot(x)
    <3>1. pc'[x] = "poll"
      BY <2>2 DEF Snapshot, Goto
    <3>2. x \in armed'
      BY <1>2, <3>1 DEF OnWatch
    <3>3. QED
      BY <3>1, <3>2 DEF Sleeping, SleepOf
  <2>3. CASE Exit(x)
    <3>1. armed' = armed \cup {x} /\ ~Asleep(x)
      BY <1>2, <2>3 DEF Exit, OpenWindow, ProgressTick, Asleep
    <3>2. QED
      BY <3>1, AwakeNowhere
  <2>4. QED
    BY <1>2, <2>1, <2>2, <2>3, OtherCalm
<1>3. OnWatch(t)
  <2>1. CASE t \in armed'
    BY <2>1 DEF OnWatch
  <2>2. CASE t \notin armed' /\ t # x
    <3>1. ~SpawnCreate(x)
      BY DEF SpawnCreate, ProgressTick
    <3>2. pc'[t] = pc[t]
      BY <2>2, <3>1, ChannelForm, OtherForm DEF Form, Only
    <3>3. QED
      BY <2>2, <3>2 DEF OnWatch
  <2>3. CASE t \notin armed' /\ t = x
    BY <1>1, <2>3 DEF OnWatch
  <2>4. QED
    BY <2>1, <2>2, <2>3
<1>4. t \in current
  BY <1>2, CurrentStep
<1>5. QED
  BY <1>3, <1>4

\* What can happen while everybody is blocked, and guji_progress stands.
LEMMA NothingMoves ==
  ASSUME Typed, OnePanics, NEW x \in Task, OtherStep(x) \/ \E c \in Chan : ChannelStep(x, c),
         Blocked = Live, current' # {}, ~panicking, ~panicking'
  PROVE  /\ Only(x) /\ ProgramStill /\ \A u \in Task \ {x} : pc'[u] = pc[u]
         /\ \/ Confirm(x)
            \/ Timeout(x)
            \/ /\ pc[x] \in {"selParked", "selExpired"} /\ pc'[x] = "selParked" /\ x \in current
               /\ cv' = cv /\ schedCv' = schedCv \cup {x}
            \/ SpuriousWake(x)
            \/ /\ \/ pc'[x] = pc[x]
                  \/ pc[x] = "exitCheck" /\ pc'[x] = "ended"
                  \/ pc[x] = "mainReap" /\ pc'[x] = "mainJoin"
               /\ UNCHANGED <<cv, schedCv>>
<1> USE DEF Typed, TypeOK, TaskTypeOK, SchedTypeOK
<1>1. pc[x] \notin {"run", "send", "offer", "recv", "block", "close", "reap", "join", "selTop", "poll", "selWait"}
  <2>1. x \in Live => x \in Blocked
    OBVIOUS
  <2>2. QED
    BY <2>1 DEF Live, Blocked, Panicked, InWait
<1>2. \A c \in Chan : ~ChannelStep(x, c)
  BY <1>1 DEF ChannelStep, SendWait, SendClosed, SendOffer, SendPut, OfferWait, OfferTaken,
     OfferReclaim, RecvTake, RecvNone, RecvWait, RecvBlock, CloseOk, CloseAgain,
     TrySendClosed, TrySendMiss, TrySendOffer, TrySendPut, TryRecvTake, TryRecvNone,
     TryRecvMiss, At, AtArm
<1>3. /\ ~WakeSignaled(x) /\ ~Unblock(x)
      /\ ~Snapshot(x) /\ ~SelectElse(x) /\ ~SelectWait(x) /\ ~SpawnReap(x) /\ ~SpawnCreate(x)
      /\ ~Exit(x) /\ ~(x = Main /\ MainExit) /\ ~\E o \in may[x] : Call(x, o)
  BY <1>1 DEF WakeSignaled, Unblock, Resume, ProgressTick, Snapshot, SelectElse, SelectWait, SpawnReap,
              SpawnCreate, Exit, MainExit, Call
<1>4. Only(x) /\ \A u \in Task \ {x} : pc'[u] = pc[u]
  BY <1>2, <1>3, OtherForm DEF Form, Only
<1>5. CASE Confirm(x) \/ Timeout(x)
  <2>1. ProgramStill
    BY <1>5 DEF Confirm, Timeout, DeadlockPanic, Goto, ProgramStill, slotVars
  <2>2. QED
    BY <1>4, <1>5, <2>1
<1>6. CASE SelectWake(x) \/ SelectTimeout(x)
  <2>1. /\ pc[x] \in {"selParked", "selExpired"} /\ \E n \in Int : SelectLoop(x, n)
        /\ UNCHANGED chanVars
    BY <1>6 DEF SelectWake, SelectTimeout, DeadlockPanic
  <2>2. pc'[x] = "selParked" /\ x \in current /\ schedCv' = schedCv \cup {x} /\ UNCHANGED <<op, arm, cont>>
    BY <2>1 DEF SelectLoop, Goto, ProgressTick
  <2>3. ProgramStill
    BY <2>1, <2>2 DEF ProgramStill, chanVars, slotVars
  <2>4. QED
    BY <1>4, <2>1, <2>2, <2>3 DEF chanVars
<1>7. CASE SpuriousWake(x)
  <2>1. ProgramStill
    BY <1>7 DEF SpuriousWake, ProgramStill, taskVars, slotVars
  <2>2. QED
    BY <1>4, <1>7, <2>1
<1>8. CASE \/ ExitConfirm(x) \/ (x = Main /\ MainReap) \/ (\E u \in Task : Join(x, u))
           \/ \E how \in {"exited", "panicked", "returned"} : EndProcess(x, how)
  <2>1. /\ ProgramStill /\ UNCHANGED <<cv, schedCv>>
        /\ \/ pc'[x] = pc[x]
           \/ pc[x] = "exitCheck" /\ pc'[x] = "ended"
           \/ pc[x] = "mainReap" /\ pc'[x] = "mainJoin"
    BY <1>8 DEF ExitConfirm, MainReap, Claim, Join, EndProcess, DeadlockPanic, Goto, ProgramStill, taskVars,
                schedVars, chanVars, slotVars
  <2>2. QED
    BY <1>4, <2>1
<1>9. QED
  BY <1>2, <1>3, <1>5, <1>6, <1>7, <1>8, Zenon DEF OtherStep, TaskStep

\* While it lasts, nothing thaws.
LEMMA FrozenKept ==
  ASSUME Prompt, Typed, Sleeping, Sleeping', SelectsRight, OwedWoken, OnePanics,
         NEW x \in Task, OtherStep(x) \/ \E c \in Chan : ChannelStep(x, c), Owe,
         ~panicking, ~panicking',
         NEW t \in Task, t \in current', OnWatch(t)', t \in armed \/ t \notin armed',
         FrozenFor(t)
  PROVE  FrozenFor(t)'
<1> USE DEF Typed, TypeOK, TaskTypeOK, SchedTypeOK, ChanTypeOK
<1> DEFINE Reparks == /\ pc[x] \in {"selParked", "selExpired"} /\ pc'[x] = "selParked" /\ x \in current
                      /\ cv' = cv /\ schedCv' = schedCv \cup {x}
           Quiet == /\ \/ pc'[x] = pc[x]
                       \/ pc[x] = "exitCheck" /\ pc'[x] = "ended"
                       \/ pc[x] = "mainReap" /\ pc'[x] = "mainJoin"
                    /\ UNCHANGED <<cv, schedCv>>
<1>1. /\ Only(x) /\ ProgramStill /\ \A u \in Task \ {x} : pc'[u] = pc[u]
      /\ Confirm(x) \/ Timeout(x) \/ Reparks \/ SpuriousWake(x) \/ Quiet
  BY NothingMoves DEF FrozenFor
<1>0. \/ pc[x] = "expired" /\ pc'[x] = "unblock"
      \/ pc[x] = "parked" /\ pc'[x] = "expired" /\ Timeout(x)
      \/ pc[x] = "selParked" /\ pc'[x] = "selExpired" /\ Timeout(x)
      \/ pc[x] = "exitConfirm" /\ pc'[x] = "exitCheck" /\ Timeout(x)
      \/ Reparks \/ SpuriousWake(x) \/ Quiet
  <2>1. Confirm(x) => pc[x] = "expired" /\ pc'[x] = "unblock"
    BY DEF Confirm, At, DeadlockPanic, Goto
  <2>2. CASE Timeout(x)
    BY <2>2 DEF Timeout, Goto
  <2>3. QED
    BY <1>1, <2>1, <2>2
<1>2. Blocked' = Blocked /\ Live' = Live
  <2>1. op' = op
    BY <1>1 DEF ProgramStill
  <2>2. \/ pc'[x] = pc[x]
        \/ pc[x] = "exitConfirm" /\ pc'[x] = "exitCheck"
        \/ pc[x] = "exitCheck" /\ pc'[x] = "ended"
        \/ pc[x] = "mainReap" /\ pc'[x] = "mainJoin"
        \/ /\ pc[x] \in {"parked", "expired", "selParked", "selExpired"}
           /\ pc'[x] \in {"unblock", "expired", "selParked", "selExpired"}
    BY <1>0 DEF SpuriousWake, taskVars
  <2>3. ASSUME NEW u \in Task PROVE (u \in Blocked' <=> u \in Blocked) /\ (u \in Live' <=> u \in Live)
    <3>1. CASE u # x
      BY <1>1, <2>1, <3>1 DEF Blocked, Live, Panicked
    <3>2. CASE u = x
      BY <2>1, <2>2, <3>2 DEF Blocked, Live, Panicked, InWait
    <3>3. QED
      BY <3>1, <3>2
  <2>4. QED
    BY <2>3 DEF Blocked, Live
<1>3. owed'[t] = owed[t] \cap Woken'
  <2>1. CASE t \in armed'
    BY <2>1 DEF Owe
  <2>2. CASE t \notin armed' /\ t \notin armed
    BY <2>2 DEF Owe, OwedWoken
  <2>3. CASE t \notin armed' /\ t \in armed
    <3>1. pc'[t] \in {"expired", "selExpired", "exitCheck"} /\ Asleep(t)
      BY <2>3, AwakeNowhere DEF OnWatch
    <3>2. t = x
      BY <1>1, <3>1 DEF Asleep
    <3>3. Timeout(x)
      BY <1>0, <3>1, <3>2 DEF Asleep, SpuriousWake, taskVars
    <3>4. owed[t] = {}
      BY <3>2, <3>3 DEF Timeout
    <3>5. QED
      BY <2>3, <3>4 DEF Owe
  <2>4. QED
    BY <2>1, <2>2, <2>3
<1>4. ASSUME NEW u \in Woken, ~(u = x /\ Reparks) PROVE u \in Woken'
  <2>1. u \in Task /\ Ch(u)' = Ch(u) /\ (pc[u] = "parked" => Ch(u) \in Chan)
    <3>1. u \in Task
      BY DEF Woken
    <3>2. pc[u] = "parked" => op[u].fn # "spawn"
      BY <3>1 DEF Control, ControlOf
    <3>3. QED
      BY <1>1, <3>1, <3>2, ChanOf DEF ProgramStill, Ch
  <2>2. CASE u # x
    <3>1. pc'[u] = pc[u]
      BY <1>1, <2>1, <2>2
    <3>2. (u \in schedCv' => u \in schedCv) /\ \A d \in Chan : u \in cv'[d] => u \in cv[d]
      <4>1. CASE Timeout(x)
        BY <2>2, <4>1 DEF Timeout
      <4>2. CASE SpuriousWake(x)
        BY <4>2 DEF SpuriousWake
      <4>3. CASE Confirm(x)
        BY <4>3 DEF Confirm
      <4>4. QED
        BY <1>1, <2>2, <4>1, <4>2, <4>3
    <3>3. QED
      BY <2>1, <3>1, <3>2 DEF Woken
  <2>3. CASE u = x
    <3>1. CASE SpuriousWake(x)
      BY <2>1, <2>3, <3>1 DEF SpuriousWake, taskVars, Woken
    <3>2. CASE Quiet
      BY <2>1, <2>3, <3>2 DEF Woken
    <3>3. QED
      BY <1>0, <1>4, <2>1, <2>3, <3>1, <3>2 DEF Woken
  <2>4. QED
    BY <2>2, <2>3
<1>5. Reparks => Select(x) /\ Waits(x)
  <2> SUFFICES ASSUME Reparks PROVE Select(x) /\ Waits(x)
    OBVIOUS
  <2>1. Select(x) /\ cont[x] = "none" /\ op[x].arms \in Seq(Arm)
    BY DEF Control, ControlOf, Op, Select
  <2>2. ASSUME NEW i \in DOMAIN op[x].arms PROVE Misses(op[x].arms[i])
    <3>1. PICK a \in Arm : a = op[x].arms[i]
      BY <2>1
    <3>2. a \in Seen(x)
      BY <3>1 DEF Seen, Polled
    <3>3. QED
      BY <3>1, <3>2 DEF SelectsRight
  <2>3. QED
    BY <2>1, <2>2 DEF Waits, Misses, Select
<1> HIDE DEF Reparks
<1>6. CASE \A u \in Blocked \ owed[t] : Waits(u)
  <2>1. ASSUME NEW u \in Blocked', u \notin owed'[t] PROVE Waits(u)'
    <3>1. CASE u \notin owed[t]
      BY <1>1, <1>2, <1>6, <2>1, <3>1, WaitsStill
    <3>2. CASE u \in owed[t]
      <4>1. u \in Woken /\ u \notin Woken'
        BY <1>3, <2>1, <3>2 DEF OwedWoken
      <4>2. u = x /\ Reparks
        BY <1>4, <4>1
      <4>3. QED
        BY <1>1, <1>5, <4>2, WaitsStill
    <3>3. QED
      BY <3>1, <3>2
  <2>2. QED
    BY <1>2, <2>1 DEF FrozenFor
<1>7. CASE \E r \in owed[t] : op[r].fn = "recv"
  <2>1. PICK r \in owed[t] : op[r].fn = "recv"
    BY <1>7
  <2>2. r \in Woken
    BY DEF OwedWoken
  <2>3. r \in Woken' /\ op'[r].fn = "recv"
    BY <1>1, <1>4, <1>5, <2>1, <2>2 DEF Select, ProgramStill
  <2>4. QED
    BY <1>2, <1>3, <2>3 DEF FrozenFor
<1>8. QED
  BY <1>6, <1>7 DEF FrozenFor

LEMMA FrozenStep ==
  ASSUME Prompt, Typed, Sleeping, Sleeping', SelectsRight, OwedWoken, OnePanics, Frozen,
         Accounting', Settled', Typed',
         NEW x \in Task, OtherStep(x) \/ \E c \in Chan : ChannelStep(x, c), Owe
  PROVE  Frozen'
<1> SUFFICES ASSUME ~panicking', NEW t \in current', OnWatch(t)'
             PROVE  FrozenFor(t)'
  BY DEF Frozen
<1>1. t \in Task /\ panicking' \in BOOLEAN /\ panicking \in BOOLEAN
  BY DEF Typed, TypeOK, SchedTypeOK
<1>2. ~panicking
  <2>1. panicking => Confirm(x) \/ SelectTimeout(x) \/ ExitConfirm(x)
    BY PanicOnly
  <2>2. QED
    BY <2>1 DEF Confirm, SelectTimeout, ExitConfirm, DeadlockPanic
<1>3. CASE t \in armed' /\ t \notin armed
  <2>1. /\ t = x /\ live' = blocked'
        /\ \/ pc'[x] = "parked" /\ x \in cv'[Ch(x)']
           \/ pc'[x] = "selParked" /\ x \in schedCv'
           \/ pc'[x] = "exitConfirm"
    BY <1>3, Opened
  <2>2. x \notin Woken'
    BY <2>1 DEF Woken
  <2>3. owed'[x] = Woken'
    BY <1>3, <2>1, <2>2 DEF Owe
  <2>4. Blocked' = Live'
    <3>1. Blocked' \subseteq Live' /\ Live' \subseteq Task
      BY DEF Blocked, Live, Panicked, InWait
    <3>2. QED
      BY <2>1, <3>1, AllOfThem DEF Accounting
  <2>5. QED
    BY <2>1, <2>3, <2>4 DEF Settled, FrozenFor
<1>4. CASE t \in armed \/ t \notin armed'
  <2>1. OnWatch(t) /\ t \in current
    BY <1>1, <1>4, WatchedBefore
  <2>2. FrozenFor(t)
    BY <1>2, <2>1 DEF Frozen
  <2>3. QED
    BY <1>1, <1>2, <1>4, <2>2, FrozenKept
<1>5. QED
  BY <1>3, <1>4

LEMMA FrozenStays ==
  ASSUME Frozen, UNCHANGED vars
  PROVE  Frozen'
<1>1. UNCHANGED <<panicking, current, armed, owed, op, arm, cont, pc, handoff, len, closed, recvWaiters>>
  BY DEF vars, schedVars, chanVars, slotVars, taskVars
<1>2. ProgramStill /\ Blocked' = Blocked /\ Live' = Live
  BY <1>1 DEF ProgramStill, Blocked, Live, Panicked
<1>3. \A u \in Task : Waits(u)' = Waits(u)
  BY <1>2, WaitsStill
<1>4. Blocked \subseteq Task
  BY DEF Blocked
<1>5. QED
  BY <1>1, <1>2, <1>3, <1>4 DEF Frozen, FrozenFor, OnWatch

LEMMA InitOwed == Init => OwedWoken
BY DEF Init, SchedInit, OwedWoken

LEMMA NextOwed == OwedWoken /\ [Next]_vars => OwedWoken'
<1> SUFFICES ASSUME OwedWoken, [Next]_vars PROVE OwedWoken'
  OBVIOUS
<1>1. CASE UNCHANGED vars
  BY <1>1 DEF vars, schedVars, chanVars, taskVars, OwedWoken, Woken, Ch
<1>2. QED
  BY <1>1, NextCases, OwedStep

LEMMA Cold ==
  ASSUME Prompt
  PROVE  Spec => [](Typed /\ Sleeping /\ Accounting /\ OnePanics /\ OwedWoken /\ Frozen)
<1> DEFINE Calm == Typed /\ Sleeping /\ SelectsRight /\ Accounting /\ OnePanics /\ Settled
<1>1. Spec => []Calm
  <2>1. Attentive => Sleeping /\ SelectsRight
    BY DEF Attentive
  <2>2. Watchful => OnePanics
    BY DEF Watchful
  <2>3. Typed /\ NoLostWakeup /\ NoLostSelect /\ OnePanics => Settled
    BY SettledNow
  <2>4. QED
    BY <2>1, <2>2, <2>3, Attended, Watching, Counted, Awakened, SelectsWoken, PTL
<1>2. Spec => []OwedWoken
  BY InitOwed, NextOwed, PTL DEF Spec
<1>3. Init => Frozen
  BY DEF Init, SchedInit, Frozen
<1>4. Calm /\ Calm' /\ OwedWoken /\ Frozen /\ [Next]_vars => Frozen'
  <2> SUFFICES ASSUME Calm, Calm', OwedWoken, Frozen, [Next]_vars PROVE Frozen'
    OBVIOUS
  <2>1. CASE UNCHANGED vars
    BY <2>1, FrozenStays
  <2>2. ASSUME NEW x \in Task, OtherStep(x) \/ \E c \in Chan : ChannelStep(x, c), Owe
        PROVE  Frozen'
    BY <2>2, FrozenStep
  <2>3. QED
    BY <2>1, <2>2, NextCases
<1>5. QED
  BY <1>1, <1>2, <1>3, <1>4, PTL DEF Spec

\* The deadlock detector never cries wolf (guji_task_block_wait,
\* guji_select_wait, guji_task_trampoline): when it panics, every live task
\* is in a wait, and nothing that any of them waits for has happened.  The
\* hypothesis is the one the detector is built on: a task that has been
\* woken runs before a whole confirmation window goes by.
THEOREM NoFalseAlarm ==
  ASSUME Prompt
  PROVE  Spec => PanicSound
<1>1. ASSUME Typed, Sleeping, Accounting, OnePanics, OwedWoken, Frozen, [Next]_vars,
             panicking' # panicking
      PROVE  Dead
  <2>1. PICK t \in Task : /\ Confirmed(t)
                          /\ Confirm(t) \/ SelectTimeout(t) \/ (ExitConfirm(t) /\ live > 0)
    BY <1>1, PanicConfirmed
  <2>2. t \in current /\ ~exiting /\ pc[t] \in {"expired", "selExpired", "exitCheck"}
    <3>1. t \in current /\ ~exiting
      BY <2>1 DEF Confirmed, AllBlocked
    <3>2. pc[t] \in {"expired", "selExpired", "exitCheck"}
      BY <2>1 DEF Confirm, At, SelectTimeout, ExitConfirm
    <3>3. QED
      BY <3>1, <3>2
  <2>3. ~panicking
    BY <1>1, <2>1 DEF Confirm, SelectTimeout, ExitConfirm, DeadlockPanic, Typed, TypeOK, SchedTypeOK
  <2>4. FrozenFor(t) /\ owed[t] = {}
    <3>1. t \notin armed
      BY <1>1, <2>2, AwakeNowhere DEF Asleep
    <3>2. QED
      BY <1>1, <2>2, <2>3, <3>1 DEF Frozen, OnWatch, OwedWoken
  <2>5. Blocked = Live /\ \A u \in Blocked : Waits(u)
    BY <2>4 DEF FrozenFor
  <2>6. Live # {}
    <3>1. CASE ExitConfirm(t) /\ live > 0
      BY <1>1, <3>1, AllOfThem DEF Accounting, Live
    <3>2. CASE Confirm(t) \/ SelectTimeout(t)
      <4>1. t \in Live
        BY <3>2 DEF Confirm, At, SelectTimeout, Live, Panicked
      <4>2. QED
        BY <4>1
    <3>3. QED
      BY <2>1, <3>1, <3>2
  <2>7. QED
    BY <2>2, <2>5, <2>6 DEF Dead
<1>2. Typed /\ Sleeping /\ Accounting /\ OnePanics /\ OwedWoken /\ Frozen /\ [Next]_vars
        => [panicking' # panicking => Dead]_vars
  BY <1>1
<1>3. QED
  BY <1>2, Cold, PTL DEF Spec, PanicSound

=============================================================================
