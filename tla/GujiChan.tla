------------------------------ MODULE GujiChan -------------------------------
(***************************************************************************)
(* The channel control block guji_chan_t of src/selfhost/rt/guji_conc.c:   *)
(* a mutex, one condition variable, a ring of `cap' slots (one handoff     *)
(* slot when cap = 0) and the handoff state of an unbuffered channel.      *)
(*                                                                         *)
(* The operators below are the state changes that the channel functions    *)
(* make while they hold the mutex.  The bytes of a slot that is no longer  *)
(* live stay in buf, as they do in the code.                               *)
(***************************************************************************)
EXTENDS Integers, Sequences

CONSTANTS Chan,      \* the channels of the program
          Cap,       \* Cap[c]: capacity, 0 for an unbuffered rendezvous
          Msg,       \* messages: detached payload copies
          NoMsg,     \* a slot or a variable that holds no message
          NoTask     \* the owner of an unlocked mutex

ASSUME ChanAssumption == Cap \in [Chan -> Nat] /\ NoMsg \notin Msg

VARIABLES mu,          \* mu[c]: the task holding ch->mu, or NoTask
          cv,          \* cv[c]: tasks waiting on ch->cv and not yet signalled
          buf,         \* buf[c]: the slots
          head, len,   \* the live part of the ring
          closed,
          handoff,     \* unbuffered: 0 empty, 1 value offered, 2 value taken
          recvWaiters  \* recv_waiters

chanVars == <<mu, cv, buf, head, len, closed, handoff, recvWaiters>>
slotVars == <<buf, head, len, handoff>>

Unbuffered(c) == Cap[c] = 0
Slots(c) == IF Unbuffered(c) THEN {0} ELSE 0 .. Cap[c] - 1

BufTypeOK ==
  /\ buf = [c \in Chan |-> buf[c]]
  /\ \A c \in Chan : buf[c] \in [Slots(c) -> Msg \cup {NoMsg}]

SlotTypeOK ==
  /\ BufTypeOK
  /\ head \in [Chan -> Nat] /\ \A c \in Chan : head[c] \in Slots(c)
  /\ len \in [Chan -> Nat] /\ \A c \in Chan : len[c] <= Cap[c]
  /\ handoff \in [Chan -> 0 .. 2]

ChanTypeOK(Task) ==
  /\ mu \in [Chan -> Task \cup {NoTask}]
  /\ cv \in [Chan -> SUBSET Task]
  /\ SlotTypeOK
  /\ closed \in [Chan -> BOOLEAN]
  /\ recvWaiters \in [Chan -> Int]

ChanInit ==
  /\ mu = [c \in Chan |-> NoTask]
  /\ cv = [c \in Chan |-> {}]
  /\ buf = [c \in Chan |-> [i \in Slots(c) |-> NoMsg]]
  /\ head = [c \in Chan |-> 0]
  /\ len = [c \in Chan |-> 0]
  /\ closed = [c \in Chan |-> FALSE]
  /\ handoff = [c \in Chan |-> 0]
  /\ recvWaiters = [c \in Chan |-> 0]

-----------------------------------------------------------------------------
(* Locking.  A step that runs inside a critical section needs CanLock; it   *)
(* leaves with Lock (still inside, also when it was inside already) or      *)
(* with Unlock.                                                             *)

CanLock(t, c) == mu[c] \in {t, NoTask}
Lock(t, c)    == mu' = [mu EXCEPT ![c] = t]
Unlock(c)     == mu' = [mu EXCEPT ![c] = NoTask]

\* pthread_cond_broadcast(&ch->cv)
Broadcast(c) == cv' = [cv EXCEPT ![c] = {}]

-----------------------------------------------------------------------------
(* Slots.                                                                   *)

\* The messages a receiver could still take, oldest first.
Queue(c) ==
  IF Unbuffered(c)
  THEN IF handoff[c] = 1 THEN <<buf[c][0]>> ELSE <<>>
  ELSE [i \in 1 .. len[c] |-> buf[c][(head[c] + i - 1) % Cap[c]]]

\* memcpy into the handoff slot; handoff = 1
Offer(c, m) ==
  /\ buf' = [buf EXCEPT ![c][0] = m]
  /\ handoff' = [handoff EXCEPT ![c] = 1]
  /\ UNCHANGED <<head, len>>

\* Faulty: takes the slot to be at len, as in a ring that never moved.
EnqueueAtLen(c, m) ==
  /\ buf' = [buf EXCEPT ![c][len[c] % Cap[c]] = m]
  /\ len' = [len EXCEPT ![c] = @ + 1]
  /\ UNCHANGED <<head, handoff>>

\* memcpy into the first free slot of the ring; len++
Enqueue(c, m) ==
  /\ buf' = [buf EXCEPT ![c][(head[c] + len[c]) % Cap[c]] = m]
  /\ len' = [len EXCEPT ![c] = @ + 1]
  /\ UNCHANGED <<head, handoff>>

\* memcpy out of the handoff slot; handoff = 2
Take(c) ==
  /\ handoff' = [handoff EXCEPT ![c] = 2]
  /\ UNCHANGED <<buf, head, len>>

\* memcpy out of the oldest slot of the ring
Dequeue(c) ==
  /\ head' = [head EXCEPT ![c] = (@ + 1) % Cap[c]]
  /\ len' = [len EXCEPT ![c] = @ - 1]
  /\ UNCHANGED <<buf, handoff>>

\* handoff = 0: the sender frees the slot it had claimed
FreeSlot(c) ==
  /\ handoff' = [handoff EXCEPT ![c] = 0]
  /\ UNCHANGED <<buf, head, len>>

\* What a receiver can take now, and (Full) what a sender finds in its way.
Offered(c)   == Unbuffered(c) /\ handoff[c] = 1
Available(c) == ~Unbuffered(c) /\ len[c] > 0

\* Faulty: overlooks that a taken offer still owns the slot; off by one.
FullIfOffered(c) == IF Unbuffered(c) THEN handoff[c] = 1 ELSE len[c] = Cap[c]
FullPlusOne(c)   == IF Unbuffered(c) THEN handoff[c] # 0 ELSE len[c] = Cap[c] + 1

Full(c)      == IF Unbuffered(c) THEN handoff[c] # 0 ELSE len[c] = Cap[c]

=============================================================================
