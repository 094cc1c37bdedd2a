------------------------------ MODULE ChanSpec -------------------------------
(***************************************************************************)
(* What a guji channel promises (src/guji-spec.md, 17.2 and 17.3), with no *)
(* task, mutex, condition variable or ring in sight: a bounded FIFO queue  *)
(* of messages that can be closed, once.  The empty slot of an unbuffered  *)
(* channel holds one message, which its sender takes back if the channel   *)
(* is closed before anybody receives it; that send is told Ok only after   *)
(* the message was received.                                               *)
(***************************************************************************)
EXTENDS Naturals, Sequences

CONSTANTS Chan, Cap, Msg

ASSUME ChanSpecAssumption == Cap \in [Chan -> Nat]

VARIABLES queue,     \* queue[c]: sent and not yet received
          closed,    \* closed[c]
          got,       \* got[c]: received, in order
          verdict,   \* verdict[m]: what the sender was told
          dropped,   \* messages whose payload was released undelivered
          drained    \* channels a receive of which has returned None

vars == <<queue, closed, got, verdict, dropped, drained>>

Init ==
  /\ queue = [c \in Chan |-> <<>>]
  /\ closed = [c \in Chan |-> FALSE]
  /\ got = [c \in Chan |-> <<>>]
  /\ verdict = [m \in Msg |-> "none"]
  /\ dropped = {}
  /\ drained = {}

Elements(s) == {s[i] : i \in DOMAIN s}

\* Nobody has seen m yet.
Fresh(m) == /\ verdict[m] = "none" /\ m \notin dropped
            /\ \A c \in Chan : m \notin Elements(queue[c]) \cup Elements(got[c])

Room(c) == Len(queue[c]) < IF Cap[c] = 0 THEN 1 ELSE Cap[c]

Deposit(c, m) ==
  /\ ~closed[c] /\ Room(c) /\ Fresh(m)
  /\ queue' = [queue EXCEPT ![c] = Append(@, m)]
  /\ verdict' = IF Cap[c] = 0 THEN verdict ELSE [verdict EXCEPT ![m] = "ok"]
  /\ UNCHANGED <<closed, got, dropped, drained>>

\* Faulty: the message stays in the queue.
DeliverAndKeep(c) ==
  /\ queue[c] # <<>>
  /\ got' = [got EXCEPT ![c] = Append(@, Head(queue[c]))]
  /\ UNCHANGED <<queue, closed, verdict, dropped, drained>>

Deliver(c) ==
  /\ queue[c] # <<>>
  /\ got' = [got EXCEPT ![c] = Append(@, Head(queue[c]))]
  /\ queue' = [queue EXCEPT ![c] = Tail(@)]
  /\ UNCHANGED <<closed, verdict, dropped, drained>>

\* Faulty: Ok while the message is still on offer.
AcknowledgeOffer(c, m) ==
  /\ Cap[c] = 0 /\ m \in Elements(queue[c]) /\ verdict[m] = "none"
  /\ verdict' = [verdict EXCEPT ![m] = "ok"]
  /\ UNCHANGED <<queue, closed, got, dropped, drained>>

\* The rendezvous is complete: Ok(()).
Acknowledge(c, m) ==
  /\ Cap[c] = 0 /\ m \in Elements(got[c]) /\ verdict[m] = "none"
  /\ verdict' = [verdict EXCEPT ![m] = "ok"]
  /\ UNCHANGED <<queue, closed, got, dropped, drained>>

\* Err(Closed): the channel was closed before the message got in ...
Refuse(c, m) ==
  /\ closed[c] /\ Fresh(m)
  /\ verdict' = [verdict EXCEPT ![m] = "closed"]
  /\ dropped' = dropped \cup {m}
  /\ UNCHANGED <<queue, closed, got, drained>>

\* ... or while it was on offer.
Withdraw(c, m) ==
  /\ Cap[c] = 0 /\ closed[c] /\ queue[c] = <<m>>
  /\ queue' = [queue EXCEPT ![c] = <<>>]
  /\ verdict' = [verdict EXCEPT ![m] = "closed"]
  /\ dropped' = dropped \cup {m}
  /\ UNCHANGED <<closed, got, drained>>

Close(c) ==
  /\ ~closed[c]
  /\ closed' = [closed EXCEPT ![c] = TRUE]
  /\ UNCHANGED <<queue, got, verdict, dropped, drained>>

\* None: closed and drained.
End(c) ==
  /\ closed[c] /\ queue[c] = <<>>
  /\ drained' = drained \cup {c}
  /\ UNCHANGED <<queue, closed, got, verdict, dropped>>

Next ==
  \E c \in Chan :
    \/ Deliver(c) \/ Close(c) \/ End(c)
    \/ \E m \in Msg : Deposit(c, m) \/ Acknowledge(c, m) \/ Refuse(c, m) \/ Withdraw(c, m)

Spec == Init /\ [][Next]_vars

-----------------------------------------------------------------------------
TypeOK ==
  /\ queue \in [Chan -> Seq(Msg)]
  /\ closed \in [Chan -> BOOLEAN]
  /\ got \in [Chan -> Seq(Msg)]
  /\ verdict \in [Msg -> {"none", "ok", "closed"}]
  /\ dropped \subseteq Msg
  /\ drained \subseteq Chan

\* Every message is in one place at most: neither two channels nor two
\* positions of one hold it, a received message is not there to be received
\* again, and a dropped one is nowhere.
Injective(s) == \A i, j \in DOMAIN s : s[i] = s[j] => i = j
Once ==
  /\ \A c \in Chan : Injective(queue[c]) /\ Injective(got[c])
  /\ \A c, d \in Chan : Elements(queue[c]) \cap Elements(got[d]) = {}
  /\ \A c, d \in Chan : c # d => /\ Elements(queue[c]) \cap Elements(queue[d]) = {}
                                /\ Elements(got[c]) \cap Elements(got[d]) = {}
  /\ \A c \in Chan : dropped \cap (Elements(queue[c]) \cup Elements(got[c])) = {}

\* Ok(()) means received for a rendezvous, received or still in the queue for
\* a buffered channel, and never dropped.
OkIsKept ==
  \A m \in Msg : verdict[m] = "ok" =>
    /\ m \notin dropped
    /\ \E c \in Chan : m \in Elements(got[c]) \/ (Cap[c] # 0 /\ m \in Elements(queue[c]))

\* Err(Closed) means that nobody has, or will ever get, the message: it has
\* been dropped.
ErrIsFinal ==
  \A m \in Msg : verdict[m] = "closed" =>
    /\ m \in dropped
    /\ \A c \in Chan : m \notin Elements(got[c]) \cup Elements(queue[c])

\* Nothing follows a None: the channel is closed and stays empty.
NoneIsFinal == \A c \in drained : closed[c] /\ queue[c] = <<>>

\* What a task has been told by send, recv or close stays true, whatever the
\* other tasks do afterwards.
AnswersStand == OkIsKept /\ ErrIsFinal /\ NoneIsFinal

=============================================================================
