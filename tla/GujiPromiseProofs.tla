-------------------------- MODULE GujiPromiseProofs --------------------------
(***************************************************************************)
(* The concurrency runtime keeps the promise of a channel, for any         *)
(* program, any number of tasks and channels and any capacities: every     *)
(* step of GujiConc is a step of ChanSpec or leaves the channels as they   *)
(* are, and every message is in one place.                                 *)
(***************************************************************************)
EXTENDS GujiConcProofs

\* The promise, together with what is proved of it.
Kept == INSTANCE ChanSpecProofs WITH
  queue <- [c \in Chan |-> Queue(c)],
  dropped <- {k \in Msg : drops[k] > 0}

-----------------------------------------------------------------------------
(* The ring of slots is a queue.                                            *)

\* The slots from the oldest message to the first free one are different.
LEMMA RingFree ==
  ASSUME NEW n \in Nat \ {0}, NEW h \in 0 .. n - 1, NEW l \in 0 .. n - 1, NEW i \in 1 .. l + 1
  PROVE  /\ (h + i - 1) % n \in 0 .. n - 1
         /\ (h + i - 1) % n = (h + l) % n <=> i = l + 1
<1> DEFINE x == h + i - 1
           y == h + l
<1>1. x \in Nat /\ x < n + n /\ y \in Nat /\ y < n + n /\ x <= y /\ y < x + n
  OBVIOUS
<1>2. x = y <=> i = l + 1
  OBVIOUS
<1> HIDE DEF x, y
<1>3. x % n = IF x < n THEN x ELSE x - n
  BY <1>1
<1>4. y % n = IF y < n THEN y ELSE y - n
  BY <1>1
<1>5. x % n \in 0 .. n - 1 /\ (x % n = y % n <=> x = y)
  BY <1>1, <1>3, <1>4
<1>6. QED
  BY <1>2, <1>5, Zenon DEF x, y

\* Read from the second message on, the ring is the ring without its head.
LEMMA RingShift ==
  ASSUME NEW n \in Nat \ {0}, NEW h \in 0 .. n - 1, NEW l \in 1 .. n, NEW i \in 1 .. l - 1
  PROVE  (((h + 1) % n) + i - 1) % n = (h + (i + 1) - 1) % n
<1> DEFINE x == h + 1
           y == i - 1
           z == n + i - 1
<1>1. x \in Nat /\ x <= n /\ y \in Nat /\ y < n /\ z \in Nat /\ z = y + n
  OBVIOUS
<1>2. CASE x < n
  <2>1. x % n = x
    <3> HIDE DEF x
    <3>1. QED
      BY <1>1, <1>2
  <2>2. (x % n) + i - 1 = h + (i + 1) - 1
    BY <2>1
  <2>3. QED
    BY <2>2, Zenon DEF x
<1>3. CASE x = n
  <2>1. x % n = 0 /\ y % n = y /\ z % n = y
    <3> HIDE DEF x, y, z
    <3>1. QED
      BY <1>1, <1>3
  <2>2. (x % n) + i - 1 = y /\ h + (i + 1) - 1 = z
    BY <2>1, <1>3
  <2>3. QED
    BY <2>1, <2>2, Zenon DEF x
<1>4. QED
  BY <1>1, <1>2, <1>3

\* A function on 1 .. n is a sequence of length n.
LEMMA SeqOf ==
  ASSUME NEW S, NEW n \in Nat, NEW q, q = [i \in 1 .. n |-> q[i]], \A i \in 1 .. n : q[i] \in S
  PROVE  Len(q) = n /\ q \in Seq(S)
<1>1. q \in [1 .. n -> S]
  OBVIOUS
<1>2. QED
  BY <1>1

\* One more message at the end.
LEMMA AppendIs ==
  ASSUME NEW S, NEW q \in Seq(S), NEW m \in S, NEW r \in Seq(S), Len(r) = Len(q) + 1,
         \A i \in 1 .. Len(q) + 1 : r[i] = IF i = Len(q) + 1 THEN m ELSE q[i]
  PROVE  r = Append(q, m)
OBVIOUS

\* The first message gone.
LEMMA TailIs ==
  ASSUME NEW S, NEW q \in Seq(S), Len(q) > 0, NEW r \in Seq(S), Len(r) = Len(q) - 1,
         \A i \in 1 .. Len(q) - 1 : r[i] = q[i + 1]
  PROVE  r = Tail(q) /\ q # <<>>
OBVIOUS

\* The ring read from the oldest message on.
RingRead(c) ==
  /\ Cap[c] \in Nat \ {0} /\ head[c] \in 0 .. Cap[c] - 1 /\ len[c] \in 0 .. Cap[c]
  /\ Queue(c) = [i \in 1 .. len[c] |-> buf[c][(head[c] + i - 1) % Cap[c]]]
  /\ Len(Queue(c)) = len[c]

\* What a receiver could still take, in a slot or in a ring.
LEMMA QueueShape ==
  ASSUME TypeOK, NEW c \in Chan
  PROVE  /\ Unbuffered(c) => Queue(c) = IF handoff[c] = 1 THEN <<buf[c][0]>> ELSE <<>>
         /\ ~Unbuffered(c) => RingRead(c)
         /\ Queue(c) \in Seq(Msg \cup {NoMsg})
<1> USE DEF TypeOK, ChanTypeOK, SlotTypeOK, BufTypeOK
<1>1. CASE Unbuffered(c)
  <2>1. buf[c][0] \in Msg \cup {NoMsg}
    BY <1>1 DEF Slots
  <2>2. Queue(c) = IF handoff[c] = 1 THEN <<buf[c][0]>> ELSE <<>>
    BY <1>1 DEF Queue
  <2>3. Queue(c) \in Seq(Msg \cup {NoMsg})
    <3>1. <<>> \in Seq(Msg \cup {NoMsg}) /\ <<buf[c][0]>> \in Seq(Msg \cup {NoMsg})
      BY <2>1
    <3>2. QED
      BY <2>2, <3>1, Zenon
  <2>4. QED
    BY <1>1, <2>2, <2>3
<1>2. CASE ~Unbuffered(c)
  <2>1. Cap[c] \in Nat \ {0} /\ head[c] \in 0 .. Cap[c] - 1 /\ len[c] \in 0 .. Cap[c]
    BY <1>2, ChanAssumption DEF Unbuffered, Slots
  <2>2. Queue(c) = [i \in 1 .. len[c] |-> buf[c][(head[c] + i - 1) % Cap[c]]]
    BY <1>2 DEF Queue
  <2>3. ASSUME NEW i \in 1 .. len[c] PROVE buf[c][(head[c] + i - 1) % Cap[c]] \in Msg \cup {NoMsg}
    <3>1. head[c] + i - 1 \in Nat /\ Cap[c] \in Nat /\ Cap[c] # 0
      BY <2>1
    <3>2. (head[c] + i - 1) % Cap[c] \in 0 .. Cap[c] - 1
      BY <3>1, ModSlot, Zenon
    <3>3. buf[c] \in [Slots(c) -> Msg \cup {NoMsg}] /\ Slots(c) = 0 .. Cap[c] - 1
      BY <1>2 DEF Slots
    <3>4. QED
      BY <3>2, <3>3, Zenon
  <2>4. /\ Queue(c) = [i \in 1 .. len[c] |-> Queue(c)[i]]
        /\ \A i \in 1 .. len[c] : Queue(c)[i] \in Msg \cup {NoMsg}
    BY <2>2, <2>3, Zenon
  <2>5. Len(Queue(c)) = len[c] /\ Queue(c) \in Seq(Msg \cup {NoMsg})
    <3>1. len[c] \in Nat
      BY <2>1
    <3>2. QED
      BY <2>4, <3>1, SeqOf, Zenon
  <2>6. QED
    BY <1>2, <2>1, <2>2, <2>5 DEF RingRead
<1>3. QED
  BY <1>1, <1>2

LEMMA QueueSame ==
  ASSUME NEW c \in Chan, buf'[c] = buf[c], head'[c] = head[c], len'[c] = len[c],
         handoff'[c] = handoff[c]
  PROVE  Queue(c)' = Queue(c)
BY DEF Queue, Unbuffered

\* Offer and Enqueue append.
LEMMA QueueAppended ==
  ASSUME TypeOK, Slot, NEW c \in Chan, NEW m \in Msg, ~Full(c),
         \/ Unbuffered(c) /\ Offer(c, m)
         \/ ~Unbuffered(c) /\ Enqueue(c, m)
  PROVE  /\ Queue(c)' = Append(Queue(c), m)
         /\ \A d \in Chan \ {c} : Queue(d)' = Queue(d)
         /\ Len(Queue(c)) < IF Cap[c] = 0 THEN 1 ELSE Cap[c]
<1> USE DEF TypeOK, ChanTypeOK, SlotTypeOK
<1>0. /\ buf = [d \in Chan |-> buf[d]] /\ buf[c] \in [Slots(c) -> Msg \cup {NoMsg}]
  BY DEF BufTypeOK
<1>1. CASE Unbuffered(c)
  <2>1. /\ handoff[c] = 0 /\ handoff' = [handoff EXCEPT ![c] = 1]
        /\ buf' = [buf EXCEPT ![c][0] = m] /\ head' = head /\ len' = len
    BY <1>1 DEF Full, Offer
  <2>2. buf' = [d \in Chan |-> IF d = c THEN [buf[c] EXCEPT ![0] = m] ELSE buf[d]]
    BY <1>0, <2>1, Zenon
  <2>3. buf'[c][0] = m /\ \A d \in Chan \ {c} : buf'[d] = buf[d]
    <3>1. 0 \in Slots(c)
      BY <1>1 DEF Slots
    <3>2. QED
      BY <1>0, <2>2, <3>1
  <2>4. Queue(c)' = <<m>> /\ Queue(c) = <<>>
    BY <1>1, <2>1, <2>3 DEF Queue, Unbuffered
  <2>5. \A d \in Chan \ {c} : Queue(d)' = Queue(d)
    BY <2>1, <2>3, QueueSame
  <2>6. QED
    BY <1>1, <2>4, <2>5 DEF Unbuffered
<1>2. CASE ~Unbuffered(c)
  <2> DEFINE n == Cap[c]
             k == (head[c] + len[c]) % n
  <2>1. /\ n \in Nat \ {0} /\ head[c] \in 0 .. n - 1 /\ len[c] \in 0 .. n - 1
        /\ Queue(c) = [i \in 1 .. len[c] |-> buf[c][(head[c] + i - 1) % n]]
        /\ Len(Queue(c)) = len[c]
    BY <1>2, QueueShape DEF Full, RingRead
  <2>2. /\ buf' = [buf EXCEPT ![c][k] = m] /\ len' = [len EXCEPT ![c] = @ + 1]
        /\ head' = head /\ handoff' = handoff
    BY <1>2 DEF Enqueue
  <2> HIDE DEF n, k
  <2>3. buf' = [d \in Chan |-> IF d = c THEN [buf[c] EXCEPT ![k] = m] ELSE buf[d]]
    BY <1>0, <2>2, Zenon
  <2>4. /\ len'[c] = len[c] + 1 /\ \A d \in Chan \ {c} : len'[d] = len[d] /\ buf'[d] = buf[d]
        /\ \A i \in 0 .. n - 1 : buf'[c][i] = IF i = k THEN m ELSE buf[c][i]
    BY <1>0, <1>2, <2>2, <2>3 DEF n, Slots
  <2>5. \A i \in 1 .. len[c] + 1 :
          /\ (head[c] + i - 1) % n \in 0 .. n - 1
          /\ (head[c] + i - 1) % n = k <=> i = len[c] + 1
    BY <2>1, RingFree DEF k
  <2>6. Queue(c)' = [i \in 1 .. len[c] + 1 |-> buf'[c][(head[c] + i - 1) % n]]
    BY <1>2, <2>2, <2>4 DEF Queue, Unbuffered, n
  <2>7. \A i \in 1 .. len[c] + 1 : Queue(c)'[i] = IF i = len[c] + 1 THEN m ELSE Queue(c)[i]
    BY <2>1, <2>4, <2>5, <2>6
  <2>8. Queue(c)' = Append(Queue(c), m)
    <3>1. Queue(c) \in Seq(Msg \cup {NoMsg}) /\ m \in Msg \cup {NoMsg}
      BY QueueShape
    <3>2. \A i \in 1 .. len[c] + 1 : Queue(c)'[i] \in Msg \cup {NoMsg}
      <4>1. \A i \in 1 .. len[c] : Queue(c)[i] \in Msg \cup {NoMsg}
        BY <2>1, <3>1
      <4>2. \A i \in 1 .. len[c] + 1 : i = len[c] + 1 \/ i \in 1 .. len[c]
        BY <2>1
      <4>3. QED
        BY <2>7, <3>1, <4>1, <4>2, Zenon
    <3>3. len[c] + 1 \in Nat /\ Queue(c)' = [i \in 1 .. len[c] + 1 |-> Queue(c)'[i]]
      BY <2>1, <2>6
    <3>4. Len(Queue(c)') = Len(Queue(c)) + 1 /\ Queue(c)' \in Seq(Msg \cup {NoMsg})
      <4>1. Len(Queue(c)') = len[c] + 1 /\ Queue(c)' \in Seq(Msg \cup {NoMsg})
        BY <3>2, <3>3, SeqOf, Zenon
      <4>2. QED
        BY <2>1, <4>1
    <3>5. \A i \in 1 .. Len(Queue(c)) + 1 :
            Queue(c)'[i] = IF i = Len(Queue(c)) + 1 THEN m ELSE Queue(c)[i]
      BY <2>1, <2>7, Zenon
    <3>6. QED
      BY <3>1, <3>4, <3>5, AppendIs, Zenon
  <2>9. \A d \in Chan \ {c} : Queue(d)' = Queue(d)
    BY <2>2, <2>4, QueueSame
  <2>10. QED
    BY <1>2, <2>1, <2>8, <2>9 DEF Unbuffered, n
<1>3. QED
  BY <1>1, <1>2

\* Take and Dequeue remove the head.
LEMMA QueueTailed ==
  ASSUME TypeOK, NEW c \in Chan, Readable(c), IF Unbuffered(c) THEN Take(c) ELSE Dequeue(c)
  PROVE  /\ Queue(c)' = Tail(Queue(c)) /\ Queue(c) # <<>>
         /\ \A d \in Chan \ {c} : Queue(d)' = Queue(d)
<1> USE DEF TypeOK, ChanTypeOK, SlotTypeOK
<1>1. CASE Unbuffered(c)
  <2>1. handoff[c] = 1 /\ handoff' = [handoff EXCEPT ![c] = 2] /\ UNCHANGED <<buf, head, len>>
    BY <1>1 DEF Readable, Offered, Available, Take
  <2>2. Queue(c)' = <<>> /\ Queue(c) = <<buf[c][0]>>
    BY <1>1, <2>1 DEF Queue, Unbuffered
  <2>3. \A d \in Chan \ {c} : Queue(d)' = Queue(d)
    BY <2>1, QueueSame
  <2>4. QED
    BY <2>2, <2>3
<1>2. CASE ~Unbuffered(c)
  <2> DEFINE n == Cap[c]
  <2>1. /\ n \in Nat \ {0} /\ head[c] \in 0 .. n - 1 /\ len[c] \in 1 .. n
        /\ Queue(c) = [i \in 1 .. len[c] |-> buf[c][(head[c] + i - 1) % n]]
        /\ Len(Queue(c)) = len[c]
    BY <1>2, QueueShape DEF Readable, Offered, Available, RingRead
  <2>2. /\ head' = [head EXCEPT ![c] = (@ + 1) % n] /\ len' = [len EXCEPT ![c] = @ - 1]
        /\ buf' = buf /\ handoff' = handoff
    BY <1>2 DEF Dequeue
  <2> HIDE DEF n
  <2>3. head'[c] = (head[c] + 1) % n /\ len'[c] = len[c] - 1
    BY <2>2
  <2>4. \A i \in 1 .. len[c] - 1 : (((head[c] + 1) % n) + i - 1) % n = (head[c] + (i + 1) - 1) % n
    BY <2>1, RingShift
  <2>5. Queue(c)' = [i \in 1 .. len[c] - 1 |-> buf[c][(((head[c] + 1) % n) + i - 1) % n]]
    BY <1>2, <2>2, <2>3 DEF Queue, Unbuffered, n
  <2>6. \A i \in 1 .. len[c] - 1 : Queue(c)'[i] = Queue(c)[i + 1]
    <3>1. \A i \in 1 .. len[c] - 1 : i \in 1 .. len[c] /\ i + 1 \in 1 .. len[c]
      BY <2>1
    <3>2. QED
      BY <2>1, <2>4, <2>5, <3>1, Zenon
  <2>7. Queue(c)' = Tail(Queue(c)) /\ Queue(c) # <<>>
    <3>1. Queue(c) \in Seq(Msg \cup {NoMsg})
      BY QueueShape
    <3>2. \A i \in 1 .. len[c] : Queue(c)[i] \in Msg \cup {NoMsg}
      BY <2>1, <3>1
    <3>3. \A i \in 1 .. len[c] - 1 : Queue(c)'[i] \in Msg \cup {NoMsg}
      <4>1. \A i \in 1 .. len[c] - 1 : i + 1 \in 1 .. len[c]
        BY <2>1
      <4>2. QED
        BY <2>6, <3>2, <4>1, Zenon
    <3>4. len[c] - 1 \in Nat /\ Queue(c)' = [i \in 1 .. len[c] - 1 |-> Queue(c)'[i]]
      BY <2>1, <2>5
    <3>5. Len(Queue(c)') = len[c] - 1 /\ Queue(c)' \in Seq(Msg \cup {NoMsg})
      BY <3>3, <3>4, SeqOf, Zenon
    <3>6. Len(Queue(c)) > 0
      BY <2>1
    <3>7. QED
      BY <2>1, <2>6, <3>1, <3>5, <3>6, TailIs, Zenon
  <2>8. \A d \in Chan \ {c} : Queue(d)' = Queue(d)
    BY <2>2, QueueSame
  <2>9. QED
    BY <2>7, <2>8
<1>3. QED
  BY <1>1, <1>2

\* The slot of a rendezvous that is freed holds no message afterwards.
LEMMA QueueFreed ==
  ASSUME TypeOK, NEW c \in Chan, Unbuffered(c), FreeSlot(c)
  PROVE  /\ Queue(c)' = <<>>
         /\ handoff[c] # 1 => Queue(c) = <<>>
         /\ \A d \in Chan \ {c} : Queue(d)' = Queue(d)
<1> USE DEF TypeOK, ChanTypeOK, SlotTypeOK
<1>1. handoff' = [handoff EXCEPT ![c] = 0] /\ UNCHANGED <<buf, head, len>>
  BY DEF FreeSlot
<1>2. \A d \in Chan \ {c} : Queue(d)' = Queue(d)
  BY <1>1, QueueSame
<1>3. QED
  BY <1>1, <1>2 DEF Queue, Unbuffered

-----------------------------------------------------------------------------
(* What a step does to the channels of the promise.                         *)

\* One queue changes.
LEMMA QueuesSet ==
  ASSUME NEW c \in Chan, NEW q, Queue(c)' = q, \A d \in Chan \ {c} : Queue(d)' = Queue(d)
  PROVE  [d \in Chan |-> Queue(d)]' = [[d \in Chan |-> Queue(d)] EXCEPT ![c] = q]
OBVIOUS

\* No queue changes.
LEMMA QueuesStay ==
  ASSUME UNCHANGED slotVars
  PROVE  /\ \A c \in Chan : Queue(c)' = Queue(c)
         /\ [c \in Chan |-> Queue(c)]' = [c \in Chan |-> Queue(c)]
<1>1. \A c \in Chan : Queue(c)' = Queue(c)
  BY QueueSame DEF slotVars
<1>2. QED
  BY <1>1

\* A message nobody has seen, in the variables of the code.
LEMMA FreshIs ==
  ASSUME TypeOK, NEW m \in Msg
  PROVE  Kept!Fresh(m) <=>
           /\ verdict[m] = "none" /\ drops[m] = 0
           /\ \A c \in Chan : m \notin Kept!Elements(Queue(c)) \cup Kept!Elements(got[c])
<1>1. m \notin {k \in Msg : drops[k] > 0} <=> drops[m] = 0
  BY DEF TypeOK, HistoryTypeOK
<1>2. QED
  BY <1>1 DEF Kept!Fresh

\* What the promise needs to know of the messages and their senders.
Later == \A m \in Msg : m >= nextMsg => Kept!Fresh(m) /\ m \notin used

SendersOf ==
  \A t \in Task : /\ msg[t] # NoMsg <=> Sends(op[t])
                  /\ Sends(op[t]) => msg[t] < nextMsg
                  /\ \A u \in Task : t # u /\ msg[t] = msg[u] => msg[t] = NoMsg

Unsent == \A n \in Msg, t \in Task : msg[t] = n /\ ~InOffer(t) => Kept!Fresh(n)

\* The sender of an offer has been told nothing, and its value is with a
\* receiver once the slot says so.
Standing(t) ==
  /\ verdict[msg[t]] = "none" /\ drops[msg[t]] = 0
  /\ handoff[Ch(t)] = 2 => msg[t] \in Kept!Elements(got[Ch(t)])

Offers == \A t \in Task : InOffer(t) => Standing(t)

Messages == Later /\ SendersOf /\ Unsent /\ Offers

\* A step of t is about no message but the one t sends, and those a receiver
\* finds in a channel.
Gentle(t) ==
  /\ \A n \in Msg : n # msg[t] => verdict'[n] = verdict[n] /\ drops'[n] = drops[n]
  /\ \A d \in Chan :
       /\ Kept!Elements(got[d]) \subseteq Kept!Elements(got'[d])
       /\ Kept!Elements(got'[d]) \cup Kept!Elements(Queue(d)')
            \subseteq Kept!Elements(got[d]) \cup Kept!Elements(Queue(d)) \cup {msg[t]}
       /\ handoff'[d] = 2 => \/ handoff[d] = 2
                             \/ handoff[d] = 1 /\ buf[d][0] \in Kept!Elements(got'[d])

\* What the promise needs of the rest of the runtime.
Ready == Typed /\ Slot /\ Kept!Inv /\ Messages

\* The slot at which an offering task waits.
LEMMA OfferAt ==
  ASSUME Typed, Slot, NEW t \in Task, InOffer(t)
  PROVE  /\ Ch(t) \in Chan /\ Unbuffered(Ch(t)) /\ handoff[Ch(t)] \in {1, 2}
         /\ Offering(Ch(t)) = {t} /\ buf[Ch(t)][0] = msg[t]
         /\ Sends(op[t]) /\ msg[t] \in Msg
         /\ Queue(Ch(t)) = IF handoff[Ch(t)] = 1 THEN <<msg[t]>> ELSE <<>>
<1> USE DEF Typed, TypeOK
<1>1. /\ op[t].fn # "spawn" /\ Sends(op[t]) /\ arm[t] \in DOMAIN op[t].arms /\ msg[t] \in Msg
  BY DEF InOffer, Control, ControlOf
<1>2. Ch(t) \in Chan /\ op[t].arms # <<>>
  <2>1. op[t].arms \in Seq(Arm)
    BY DEF TaskTypeOK, Op
  <2>2. op[t].arms[arm[t]] \in Arm /\ op[t].arms # <<>>
    BY <1>1, <2>1
  <2>3. QED
    BY <2>2 DEF Arm, Ch
<1>3. t \in Offering(Ch(t))
  BY <1>2 DEF Offering, InLoop, InOffer
<1>4. handoff[Ch(t)] # 0 /\ Offering(Ch(t)) = {t} /\ buf[Ch(t)][0] = msg[t]
  BY <1>2, <1>3 DEF Slot, OneOffer
<1>5. Unbuffered(Ch(t)) /\ handoff[Ch(t)] \in {1, 2}
  BY <1>2, <1>4 DEF Slot, HandoffUnbuffered, ChanTypeOK, SlotTypeOK
<1>6. QED
  BY <1>1, <1>2, <1>4, <1>5 DEF Queue

\* A gentle step leaves alone what the other tasks send, and every fresh message.
LEMMA GentleKeeps ==
  ASSUME Typed, Typed', Slot, Messages, NEW t \in Task, Gentle(t), Only(t)
  PROVE  /\ \A n \in Msg : Kept!Fresh(n) /\ n # msg[t] => Kept!Fresh(n)'
         /\ \A u \in Task \ {t} : InOffer(u) => Standing(u)'
<1>1. ASSUME NEW n \in Msg, Kept!Fresh(n), n # msg[t] PROVE Kept!Fresh(n)'
  <2>1. /\ verdict[n] = "none" /\ drops[n] = 0
        /\ \A c \in Chan : n \notin Kept!Elements(Queue(c)) \cup Kept!Elements(got[c])
    BY <1>1, FreshIs DEF Typed
  <2>2. verdict'[n] = "none" /\ drops'[n] = 0
    BY <1>1, <2>1 DEF Gentle
  <2>3. \A c \in Chan : n \notin Kept!Elements(Queue(c)') \cup Kept!Elements(got'[c])
    BY <1>1, <2>1 DEF Gentle
  <2>4. n \notin {k \in Msg : drops'[k] > 0}
    BY <2>2
  <2>5. QED
    BY <2>2, <2>3, <2>4 DEF Kept!Fresh
<1>2. ASSUME NEW u \in Task \ {t}, InOffer(u) PROVE Standing(u)'
  <2>1. /\ Ch(u) \in Chan /\ buf[Ch(u)][0] = msg[u] /\ msg[u] \in Msg
    BY <1>2, OfferAt
  <2>2. msg[u] # msg[t] /\ msg'[u] = msg[u] /\ Ch(u)' = Ch(u)
    BY <2>1, ChanAssumption DEF Messages, SendersOf, Only, Ch
  <2>3. Standing(u)
    BY <1>2 DEF Messages, Offers
  <2>4. QED
    BY <2>1, <2>2, <2>3 DEF Standing, Gentle
<1>3. QED
  BY <1>1, <1>2

-----------------------------------------------------------------------------
(* Each critical section is a step of the promise, or none.                 *)

\* The message at which a task sends has been seen by nobody.
LEMMA SendingFresh ==
  ASSUME Ready, NEW t \in Task, NEW c \in Chan, At(t, "send", c) \/ AtArm(t, "send", c)
  PROVE  /\ Sends(op[t]) /\ ~InOffer(t) /\ msg[t] \in Msg /\ Kept!Fresh(msg[t])
         /\ verdict[msg[t]] = "none" /\ drops[msg[t]] = 0
<1> USE DEF Ready, Typed
<1>1. pc[t] \in {"send", "poll"} /\ ~InOffer(t)
  BY DEF At, AtArm, InOffer, Control, ControlOf
<1>2. Sends(op[t])
  <2>1. CASE At(t, "send", c)
    BY <2>1 DEF At, Control, ControlOf, Sends
  <2>2. CASE AtArm(t, "send", c)
    BY <2>2 DEF AtArm, At, Control, ControlOf, Sends, Select
  <2>3. QED
    BY <2>1, <2>2
<1>3. msg[t] \in Msg /\ Kept!Fresh(msg[t])
  <2>1. PICK m \in Msg : m = msg[t]
    BY <1>2 DEF Control, ControlOf
  <2>2. Kept!Fresh(m)
    BY <1>1, <2>1 DEF Messages, Unsent
  <2>3. QED
    BY <2>1, <2>2
<1>4. QED
  BY <1>1, <1>2, <1>3, FreshIs

\* A value enters a channel: Deposit.
LEMMA Deposits ==
  ASSUME Ready, NEW t \in Task, NEW c \in Chan,
         SendOffer(t, c) \/ TrySendOffer(t, c) \/ SendPut(t, c) \/ TrySendPut(t, c)
  PROVE  (\E m \in Msg : m = msg[t] /\ Kept!Deposit(c, m)) /\ Gentle(t)
<1> USE DEF Ready, Typed
<1>1. /\ msg[t] \in Msg /\ Kept!Fresh(msg[t]) /\ verdict[msg[t]] = "none" /\ ~closed[c]
  BY SendingFresh DEF SendOffer, TrySendOffer, SendPut, TrySendPut
<1>2. /\ ~Full(c)
      /\ \/ Unbuffered(c) /\ Offer(c, msg[t]) /\ verdict' = verdict
         \/ ~Unbuffered(c) /\ Enqueue(c, msg[t]) /\ verdict' = [verdict EXCEPT ![msg[t]] = "ok"]
      /\ UNCHANGED <<closed, got, drops, drained>>
  BY DEF SendOffer, TrySendOffer, SendPut, TrySendPut, OfferValue, PutValue, Accepted, CanSendNow
<1>3. /\ Queue(c)' = Append(Queue(c), msg[t])
      /\ \A d \in Chan \ {c} : Queue(d)' = Queue(d)
      /\ Len(Queue(c)) < IF Cap[c] = 0 THEN 1 ELSE Cap[c]
  BY <1>1, <1>2, QueueAppended
<1>4. \E m \in Msg : m = msg[t] /\ Kept!Deposit(c, m)
  <2>1. [d \in Chan |-> Queue(d)]' = [[d \in Chan |-> Queue(d)] EXCEPT ![c] = Append(Queue(c), msg[t])]
    BY <1>3, QueuesSet, Zenon
  <2>2. Kept!Room(c)
    BY <1>3 DEF Kept!Room
  <2>3. verdict' = IF Cap[c] = 0 THEN verdict ELSE [verdict EXCEPT ![msg[t]] = "ok"]
    BY <1>2 DEF Unbuffered
  <2>4. PICK m \in Msg : m = msg[t]
    BY <1>1
  <2>5. Kept!Deposit(c, m)
    BY <1>1, <1>2, <2>1, <2>2, <2>3, <2>4 DEF Kept!Deposit
  <2>6. QED
    BY <2>4, <2>5
<1>5. Kept!Elements(Queue(c)') = Kept!Elements(Queue(c)) \cup {msg[t]}
  <2>1. Queue(c) \in Seq(Msg \cup {NoMsg}) /\ msg[t] \in Msg \cup {NoMsg}
    BY <1>1, QueueShape
  <2>2. QED
    BY <1>3, <2>1 DEF Kept!Elements
<1>6. \A d \in Chan : handoff'[d] = 2 => handoff[d] = 2
  BY <1>2 DEF TypeOK, ChanTypeOK, SlotTypeOK, Offer, Enqueue
<1>7. \A n \in Msg : n # msg[t] => verdict'[n] = verdict[n] /\ drops'[n] = drops[n]
  BY <1>2 DEF TypeOK, HistoryTypeOK
<1>8. QED
  BY <1>2, <1>3, <1>4, <1>5, <1>6, <1>7 DEF Gentle

\* A receiver takes the oldest value: Deliver.
LEMMA Delivers ==
  ASSUME Ready, NEW t \in Task, NEW c \in Chan, RecvTake(t, c) \/ TryRecvTake(t, c)
  PROVE  Kept!Deliver(c) /\ Gentle(t)
<1> USE DEF Ready, Typed
<1>1. /\ Readable(c) /\ IF Unbuffered(c) THEN Take(c) ELSE Dequeue(c)
      /\ got' = [got EXCEPT ![c] = Append(@, Head(Queue(c)))]
      /\ UNCHANGED <<closed, verdict, drops, drained>>
  BY DEF RecvTake, TryRecvTake, TakeValue, Deliver
<1>2. /\ Queue(c)' = Tail(Queue(c)) /\ Queue(c) # <<>>
      /\ \A d \in Chan \ {c} : Queue(d)' = Queue(d)
  BY <1>1, QueueTailed
<1>3. Kept!Deliver(c)
  <2>1. [d \in Chan |-> Queue(d)]' = [[d \in Chan |-> Queue(d)] EXCEPT ![c] = Tail(Queue(c))]
    BY <1>2, QueuesSet, Zenon
  <2>2. QED
    BY <1>1, <1>2, <2>1 DEF Kept!Deliver
<1>4. /\ Kept!Elements(Queue(c)) = Kept!Elements(Queue(c)') \cup {Head(Queue(c))}
      /\ Kept!Elements(got'[c]) = Kept!Elements(got[c]) \cup {Head(Queue(c))}
  <2>1. Queue(c) \in Seq(Msg \cup {NoMsg}) /\ got[c] \in Seq(Msg \cup {NoMsg})
    BY QueueShape DEF TypeOK, HistoryTypeOK
  <2>2. /\ Head(Queue(c)) \in Msg \cup {NoMsg}
        /\ Kept!Elements(Queue(c)) = Kept!Elements(Tail(Queue(c))) \cup {Head(Queue(c))}
    BY <1>2, <2>1, Kept!ElementsTail, ChanAssumption
  <2>3. got'[c] = Append(got[c], Head(Queue(c)))
    BY <1>1 DEF TypeOK, HistoryTypeOK
  <2>4. Kept!Elements(got'[c]) = Kept!Elements(got[c]) \cup {Head(Queue(c))}
    BY <2>1, <2>2, <2>3, Kept!ElementsAppend, ChanAssumption
  <2>5. QED
    BY <1>2, <2>2, <2>4
<1>5. \A d \in Chan \ {c} : got'[d] = got[d]
  BY <1>1 DEF TypeOK, HistoryTypeOK
<1>6. \A d \in Chan : handoff'[d] = 2 => \/ handoff[d] = 2
                                         \/ handoff[d] = 1 /\ buf[d][0] \in Kept!Elements(got'[d])
  <2>1. CASE ~Unbuffered(c)
    BY <1>1, <2>1 DEF Dequeue
  <2>2. CASE Unbuffered(c)
    <3>1. handoff[c] = 1 /\ Queue(c) = <<buf[c][0]>> /\ handoff' = [handoff EXCEPT ![c] = 2]
      BY <1>1, <2>2 DEF Readable, Offered, Available, Queue, Take
    <3>2. buf[c][0] \in Kept!Elements(got'[c])
      BY <1>4, <3>1
    <3>3. QED
      BY <3>1, <3>2 DEF TypeOK, ChanTypeOK, SlotTypeOK
  <2>3. QED
    BY <2>1, <2>2
<1>7. QED
  BY <1>1, <1>2, <1>3, <1>4, <1>5, <1>6 DEF Gentle

\* The payload of a message that is refused is dropped.
LEMMA DroppedOne ==
  ASSUME TypeOK, NEW m \in Msg, Refused(m)
  PROVE  /\ {k \in Msg : drops'[k] > 0} = {k \in Msg : drops[k] > 0} \cup {m}
         /\ verdict' = [verdict EXCEPT ![m] = "closed"]
         /\ \A n \in Msg : n # m => verdict'[n] = verdict[n] /\ drops'[n] = drops[n]
<1>1. drops \in [Msg -> Nat] /\ drops' = [drops EXCEPT ![m] = @ + 1]
  BY DEF TypeOK, HistoryTypeOK, Refused
<1>2. drops'[m] > 0 /\ \A n \in Msg : n # m => drops'[n] = drops[n]
  BY <1>1
<1>3. QED
  BY <1>2 DEF TypeOK, HistoryTypeOK, Refused

\* The channel was closed before the value got in: Refuse.
LEMMA Refuses ==
  ASSUME Ready, NEW t \in Task, NEW c \in Chan, SendClosed(t, c) \/ TrySendClosed(t, c)
  PROVE  (\E m \in Msg : m = msg[t] /\ Kept!Refuse(c, m)) /\ Gentle(t)
<1> USE DEF Ready, Typed
<1>1. /\ msg[t] \in Msg /\ Kept!Fresh(msg[t]) /\ closed[c] /\ Refused(msg[t])
      /\ UNCHANGED <<slotVars, closed, got, drained>>
  BY SendingFresh DEF SendClosed, TrySendClosed, chanVars, slotVars
<1>2. /\ \A d \in Chan : Queue(d)' = Queue(d)
      /\ [d \in Chan |-> Queue(d)]' = [d \in Chan |-> Queue(d)]
  BY <1>1, QueuesStay
<1>3. /\ {k \in Msg : drops'[k] > 0} = {k \in Msg : drops[k] > 0} \cup {msg[t]}
      /\ verdict' = [verdict EXCEPT ![msg[t]] = "closed"]
      /\ \A n \in Msg : n # msg[t] => verdict'[n] = verdict[n] /\ drops'[n] = drops[n]
  BY <1>1, DroppedOne, Zenon
<1>4. \E m \in Msg : m = msg[t] /\ Kept!Refuse(c, m)
  <2>1. PICK m \in Msg : m = msg[t]
    BY <1>1, <1>2
  <2>2. Kept!Refuse(c, m)
    BY <1>1, <1>2, <1>3, <2>1 DEF Kept!Refuse
  <2>3. QED
    BY <2>1, <2>2
<1>5. QED
  BY <1>1, <1>2, <1>3, <1>4 DEF Gentle, slotVars

\* The rendezvous is over: Acknowledge.
LEMMA Acknowledges ==
  ASSUME Ready, NEW t \in Task, NEW c \in Chan, OfferTaken(t, c)
  PROVE  (\E m \in Msg : m = msg[t] /\ Kept!Acknowledge(c, m)) /\ Gentle(t)
<1> USE DEF Ready, Typed
<1>1. /\ InOffer(t) /\ c = Ch(t) /\ handoff[c] = 2 /\ FreeSlot(c) /\ Accepted(msg[t])
      /\ UNCHANGED <<closed, got, drops, drained>>
  BY DEF OfferTaken, At, InOffer
<1>2. /\ Unbuffered(c) /\ msg[t] \in Msg /\ Queue(c) = <<>>
      /\ verdict[msg[t]] = "none" /\ msg[t] \in Kept!Elements(got[c])
  BY <1>1, OfferAt DEF Messages, Offers, Standing
<1>3. Queue(c)' = Queue(c) /\ \A d \in Chan \ {c} : Queue(d)' = Queue(d)
  BY <1>1, <1>2, QueueFreed
<1>4. [d \in Chan |-> Queue(d)]' = [d \in Chan |-> Queue(d)]
  BY <1>3
<1>5. \E m \in Msg : m = msg[t] /\ Kept!Acknowledge(c, m)
  <2>1. PICK m \in Msg : m = msg[t]
    BY <1>1, <1>2
  <2>2. Kept!Acknowledge(c, m)
    BY <1>1, <1>2, <1>4, <2>1 DEF Kept!Acknowledge, Unbuffered, Accepted
  <2>3. QED
    BY <2>1, <2>2
<1>6. \A d \in Chan : handoff'[d] = 2 => handoff[d] = 2
  BY <1>1 DEF TypeOK, ChanTypeOK, SlotTypeOK, FreeSlot
<1>7. \A n \in Msg : n # msg[t] => verdict'[n] = verdict[n] /\ drops'[n] = drops[n]
  BY <1>1 DEF TypeOK, HistoryTypeOK, Accepted
<1>8. QED
  BY <1>1, <1>3, <1>5, <1>6, <1>7 DEF Gentle

\* The offer comes back: Withdraw.
LEMMA Withdraws ==
  ASSUME Ready, NEW t \in Task, NEW c \in Chan, OfferReclaim(t, c)
  PROVE  (\E m \in Msg : m = msg[t] /\ Kept!Withdraw(c, m)) /\ Gentle(t)
<1> USE DEF Ready, Typed
<1>1. /\ InOffer(t) /\ c = Ch(t) /\ Untaken(c) /\ FreeSlot(c) /\ Refused(buf[c][0])
      /\ UNCHANGED <<closed, got, drained>>
  BY DEF OfferReclaim, At, InOffer
<1>2. /\ Unbuffered(c) /\ msg[t] \in Msg /\ Queue(c) = <<msg[t]>> /\ closed[c]
      /\ buf[c][0] = msg[t]
  BY <1>1, OfferAt DEF Untaken
<1>3. Queue(c)' = <<>> /\ \A d \in Chan \ {c} : Queue(d)' = Queue(d)
  BY <1>1, <1>2, QueueFreed
<1>4. [d \in Chan |-> Queue(d)]' = [[d \in Chan |-> Queue(d)] EXCEPT ![c] = <<>>]
  BY <1>3, QueuesSet, Zenon
<1>5. /\ {k \in Msg : drops'[k] > 0} = {k \in Msg : drops[k] > 0} \cup {msg[t]}
      /\ verdict' = [verdict EXCEPT ![msg[t]] = "closed"]
      /\ \A n \in Msg : n # msg[t] => verdict'[n] = verdict[n] /\ drops'[n] = drops[n]
  BY <1>1, <1>2, DroppedOne, Zenon
<1>6. \E m \in Msg : m = msg[t] /\ Kept!Withdraw(c, m)
  <2>1. PICK m \in Msg : m = msg[t]
    BY <1>1, <1>2
  <2>2. Kept!Withdraw(c, m)
    BY <1>1, <1>2, <1>4, <1>5, <2>1 DEF Kept!Withdraw, Unbuffered
  <2>3. QED
    BY <2>1, <2>2
<1>7. \A d \in Chan : handoff'[d] = 2 => handoff[d] = 2
  BY <1>1 DEF TypeOK, ChanTypeOK, SlotTypeOK, FreeSlot
<1>8. Kept!Elements(Queue(c)') \subseteq Kept!Elements(Queue(c))
  BY <1>3 DEF Kept!Elements
<1>9. QED
  BY <1>1, <1>3, <1>5, <1>6, <1>7, <1>8 DEF Gentle

\* A receive is told that there is nothing more: End.  A close: Close.
LEMMA EndsOrCloses ==
  ASSUME Ready, NEW t \in Task, NEW c \in Chan,
         RecvNone(t, c) \/ TryRecvNone(t, c) \/ CloseOk(t, c)
  PROVE  (Kept!End(c) \/ Kept!Close(c)) /\ Gentle(t)
<1> USE DEF Ready, Typed
<1>1. UNCHANGED <<slotVars, got, verdict, drops>>
  BY DEF RecvNone, TryRecvNone, CloseOk, SeeEnd, history
<1>2. /\ \A d \in Chan : Queue(d)' = Queue(d)
      /\ [d \in Chan |-> Queue(d)]' = [d \in Chan |-> Queue(d)]
  BY <1>1, QueuesStay
<1>3. ASSUME CloseOk(t, c) PROVE Kept!Close(c)
  <2>1. ~closed[c] /\ closed' = [closed EXCEPT ![c] = TRUE] /\ UNCHANGED drained
    BY <1>3 DEF CloseOk, history
  <2>2. QED
    BY <1>1, <1>2, <2>1, Zenon DEF Kept!Close
<1>4. ASSUME RecvNone(t, c) \/ TryRecvNone(t, c) PROVE Kept!End(c)
  <2>1. AtEnd(c) /\ drained' = drained \cup {c} /\ UNCHANGED closed
    BY <1>4 DEF RecvNone, TryRecvNone, SeeEnd
  <2>2. Queue(c) = <<>>
    <3>1. CASE Unbuffered(c)
      BY <2>1, <3>1 DEF AtEnd, Readable, Offered, Queue
    <3>2. CASE ~Unbuffered(c)
      <4>1. RingRead(c) /\ ~(len[c] > 0) /\ Queue(c) \in Seq(Msg \cup {NoMsg})
        BY <2>1, <3>2, QueueShape DEF AtEnd, Readable, Available
      <4>2. QED
        BY <4>1 DEF RingRead
    <3>3. QED
      BY <3>1, <3>2
  <2>3. [d \in Chan |-> Queue(d)][c] = <<>> /\ closed[c]
    BY <2>1, <2>2 DEF AtEnd
  <2>4. QED
    BY <1>1, <1>2, <2>1, <2>3, Zenon DEF Kept!End
<1>5. Kept!End(c) \/ Kept!Close(c)
  BY <1>3, <1>4
<1>6. QED
  BY <1>1, <1>2, <1>5 DEF Gentle, slotVars

-----------------------------------------------------------------------------
(* Messages is kept.                                                        *)

\* Nobody sends NoMsg or a message to come.
LEMMA MsgOf ==
  ASSUME Ready, NEW t \in Task
  PROVE  /\ Sends(op[t]) => msg[t] \in Msg /\ msg[t] < nextMsg
         /\ ~Sends(op[t]) => msg[t] = NoMsg
         /\ \A m \in Msg : m >= nextMsg => m # msg[t]
<1>1. Sends(op[t]) => msg[t] \in Msg /\ msg[t] < nextMsg
  BY DEF Ready, Typed, Control, ControlOf, Messages, SendersOf
<1>2. ~Sends(op[t]) => msg[t] = NoMsg
  BY DEF Ready, Messages, SendersOf
<1>3. Msg = 1 .. MaxMsg /\ MaxMsg \in Nat /\ nextMsg \in Nat
  BY ProgramAssumption DEF Ready, Typed, TypeOK, LifeTypeOK
<1>4. ASSUME NEW m \in Msg, m >= nextMsg PROVE m # msg[t]
  BY <1>1, <1>2, <1>3, <1>4, ChanAssumption
<1>5. QED
  BY <1>1, <1>2, <1>4

\* The operation is over: what t was told cannot be about another message.
LEMMA MessagesReturn ==
  ASSUME Ready, Typed', NEW t \in Task, Gentle(t), Return(t), nextMsg' = nextMsg,
         used' \subseteq used \cup {msg[t]}
  PROVE  Messages'
<1> USE DEF Ready
<1>1. /\ Only(t) /\ ~InOffer(t)'
      /\ \A n \in Msg : Kept!Fresh(n) /\ n # msg[t] => Kept!Fresh(n)'
      /\ \A u \in Task \ {t} : InOffer(u) => Standing(u)'
  BY ReturnLeaves, GentleKeeps
<1>2. op'[t] = Idle /\ msg'[t] = NoMsg /\ ~Sends(Idle)
  BY DEF Return, Typed, TypeOK, TaskTypeOK, Sends, Idle
<1>3. Later'
  BY <1>1, MsgOf DEF Messages, Later
<1>4. SendersOf'
  <2>1. \A u \in Task \ {t} : op'[u] = op[u] /\ msg'[u] = msg[u]
    BY <1>1 DEF Only
  <2>2. QED
    BY <1>2, <2>1 DEF Messages, SendersOf
<1>5. Unsent'
  <2> SUFFICES ASSUME NEW n \in Msg, NEW u \in Task, msg'[u] = n, ~InOffer(u)'
               PROVE  Kept!Fresh(n)'
    BY DEF Unsent
  <2>1. u # t /\ msg[u] = n /\ ~InOffer(u)
    BY <1>1, <1>2, ChanAssumption DEF Only, InOffer
  <2>2. Kept!Fresh(n) /\ n # msg[t]
    BY <2>1, ChanAssumption DEF Messages, Unsent, SendersOf
  <2>3. QED
    BY <1>1, <2>2
<1>6. Offers'
  <2> SUFFICES ASSUME NEW u \in Task, InOffer(u)' PROVE Standing(u)'
    BY DEF Offers
  <2>1. u # t /\ InOffer(u)
    BY <1>1 DEF Only, InOffer
  <2>2. QED
    BY <1>1, <2>1
<1>7. QED
  BY <1>3, <1>4, <1>5, <1>6 DEF Messages

\* The value is in the slot now, and its sender waits.
LEMMA MessagesOffer ==
  ASSUME Ready, Typed', NEW t \in Task, NEW c \in Chan, SendOffer(t, c) \/ TrySendOffer(t, c)
  PROVE  Messages'
<1> USE DEF Ready
<1>1. /\ Goto(t, "offer") /\ handoff' = [handoff EXCEPT ![c] = 1] /\ c = Ch(t)
      /\ UNCHANGED <<verdict, drops, nextMsg>> /\ used' \subseteq used \cup {msg[t]}
  BY DEF SendOffer, TrySendOffer, OfferValue, Offer, AtArm, At, progVars
<1>2. Gentle(t) /\ Only(t) /\ InOffer(t)'
  <2>1. Only(t) /\ InOffer(t)'
    BY <1>1 DEF Goto, Only, InOffer, Typed, TypeOK, TaskTypeOK
  <2>2. QED
    BY <2>1, Deposits
<1>3. verdict[msg[t]] = "none" /\ drops[msg[t]] = 0
  BY SendingFresh DEF SendOffer, TrySendOffer
<1>4. /\ \A n \in Msg : Kept!Fresh(n) /\ n # msg[t] => Kept!Fresh(n)'
      /\ \A u \in Task \ {t} : InOffer(u) => Standing(u)'
  BY <1>2, GentleKeeps
<1>5. op' = op /\ msg' = msg /\ \A u \in Task \ {t} : InOffer(u)' <=> InOffer(u)
  BY <1>1 DEF Goto, InOffer, Typed, TypeOK, TaskTypeOK
<1>6. Later' /\ SendersOf'
  BY <1>1, <1>4, <1>5, MsgOf DEF Messages, Later, SendersOf
<1>7. Unsent'
  <2> SUFFICES ASSUME NEW n \in Msg, NEW u \in Task, msg[u] = n, ~InOffer(u)'
               PROVE  Kept!Fresh(n)'
    BY <1>5 DEF Unsent
  <2>1. u # t /\ ~InOffer(u)
    BY <1>2, <1>5
  <2>2. Kept!Fresh(n) /\ n # msg[t]
    BY <2>1, ChanAssumption DEF Messages, Unsent, SendersOf
  <2>3. QED
    BY <1>4, <2>2
<1>8. Standing(t)'
  <2>1. Ch(t)' = c /\ handoff'[c] # 2
    BY <1>1 DEF Goto, Ch, Typed, TypeOK, ChanTypeOK, SlotTypeOK
  <2>2. QED
    BY <1>1, <1>3, <1>5, <2>1 DEF Standing
<1>9. Offers'
  BY <1>4, <1>5, <1>8 DEF Offers
<1>10. QED
  BY <1>6, <1>7, <1>9 DEF Messages

\* Nothing that the promise speaks of changes.
Still == UNCHANGED <<slotVars, closed, got, verdict, drops, drained>>

LEMMA StillFresh ==
  ASSUME Still
  PROVE  /\ UNCHANGED Kept!vars
         /\ \A n \in Msg : Kept!Fresh(n)' <=> Kept!Fresh(n)
<1>1. /\ \A c \in Chan : Queue(c)' = Queue(c)
      /\ [c \in Chan |-> Queue(c)]' = [c \in Chan |-> Queue(c)]
  BY QueuesStay DEF Still
<1>2. UNCHANGED Kept!vars
  BY <1>1 DEF Still, Kept!vars
<1>3. \A n \in Msg : Kept!Fresh(n)' <=> Kept!Fresh(n)
  BY <1>1 DEF Still, Kept!Fresh
<1>4. QED
  BY <1>2, <1>3

LEMMA MessagesStill ==
  ASSUME Ready, Still, UNCHANGED <<nextMsg, used, msg>>,
         \A u \in Task : /\ InOffer(u)' <=> InOffer(u)
                         /\ Sends(op'[u]) <=> Sends(op[u])
                         /\ InOffer(u) => op'[u] = op[u] /\ arm'[u] = arm[u]
  PROVE  Messages'
<1> USE DEF Ready
<1>1. Later' /\ SendersOf'
  BY StillFresh DEF Messages, Later, SendersOf
<1>2. Unsent'
  BY StillFresh DEF Messages, Unsent
<1>3. ASSUME NEW u \in Task, InOffer(u) PROVE Standing(u)'
  BY <1>3 DEF Messages, Offers, Standing, Ch, Still, slotVars
<1>4. QED
  BY <1>1, <1>2, <1>3 DEF Messages, Offers

\* A call hands out the next message.
LEMMA MessagesCall ==
  ASSUME Ready, NEW t \in Task, NEW o \in may[t], Call(t, o)
  PROVE  Messages'
<1> USE DEF Ready
<1>1. /\ nextMsg' = (IF Sends(o) THEN nextMsg + 1 ELSE nextMsg)
      /\ used' \subseteq used \cup (IF Sends(o) THEN {nextMsg} ELSE {})
      /\ Sends(o) => nextMsg \in Msg
      /\ nextMsg \in Nat /\ Msg = 1 .. MaxMsg /\ MaxMsg \in Nat
  BY ProgramAssumption DEF Call, Sends, Typed, TypeOK, LifeTypeOK
<1>2. /\ op'[t] = o /\ msg'[t] = (IF Sends(o) THEN nextMsg ELSE NoMsg)
      /\ \A u \in Task \ {t} : op'[u] = op[u] /\ msg'[u] = msg[u]
      /\ \A u \in Task : InOffer(u)' <=> InOffer(u)
      /\ ~InOffer(t) /\ UNCHANGED arm
  <2>1. o \in Op
    BY Allowed DEF Typed
  <2>2. Entry(o.fn) # "offer"
    BY <2>1 DEF Op, Entry
  <2>3. pc[t] = "run" /\ cont[t] = "none"
    BY DEF Call, Typed, Control, ControlOf, TypeOK, TaskTypeOK
  <2>4. QED
    BY <2>2, <2>3 DEF Call, Typed, TypeOK, TaskTypeOK, InOffer
<1>3. Still
  BY DEF Call, Still, chanVars, slotVars
<1>4. Later'
  BY <1>1, <1>3, StillFresh DEF Messages, Later
<1>5. SendersOf'
  <2>1. ASSUME NEW u \in Task \ {t} PROVE msg[u] # nextMsg \/ ~Sends(o)
    BY <1>1, <2>1, MsgOf, ChanAssumption
  <2>2. ASSUME NEW u \in Task
        PROVE  /\ msg'[u] # NoMsg <=> Sends(op'[u])
               /\ Sends(op'[u]) => msg'[u] < nextMsg'
    <3>1. CASE u = t
      BY <1>1, <1>2, <3>1, ChanAssumption
    <3>2. CASE u # t
      BY <1>1, <1>2, <3>2, MsgOf DEF Messages, SendersOf
    <3>3. QED
      BY <3>1, <3>2
  <2>3. ASSUME NEW u \in Task, NEW v \in Task, u # v, msg'[u] = msg'[v] PROVE msg'[u] = NoMsg
    BY <1>2, <2>1, <2>3 DEF Messages, SendersOf
  <2>4. QED
    BY <2>2, <2>3 DEF SendersOf
<1>6. Unsent'
  <2> SUFFICES ASSUME NEW n \in Msg, NEW u \in Task, msg'[u] = n, ~InOffer(u)
               PROVE  Kept!Fresh(n)
    BY <1>2, <1>3, StillFresh DEF Unsent
  <2>1. CASE u = t
    BY <1>1, <1>2, <2>1, ChanAssumption DEF Messages, Later
  <2>2. CASE u # t
    BY <1>2, <2>2 DEF Messages, Unsent
  <2>3. QED
    BY <2>1, <2>2
<1>7. Offers'
  <2> SUFFICES ASSUME NEW u \in Task, InOffer(u) PROVE Standing(u)'
    BY <1>2 DEF Offers
  <2>1. Standing(u) /\ u # t
    BY <1>2 DEF Messages, Offers
  <2>2. QED
    BY <1>2, <1>3, <2>1 DEF Standing, Ch, Still, slotVars
<1>8. QED
  BY <1>4, <1>5, <1>6, <1>7 DEF Messages

-----------------------------------------------------------------------------
(* The refinement.                                                          *)

\* An arm that is not ready, or a receive that starts to wait.
LEMMA NoOffer ==
  ASSUME Typed, NEW t \in Task, NEW c \in Chan,
         TrySendMiss(t, c) \/ TryRecvMiss(t, c) \/ RecvWait(t, c)
  PROVE  Only(t) /\ ~InOffer(t) /\ ~InOffer(t)'
BY DEF Typed, TypeOK, TaskTypeOK, TrySendMiss, TryRecvMiss, RecvWait, Miss, NextArm, Goto,
       AtArm, At, Only, InOffer, Control, ControlOf

\* The critical sections of a channel.
LEMMA ChannelPromised ==
  ASSUME Ready, Typed', NEW t \in Task, NEW c \in Chan, ChannelStep(t, c)
  PROVE  [Kept!Next]_(Kept!vars) /\ Messages'
<1>1. CASE \/ SendWait(t, c) \/ OfferWait(t, c) \/ RecvBlock(t, c) \/ RecvWait(t, c)
           \/ TrySendMiss(t, c) \/ TryRecvMiss(t, c)
  <2>1. Still /\ UNCHANGED <<nextMsg, used, msg, op>>
    BY <1>1 DEF SendWait, OfferWait, RecvBlock, BlockOn, RecvWait, Goto, TrySendMiss, TryRecvMiss,
                Miss, NextArm, Still, chanVars, slotVars, progVars, history
  <2>2. ASSUME NEW u \in Task
        PROVE  (InOffer(u)' <=> InOffer(u)) /\ (InOffer(u) => arm'[u] = arm[u])
    <3>1. CASE SendWait(t, c) \/ OfferWait(t, c) \/ RecvBlock(t, c)
      BY <3>1 DEF Ready, Typed, TypeOK, TaskTypeOK, SendWait, OfferWait, RecvBlock, BlockOn, At,
                  InOffer, Control, ControlOf
    <3>2. CASE TrySendMiss(t, c) \/ TryRecvMiss(t, c) \/ RecvWait(t, c)
      <4>1. Only(t) /\ ~InOffer(t) /\ ~InOffer(t)'
        BY <3>2, NoOffer DEF Ready
      <4>2. QED
        BY <4>1 DEF Only, InOffer
    <3>3. QED
      BY <1>1, <3>1, <3>2
  <2>3. QED
    BY <2>1, <2>2, StillFresh, MessagesStill
<1>2. CASE SendOffer(t, c) \/ TrySendOffer(t, c)
  <2>1. \E m \in Msg : Kept!Deposit(c, m)
    BY <1>2, Deposits
  <2>2. QED
    BY <1>2, <2>1, MessagesOffer DEF Kept!Next
<1>3. CASE SendPut(t, c) \/ TrySendPut(t, c)
  <2>1. (\E m \in Msg : Kept!Deposit(c, m)) /\ Gentle(t)
    BY <1>3, Deposits
  <2>2. Return(t) /\ nextMsg' = nextMsg /\ used' \subseteq used \cup {msg[t]}
    BY <1>3 DEF SendPut, TrySendPut, PutValue, progVars
  <2>3. QED
    BY <2>1, <2>2, MessagesReturn DEF Kept!Next
<1>4. CASE SendClosed(t, c) \/ TrySendClosed(t, c)
  <2>1. (\E m \in Msg : Kept!Refuse(c, m)) /\ Gentle(t)
    BY <1>4, Refuses
  <2>2. Return(t) /\ nextMsg' = nextMsg /\ used' \subseteq used \cup {msg[t]}
    BY <1>4 DEF SendClosed, TrySendClosed, progVars
  <2>3. QED
    BY <2>1, <2>2, MessagesReturn DEF Kept!Next
<1>5. CASE OfferTaken(t, c) \/ OfferReclaim(t, c)
  <2>1. (\E m \in Msg : Kept!Acknowledge(c, m) \/ Kept!Withdraw(c, m)) /\ Gentle(t)
    BY <1>5, Acknowledges, Withdraws
  <2>2. Return(t) /\ nextMsg' = nextMsg /\ used' \subseteq used \cup {msg[t]}
    BY <1>5 DEF OfferTaken, OfferReclaim, progVars
  <2>3. QED
    BY <2>1, <2>2, MessagesReturn DEF Kept!Next
<1>6. CASE \/ RecvTake(t, c) \/ TryRecvTake(t, c) \/ RecvNone(t, c) \/ TryRecvNone(t, c)
           \/ CloseOk(t, c)
  <2>1. (Kept!Deliver(c) \/ Kept!End(c) \/ Kept!Close(c)) /\ Gentle(t)
    BY <1>6, Delivers, EndsOrCloses
  <2>2. Return(t) /\ nextMsg' = nextMsg /\ used' \subseteq used \cup {msg[t]}
    BY <1>6 DEF RecvTake, TryRecvTake, TakeValue, Deliver, RecvNone, TryRecvNone, SeeEnd, CloseOk,
                progVars, history
  <2>3. QED
    BY <2>1, <2>2, MessagesReturn DEF Kept!Next
<1>7. CASE CloseAgain(t, c)
  <2>1. /\ Still /\ UNCHANGED <<nextMsg, used>> /\ Return(t) /\ ~InOffer(t) /\ ~Sends(op[t])
    BY <1>7 DEF CloseAgain, Still, slotVars, progVars, history, At, InOffer, Ready, Typed, Control,
                ControlOf, Sends
  <2>2. /\ Only(t) /\ ~InOffer(t)' /\ op'[t] = Idle /\ msg'[t] = NoMsg /\ ~Sends(Idle)
    BY <2>1, ReturnLeaves DEF Ready, Return, Typed, TypeOK, TaskTypeOK, Sends, Idle
  <2>3. msg' = msg
    <3>1. msg[t] = NoMsg
      BY <2>1, MsgOf
    <3>2. QED
      BY <2>1, <3>1 DEF Return, Ready, Typed, TypeOK, TaskTypeOK
  <2>4. ASSUME NEW u \in Task
        PROVE  /\ InOffer(u)' <=> InOffer(u)
               /\ Sends(op'[u]) <=> Sends(op[u])
               /\ InOffer(u) => op'[u] = op[u] /\ arm'[u] = arm[u]
    BY <2>1, <2>2 DEF Only, InOffer
  <2>5. QED
    BY <2>1, <2>3, <2>4, StillFresh, MessagesStill
<1>8. QED
  BY <1>1, <1>2, <1>3, <1>4, <1>5, <1>6, <1>7 DEF ChannelStep

\* Everything else: only a call is about messages, and no channel changes.
LEMMA OtherPromised ==
  ASSUME Ready, Typed', NEW t \in Task, OtherStep(t)
  PROVE  UNCHANGED Kept!vars /\ Messages'
<1> USE DEF Ready
<1>0. (Still /\ nextMsg' = nextMsg /\ used' = used) \/ \E o \in may[t] : Call(t, o)
  BY DEF OtherStep, TaskStep, WakeSignaled, Unblock, Resume, Confirm, Snapshot,
         SelectElse, SelectWait, SelectWake, SelectTimeout, SpawnReap, Claim,
         SpawnCreate, ExitConfirm, Join, EndProcess, Timeout, SpuriousWake, Exit,
         MainReap, MainExit, Still, chanVars, slotVars, progVars, history
<1>1. CASE \E o \in may[t] : Call(t, o)
  <2>1. PICK o \in may[t] : Call(t, o)
    BY <1>1
  <2>2. Still
    BY <2>1 DEF Call, Still, chanVars, slotVars
  <2>3. QED
    BY <2>1, <2>2, StillFresh, MessagesCall
<1>2. CASE SelectElse(t)
  <2>1. Still /\ UNCHANGED <<nextMsg, used>> /\ Return(t)
    BY <1>2 DEF SelectElse, Still, chanVars, slotVars, progVars, history
  <2>2. Gentle(t)
    BY <2>1, QueuesStay DEF Gentle, Still, slotVars
  <2>3. QED
    BY <2>1, <2>2, StillFresh, MessagesReturn
<1>3. ASSUME ~SelectElse(t), ~ \E o \in may[t] : Call(t, o)
      PROVE  /\ msg' = msg
             /\ \A u \in Task : /\ InOffer(u)' <=> InOffer(u)
                                /\ Sends(op'[u]) <=> Sends(op[u])
                                /\ InOffer(u) => op'[u] = op[u] /\ arm'[u] = arm[u]
  <2>1. CASE SpawnCreate(t)
    <3>1. op[t].fn = "spawn" /\ op[t].task \in Task /\ pc[t] = "join" /\ pc[op[t].task] = "unborn"
      BY <2>1 DEF SpawnCreate, Typed, Control, ControlOf, TypeOK, TaskTypeOK, Op
    <3>2. /\ op' = [op EXCEPT ![t] = Idle] /\ UNCHANGED <<msg, cont, arm>>
          /\ ~Sends(Idle) /\ ~Sends(op[t])
      BY <2>1, <3>1 DEF SpawnCreate, Sends, Idle
    <3>3. pc' = [pc EXCEPT ![t] = "run", ![op[t].task] = "run"]
      BY <2>1 DEF SpawnCreate
    <3>4. ASSUME NEW u \in Task PROVE InOffer(u)' <=> InOffer(u)
      BY <3>1, <3>2, <3>3 DEF InOffer, Typed, TypeOK, TaskTypeOK
    <3>5. ~InOffer(t)
      BY <3>1 DEF InOffer, Typed, Control, ControlOf
    <3>6. QED
      BY <3>2, <3>4, <3>5 DEF Typed, TypeOK, TaskTypeOK
  <2>2. CASE WakeSignaled(t) \/ Unblock(t)
    BY <2>2 DEF WakeSignaled, Unblock, Resume, At, InOffer, Typed, TypeOK, TaskTypeOK
  <2>3. CASE UNCHANGED taskVars
    BY <2>3 DEF taskVars, InOffer
  <2>4. CASE \E l \in PC \ {"offer"} : Goto(t, l) /\ pc[t] # "offer"
    BY <2>4 DEF Goto, InOffer, Typed, TypeOK, TaskTypeOK
  <2>5. CASE Confirm(t) \/ ExitConfirm(t) \/ SelectTimeout(t) \/ SelectWait(t) \/ SelectWake(t)
    <3>1. /\ \/ Goto(t, "panic") \/ Goto(t, "paused") \/ Goto(t, "unblock") \/ Goto(t, "ended")
             \/ Goto(t, "selParked") \/ Goto(t, "selTop")
          /\ pc[t] # "offer"
      BY <2>5 DEF Confirm, ExitConfirm, SelectTimeout, SelectWait, SelectWake,
                  SelectLoop, DeadlockPanic, At
    <3>2. QED
      BY <2>4, <3>1, Zenon DEF PC, InWait
  <2>6. CASE Timeout(t) \/ Snapshot(t) \/ SpawnReap(t) \/ Exit(t) \/ (t = Main /\ (MainReap \/ MainExit))
    <3>1. /\ \/ Goto(t, "expired") \/ Goto(t, "selExpired") \/ Goto(t, "exitCheck")
             \/ Goto(t, "poll") \/ Goto(t, "join") \/ Goto(t, "exitConfirm") \/ Goto(t, "ended")
             \/ Goto(t, "mainJoin") \/ Goto(t, "exit") \/ Goto(t, "mainReap")
          /\ pc[t] # "offer"
      BY <2>6 DEF Timeout, Snapshot, SpawnReap, Claim, Exit, MainReap, MainExit
    <3>2. QED
      BY <2>4, <3>1, Zenon DEF PC, InWait
  <2>7. QED
    BY <1>3, <2>1, <2>2, <2>3, <2>5, <2>6, Zenon
       DEF OtherStep, TaskStep, Join, EndProcess, SpuriousWake
<1>4. QED
  BY <1>0, <1>1, <1>2, <1>3, StillFresh, MessagesStill

\* At first there is no message.
LEMMA PromiseInit == Init => Kept!Init /\ Messages
<1> SUFFICES ASSUME Init PROVE Kept!Init /\ Messages
  OBVIOUS
<1>1. \A c \in Chan : Queue(c) = <<>>
  BY DEF Init, ChanInit, Queue
<1>2. {k \in Msg : drops[k] > 0} = {}
  BY DEF Init
<1>3. Kept!Init
  BY <1>1, <1>2 DEF Init, ChanInit, Kept!Init
<1>4. \A m \in Msg : Kept!Fresh(m)
  BY <1>1, <1>2 DEF Init, Kept!Fresh, Kept!Elements
<1>5. \A t \in Task : ~Sends(op[t]) /\ msg[t] = NoMsg /\ ~InOffer(t)
  BY DEF Init, Sends, Idle, InOffer
<1>6. used = {}
  BY DEF Init
<1>7. Messages
  BY <1>4, <1>5, <1>6 DEF Messages, Later, SendersOf, Unsent, Offers
<1>8. QED
  BY <1>3, <1>7

LEMMA PromiseNext == Ready /\ Typed' /\ [Next]_vars => [Kept!Next]_(Kept!vars) /\ Messages'
<1> SUFFICES ASSUME Ready, Typed', [Next]_vars PROVE [Kept!Next]_(Kept!vars) /\ Messages'
  OBVIOUS
<1>1. CASE UNCHANGED vars
  <2>1. Still /\ UNCHANGED <<nextMsg, used, msg>>
    BY <1>1 DEF vars, Still, chanVars, slotVars, taskVars, progVars, history
  <2>2. ASSUME NEW u \in Task
        PROVE  /\ InOffer(u)' <=> InOffer(u)
               /\ Sends(op'[u]) <=> Sends(op[u])
               /\ InOffer(u) => op'[u] = op[u] /\ arm'[u] = arm[u]
    BY <1>1 DEF vars, taskVars, InOffer
  <2>3. QED
    BY <2>1, <2>2, StillFresh, MessagesStill
<1>2. QED
  BY <1>1, NextCases, ChannelPromised, OtherPromised

\* The invariants of the runtime that the refinement rests on.
LEMMA AlwaysReady == Spec => []Ready
<1>1. Init => Ready
  BY InitTyped, InitSlot, PromiseInit, Kept!InvInit, ChanAssumption DEF Ready
<1>2. Ready /\ [Next]_vars => Ready'
  <2> SUFFICES ASSUME Ready, [Next]_vars PROVE Ready'
    OBVIOUS
  <2>1. Typed' /\ Slot'
    BY NextTyped, SlotNext DEF Ready
  <2>2. [Kept!Next]_(Kept!vars) /\ Messages'
    BY <2>1, PromiseNext
  <2>3. Kept!Inv'
    BY <2>2, Kept!InvNext, ChanAssumption DEF Ready
  <2>4. QED
    BY <2>1, <2>2, <2>3 DEF Ready
<1>3. QED
  BY <1>1, <1>2, PTL DEF Spec

LEMMA SamePromise ==
  /\ Kept!Init <=> Promise!Init
  /\ [Kept!Next]_(Kept!vars) => [Promise!Next]_(Promise!vars)
BY DEF Kept!Init, Promise!Init, Kept!Next, Promise!Next, Kept!vars, Promise!vars,
       Kept!Deliver, Promise!Deliver, Kept!Close, Promise!Close, Kept!End, Promise!End,
       Kept!Deposit, Promise!Deposit, Kept!Room, Promise!Room, Kept!Fresh, Promise!Fresh,
       Kept!Elements, Promise!Elements, Kept!Acknowledge, Promise!Acknowledge,
       Kept!Refuse, Promise!Refuse, Kept!Withdraw, Promise!Withdraw

\* The channels of the runtime keep the promise of the language: every step
\* of guji_chan_send, guji_chan_recv, guji_chan_close and of a select is a
\* step of a bounded FIFO queue that can be closed once, or changes no
\* channel (src/guji-spec.md 17.2, 17.3).
THEOREM KeepsPromise == Spec => ChannelPromise
<1>1. Spec => Promise!Init
  BY PromiseInit, SamePromise DEF Spec
<1>2. Ready /\ Ready' /\ [Next]_vars => [Promise!Next]_(Promise!vars)
  BY PromiseNext, SamePromise DEF Ready
<1>3. QED
  BY <1>1, <1>2, AlwaysReady, PTL DEF Spec, ChannelPromise, Promise!Spec

-----------------------------------------------------------------------------
(* Every message is in one place.                                           *)

\* The task still holds the message that it was called to send.
Holds(t) == op[t].fn = "send" /\ (pc[t] = "send" \/ cont[t] = "send")

\* A message that was handed to the runtime is still held by the task that
\* sends it, or has been seen; one that was not is neither.
Handed ==
  /\ \A m \in Msg : m \in used <=> ~Kept!Fresh(m) \/ \E t \in Task : msg[t] = m /\ Holds(t)
  /\ \A t \in Task : op[t].fn = "send" => Holds(t) \/ InOffer(t)
  /\ \A m \in Msg : drops[m] \in {0, 1}

\* A step that hands over nothing and shows no message to anybody.
LEMMA HandedSame ==
  ASSUME Handed, used' = used, \A m \in Msg : drops'[m] \in {0, 1},
         \A m \in Msg : Kept!Fresh(m)' <=> Kept!Fresh(m),
         \A u \in Task : /\ Holds(u)' <=> Holds(u)
                         /\ Holds(u) => msg'[u] = msg[u]
                         /\ op'[u].fn = "send" => op[u].fn = "send" /\ (InOffer(u) => InOffer(u)')
  PROVE  Handed'
<1>1. \A m \in Msg : (\E t \in Task : msg'[t] = m /\ Holds(t)') <=> \E t \in Task : msg[t] = m /\ Holds(t)
  OBVIOUS
<1>2. QED
  BY <1>1 DEF Handed

\* The end of an operation in which t held nothing.
LEMMA HandedReturn ==
  ASSUME Typed, Handed, NEW t \in Task, Return(t), pc[t] \notin {"send", "parked", "expired", "unblock"},
         pc[t] \notin {"panic", "paused"},
         used' = used, \A m \in Msg : drops'[m] \in {0, 1},
         \A m \in Msg : Kept!Fresh(m)' <=> Kept!Fresh(m)
  PROVE  Handed'
<1>1. /\ Only(t) /\ op'[t] = Idle
  BY ReturnLeaves DEF Typed, TypeOK, TaskTypeOK, Return
<1>2. ~Holds(t)
  BY DEF Holds, Typed, Control, ControlOf, TypeOK, TaskTypeOK
<1>3. ~Holds(t)' /\ op'[t].fn # "send"
  BY <1>1 DEF Holds, Idle
<1>4. ASSUME NEW u \in Task
      PROVE  /\ Holds(u)' <=> Holds(u)
             /\ Holds(u) => msg'[u] = msg[u]
             /\ op'[u].fn = "send" => op[u].fn = "send" /\ (InOffer(u) => InOffer(u)')
  BY <1>1, <1>2, <1>3 DEF Only, Holds, InOffer
<1>5. QED
  BY <1>4, HandedSame

\* The message of t enters a channel or is refused.
LEMMA HandedOver ==
  ASSUME Handed, NEW t \in Task, Only(t), ~Holds(t)',
         used' = used \cup {msg[t]}, \A m \in Msg : drops'[m] \in {0, 1},
         \A m \in Msg : Kept!Fresh(m)' <=> Kept!Fresh(m) /\ m # msg[t],
         op'[t].fn = "send" => InOffer(t)'
  PROVE  Handed'
<1>1. \A u \in Task \ {t} : /\ Holds(u)' <=> Holds(u)
                            /\ msg'[u] = msg[u] /\ op'[u] = op[u]
                            /\ InOffer(u)' <=> InOffer(u)
  BY DEF Only, Holds, InOffer
<1>2. ASSUME NEW m \in Msg
      PROVE  m \in used' <=> ~Kept!Fresh(m)' \/ \E u \in Task : msg'[u] = m /\ Holds(u)'
  <2>1. CASE m = msg[t]
    BY <2>1
  <2>2. CASE m # msg[t]
    <3>1. m \in used' <=> m \in used
      BY <2>2
    <3>2. Kept!Fresh(m)' <=> Kept!Fresh(m)
      BY <2>2
    <3>3. (\E u \in Task : msg'[u] = m /\ Holds(u)') <=> \E u \in Task : msg[u] = m /\ Holds(u)
      BY <1>1, <2>2
    <3>4. QED
      BY <3>1, <3>2, <3>3 DEF Handed
  <2>3. QED
    BY <2>1, <2>2
<1>3. \A u \in Task : op'[u].fn = "send" => Holds(u)' \/ InOffer(u)'
  BY <1>1 DEF Handed
<1>4. QED
  BY <1>2, <1>3 DEF Handed

\* A send is called: its task holds the message.
LEMMA HandedCall ==
  ASSUME Ready, Handed, NEW t \in Task, NEW o \in may[t], Call(t, o)
  PROVE  Handed'
<1> USE DEF Ready
<1>1. Still
  BY DEF Call, Still, chanVars, slotVars
<1>2. /\ op'[t] = o /\ (o.fn = "send" => msg'[t] = nextMsg /\ Sends(o))
      /\ Only(t) /\ pc[t] = "run" /\ cont[t] = "none" /\ cont' = cont
      /\ o.fn = "send" => pc'[t] = "send"
      /\ used' = IF o.fn = "send" THEN used \cup {nextMsg} ELSE used
  <2>1. o \in Op
    BY Allowed DEF Typed
  <2>2. pc[t] = "run" /\ cont[t] = "none"
    BY DEF Call, Typed, Control, ControlOf, TypeOK, TaskTypeOK
  <2>3. o.fn = "send" => Entry(o.fn) = "send" /\ Sends(o)
    BY DEF Entry, Sends
  <2>4. QED
    BY <2>2, <2>3 DEF Call, Typed, TypeOK, TaskTypeOK, Only
<1>3. /\ \A u \in Task \ {t} : /\ Holds(u)' <=> Holds(u)
                               /\ msg'[u] = msg[u] /\ op'[u] = op[u]
                               /\ InOffer(u)' <=> InOffer(u)
      /\ Holds(t)' <=> o.fn = "send"
      /\ ~Holds(t)
  BY <1>2 DEF Only, Holds, InOffer
<1>4. \A m \in Msg : Kept!Fresh(m)' <=> Kept!Fresh(m)
  BY <1>1, StillFresh
<1>5. ASSUME NEW m \in Msg
      PROVE  m \in used' <=> ~Kept!Fresh(m)' \/ \E u \in Task : msg'[u] = m /\ Holds(u)'
  <2>1. CASE o.fn = "send" /\ m = nextMsg
    BY <1>2, <1>3, <2>1
  <2>2. CASE o.fn # "send" \/ m # nextMsg
    <3>1. (\E u \in Task : msg'[u] = m /\ Holds(u)') <=> \E u \in Task : msg[u] = m /\ Holds(u)
      BY <1>2, <1>3, <2>2
    <3>2. m \in used' <=> m \in used
      BY <1>2, <2>2
    <3>3. QED
      BY <1>4, <3>1, <3>2 DEF Handed
  <2>3. QED
    BY <2>1, <2>2
<1>6. \A u \in Task : op'[u].fn = "send" => Holds(u)' \/ InOffer(u)'
  BY <1>2, <1>3 DEF Handed
<1>7. drops' = drops
  BY DEF Call
<1>8. QED
  BY <1>5, <1>6, <1>7 DEF Handed

\* The payload of a message is dropped at most once.
LEMMA DroppedOnce ==
  ASSUME TypeOK, Handed, NEW m \in Msg, drops[m] = 0, Refused(m)
  PROVE  \A n \in Msg : drops'[n] \in {0, 1}
BY DEF TypeOK, HistoryTypeOK, Refused, Handed

\* The critical sections of a channel.
LEMMA ChannelHanded ==
  ASSUME Ready, Handed, NEW t \in Task, NEW c \in Chan, ChannelStep(t, c)
  PROVE  Handed'
<1> USE DEF Ready
<1>1. CASE \/ SendWait(t, c) \/ OfferWait(t, c) \/ RecvBlock(t, c) \/ RecvWait(t, c)
           \/ TrySendMiss(t, c) \/ TryRecvMiss(t, c)
  <2>1. Still /\ UNCHANGED <<used, msg, op, drops>>
    BY <1>1 DEF SendWait, OfferWait, RecvBlock, BlockOn, RecvWait, Goto, TrySendMiss, TryRecvMiss,
                Miss, NextArm, Still, chanVars, slotVars, progVars, history
  <2>2. ASSUME NEW u \in Task
        PROVE  (InOffer(u)' <=> InOffer(u)) /\ (Holds(u)' <=> Holds(u))
    <3>1. CASE SendWait(t, c) \/ OfferWait(t, c) \/ RecvBlock(t, c)
      BY <3>1 DEF Typed, TypeOK, TaskTypeOK, SendWait, OfferWait, RecvBlock, BlockOn, At,
                  InOffer, Holds, Control, ControlOf
    <3>2. CASE TrySendMiss(t, c) \/ TryRecvMiss(t, c) \/ RecvWait(t, c)
      <4>1. Only(t) /\ ~InOffer(t) /\ ~InOffer(t)'
        BY <3>2, NoOffer
      <4>2. op[t].fn # "send"
        BY <3>2 DEF TrySendMiss, TryRecvMiss, RecvWait, AtArm, At, Typed, Control, ControlOf, Select
      <4>3. QED
        BY <2>1, <4>1, <4>2 DEF Only, InOffer, Holds
    <3>3. QED
      BY <1>1, <3>1, <3>2
  <2>3. \A m \in Msg : Kept!Fresh(m)' <=> Kept!Fresh(m)
    BY <2>1, StillFresh
  <2>4. \A m \in Msg : drops'[m] \in {0, 1}
    BY <2>1 DEF Handed
  <2>5. QED
    BY <2>1, <2>2, <2>3, <2>4, HandedSame
<1>2. CASE \/ SendOffer(t, c) \/ TrySendOffer(t, c) \/ SendPut(t, c) \/ TrySendPut(t, c)
           \/ SendClosed(t, c) \/ TrySendClosed(t, c)
  <2>1. At(t, "send", c) \/ AtArm(t, "send", c)
    BY <1>2 DEF SendOffer, TrySendOffer, SendPut, TrySendPut, SendClosed, TrySendClosed
  <2>2. msg[t] \in Msg /\ drops[msg[t]] = 0
    BY <2>1, SendingFresh
  <2>3. \E m \in Msg : m = msg[t] /\ (Kept!Deposit(c, m) \/ Kept!Refuse(c, m))
    BY <1>2, Deposits, Refuses
  <2>4. \A n \in Msg : Kept!Fresh(n)' <=> Kept!Fresh(n) /\ n # msg[t]
    BY <2>3, Kept!FreshEnds, ChanAssumption
  <2>5. \A m \in Msg : drops'[m] \in {0, 1}
    <3>1. CASE SendClosed(t, c) \/ TrySendClosed(t, c)
      BY <2>2, <3>1, DroppedOnce DEF SendClosed, TrySendClosed, Typed
    <3>2. CASE drops' = drops
      BY <3>2 DEF Handed
    <3>3. QED
      BY <1>2, <3>1, <3>2 DEF SendOffer, TrySendOffer, SendPut, TrySendPut, OfferValue, PutValue
  <2>6. used' = used \cup {msg[t]}
    <3>1. CASE At(t, "send", c) /\ used' = used
      <4>1. Holds(t)
        BY <3>1 DEF At, Holds, Typed, Control, ControlOf
      <4>2. msg[t] \in used
        BY <2>2, <4>1 DEF Handed
      <4>3. QED
        BY <3>1, <4>2
    <3>2. QED
      BY <1>2, <3>1 DEF SendOffer, TrySendOffer, SendPut, TrySendPut, SendClosed, TrySendClosed
  <2>7. Only(t) /\ ~Holds(t)' /\ (op'[t].fn = "send" => InOffer(t)')
    <3>1. CASE Return(t)
      <4>1. Only(t) /\ op'[t] = Idle
        BY <3>1, ReturnLeaves DEF Typed, TypeOK, TaskTypeOK, Return
      <4>2. QED
        BY <4>1 DEF Holds, Idle
    <3>2. CASE Goto(t, "offer")
      <4>1. cont[t] = "none"
        BY <2>1 DEF At, AtArm, Typed, Control, ControlOf, TypeOK, TaskTypeOK
      <4>2. QED
        BY <3>2, <4>1 DEF Goto, Only, Holds, InOffer, Typed, TypeOK, TaskTypeOK
    <3>3. QED
      BY <1>2, <3>1, <3>2 DEF SendOffer, TrySendOffer, SendPut, TrySendPut, OfferValue, PutValue,
                              SendClosed, TrySendClosed
  <2>8. QED
    BY <2>4, <2>5, <2>6, <2>7, HandedOver
<1>3. CASE \/ OfferTaken(t, c) \/ OfferReclaim(t, c) \/ RecvTake(t, c) \/ TryRecvTake(t, c)
           \/ RecvNone(t, c) \/ TryRecvNone(t, c) \/ CloseOk(t, c) \/ CloseAgain(t, c)
  <2>1. /\ Return(t) /\ used' = used
        /\ pc[t] \notin {"send", "parked", "expired", "unblock", "panic", "paused"}
    BY <1>3 DEF OfferTaken, OfferReclaim, RecvTake, TryRecvTake, TakeValue, Deliver, RecvNone,
                TryRecvNone, SeeEnd, CloseOk, CloseAgain, AtArm, At, history
  <2>2. \A n \in Msg : Kept!Fresh(n)' <=> Kept!Fresh(n)
    <3>1. CASE CloseAgain(t, c)
      BY <3>1, StillFresh DEF CloseAgain, Still, slotVars, history
    <3>2. CASE ~CloseAgain(t, c)
      <4>1. \/ Kept!Deliver(c) \/ Kept!Close(c) \/ Kept!End(c)
            \/ \E m \in Msg : Kept!Acknowledge(c, m) \/ Kept!Withdraw(c, m)
        BY <1>3, <3>2, Acknowledges, Withdraws, Delivers, EndsOrCloses
      <4>2. QED
        BY <4>1, Kept!FreshStays, ChanAssumption
    <3>3. QED
      BY <3>1, <3>2
  <2>3. \A m \in Msg : drops'[m] \in {0, 1}
    <3>1. CASE OfferReclaim(t, c)
      <4>1. InOffer(t) /\ Refused(buf[c][0]) /\ c = Ch(t)
        BY <3>1 DEF OfferReclaim, At, InOffer
      <4>2. buf[c][0] \in Msg /\ drops[buf[c][0]] = 0
        BY <4>1, OfferAt DEF Messages, Offers, Standing
      <4>3. QED
        BY <4>1, <4>2, DroppedOnce DEF Typed
    <3>2. CASE drops' = drops
      BY <3>2 DEF Handed
    <3>3. QED
      BY <1>3, <3>1, <3>2 DEF OfferTaken, RecvTake, TryRecvTake, TakeValue, Deliver, RecvNone,
                TryRecvNone, SeeEnd, CloseOk, CloseAgain, history
  <2>4. QED
    BY <2>1, <2>2, <2>3, HandedReturn
<1>4. QED
  BY <1>1, <1>2, <1>3 DEF ChannelStep

\* Everything else hands over a message only when it is a call.
LEMMA OtherHanded ==
  ASSUME Ready, Handed, NEW t \in Task, OtherStep(t)
  PROVE  Handed'
<1> USE DEF Ready
<1>1. CASE \E o \in may[t] : Call(t, o)
  BY <1>1, HandedCall
<1>2. CASE ~ \E o \in may[t] : Call(t, o)
  <2>1. Still /\ UNCHANGED <<used, drops>>
    BY <1>2 DEF OtherStep, TaskStep, WakeSignaled, Unblock, Resume, Confirm, Snapshot,
           SelectElse, SelectWait, SelectWake, SelectTimeout, SpawnReap, Claim,
           SpawnCreate, ExitConfirm, Join, EndProcess, Timeout, SpuriousWake, Exit,
           MainReap, MainExit, Still, chanVars, slotVars, history
  <2>2. /\ \A n \in Msg : Kept!Fresh(n)' <=> Kept!Fresh(n)
        /\ \A m \in Msg : drops'[m] \in {0, 1}
    BY <2>1, StillFresh DEF Handed
  <2>3. CASE SelectElse(t)
    BY <2>1, <2>2, <2>3, HandedReturn DEF SelectElse
  <2>4. ASSUME ~SelectElse(t)
        PROVE  /\ msg' = msg
               /\ \A u \in Task : /\ InOffer(u)' <=> InOffer(u)
                                  /\ Holds(u)' <=> Holds(u)
                                  /\ op'[u].fn = "send" => op[u].fn = "send"
    <3>1. CASE SpawnCreate(t)
      <4>1. op[t].fn = "spawn" /\ op[t].task \in Task /\ pc[t] = "join" /\ pc[op[t].task] = "unborn"
        BY <3>1 DEF SpawnCreate, Typed, Control, ControlOf, TypeOK, TaskTypeOK, Op
      <4>2. /\ op' = [op EXCEPT ![t] = Idle] /\ UNCHANGED <<msg, cont, arm>>
            /\ Idle.fn = "spawn"
        BY <3>1 DEF SpawnCreate, Idle
      <4>3. pc' = [pc EXCEPT ![t] = "run", ![op[t].task] = "run"]
        BY <3>1 DEF SpawnCreate
      <4>4. ASSUME NEW u \in Task PROVE InOffer(u)' <=> InOffer(u)
        BY <4>1, <4>2, <4>3 DEF InOffer, Typed, TypeOK, TaskTypeOK
      <4>5. ASSUME NEW u \in Task PROVE Holds(u)' <=> Holds(u)
        BY <4>1, <4>2, <4>3 DEF Holds, Typed, TypeOK, TaskTypeOK
      <4>6. QED
        BY <4>2, <4>4, <4>5 DEF Typed, TypeOK, TaskTypeOK
    <3>2. CASE WakeSignaled(t) \/ Unblock(t)
      BY <3>2 DEF WakeSignaled, Unblock, Resume, At, InOffer, Holds, Typed, TypeOK, TaskTypeOK
    <3>3. CASE UNCHANGED taskVars
      BY <3>3 DEF taskVars, InOffer, Holds
    <3>4. CASE \E l \in PC \ {"offer", "send"} : Goto(t, l) /\ pc[t] \notin {"offer", "send"}
      BY <3>4 DEF Goto, InOffer, Holds, Typed, TypeOK, TaskTypeOK
    <3>5. CASE Confirm(t) \/ ExitConfirm(t) \/ SelectTimeout(t) \/ SelectWait(t) \/ SelectWake(t)
      <4>1. /\ \/ Goto(t, "panic") \/ Goto(t, "paused") \/ Goto(t, "unblock") \/ Goto(t, "ended")
               \/ Goto(t, "selParked") \/ Goto(t, "selTop")
            /\ pc[t] \notin {"offer", "send"}
        BY <3>5 DEF Confirm, ExitConfirm, SelectTimeout, SelectWait, SelectWake,
                    SelectLoop, DeadlockPanic, At
      <4>2. QED
        BY <3>4, <4>1, Zenon DEF PC, InWait
    <3>6. CASE Timeout(t) \/ Snapshot(t) \/ SpawnReap(t) \/ Exit(t) \/ (t = Main /\ (MainReap \/ MainExit))
      <4>1. /\ \/ Goto(t, "expired") \/ Goto(t, "selExpired") \/ Goto(t, "exitCheck")
               \/ Goto(t, "poll") \/ Goto(t, "join") \/ Goto(t, "exitConfirm") \/ Goto(t, "ended")
               \/ Goto(t, "mainJoin") \/ Goto(t, "exit") \/ Goto(t, "mainReap")
            /\ pc[t] \notin {"offer", "send"}
        BY <3>6 DEF Timeout, Snapshot, SpawnReap, Claim, Exit, MainReap, MainExit
      <4>2. QED
        BY <3>4, <4>1, Zenon DEF PC, InWait
    <3>7. QED
      BY <1>2, <2>4, <3>1, <3>2, <3>3, <3>5, <3>6, Zenon
         DEF OtherStep, TaskStep, Join, EndProcess, SpuriousWake
  <2>5. QED
    BY <2>1, <2>2, <2>3, <2>4, HandedSame
<1>3. QED
  BY <1>1, <1>2

LEMMA InitHanded == Init => Handed
<1> SUFFICES ASSUME Init PROVE Handed
  OBVIOUS
<1>1. \A c \in Chan : Queue(c) = <<>>
  BY DEF Init, ChanInit, Queue
<1>2. \A m \in Msg : Kept!Fresh(m)
  BY <1>1 DEF Init, Kept!Fresh, Kept!Elements
<1>3. \A t \in Task : op[t].fn # "send"
  BY DEF Init, Idle
<1>4. QED
  BY <1>2, <1>3 DEF Handed, Holds, Init

LEMMA NextHanded == Ready /\ Handed /\ [Next]_vars => Handed'
<1> SUFFICES ASSUME Ready, Handed, [Next]_vars PROVE Handed'
  OBVIOUS
<1>1. CASE UNCHANGED vars
  <2>1. Still /\ UNCHANGED <<used, drops>>
    BY <1>1 DEF vars, Still, chanVars, slotVars, history
  <2>2. ASSUME NEW u \in Task
        PROVE  /\ Holds(u)' <=> Holds(u)
               /\ Holds(u) => msg'[u] = msg[u]
               /\ op'[u].fn = "send" => op[u].fn = "send" /\ (InOffer(u) => InOffer(u)')
    BY <1>1 DEF vars, taskVars, InOffer, Holds
  <2>3. \A n \in Msg : Kept!Fresh(n)' <=> Kept!Fresh(n)
    BY <2>1, StillFresh
  <2>4. \A m \in Msg : drops'[m] \in {0, 1}
    BY <2>1 DEF Handed
  <2>5. QED
    BY <2>1, <2>2, <2>3, <2>4, HandedSame
<1>2. QED
  BY <1>1, NextCases, ChannelHanded, OtherHanded

LEMMA AlwaysHanded == Spec => [](Ready /\ Handed)
<1>1. Init => Handed
  BY InitHanded
<1>2. QED
  BY <1>1, NextHanded, AlwaysReady, PTL DEF Spec

\* Messages that are all different are at most as many as there are.
LEMMA FewMessages ==
  ASSUME NEW s \in Seq(Msg), Kept!Injective(s)
  PROVE  Len(s) <= MaxMsg
<1> DEFINE n == Len(s)
<1>1. n \in Nat /\ MaxMsg \in Nat /\ Msg = 1 .. MaxMsg /\ s \in [1 .. n -> Msg]
  BY ProgramAssumption
<1>2. /\ IsFiniteSet(1 .. n) /\ Cardinality(1 .. n) = n
      /\ IsFiniteSet(1 .. MaxMsg) /\ Cardinality(1 .. MaxMsg) = MaxMsg
  <2> HIDE DEF n
  <2>1. IsFiniteSet(1 .. n) /\ Cardinality(1 .. n) = IF 1 > n THEN 0 ELSE n - 1 + 1
    BY <1>1, FS_Interval
  <2>2. IsFiniteSet(1 .. MaxMsg) /\ Cardinality(1 .. MaxMsg) = IF 1 > MaxMsg THEN 0 ELSE MaxMsg - 1 + 1
    BY <1>1, FS_Interval
  <2>3. QED
    BY <1>1, <2>1, <2>2
<1>3. \A i, j \in 1 .. n : s[i] = s[j] => i = j
  BY DEF Kept!Injective
<1> HIDE DEF n
<1>4. ~(MaxMsg < n)
  <2> SUFFICES ASSUME MaxMsg < n PROVE FALSE
    OBVIOUS
  <2>1. \E i, j \in 1 .. n : i # j /\ s[i] = s[j]
    BY <1>1, <1>2, FS_PigeonHole
  <2>2. QED
    BY <1>3, <2>1
<1>5. QED
  BY <1>1, <1>4 DEF n

\* A message in sequences that share none has one position.
LEMMA OnePosition ==
  ASSUME NEW q \in [Chan -> Seq(Msg)], NEW m \in Msg,
         \A c \in Chan : Kept!Injective(q[c]),
         \A c, d \in Chan : c # d => Kept!Elements(q[c]) \cap Kept!Elements(q[d]) = {},
         NEW P, P = {p \in Chan \X (1 .. MaxMsg) : p[2] <= Len(q[p[1]]) /\ q[p[1]][p[2]] = m}
  PROVE  Cardinality(P) = IF \E c \in Chan : m \in Kept!Elements(q[c]) THEN 1 ELSE 0
<1>1. ASSUME NEW c \in Chan, NEW i \in 1 .. MaxMsg
      PROVE  <<c, i>> \in P <=> i \in DOMAIN q[c] /\ q[c][i] = m
  BY ProgramAssumption
<1>2. CASE \E c \in Chan : m \in Kept!Elements(q[c])
  <2>1. PICK c \in Chan : m \in Kept!Elements(q[c])
    BY <1>2
  <2>2. PICK i \in DOMAIN q[c] : q[c][i] = m
    BY <2>1 DEF Kept!Elements
  <2>3. i \in 1 .. MaxMsg
    <3>1. Len(q[c]) <= MaxMsg
      BY FewMessages
    <3>2. i \in 1 .. Len(q[c]) /\ Len(q[c]) \in Nat /\ MaxMsg \in Nat
      BY ProgramAssumption
    <3>3. QED
      BY <3>1, <3>2
  <2>4. ASSUME NEW p \in P PROVE p = <<c, i>>
    <3>1. PICK d \in Chan, j \in 1 .. MaxMsg : p = <<d, j>>
      OBVIOUS
    <3>2. j \in DOMAIN q[d] /\ q[d][j] = m
      BY <1>1, <3>1
    <3>3. d = c
      BY <2>1, <3>2 DEF Kept!Elements
    <3>4. j = i
      BY <2>2, <3>2, <3>3 DEF Kept!Injective
    <3>5. QED
      BY <3>1, <3>3, <3>4
  <2>5. P = {<<c, i>>}
    BY <1>1, <2>2, <2>3, <2>4
  <2>6. QED
    BY <1>2, <2>5, FS_Singleton
<1>3. CASE ~ \E c \in Chan : m \in Kept!Elements(q[c])
  <2>1. ASSUME NEW p \in P PROVE FALSE
    <3>1. PICK d \in Chan, j \in 1 .. MaxMsg : p = <<d, j>>
      OBVIOUS
    <3>2. j \in DOMAIN q[d] /\ q[d][j] = m
      BY <1>1, <3>1
    <3>3. QED
      BY <1>3, <3>2 DEF Kept!Elements
  <2>2. P = {}
    BY <2>1
  <2>3. QED
    BY <1>3, <2>2, FS_EmptySet
<1>4. QED
  BY <1>2, <1>3

\* The sender of a message is the only one, and holds it only while nobody
\* has seen it.
LEMMA HeldOnce ==
  ASSUME Ready, NEW m \in Msg
  PROVE  /\ Held(m) = {t \in Task : msg[t] = m /\ Holds(t)}
         /\ Held(m) # {} => Cardinality(Held(m)) = 1 /\ Kept!Fresh(m)
         /\ Held(m) = {} => Cardinality(Held(m)) = 0
<1> USE DEF Ready
<1>1. Held(m) = {t \in Task : msg[t] = m /\ Holds(t)}
  <2>1. \A t \in Task : op[t].fn = "send" => op[t].arms # <<>>
    BY DEF Typed, Control, ControlOf
  <2>2. QED
    BY <2>1 DEF Held, Holds, InLoop
<1>2. ASSUME Held(m) # {} PROVE Cardinality(Held(m)) = 1 /\ Kept!Fresh(m)
  <2>1. PICK t \in Task : msg[t] = m /\ Holds(t)
    BY <1>1, <1>2
  <2>2. Held(m) = {t}
    BY <1>1, <2>1, ChanAssumption DEF Messages, SendersOf
  <2>3. ~InOffer(t)
    BY <2>1 DEF Holds, InOffer, Typed, Control, ControlOf, TypeOK, TaskTypeOK
  <2>4. Kept!Fresh(m)
    BY <2>1, <2>3 DEF Messages, Unsent
  <2>5. QED
    BY <2>2, <2>4, FS_Singleton
<1>3. QED
  BY <1>1, <1>2, FS_EmptySet

LEMMA InOnePlace == Ready /\ Handed => OnePlace
<1> SUFFICES ASSUME Ready, Handed, NEW m \in Msg
             PROVE  Cardinality(Held(m)) + Cardinality(Places(m, Queue)) + Cardinality(Places(m, Received))
                      + drops[m] = IF m \in used THEN 1 ELSE 0
  BY DEF OnePlace
<1> DEFINE queue == [c \in Chan |-> Queue(c)]
           InQueue == \E c \in Chan : m \in Kept!Elements(queue[c])
           InGot == \E c \in Chan : m \in Kept!Elements(got[c])
           Dropped == drops[m] > 0
<1>1. Kept!TypeOK /\ Kept!Once /\ Kept!OkIsKept /\ Kept!ErrIsFinal
  BY DEF Ready, Kept!Inv
<1>2. Cardinality(Places(m, Queue)) = IF InQueue THEN 1 ELSE 0
  <2>1. queue \in [Chan -> Seq(Msg)]
    BY <1>1 DEF Kept!TypeOK
  <2>2. /\ \A c \in Chan : Kept!Injective(queue[c])
        /\ \A c, d \in Chan : c # d => Kept!Elements(queue[c]) \cap Kept!Elements(queue[d]) = {}
    BY <1>1 DEF Kept!Once
  <2>3. Places(m, Queue) = {p \in Chan \X (1 .. MaxMsg) : p[2] <= Len(queue[p[1]]) /\ queue[p[1]][p[2]] = m}
    BY DEF Places
  <2> HIDE DEF queue
  <2>4. QED
    BY <2>1, <2>2, <2>3, OnePosition
<1>3. Cardinality(Places(m, Received)) = IF InGot THEN 1 ELSE 0
  <2>1. got \in [Chan -> Seq(Msg)]
    BY <1>1 DEF Kept!TypeOK
  <2>2. /\ \A c \in Chan : Kept!Injective(got[c])
        /\ \A c, d \in Chan : c # d => Kept!Elements(got[c]) \cap Kept!Elements(got[d]) = {}
    BY <1>1 DEF Kept!Once
  <2>3. Places(m, Received) = {p \in Chan \X (1 .. MaxMsg) : p[2] <= Len(got[p[1]]) /\ got[p[1]][p[2]] = m}
    BY DEF Places, Received
  <2>4. QED
    BY <2>1, <2>2, <2>3, OnePosition
<1>4. drops[m] = IF Dropped THEN 1 ELSE 0
  BY DEF Handed
<1>5. ~(InQueue /\ InGot) /\ ~(InQueue /\ Dropped) /\ ~(InGot /\ Dropped)
  <2>1. Dropped => m \in {k \in Msg : drops[k] > 0}
    OBVIOUS
  <2>2. QED
    BY <1>1, <2>1 DEF Kept!Once
<1>6. Kept!Fresh(m) <=> ~InQueue /\ ~InGot /\ ~Dropped
  <2>1. Kept!Fresh(m) => ~InQueue /\ ~InGot /\ ~Dropped
    BY DEF Kept!Fresh
  <2>2. ~InQueue /\ ~InGot /\ ~Dropped => verdict[m] = "none"
    <3>1. verdict[m] \in {"none", "ok", "closed"}
      BY <1>1 DEF Kept!TypeOK
    <3>2. verdict[m] = "ok" => InQueue \/ InGot
      BY <1>1 DEF Kept!OkIsKept
    <3>3. verdict[m] = "closed" => Dropped
      BY <1>1 DEF Kept!ErrIsFinal
    <3>4. QED
      BY <3>1, <3>2, <3>3
  <2>3. verdict[m] = "none" /\ ~InQueue /\ ~InGot /\ ~Dropped => Kept!Fresh(m)
    BY DEF Kept!Fresh
  <2>4. QED
    BY <2>1, <2>2, <2>3
<1>7. m \in used <=> ~Kept!Fresh(m) \/ Held(m) # {}
  BY HeldOnce DEF Handed
<1>8. Cardinality(Held(m)) = (IF Held(m) # {} THEN 1 ELSE 0) /\ (Held(m) # {} => Kept!Fresh(m))
  BY HeldOnce
<1> HIDE DEF InQueue, InGot, Dropped
<1>9. QED
  BY <1>2, <1>3, <1>4, <1>5, <1>6, <1>7, <1>8

\* No message is lost, delivered twice or dropped twice: once handed to
\* guji_chan_send or guji_chan_try_send it is with its sender, in one slot of
\* one channel, with one receiver, or dropped.
THEOREM EveryMessageOnce == Spec => []OnePlace
BY AlwaysHanded, InOnePlace, PTL

=============================================================================
