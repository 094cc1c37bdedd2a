--------------------------- MODULE ChanSpecProofs ----------------------------
(***************************************************************************)
(* The promise of a channel holds for any channels, capacities and         *)
(* messages.  The inductive invariant is the conjunction of the            *)
(* invariants: Once is what keeps a message that was accepted, or          *)
(* received, from being withdrawn.                                         *)
(***************************************************************************)
EXTENDS ChanSpec, TLAPS

Inv == TypeOK /\ Once /\ OkIsKept /\ ErrIsFinal /\ NoneIsFinal

-----------------------------------------------------------------------------
(* What sending and receiving do to the elements of a queue.                *)

\* Appending a message adds it.
LEMMA ElementsAppend ==
  ASSUME NEW S, NEW s \in Seq(S), NEW e \in S
  PROVE  /\ Append(s, e) \in Seq(S)
         /\ Elements(Append(s, e)) = Elements(s) \cup {e}
         /\ Injective(s) /\ e \notin Elements(s) => Injective(Append(s, e))
BY DEF Elements, Injective

\* Taking the head leaves the other messages, in which it does not reappear
\* if it was there once.
LEMMA ElementsTail ==
  ASSUME NEW S, NEW s \in Seq(S), s # <<>>
  PROVE  /\ Head(s) \in S /\ Tail(s) \in Seq(S)
         /\ Elements(s) = Elements(Tail(s)) \cup {Head(s)}
         /\ Injective(s) => Injective(Tail(s)) /\ Head(s) \notin Elements(Tail(s))
<1>1. /\ Head(s) \in S /\ Tail(s) \in Seq(S) /\ Len(s) \in Nat /\ Len(s) > 0
      /\ Len(Tail(s)) = Len(s) - 1
      /\ \A i \in 1 .. Len(s) - 1 : Tail(s)[i] = s[i + 1]
      /\ Head(s) = s[1]
  OBVIOUS
<1>2. Elements(s) = Elements(Tail(s)) \cup {Head(s)}
  <2>1. ASSUME NEW e \in Elements(s) PROVE e \in Elements(Tail(s)) \cup {Head(s)}
    <3>1. PICK i \in 1 .. Len(s) : e = s[i]
      BY DEF Elements
    <3>2. CASE i = 1
      BY <1>1, <3>1, <3>2
    <3>3. CASE i # 1
      <4>1. i - 1 \in DOMAIN Tail(s) /\ Tail(s)[i - 1] = e
        BY <1>1, <3>1, <3>3
      <4>2. QED
        BY <4>1 DEF Elements
    <3>4. QED
      BY <3>2, <3>3
  <2>2. ASSUME NEW e \in Elements(Tail(s)) \cup {Head(s)} PROVE e \in Elements(s)
    BY <1>1 DEF Elements
  <2>3. QED
    BY <2>1, <2>2
<1>3. Injective(s) => Injective(Tail(s)) /\ Head(s) \notin Elements(Tail(s))
  BY <1>1 DEF Injective, Elements
<1>4. QED
  BY <1>1, <1>2, <1>3

-----------------------------------------------------------------------------
(* The invariant.                                                           *)

\* The channels are empty at first.
LEMMA InvInit == Init => Inv
BY DEF Init, Inv, TypeOK, Once, OkIsKept, ErrIsFinal, NoneIsFinal, Elements, Injective

\* A message that enters a channel is new, so it is in one place only.
LEMMA DepositStep ==
  ASSUME Inv, NEW c \in Chan, NEW m \in Msg, Deposit(c, m)
  PROVE  Inv'
<1> USE DEF Inv, TypeOK
<1>1. /\ queue[c] \in Seq(Msg) /\ queue' = [queue EXCEPT ![c] = Append(queue[c], m)]
      /\ queue'[c] \in Seq(Msg)
      /\ Elements(queue'[c]) = Elements(queue[c]) \cup {m}
      /\ Injective(queue'[c])
      /\ \A d \in Chan : d # c => queue'[d] = queue[d]
      /\ \A d \in Chan : m \notin Elements(queue[d]) \cup Elements(got[d])
      /\ m \notin dropped /\ verdict[m] = "none" /\ ~closed[c]
  BY ElementsAppend DEF Deposit, Fresh, Once
<1>2. UNCHANGED <<closed, got, dropped, drained>>
  BY DEF Deposit
<1>3. \A n \in Msg : verdict'[n] = IF n = m /\ Cap[c] # 0 THEN "ok" ELSE verdict[n]
  BY <1>1 DEF Deposit
<1>4. TypeOK'
  BY <1>1, <1>2 DEF Deposit
<1>5. Once'
  BY <1>1, <1>2 DEF Once
<1>6. OkIsKept'
  BY <1>1, <1>2, <1>3 DEF OkIsKept
<1>7. ErrIsFinal'
  BY <1>1, <1>2, <1>3 DEF ErrIsFinal
<1>8. NoneIsFinal'
  BY <1>1, <1>2 DEF NoneIsFinal
<1>9. QED
  BY <1>4, <1>5, <1>6, <1>7, <1>8

\* A receive moves the oldest message and leaves no copy behind.
LEMMA DeliverStep ==
  ASSUME Inv, NEW c \in Chan, Deliver(c)
  PROVE  Inv'
<1> USE DEF Inv, TypeOK
<1> DEFINE m == Head(queue[c])
<1>1. /\ m \in Msg /\ Tail(queue[c]) \in Seq(Msg)
      /\ Elements(queue[c]) = Elements(Tail(queue[c])) \cup {m}
      /\ Injective(Tail(queue[c])) /\ m \notin Elements(Tail(queue[c]))
  BY ElementsTail DEF Deliver, Once
<1>2. /\ m \in Elements(queue[c]) /\ got[c] \in Seq(Msg) /\ m \notin dropped
      /\ \A d \in Chan : /\ m \notin Elements(got[d])
                         /\ d # c => m \notin Elements(queue[d])
  <2> HIDE DEF m
  <2>1. QED
    BY <1>1 DEF Once
<1>3. /\ Append(got[c], m) \in Seq(Msg)
      /\ Elements(Append(got[c], m)) = Elements(got[c]) \cup {m}
      /\ Injective(Append(got[c], m))
  <2> HIDE DEF m
  <2>1. Injective(got[c])
    BY DEF Once
  <2>2. QED
    BY <1>1, <1>2, <2>1, ElementsAppend
<1>4. /\ queue' = [queue EXCEPT ![c] = Tail(queue[c])]
      /\ got' = [got EXCEPT ![c] = Append(got[c], m)]
      /\ UNCHANGED <<closed, verdict, dropped, drained>>
  BY DEF Deliver
<1> HIDE DEF m
<1>5. /\ \A d \in Chan : /\ Elements(queue'[d]) = Elements(queue[d]) \ (IF d = c THEN {m} ELSE {})
                         /\ Elements(got'[d]) = Elements(got[d]) \cup (IF d = c THEN {m} ELSE {})
                         /\ Injective(queue'[d]) /\ Injective(got'[d])
  BY <1>1, <1>3, <1>4 DEF Once
<1>6. TypeOK'
  BY <1>1, <1>3, <1>4
<1>7. Once'
  <2>1. \A d, f \in Chan : Elements(queue'[d]) \cap Elements(got'[f]) = {}
    <3> TAKE d, f \in Chan
    <3>1. Elements(queue[d]) \cap Elements(got[f]) = {}
      BY DEF Once
    <3>2. m \notin Elements(queue'[d]) /\ Elements(queue'[d]) \subseteq Elements(queue[d])
      BY <1>2, <1>5
    <3>3. Elements(got'[f]) \subseteq Elements(got[f]) \cup {m}
      BY <1>5
    <3>4. QED
      BY <3>1, <3>2, <3>3
  <2>2. \A d, f \in Chan : d # f => /\ Elements(queue'[d]) \cap Elements(queue'[f]) = {}
                                   /\ Elements(got'[d]) \cap Elements(got'[f]) = {}
    <3> TAKE d, f \in Chan
    <3> HAVE d # f
    <3>1. /\ Elements(queue[d]) \cap Elements(queue[f]) = {}
          /\ Elements(got[d]) \cap Elements(got[f]) = {}
      BY DEF Once
    <3>2. /\ Elements(queue'[d]) \subseteq Elements(queue[d])
          /\ Elements(queue'[f]) \subseteq Elements(queue[f])
      BY <1>5
    <3>a. \/ d # c /\ got'[d] = got[d]
          \/ f # c /\ got'[f] = got[f]
      BY <1>4
    <3>3. /\ Elements(got'[d]) = Elements(got[d]) \/ Elements(got'[f]) = Elements(got[f])
          /\ Elements(got'[d]) \subseteq Elements(got[d]) \cup {m}
          /\ Elements(got'[f]) \subseteq Elements(got[f]) \cup {m}
      BY <1>5, <3>a
    <3>4. QED
      BY <1>2, <3>1, <3>2, <3>3
  <2>3. \A d \in Chan : dropped' \cap (Elements(queue'[d]) \cup Elements(got'[d])) = {}
    BY <1>2, <1>4, <1>5 DEF Once
  <2>4. QED
    BY <1>5, <2>1, <2>2, <2>3 DEF Once
<1>8. OkIsKept'
  BY <1>1, <1>2, <1>4, <1>5 DEF OkIsKept
<1>9. ErrIsFinal'
  BY <1>2, <1>4, <1>5 DEF ErrIsFinal
<1>10. NoneIsFinal'
  <2>1. c \notin drained
    BY DEF NoneIsFinal, Deliver
  <2>2. QED
    BY <1>4, <2>1 DEF NoneIsFinal
<1>11. QED
  BY <1>6, <1>7, <1>8, <1>9, <1>10

\* A withdrawn message was on offer, so nobody was told Ok for it.
LEMMA WithdrawStep ==
  ASSUME Inv, NEW c \in Chan, NEW m \in Msg, Withdraw(c, m)
  PROVE  Inv'
<1> USE DEF Inv, TypeOK
<1>1. /\ queue[c] = <<m>> /\ queue' = [queue EXCEPT ![c] = <<>>]
      /\ verdict' = [verdict EXCEPT ![m] = "closed"]
      /\ dropped' = dropped \cup {m} /\ Cap[c] = 0 /\ closed[c]
      /\ UNCHANGED <<closed, got, drained>>
  BY DEF Withdraw
<1>a. Elements(queue[c]) = {m} /\ Elements(<<>>) = {} /\ Injective(<<>>)
  BY <1>1 DEF Elements, Injective
<1>b. \A d \in Chan : m \notin Elements(got[d]) /\ (d # c => m \notin Elements(queue[d]))
  BY <1>a DEF Once
<1>2. \A d \in Chan : /\ Elements(queue'[d]) = Elements(queue[d]) \ {m}
                      /\ m \notin Elements(got[d])
                      /\ Injective(queue'[d])
  BY <1>1, <1>a, <1>b DEF Once
<1>3. TypeOK'
  BY <1>1
<1>4. Once'
  BY <1>1, <1>2 DEF Once
<1>5. OkIsKept'
  <2> SUFFICES ASSUME NEW n \in Msg, verdict'[n] = "ok"
               PROVE  /\ n \notin dropped'
                      /\ \E d \in Chan : \/ n \in Elements(got'[d])
                                         \/ Cap[d] # 0 /\ n \in Elements(queue'[d])
    BY DEF OkIsKept
  <2>1. n # m /\ verdict[n] = "ok"
    BY <1>1
  <2>2. QED
    BY <1>1, <1>2, <1>b, <2>1 DEF OkIsKept
<1>6. ErrIsFinal'
  BY <1>1, <1>2 DEF ErrIsFinal
<1>7. NoneIsFinal'
  BY <1>1 DEF NoneIsFinal
<1>8. QED
  BY <1>3, <1>4, <1>5, <1>6, <1>7

\* A refused message was never in a channel.
LEMMA RefuseStep ==
  ASSUME Inv, NEW c \in Chan, NEW m \in Msg, Refuse(c, m)
  PROVE  Inv'
<1> USE DEF Inv, TypeOK
<1>1. /\ verdict' = [verdict EXCEPT ![m] = "closed"]
      /\ dropped' = dropped \cup {m} /\ verdict[m] = "none"
      /\ \A d \in Chan : m \notin Elements(got[d]) \cup Elements(queue[d])
      /\ UNCHANGED <<queue, closed, got, drained>>
  BY DEF Refuse, Fresh
<1>2. TypeOK' /\ Once' /\ NoneIsFinal'
  BY <1>1 DEF Once, NoneIsFinal
<1>3. OkIsKept' /\ ErrIsFinal'
  BY <1>1 DEF OkIsKept, ErrIsFinal
<1>4. QED
  BY <1>2, <1>3

\* The steps that move no message.
LEMMA OtherStep ==
  ASSUME Inv, NEW c \in Chan,
         \/ Close(c) \/ End(c) \/ UNCHANGED vars
         \/ \E m \in Msg : Acknowledge(c, m)
  PROVE  Inv'
<1> USE DEF Inv, TypeOK, Once, OkIsKept, ErrIsFinal, NoneIsFinal
<1>1. CASE Close(c)
  BY <1>1 DEF Close
<1>2. CASE End(c)
  BY <1>2 DEF End
<1>3. CASE UNCHANGED vars
  BY <1>3 DEF vars
<1>4. ASSUME NEW m \in Msg, Acknowledge(c, m) PROVE Inv'
  BY <1>4 DEF Acknowledge
<1>5. QED
  BY <1>1, <1>2, <1>3, <1>4

\* Every step preserves the invariant.
LEMMA InvNext == Inv /\ [Next]_vars => Inv'
<1> SUFFICES ASSUME Inv, [Next]_vars PROVE Inv'
  OBVIOUS
<1>1. CASE UNCHANGED vars
  BY <1>1 DEF vars, Inv, TypeOK, Once, OkIsKept, ErrIsFinal, NoneIsFinal
<1>2. ASSUME NEW c \in Chan,
             \/ Deliver(c) \/ Close(c) \/ End(c)
             \/ \E m \in Msg : \/ Deposit(c, m) \/ Acknowledge(c, m)
                               \/ Refuse(c, m) \/ Withdraw(c, m)
      PROVE  Inv'
  BY <1>2, DepositStep, DeliverStep, WithdrawStep, RefuseStep, OtherStep
<1>3. QED
  BY <1>1, <1>2 DEF Next

-----------------------------------------------------------------------------
(* Being fresh ends for good, and only by entering a channel or by being    *)
(* refused.                                                                 *)

\* The steps that change what has been seen change it for one message.
LEMMA FreshEnds ==
  ASSUME Inv, NEW c \in Chan, NEW m \in Msg, Deposit(c, m) \/ Refuse(c, m)
  PROVE  \A n \in Msg : Fresh(n)' <=> Fresh(n) /\ n # m
<1> USE DEF Inv, TypeOK
<1>1. CASE Deposit(c, m)
  <2>1. /\ queue'[c] = Append(queue[c], m) /\ \A d \in Chan \ {c} : queue'[d] = queue[d]
        /\ UNCHANGED <<got, dropped>> /\ verdict[m] = "none"
        /\ \A n \in Msg \ {m} : verdict'[n] = verdict[n]
    BY <1>1 DEF Deposit, Fresh
  <2>2. Elements(queue'[c]) = Elements(queue[c]) \cup {m}
    BY <2>1, ElementsAppend
  <2>3. QED
    BY <2>1, <2>2 DEF Fresh
<1>2. CASE Refuse(c, m)
  <2>1. /\ UNCHANGED <<queue, got>> /\ dropped' = dropped \cup {m} /\ verdict'[m] = "closed"
        /\ \A n \in Msg \ {m} : verdict'[n] = verdict[n]
    BY <1>2 DEF Refuse
  <2>2. QED
    BY <2>1 DEF Fresh
<1>3. QED
  BY <1>1, <1>2

\* Every other step leaves it as it is.
LEMMA FreshStays ==
  ASSUME Inv, NEW c \in Chan,
         \/ Deliver(c) \/ Close(c) \/ End(c)
         \/ \E m \in Msg : Acknowledge(c, m) \/ Withdraw(c, m)
  PROVE  \A n \in Msg : Fresh(n)' <=> Fresh(n)
<1> USE DEF Inv, TypeOK
<1>1. CASE Deliver(c)
  <2>1. /\ Elements(queue[c]) = Elements(queue'[c]) \cup {Head(queue[c])}
        /\ \A d \in Chan \ {c} : queue'[d] = queue[d] /\ got'[d] = got[d]
        /\ UNCHANGED <<verdict, dropped>>
    BY <1>1, ElementsTail DEF Deliver
  <2>2. Elements(got'[c]) = Elements(got[c]) \cup {Head(queue[c])}
    BY <1>1, ElementsTail, ElementsAppend DEF Deliver
  <2>3. ASSUME NEW n PROVE \A d \in Chan : /\ n \in Elements(queue'[d]) \cup Elements(got'[d])
                                           <=> n \in Elements(queue[d]) \cup Elements(got[d])
    BY <2>1, <2>2
  <2>4. QED
    BY <2>1, <2>3 DEF Fresh
<1>2. CASE Close(c) \/ End(c)
  BY <1>2 DEF Close, End, Fresh
<1>3. ASSUME NEW m \in Msg, Acknowledge(c, m) PROVE \A n \in Msg : Fresh(n)' <=> Fresh(n)
  <2>1. /\ UNCHANGED <<queue, got, dropped>> /\ m \in Elements(got[c])
        /\ \A n \in Msg \ {m} : verdict'[n] = verdict[n]
    BY <1>3 DEF Acknowledge
  <2>2. QED
    BY <2>1 DEF Fresh
<1>4. ASSUME NEW m \in Msg, Withdraw(c, m) PROVE \A n \in Msg : Fresh(n)' <=> Fresh(n)
  <2>1. /\ queue[c] = <<m>> /\ queue'[c] = <<>> /\ \A d \in Chan \ {c} : queue'[d] = queue[d]
        /\ UNCHANGED got /\ dropped' = dropped \cup {m}
        /\ \A n \in Msg \ {m} : verdict'[n] = verdict[n]
    BY <1>4 DEF Withdraw
  <2>2. Elements(queue[c]) = {m} /\ Elements(queue'[c]) = {}
    BY <2>1 DEF Elements
  <2>3. QED
    BY <2>1, <2>2 DEF Fresh
<1>5. QED
  BY <1>1, <1>2, <1>3, <1>4

-----------------------------------------------------------------------------
(* The theorems.                                                            *)

\* The inductive invariant holds in every reachable state.
THEOREM Invariance == Spec => []Inv
<1>1. Init => Inv
  BY InvInit
<1>2. Inv /\ [Next]_vars => Inv'
  BY InvNext
<1>3. QED
  BY <1>1, <1>2, PTL DEF Spec

\* The state of a channel always has its type.
THEOREM Typing == Spec => []TypeOK
BY Invariance, PTL DEF Inv

\* A message is never in two places: it is received once, and not after it
\* was dropped (17.2).
THEOREM ReceivedOnce == Spec => []Once
BY Invariance, PTL DEF Inv

\* What a task was told stays true (17.3): Ok by a send whose message is kept,
\* Err(Closed) by one whose message nobody gets, None by an empty channel.
THEOREM AnswersKept == Spec => []AnswersStand
BY Invariance, PTL DEF Inv, AnswersStand

=============================================================================
