------------------------------ MODULE GujiHeap -------------------------------
(***************************************************************************)
(* Who owns what in a compiled guji program.  A binding is a C local that  *)
(* owns one reference: to a channel, whose control block is counted        *)
(* atomically because tasks share it (src/selfhost/rt/guji_conc.c), or to  *)
(* a heap object of the task, a Str or the environment of a closure, whose *)
(* count is a plain integer (src/selfhost/rt/runtime_prologue.c).  The     *)
(* compiler (src/selfhost/lexer.guji) emits, for every construct of the    *)
(* language, the C statements that keep the counts right.                  *)
(*                                                                         *)
(* code[t] holds the C statements that task t still has to execute.  When  *)
(* it is empty the program may go on with any construct, and the model     *)
(* appends what the compiler emits for it.  A statement names the object   *)
(* it works on, as it is when the construct begins: the locals of a task   *)
(* are changed by nobody else.  Incrementing or decrementing a plain count *)
(* is a load and a store.                                                  *)
(***************************************************************************)
EXTENDS Integers, Sequences, SequencesExt, FiniteSets

CONSTANTS Task, Main,
          Var,        \* the names of bindings
          Chan,       \* the channels, Strs and closure environments
          Text,       \* that can be allocated
          Closure,
          Slots,      \* the capacity of every channel
          Budget,     \* how many constructs a task executes
          Rebinds,    \* SUBSET Var: the mutable bindings
          SelfRebind, \* BOOLEAN: some program says x = x
          FnCapture,  \* BOOLEAN: some hatch captures a function value
          Null        \* no object

ASSUME HeapAssumption ==
  /\ Main \in Task /\ Rebinds \subseteq Var
  /\ SelfRebind \in BOOLEAN /\ FnCapture \in BOOLEAN
  /\ "src" \notin Var /\ "msg" \notin Var
  /\ Slots \in Nat \ {0} /\ Budget \in [Task -> Nat]
  /\ Null \notin Chan \cup Text \cup Closure
  /\ Chan \cap Text = {} /\ Chan \cap Closure = {} /\ Text \cap Closure = {}
  /\ \A S \in {Task, Var, Chan, Text, Closure} : IsFiniteSet(S)

Obj   == Chan \cup Text \cup Closure
Local == Var \cup {"src", "msg"}      \* with the compiler's temporaries

VARIABLES mem,      \* mem[o]: "none", "live" or "freed"
          rc,       \* the reference count in the object's header
          queue,    \* queue[c]: the messages in channel c
          closed,
          local,    \* local[t][x]: the object to which x owns a reference
          code,     \* the statements that t is about to execute
          reg,      \* the count that t has loaded and not yet stored
          life,     \* "unborn", "running" or "ended"
          todo      \* how many more constructs t executes

vars == <<mem, rc, queue, closed, local, code, reg, life, todo>>

Init ==
  /\ mem = [o \in Obj |-> "none"]
  /\ rc = [o \in Obj |-> 0]
  /\ queue = [c \in Chan |-> <<>>]
  /\ closed = [c \in Chan |-> FALSE]
  /\ local = [t \in Task |-> [x \in Local |-> Null]]
  /\ code = [t \in Task |-> <<>>]
  /\ reg = [t \in Task |-> 0]
  /\ life = [t \in Task |-> IF t = Main THEN "running" ELSE "unborn"]
  /\ todo = Budget

-----------------------------------------------------------------------------
(* The statements of C that matter.                                        *)

St(s, o, t, x) == [s |-> s, o |-> o, at |-> <<t, x>>]

Retain(t, o)     == St("retain", o, t, "src")      \* guji_retain(o)
Release(t, x)    == St("release", local[t][x], t, x)
Assign(t, x, o)  == St("assign", o, t, x)          \* x = o
Detach(t, x, o)  == St("detach", o, t, x)          \* x = guji_str_copy(o)
SendMsg(t, c)    == St("send", c, t, "msg")        \* guji_chan_send(c, &msg)
Share(t, x, o)   == St("share", o, t, x)           \* x = guji_chan_retain(o)
Receive(t, x, c) == St("recv", c, t, x)
Close(t, c)      == St("close", c, t, "src")
Spawn(u)         == St("spawn", Null, u, "src")
Done(t)          == St("done", Null, t, "src")
AddOne(o)        == St("addOne", o, Main, "src")   \* the second half of rc++
SubOne(o)        == St("subOne", o, Main, "src")   \* and of --rc
Drop(o)          == St("drop", o, Main, "src")     \* free o and what it owns

-----------------------------------------------------------------------------
(* What the compiler emits.                                                *)

\* The variables of task t that own something.
Bound(t) == {x \in Var : local[t][x] # Null}

Idle(t) == life[t] = "running" /\ code[t] = <<>> /\ todo[t] > 0

\* Task t begins a construct for which the compiler emits ss.
Emit(t, ss) ==
  /\ code' = [code EXCEPT ![t] = ss]
  /\ todo' = [todo EXCEPT ![t] = @ - 1]
  /\ UNCHANGED <<mem, rc, queue, closed, local, reg, life>>

Fresh(S) == CHOOSE o \in S : mem[o] = "none"
Some(S)  == \E o \in S : mem[o] = "none"

\* x = channel(), x = "..." or x = fn { ... }: a new object, with one owner.
Build(t, x, S) ==
  /\ Idle(t) /\ local[t][x] = Null /\ Some(S)
  /\ LET o == Fresh(S) IN
       /\ mem' = [mem EXCEPT ![o] = "live"]
       /\ rc' = [rc EXCEPT ![o] = 1]
       /\ local' = [local EXCEPT ![t][x] = o]
  /\ todo' = [todo EXCEPT ![t] = @ - 1]
  /\ UNCHANGED <<queue, closed, code, reg, life>>

\* x = y, where x is new.
Alias(t, x, y) ==
  /\ Idle(t) /\ local[t][x] = Null /\ y \in Bound(t)
  /\ Emit(t, <<Retain(t, local[t][y]), Assign(t, x, local[t][y])>>)

SameKind(o, p) == \A K \in {Chan, Text, Closure} : o \in K <=> p \in K

\* x = y, where x is mutable and bound.  A channel is released before the
\* right-hand side is retained; anything else afterwards.
RebindCode(t, x, y) ==
  LET o == local[t][y] IN
  IF o \in Chan THEN <<Release(t, x), Retain(t, o), Assign(t, x, o)>>
                ELSE <<Retain(t, o), Release(t, x), Assign(t, x, o)>>

Rebind(t, x, y) ==
  /\ Idle(t) /\ x \in Rebinds \cap Bound(t) /\ y \in Bound(t)
  /\ SameKind(local[t][x], local[t][y])
  /\ x = y => SelfRebind
  /\ Emit(t, RebindCode(t, x, y))

\* x.send(y): the message is a copy; a Str is retained while it is copied.
Payload(t, o) == Detach(t, "msg", o)

Send(t, x, y) ==
  /\ Idle(t) /\ {x, y} \subseteq Bound(t)
  /\ LET c == local[t][x]   o == local[t][y] IN
       /\ c \in Chan /\ o \notin Chan /\ \E p \in Obj \ Chan : SameKind(o, p) /\ mem[p] = "none"
       /\ Emit(t, IF o \in Text
                  THEN <<Retain(t, o), Assign(t, "src", o), Payload(t, o), SendMsg(t, c),
                         St("release", o, t, "src")>>
                  ELSE <<Payload(t, o), SendMsg(t, c)>>)

\* y = x.recv() and x.close().
Recv(t, x, y) ==
  /\ Idle(t) /\ x \in Bound(t) /\ local[t][x] \in Chan /\ local[t][y] = Null
  /\ Emit(t, <<Receive(t, y, local[t][x])>>)

CloseChan(t, x) ==
  /\ Idle(t) /\ x \in Bound(t) /\ local[t][x] \in Chan
  /\ Emit(t, <<Close(t, local[t][x])>>)

\* x = h.lines(): a new channel that is full of Strs and closed.
Lines(t, x) ==
  /\ Idle(t) /\ local[t][x] = Null /\ Some(Chan)
  /\ \E lines \in SUBSET {o \in Text : mem[o] = "none"} :
       LET c == Fresh(Chan) IN
         /\ Cardinality(lines) <= Slots
         /\ mem' = [o \in Obj |-> IF o \in lines \cup {c} THEN "live" ELSE mem[o]]
         /\ rc' = [o \in Obj |-> IF o \in lines \cup {c} THEN 1 ELSE rc[o]]
         /\ queue' = [queue EXCEPT ![c] = SetToSeq(lines)]
         /\ closed' = [closed EXCEPT ![c] = TRUE]
         /\ local' = [local EXCEPT ![t][x] = c]
  /\ todo' = [todo EXCEPT ![t] = @ - 1]
  /\ UNCHANGED <<code, reg, life>>

\* Faulty: the task gets the channel without a reference of its own.
CaptureBorrowed(t, u, x) == Assign(u, x, local[t][x])

\* Faulty: every captured binding is shared.
CaptureShared(t, u, x) == Share(u, x, local[t][x])

\* A captured binding of a hatch: a channel is shared, a Str is copied, the
\* environment of a closure is shared too.
Capture(t, u, x) ==
  LET o == local[t][x] IN
  IF o \in Text THEN Detach(u, x, o) ELSE Share(u, x, o)

\* hatch { ... }: fill in the new task's environment, then start it.
Hatch(t, u, caps) ==
  /\ Idle(t) /\ life[u] = "unborn" /\ caps \subseteq Bound(t)
  /\ FnCapture \/ \A x \in caps : local[t][x] \notin Closure
  /\ \A v \in Task : Spawn(u) \notin ToSet(code[v])
  /\ Emit(t, SetToSeq({Capture(t, u, x) : x \in caps}) \o <<Spawn(u)>>)

\* The end of a task's body: every binding is released.
LeaveScope(t) ==
  /\ life[t] = "running" /\ code[t] = <<>>
  /\ code' = [code EXCEPT ![t] = SetToSeq({Release(t, x) : x \in Bound(t)}) \o <<Done(t)>>]
  /\ UNCHANGED <<mem, rc, queue, closed, local, reg, life, todo>>

-----------------------------------------------------------------------------
(* How the statements execute.                                             *)

Next1(t)  == Head(code[t])
At(t, s)  == code[t] # <<>> /\ Next1(t).s = s
Advance(t) == code' = [code EXCEPT ![t] = Tail(@)]
Put(loc, o) == local' = [local EXCEPT ![loc[1]][loc[2]] = o]
Load(t, o, then) ==
  /\ reg' = [reg EXCEPT ![t] = rc[o]]
  /\ code' = [code EXCEPT ![t] = <<then>> \o Tail(@)]

Atomic(o) == o \in Chan

DoRetain(t) ==
  /\ At(t, "retain")
  /\ LET o == Next1(t).o IN
       IF Atomic(o) THEN /\ rc' = [rc EXCEPT ![o] = @ + 1]
                         /\ Advance(t) /\ UNCHANGED reg
                    ELSE Load(t, o, AddOne(o)) /\ UNCHANGED rc
  /\ UNCHANGED <<mem, queue, closed, local, life, todo>>

DoAddOne(t) ==
  /\ At(t, "addOne")
  /\ rc' = [rc EXCEPT ![Next1(t).o] = reg[t] + 1]
  /\ Advance(t)
  /\ UNCHANGED <<mem, queue, closed, local, reg, life, todo>>

LastOwner(old) == old = 1

DoRelease(t) ==
  /\ At(t, "release")
  /\ LET o == Next1(t).o IN
       IF Atomic(o)
       THEN /\ rc' = [rc EXCEPT ![o] = @ - 1]
            /\ IF LastOwner(rc[o]) THEN code' = [code EXCEPT ![t] = <<Drop(o)>> \o Tail(@)]
                              ELSE Advance(t)
            /\ UNCHANGED reg
       ELSE Load(t, o, SubOne(o)) /\ UNCHANGED rc
  /\ Put(Next1(t).at, Null)
  /\ UNCHANGED <<mem, queue, closed, life, todo>>

DoSubOne(t) ==
  /\ At(t, "subOne")
  /\ LET o == Next1(t).o IN
       /\ rc' = [rc EXCEPT ![o] = reg[t] - 1]
       /\ IF LastOwner(reg[t]) THEN code' = [code EXCEPT ![t] = <<Drop(o)>> \o Tail(@)]
                               ELSE Advance(t)
  /\ UNCHANGED <<mem, queue, closed, local, reg, life, todo>>

\* Faulty: the loop over the messages starts at the second one.
UndeliveredButOne(c) == IF queue[c] = <<>> THEN {} ELSE ToSet(Tail(queue[c]))

Undelivered(c) == ToSet(queue[c])

\* The last reference is gone.  A channel drops the messages nobody received.
DoDrop(t) ==
  /\ At(t, "drop")
  /\ LET o == Next1(t).o
         gone == {o} \cup (IF o \in Chan THEN Undelivered(o) ELSE {})
     IN /\ mem' = [p \in Obj |-> IF p \in gone THEN "freed" ELSE mem[p]]
        /\ queue' = [c \in Chan |-> IF c = o THEN <<>> ELSE queue[c]]
  /\ Advance(t)
  /\ UNCHANGED <<rc, closed, local, reg, life, todo>>

\* The channel is retained first, an environment when it is stored already.
DoShare(t) ==
  /\ At(t, "share")
  /\ LET o == Next1(t).o
         store == Assign(Next1(t).at[1], Next1(t).at[2], o)
     IN code' = [code EXCEPT ![t] = (IF Atomic(o) THEN <<Retain(t, o), store>>
                                                  ELSE <<store, Retain(t, o)>>) \o Tail(@)]
  /\ UNCHANGED <<mem, rc, queue, closed, local, reg, life, todo>>

DoAssign(t) ==
  /\ At(t, "assign")
  /\ Put(Next1(t).at, Next1(t).o)
  /\ Advance(t)
  /\ UNCHANGED <<mem, rc, queue, closed, reg, life, todo>>

\* A copy p of o, with one owner.
Copied(t, o, p) ==
  /\ mem' = [mem EXCEPT ![p] = "live"]
  /\ rc' = [rc EXCEPT ![p] = 1]
  /\ Put(Next1(t).at, p)

DoDetach(t) ==
  /\ At(t, "detach")
  /\ LET o == Next1(t).o
         pool == {p \in Obj : SameKind(o, p) /\ mem[p] = "none"}
     IN /\ pool # {}
        /\ Copied(t, o, Fresh(pool))
  /\ Advance(t)
  /\ UNCHANGED <<queue, closed, reg, life, todo>>

HasRoom(c) == Len(queue[c]) < Slots

DoSend(t) ==
  /\ At(t, "send")
  /\ LET c == Next1(t).o   m == local[t]["msg"] IN
       \/ /\ closed[c]
          /\ mem' = [mem EXCEPT ![m] = "freed"]
          /\ UNCHANGED queue
       \/ /\ ~closed[c] /\ HasRoom(c)
          /\ queue' = [queue EXCEPT ![c] = Append(@, m)]
          /\ UNCHANGED mem
  /\ Put(Next1(t).at, Null)
  /\ Advance(t)
  /\ UNCHANGED <<rc, closed, reg, life, todo>>

DoRecv(t) ==
  /\ At(t, "recv")
  /\ LET c == Next1(t).o IN
       \/ /\ queue[c] # <<>>
          /\ Put(Next1(t).at, Head(queue[c]))
          /\ queue' = [queue EXCEPT ![c] = Tail(@)]
       \/ /\ queue[c] = <<>> /\ closed[c]
          /\ UNCHANGED <<local, queue>>
  /\ Advance(t)
  /\ UNCHANGED <<mem, rc, closed, reg, life, todo>>

DoClose(t) ==
  /\ At(t, "close")
  /\ closed' = [closed EXCEPT ![Next1(t).o] = TRUE]
  /\ Advance(t)
  /\ UNCHANGED <<mem, rc, queue, local, reg, life, todo>>

DoSpawn(t) ==
  /\ At(t, "spawn")
  /\ life' = [life EXCEPT ![Next1(t).at[1]] = "running"]
  /\ Advance(t)
  /\ UNCHANGED <<mem, rc, queue, closed, local, reg, todo>>

DoDone(t) ==
  /\ At(t, "done")
  /\ life' = [life EXCEPT ![t] = "ended"]
  /\ Advance(t)
  /\ UNCHANGED <<mem, rc, queue, closed, local, reg, todo>>

Construct(t) ==
  \/ \E x \in Var :
       \/ \E S \in {Chan, Text, Closure} : Build(t, x, S)
       \/ CloseChan(t, x)  \/ Lines(t, x)
       \/ \E y \in Var : Alias(t, x, y) \/ Rebind(t, x, y) \/ Send(t, x, y) \/ Recv(t, x, y)
  \/ \E u \in Task, caps \in SUBSET Var : Hatch(t, u, caps)
  \/ LeaveScope(t)

Statement(t) ==
  \/ DoRetain(t)  \/ DoAddOne(t)  \/ DoRelease(t) \/ DoSubOne(t)  \/ DoDrop(t)   
  \/ DoShare(t)   \/ DoAssign(t)  \/ DoDetach(t)  \/ DoSend(t)    \/ DoRecv(t)
  \/ DoClose(t)   \/ DoSpawn(t)   \/ DoDone(t)

Ended == \A t \in Task : life[t] \in {"unborn", "ended"}

Next == \/ \E t \in Task : Construct(t) \/ Statement(t)
        \/ Ended /\ UNCHANGED vars

Spec == Init /\ [][Next]_vars

-----------------------------------------------------------------------------
(* Properties.                                                             *)

\* Nothing that is freed is used again: whatever a binding or a queue owns is
\* live, and so is what the next statement of a task works on.  In
\* particular a task that is blocked in send or recv on a channel has a
\* reference to it (guji_conc.c 299), and nothing is freed twice.
NoUseAfterFree ==
  /\ rc \in [Obj -> Nat]
  /\ \A t \in Task, x \in Local : local[t][x] # Null => mem[local[t][x]] = "live"
  /\ \A c \in Chan : \A o \in ToSet(queue[c]) : mem[o] = "live"
  /\ \A t \in Task : code[t] # <<>> /\ Next1(t).o # Null => mem[Next1(t).o] = "live"

\* Channels are the one thing tasks share: no other object is reachable from
\* two of them, and a message between send and recv from none, which is why
\* plain counts suffice (guji_conc.c 6-14).
TaskLocal ==
  /\ \A t, u \in Task : t # u =>
       \A x, y \in Local : local[t][x] = local[u][y] => local[t][x] \in Chan \cup {Null}
  /\ \A c \in Chan : \A i \in DOMAIN queue[c] :
       /\ \A t \in Task, x \in Local : local[t][x] # queue[c][i]
       /\ \A d \in Chan : \A j \in DOMAIN queue[d] : queue[c][i] = queue[d][j] => <<c, i>> = <<d, j>>

\* When every task has ended, everything that was allocated has been freed:
\* the messages nobody received and the captures of every task included.
NothingLeaks == Ended => \A o \in Obj : mem[o] # "live"
=============================================================================
