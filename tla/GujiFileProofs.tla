--------------------------- MODULE GujiFileProofs ---------------------------
(***************************************************************************)
(* What read_file, write_file, append_file and write report is so, and no  *)
(* stream is left open, for any texts, files, handles and buffers, however *)
(* the disk and the C library fail.                                        *)
(***************************************************************************)
EXTENDS GujiFile, SequenceTheorems, TLAPS

FileSpec == FileInit /\ [][FileNext]_fileVars

-----------------------------------------------------------------------------
(* The invariant.                                                          *)

Op == {"none", "read_file", "write_file", "append_file", "open", "create", "write", "slurp"}
Stage == {"idle", "panic", "open", "write", "close", "check", "read", "end"}
Stream == FILE \cup {Stdin}

StreamRec == [mode : {"closed", "read", "write", "append"}, pos : Nat, eof : BOOLEAN, held : Seq(Nat)]

FileTypeOK ==
  /\ disk \in Seq(Nat) \cup {Absent} /\ before \in Seq(Nat) \cup {Absent}
  /\ streams \in [Stream -> [mode : {"closed", "read", "write", "append"}, pos : Nat, eof : BOOLEAN, held : Seq(Nat)]]
  /\ handles \in [Handle -> [f : Stream, no_close : BOOLEAN, writable : BOOLEAN, live : BOOLEAN]]
  /\ call \in [op : Op, stage : Stage, f : Stream, h : Handle, text : Seq(Nat), cap : Nat, ok : BOOLEAN]
  /\ calls \in Nat
  /\ result \in [op : Op, text : Seq(Nat), value : Seq(Nat) \cup {Ok, Failure}]

Owns(h) == handles[h].live /\ ~handles[h].no_close

\* The call has a stream of its own.
Busy == call.stage \in {"write", "close"} \/ (call.stage \in {"read", "end"} /\ call.op = "read_file")

\* Which call is at which stage.
Staged ==
  /\ call.stage = "open" => call.op \in {"read_file", "write_file", "append_file", "open", "create"}
  /\ call.stage \in {"write", "close"} => call.op \in {"write_file", "append_file"}
  /\ call.stage = "check" => call.op \in {"write", "slurp"}
  /\ call.stage \in {"read", "end"} => call.op \in {"read_file", "slurp"}
  /\ call.stage = "open" /\ call.op \in {"open", "create"} => ~handles[call.h].live
  /\ call.stage \in {"open", "check"} /\ call.op \in {"read_file", "slurp"} => call.text = <<>>
  /\ call.stage = "read" => Len(call.text) <= call.cap /\ call.cap > 0

\* Every open stream belongs to one handle or to the call.
Attached ==
  /\ streams[Stdin].mode = "read"
  /\ \A h \in Handle :
       IF handles[h].no_close THEN handles[h].f = Stdin /\ ~handles[h].writable
       ELSE handles[h].live /\ handles[h].f \in FILE /\ streams[handles[h].f].mode # "closed"
  /\ \A g, h \in Handle : Owns(g) /\ Owns(h) /\ handles[g].f = handles[h].f => g = h
  /\ Busy => /\ call.f \in FILE /\ streams[call.f].mode # "closed"
             /\ \A h \in Handle : Owns(h) => handles[h].f # call.f
  /\ \A f \in FILE : streams[f].mode # "closed" =>
       (\E h \in Handle : Owns(h) /\ handles[h].f = f) \/ (Busy /\ call.f = f)

FilesInv == FileTypeOK /\ Staged /\ Attached

\* A text waits in a buffer only while a call closes its stream; what a
\* handle writes goes to a file that is there.
Flushed ==
  /\ \A f \in Stream : streams[f].held # <<>> => call.stage = "panic" \/ (call.stage = "close" /\ f = call.f)
  /\ \A h \in Handle : handles[h].writable => streams[handles[h].f].mode = "write" /\ disk # Absent

\* How far a call is.
Base == IF call.op = "write_file" \/ before = Absent THEN <<>> ELSE before

UnderWay ==
  /\ call.stage \in {"open", "check", "read", "end"} => disk = before
  /\ call.stage = "write" => disk = Base
  /\ call.stage \in {"write", "close"} =>
       IF call.op = "append_file" THEN streams[call.f].mode = "append"
       ELSE streams[call.f].mode = "write" /\ streams[call.f].pos = Len(disk)
  /\ call.stage = "close" =>
       \E n \in 0 .. Len(call.text) : /\ disk = Base \o Prefix(call.text, n)
                                     /\ streams[call.f].held = SubSeq(call.text, n + 1, Len(call.text))
  /\ call.stage = "read" /\ call.op = "read_file" =>
       /\ disk # Absent /\ streams[call.f].pos = Len(call.text) /\ Len(call.text) <= Len(disk)
       /\ call.text = Prefix(disk, Len(call.text))
       /\ streams[call.f].eof => Len(call.text) = Len(disk)
  /\ call.stage = "end" /\ call.op = "read_file" /\ call.ok => disk # Absent /\ call.text = disk

-----------------------------------------------------------------------------
(* Types.                                                                  *)

LEMMA PrefixType ==
  ASSUME NEW s \in Seq(Nat), NEW n \in 0 .. Len(s)
  PROVE  /\ Prefix(s, n) \in Seq(Nat) /\ Len(Prefix(s, n)) = n
         /\ \A k \in 1 .. n : Prefix(s, n)[k] = s[k]
         /\ SubSeq(s, n + 1, Len(s)) \in Seq(Nat) /\ Len(SubSeq(s, n + 1, Len(s))) = Len(s) - n
         /\ \A k \in 1 .. Len(s) - n : SubSeq(s, n + 1, Len(s))[k] = s[n + k]
BY DEF Prefix

LEMMA WrittenType ==
  ASSUME FileTypeOK, NEW f \in Stream, NEW data \in Seq(Nat)
  PROVE  Written(f, data) \in Seq(Nat) \cup {Absent}
<1> DEFINE old == IF disk = Absent THEN <<>> ELSE disk
           at == IF streams[f].mode = "append" THEN Len(old) ELSE streams[f].pos
           size == IF at + Len(data) > Len(old) THEN at + Len(data) ELSE Len(old)
           new == [k \in 1 .. size |-> IF k > at /\ k <= at + Len(data) THEN data[k - at]
                                       ELSE IF k <= Len(old) THEN old[k] ELSE 0]
<1>1. old \in Seq(Nat)
  BY DEF FileTypeOK
<1>2. Len(old) \in Nat /\ Len(data) \in Nat /\ streams[f].pos \in Nat
  BY <1>1 DEF FileTypeOK
<1>3. at \in Nat /\ size \in Nat
  BY <1>2
<1>4. new \in [1 .. size -> Nat]
  <2>1. SUFFICES ASSUME NEW k \in 1 .. size
                 PROVE  (IF k > at /\ k <= at + Len(data) THEN data[k - at]
                         ELSE IF k <= Len(old) THEN old[k] ELSE 0) \in Nat
    OBVIOUS
  <2> HIDE DEF at, old, size
  <2>2. CASE k > at /\ k <= at + Len(data)
    BY <1>2, <1>3, <2>2
  <2>3. CASE ~(k > at /\ k <= at + Len(data)) /\ k <= Len(old)
    BY <1>1, <1>2, <1>3, <2>3
  <2>4. CASE ~(k > at /\ k <= at + Len(data)) /\ ~(k <= Len(old))
    BY <2>4
  <2>5. QED
    BY <2>2, <2>3, <2>4
<1>5. Written(f, data) = IF data = <<>> THEN disk ELSE new
  BY DEF Written
<1>6. QED
  <2> HIDE DEF new, size
  <2>1. new \in Seq(Nat)
    BY <1>3, <1>4
  <2>2. QED
    BY <1>5, <2>1 DEF FileTypeOK

Call == [op : Op, stage : Stage, f : Stream, h : Handle, text : Seq(Nat), cap : Nat, ok : BOOLEAN]

LEMMA IdleFacts ==
  /\ Idle \in Call /\ Idle.op = "none" /\ Idle.stage = "idle" /\ Idle.f = Stdin
  /\ Idle.h \in Handle /\ Idle.text = <<>> /\ Idle.cap = 0 /\ Idle.ok = TRUE
<1>1. (CHOOSE h \in Handle : TRUE) \in Handle
  BY FileAssumption
<1>2. <<>> \in Seq(Nat) /\ Stdin \in Stream
  BY DEF Stream
<1>3. QED
  BY <1>1, <1>2 DEF Idle, Call, Op, Stage

LEMMA ClosedAs ==
  /\ Closed \in StreamRec /\ Closed.mode = "closed" /\ Closed.pos = 0 /\ Closed.eof = FALSE /\ Closed.held = <<>>
  /\ \A m \in {"read", "write", "append"} :
       LET r == [Closed EXCEPT !.mode = m] IN
       r \in StreamRec /\ r.mode = m /\ r.pos = 0 /\ r.eof = FALSE /\ r.held = <<>>
<1>0. Closed \in StreamRec
  BY DEF Closed, StreamRec
<1>1. PICK z \in StreamRec : z = Closed
  BY <1>0
<1>2. z.mode = "closed" /\ z.pos = 0 /\ z.eof = FALSE /\ z.held = <<>>
  BY <1>1 DEF Closed
<1>3. \A m \in {"read", "write", "append"} :
        LET r == [z EXCEPT !.mode = m] IN
        r \in StreamRec /\ r.mode = m /\ r.pos = 0 /\ r.eof = FALSE /\ r.held = <<>>
  BY <1>2 DEF StreamRec
<1>4. QED
  BY <1>1, <1>2, <1>3

LEMMA FlushesType ==
  ASSUME FileTypeOK, NEW f \in Stream, NEW data \in Seq(Nat), NEW n \in Nat, n <= Len(data), Flushes(f, data, n)
  PROVE  LET all == streams[f].held \o data IN
         /\ disk' \in Seq(Nat) \cup {Absent}
         /\ streams' \in [Stream -> [mode : {"closed", "read", "write", "append"}, pos : Nat, eof : BOOLEAN, held : Seq(Nat)]]
         /\ \A g \in Stream : streams'[g].mode = streams[g].mode
         /\ \A g \in Stream \ {f} : streams'[g] = streams[g]
         /\ streams'[f].pos = streams[f].pos + n /\ streams'[f].held = SubSeq(all, n + 1, Len(all))
         /\ disk' = Written(f, Prefix(all, n))
<1> DEFINE all == streams[f].held \o data
<1>1. streams[f].held \in Seq(Nat) /\ streams[f].pos \in Nat
  BY DEF FileTypeOK
<1>2. all \in Seq(Nat) /\ Len(all) = Len(streams[f].held) + Len(data)
  BY <1>1
<1>3. n \in 0 .. Len(all)
  BY <1>1, <1>2
<1>4. disk' = Written(f, Prefix(all, n))
  BY DEF Flushes
<1>5. streams' = [streams EXCEPT ![f].pos = @ + n, ![f].held = SubSeq(all, n + 1, Len(all))]
  BY DEF Flushes
<1> HIDE DEF all
<1>6. Prefix(all, n) \in Seq(Nat) /\ SubSeq(all, n + 1, Len(all)) \in Seq(Nat)
  BY <1>2, <1>3, PrefixType
<1>7. disk' \in Seq(Nat) \cup {Absent}
  BY <1>4, <1>6, WrittenType
<1>8. streams \in [Stream -> StreamRec]
  BY DEF FileTypeOK, StreamRec
<1>9. PICK q \in Seq(Nat) : q = SubSeq(all, n + 1, Len(all))
  BY <1>6
<1>10. PICK m \in Nat : m = streams[f].pos + n
  BY <1>1
<1>11. streams' = [[streams EXCEPT ![f].pos = m] EXCEPT ![f].held = q]
  BY <1>5, <1>8, <1>9, <1>10 DEF StreamRec
<1>12. streams' \in [Stream -> StreamRec]
  <2>1. [streams EXCEPT ![f].pos = m] \in [Stream -> StreamRec]
    BY <1>8 DEF StreamRec
  <2>2. QED
    BY <1>11, <2>1 DEF StreamRec
<1>13. /\ streams'[f].mode = streams[f].mode /\ streams'[f].pos = streams[f].pos + n /\ streams'[f].held = q
       /\ \A g \in Stream \ {f} : streams'[g] = streams[g]
  BY <1>5, <1>8, <1>9 DEF StreamRec
<1>14. QED
  BY <1>4, <1>7, <1>9, <1>12, <1>13 DEF StreamRec, all

-----------------------------------------------------------------------------
(* What the steps keep of the streams.                                     *)

LEMMA BeginStep ==
  ASSUME FilesInv, NEW op \in Op \ {"none"}, NEW h \in Handle, NEW text \in Seq(Nat), Begin(op, h, text),
         op \in {"open", "create"} => ~handles[h].live, op \in {"read_file", "slurp"} => text = <<>>
  PROVE  FilesInv'
<1>1. /\ call'.op = op /\ call'.h = h /\ call'.text = text
      /\ call'.stage = IF op \in {"write", "slurp"} THEN "check" ELSE "open"
      /\ call' \in Call
  <2>1. Idle \in Call
    BY IdleFacts
  <2>2. QED
    BY <2>1 DEF Begin, Call, Stage
<1>2. FileTypeOK'
  <2>1. /\ disk' = disk /\ streams' = streams /\ handles' = handles /\ result' = result
        /\ before' = disk /\ calls' = calls + 1
    BY DEF Begin
  <2>2. FileTypeOK
    BY DEF FilesInv
  <2>3. QED
    BY <1>1, <2>1, <2>2 DEF FileTypeOK, Call
<1>3. Staged'
  BY <1>1 DEF Begin, Staged, Op
<1>4. ~Busy /\ ~Busy' /\ streams' = streams /\ handles' = handles
  BY <1>1 DEF Begin, Busy
<1>5. Attached'
  BY <1>4 DEF FilesInv, Attached, Owns
<1>6. QED
  BY <1>2, <1>3, <1>5 DEF FilesInv

\* A call that has no stream of its own returns or panics.
LEMMA StopStep ==
  ASSUME FilesInv, ~Busy, call'.stage \in {"idle", "panic"}, call' \in Call,
         disk' = disk, before' = before, streams' = streams, handles' = handles, calls' = calls,
         result' \in [op : Op, text : Seq(Nat), value : Seq(Nat) \cup {Ok, Failure}]
  PROVE  FilesInv'
<1>1. FileTypeOK'
  BY DEF FilesInv, FileTypeOK, Call
<1>2. Staged' /\ ~Busy'
  BY DEF Staged, Busy
<1>3. Attached'
  BY <1>2 DEF FilesInv, Attached, Owns
<1>4. QED
  BY <1>1, <1>2, <1>3 DEF FilesInv

LEMMA ReturnFacts ==
  ASSUME FileTypeOK, NEW r \in Seq(Nat) \cup {Ok, Failure}, Return(r)
  PROVE  /\ call' = Idle /\ call' \in Call /\ call'.stage = "idle"
         /\ result' \in [op : Op, text : Seq(Nat), value : Seq(Nat) \cup {Ok, Failure}]
         /\ result'.op = call.op /\ result'.text = call.text /\ result'.value = r
BY IdleFacts DEF Return, FileTypeOK

LEMMA RefusedStep ==
  ASSUME FilesInv, Refused
  PROVE  FilesInv'
BY StopStep, ReturnFacts DEF Refused, FilesInv, Busy

LEMMA PanicsStep ==
  ASSUME FilesInv, ~Busy, Panics
  PROVE  FilesInv'
<1>1. call' \in Call /\ call'.stage = "panic"
  BY IdleFacts DEF Panics, Call, Stage
<1>2. result' \in [op : Op, text : Seq(Nat), value : Seq(Nat) \cup {Ok, Failure}]
  BY DEF Panics, FilesInv, FileTypeOK
<1>3. QED
  BY <1>1, <1>2, StopStep DEF Panics

\* A handle of standard input takes a place that was free.
LEMMA StdinStep ==
  ASSUME FilesInv, NEW h \in NewHandle, StdinHandle(h)
  PROVE  FilesInv'
<1>1. h \in Handle /\ ~handles[h].live
  BY DEF NewHandle
<1>2. /\ handles' = [handles EXCEPT ![h] = [f |-> Stdin, no_close |-> TRUE, writable |-> FALSE, live |-> TRUE]]
      /\ UNCHANGED <<disk, streams, call, calls, result, before>> /\ call.stage = "idle"
  BY DEF StdinHandle
<1>3. handles \in [Handle -> [f : Stream, no_close : BOOLEAN, writable : BOOLEAN, live : BOOLEAN]] /\ Stdin \in Stream
  BY DEF FilesInv, FileTypeOK, Stream
<1>4. /\ handles'[h] = [f |-> Stdin, no_close |-> TRUE, writable |-> FALSE, live |-> TRUE]
      /\ \A g \in Handle \ {h} : handles'[g] = handles[g]
      /\ handles' \in [Handle -> [f : Stream, no_close : BOOLEAN, writable : BOOLEAN, live : BOOLEAN]]
  BY <1>1, <1>2, <1>3
<1>5. ~Owns(h) /\ ~Owns(h)' /\ \A g \in Handle \ {h} : Owns(g)' <=> Owns(g)
  BY <1>1, <1>4 DEF Owns
<1>6. FileTypeOK'
  BY <1>2, <1>4 DEF FilesInv, FileTypeOK
<1>7. Staged' /\ ~Busy /\ ~Busy'
  BY <1>2 DEF Staged, Busy
<1>8. Attached'
  BY <1>1, <1>2, <1>4, <1>5, <1>7 DEF FilesInv, Attached
<1>9. QED
  BY <1>6, <1>7, <1>8 DEF FilesInv

LEMMA DropStep ==
  ASSUME FilesInv, NEW h \in Handle, DropHandle(h)
  PROVE  FilesInv'
<1> DEFINE s == handles[h].f
<1>1. /\ handles' = [handles EXCEPT ![h] = Dead]
      /\ streams' = IF handles[h].no_close THEN streams ELSE [streams EXCEPT ![s] = Closed]
      /\ UNCHANGED <<call, calls, result, before>> /\ call.stage = "idle"
  BY DEF DropHandle
<1>2. /\ handles \in [Handle -> [f : Stream, no_close : BOOLEAN, writable : BOOLEAN, live : BOOLEAN]] /\ Stdin \in Stream
      /\ streams \in [Stream -> [mode : {"closed", "read", "write", "append"}, pos : Nat, eof : BOOLEAN, held : Seq(Nat)]]
      /\ s \in Stream
  BY DEF FilesInv, FileTypeOK, Stream
<1>3. /\ handles'[h].no_close /\ ~handles'[h].writable /\ handles'[h].f = Stdin
      /\ \A g \in Handle \ {h} : handles'[g] = handles[g]
      /\ handles' \in [Handle -> [f : Stream, no_close : BOOLEAN, writable : BOOLEAN, live : BOOLEAN]]
  BY <1>1, <1>2 DEF Dead
<1>4. Closed \in [mode : {"closed", "read", "write", "append"}, pos : Nat, eof : BOOLEAN, held : Seq(Nat)] /\ Closed.mode = "closed"
  BY DEF Closed
<1>5. /\ streams' \in [Stream -> [mode : {"closed", "read", "write", "append"}, pos : Nat, eof : BOOLEAN, held : Seq(Nat)]]
      /\ \A f \in Stream : f # s => streams'[f] = streams[f]
      /\ IF handles[h].no_close THEN streams' = streams ELSE streams'[s].mode = "closed"
  BY <1>1, <1>2, <1>4
<1>6. disk' \in Seq(Nat) \cup {Absent}
  <2>1. streams[s].held \in Seq(Nat)
    BY <1>2
  <2>2. QED
    BY <1>2, <2>1, WrittenType DEF DropHandle, FilesInv, FileTypeOK
<1>7. FileTypeOK'
  BY <1>1, <1>3, <1>5, <1>6 DEF FilesInv, FileTypeOK
<1>8. Staged' /\ ~Busy /\ ~Busy'
  BY <1>1 DEF Staged, Busy
<1>9. ~Owns(h)' /\ \A g \in Handle \ {h} : Owns(g)' <=> Owns(g)
  BY <1>3 DEF Owns
<1> HIDE DEF s
<1>10. Attached'
  <2>1. IF handles[h].no_close THEN s = Stdin ELSE Owns(h) /\ s \in FILE /\ \A g \in Handle \ {h} : Owns(g) => handles[g].f # s
    BY DEF FilesInv, Attached, Owns, s
  <2>2. streams'[Stdin].mode = "read"
    BY <1>2, <1>5, <2>1, FileAssumption DEF FilesInv, Attached
  <2>3. ASSUME NEW g \in Handle
        PROVE  IF handles'[g].no_close THEN handles'[g].f = Stdin /\ ~handles'[g].writable
               ELSE handles'[g].live /\ handles'[g].f \in FILE /\ streams'[handles'[g].f].mode # "closed"
    <3>1. CASE g = h
      BY <1>3, <3>1
    <3>2. CASE g # h
      <4>1. handles'[g] = handles[g] /\ handles[g].f \in Stream
        BY <1>2, <1>3, <3>2
      <4>2. ~handles[g].no_close => Owns(g)
        BY DEF FilesInv, Attached, Owns
      <4>3. ~handles[g].no_close => streams'[handles[g].f] = streams[handles[g].f]
        BY <1>5, <2>1, <3>2, <4>1, <4>2
      <4>4. QED
        BY <4>1, <4>3 DEF FilesInv, Attached
    <3>3. QED
      BY <3>1, <3>2
  <2>4. \A g, k \in Handle : Owns(g)' /\ Owns(k)' /\ handles'[g].f = handles'[k].f => g = k
    BY <1>3, <1>9 DEF FilesInv, Attached
  <2>5. ASSUME NEW f \in FILE, streams'[f].mode # "closed"
        PROVE  \E g \in Handle : Owns(g)' /\ handles'[g].f = f
    <3>1. f # s \/ handles[h].no_close
      BY <1>5, <2>5
    <3>2. f \in Stream /\ streams'[f] = streams[f]
      BY <1>5, <3>1 DEF Stream
    <3>3. PICK g \in Handle : Owns(g) /\ handles[g].f = f
      BY <1>8, <2>5, <3>2 DEF FilesInv, Attached
    <3>4. g # h
      BY <2>1, <3>1, <3>3 DEF Owns, s
    <3>5. QED
      BY <1>3, <1>9, <3>3, <3>4
  <2>6. QED
    BY <1>8, <2>2, <2>3, <2>4, <2>5 DEF Attached
<1>11. QED
  BY <1>7, <1>8, <1>10 DEF FilesInv

\* Nothing of the handles changes, and the streams keep their modes.
LEMMA SameModes ==
  ASSUME Attached, handles' = handles, \A f \in Stream : streams'[f].mode = streams[f].mode,
         handles \in [Handle -> [f : Stream, no_close : BOOLEAN, writable : BOOLEAN, live : BOOLEAN]],
         Busy' <=> Busy, Busy => call'.f = call.f
  PROVE  Attached'
<1>1. Stdin \in Stream /\ FILE \subseteq Stream
  BY DEF Stream
<1>2. \A h \in Handle : handles[h].f \in Stream
  OBVIOUS
<1>3. streams'[Stdin].mode = "read"
  BY <1>1 DEF Attached
<1>4. \A h \in Handle : IF handles'[h].no_close THEN handles'[h].f = Stdin /\ ~handles'[h].writable
                        ELSE handles'[h].live /\ handles'[h].f \in FILE /\ streams'[handles'[h].f].mode # "closed"
  BY <1>2 DEF Attached
<1>5. \A h \in Handle : Owns(h)' <=> Owns(h)
  BY DEF Owns
<1>6. \A g, h \in Handle : Owns(g)' /\ Owns(h)' /\ handles'[g].f = handles'[h].f => g = h
  BY <1>5 DEF Attached
<1>7. Busy' => /\ call'.f \in FILE /\ streams'[call'.f].mode # "closed"
               /\ \A h \in Handle : Owns(h)' => handles'[h].f # call'.f
  BY <1>1, <1>5 DEF Attached
<1>8. \A f \in FILE : streams'[f].mode # "closed" =>
        (\E h \in Handle : Owns(h)' /\ handles'[h].f = f) \/ (Busy' /\ call'.f = f)
  BY <1>1, <1>5 DEF Attached
<1>9. QED
  BY <1>3, <1>4, <1>6, <1>7, <1>8 DEF Attached

\* The file is opened, for a handle or for the call.
LEMMA OpenStep ==
  ASSUME FilesInv, NEW f \in NewFILE, OpenFile(f)
  PROVE  FilesInv'
<1>1. /\ f \in FILE /\ f \in Stream /\ f # Stdin /\ streams[f].mode = "closed" /\ ~Busy /\ call.stage = "open"
      /\ call.op \in {"read_file", "write_file", "append_file", "open", "create"}
  BY FileAssumption DEF NewFILE, Stream, OpenFile, Busy, FilesInv, Staged
<1>2. Mode \in {"read", "write", "append"}
  BY <1>1 DEF Mode
<1>3. PICK r \in StreamRec : r = [Closed EXCEPT !.mode = Mode] /\ r.mode = Mode
  BY <1>2, ClosedAs
<1>4. /\ streams \in [Stream -> StreamRec] /\ call \in Call
      /\ handles \in [Handle -> [f : Stream, no_close : BOOLEAN, writable : BOOLEAN, live : BOOLEAN]]
  BY DEF FilesInv, FileTypeOK, StreamRec, Call
<1>5. /\ streams' \in [Stream -> StreamRec] /\ streams'[f].mode # "closed"
      /\ \A g \in Stream \ {f} : streams'[g] = streams[g]
  BY <1>1, <1>2, <1>3, <1>4 DEF OpenFile
<1>6. disk' \in Seq(Nat) \cup {Absent} /\ calls' = calls /\ before' = before
  BY DEF OpenFile, FilesInv, FileTypeOK
<1>7. \A h \in Handle : Owns(h) => handles[h].f \in FILE /\ handles[h].f # f /\ handles[h].f \in Stream
  BY <1>1, <1>4 DEF FilesInv, Attached, Owns
<1>8. streams'[Stdin].mode = "read"
  BY <1>1, <1>5 DEF FilesInv, Attached, Stream
<1>9. \A g \in FILE : g # f => g \in Stream /\ streams'[g] = streams[g]
  BY <1>5 DEF Stream
<1>10. CASE call.op \in {"open", "create"}
  <2>1. /\ handles' = [handles EXCEPT ![call.h] = [f |-> f, no_close |-> FALSE, writable |-> call.op = "create", live |-> TRUE]]
        /\ Return(Ok) /\ call.h \in Handle /\ ~handles[call.h].live
    BY <1>1, <1>4, <1>10 DEF OpenFile, FilesInv, Staged, Call
  <2> PICK k \in Handle : k = call.h
    BY <2>1
  <2>2. /\ handles'[k].f = f /\ ~handles'[k].no_close /\ handles'[k].live
        /\ \A g \in Handle \ {k} : handles'[g] = handles[g]
        /\ handles' \in [Handle -> [f : Stream, no_close : BOOLEAN, writable : BOOLEAN, live : BOOLEAN]]
    BY <1>1, <1>4, <2>1
  <2>3. call' \in Call /\ call'.stage = "idle" /\ result' \in [op : Op, text : Seq(Nat), value : Seq(Nat) \cup {Ok, Failure}]
    BY <2>1, ReturnFacts DEF FilesInv
  <2>4. FileTypeOK'
    BY <1>5, <1>6, <2>2, <2>3 DEF FilesInv, FileTypeOK, Call, StreamRec
  <2>5. Staged' /\ ~Busy'
    BY <2>3 DEF Staged, Busy
  <2>6. Owns(k)' /\ ~Owns(k) /\ \A g \in Handle \ {k} : Owns(g)' <=> Owns(g)
    BY <2>1, <2>2 DEF Owns
  <2>7. Attached'
    <3>1. ASSUME NEW h \in Handle
          PROVE  IF handles'[h].no_close THEN handles'[h].f = Stdin /\ ~handles'[h].writable
                 ELSE handles'[h].live /\ handles'[h].f \in FILE /\ streams'[handles'[h].f].mode # "closed"
      <4>1. CASE h = k
        BY <1>1, <1>5, <2>2, <4>1
      <4>2. CASE h # k
        <5>1. handles'[h] = handles[h]
          BY <2>2, <4>2
        <5>2. Owns(h) => streams'[handles[h].f] = streams[handles[h].f]
          BY <1>7, <1>9
        <5>3. QED
          BY <5>1, <5>2 DEF FilesInv, Attached, Owns
      <4>3. QED
        BY <4>1, <4>2
    <3>2. \A g, h \in Handle : Owns(g)' /\ Owns(h)' /\ handles'[g].f = handles'[h].f => g = h
      BY <1>7, <2>2, <2>6 DEF FilesInv, Attached
    <3>3. ASSUME NEW g \in FILE, streams'[g].mode # "closed"
          PROVE  \E h \in Handle : Owns(h)' /\ handles'[h].f = g
      <4>1. CASE g = f
        BY <2>2, <2>6, <4>1
      <4>2. CASE g # f
        <5>1. PICK h \in Handle : Owns(h) /\ handles[h].f = g
          BY <1>1, <1>9, <3>3, <4>2 DEF FilesInv, Attached
        <5>2. QED
          BY <2>2, <2>6, <5>1
      <4>3. QED
        BY <4>1, <4>2
    <3>4. QED
      BY <1>8, <2>5, <3>1, <3>2, <3>3 DEF Attached
  <2>8. QED
    BY <2>4, <2>5, <2>7 DEF FilesInv
<1>11. CASE call.op \notin {"open", "create"}
  <2>1. /\ call' = [call EXCEPT !.f = f, !.cap = CapMin, !.stage = IF call.op = "read_file" THEN "read" ELSE "write"]
        /\ handles' = handles /\ result' = result
    BY <1>11 DEF OpenFile
  <2>2. /\ call' \in Call /\ call'.f = f /\ call'.op = call.op /\ call'.text = call.text /\ call'.cap = CapMin
        /\ call'.stage = IF call.op = "read_file" THEN "read" ELSE "write"
    BY <1>1, <1>4, <2>1, FileAssumption DEF Call, Stage
  <2>3. FileTypeOK'
    BY <1>4, <1>5, <1>6, <2>1, <2>2 DEF FilesInv, FileTypeOK, Call, StreamRec
  <2>4. Staged' /\ Busy'
    BY <1>1, <1>11, <2>2, FileAssumption DEF FilesInv, Staged, Busy
  <2>5. \A h \in Handle : Owns(h)' <=> Owns(h)
    BY <2>1 DEF Owns
  <2>6. Attached'
    <3>1. ASSUME NEW h \in Handle
          PROVE  IF handles'[h].no_close THEN handles'[h].f = Stdin /\ ~handles'[h].writable
                 ELSE handles'[h].live /\ handles'[h].f \in FILE /\ streams'[handles'[h].f].mode # "closed"
      <4>1. Owns(h) => streams'[handles[h].f] = streams[handles[h].f]
        BY <1>7, <1>9
      <4>2. QED
        BY <2>1, <4>1 DEF FilesInv, Attached, Owns
    <3>2. \A g, h \in Handle : Owns(g)' /\ Owns(h)' /\ handles'[g].f = handles'[h].f => g = h
      BY <2>1, <2>5 DEF FilesInv, Attached
    <3>3. ASSUME NEW g \in FILE, streams'[g].mode # "closed", g # f
          PROVE  \E h \in Handle : Owns(h)' /\ handles'[h].f = g
      <4>1. PICK h \in Handle : Owns(h) /\ handles[h].f = g
        BY <1>1, <1>9, <3>3 DEF FilesInv, Attached
      <4>2. QED
        BY <2>1, <2>5, <4>1
    <3>4. call'.f \in FILE /\ streams'[call'.f].mode # "closed" /\ \A h \in Handle : Owns(h)' => handles'[h].f # call'.f
      BY <1>1, <1>5, <1>7, <2>1, <2>2, <2>5
    <3>5. QED
      BY <1>8, <2>2, <2>4, <3>1, <3>2, <3>3, <3>4 DEF Attached
  <2>7. QED
    BY <2>3, <2>4, <2>6 DEF FilesInv
<1>12. QED
  BY <1>10, <1>11


\* A flush, and a write of the call, keep the modes of the streams.
LEMMA FlushStep ==
  ASSUME FilesInv, NEW f \in Stream, NEW data \in Seq(Nat), NEW n \in Nat, n <= Len(data), Flushes(f, data, n),
         handles' = handles, calls' = calls, before' = before, call' \in Call, Staged',
         Busy' <=> Busy, Busy => call'.f = call.f,
         result' \in [op : Op, text : Seq(Nat), value : Seq(Nat) \cup {Ok, Failure}]
  PROVE  FilesInv'
<1>1. FileTypeOK /\ Attached
  BY DEF FilesInv
<1>2. /\ disk' \in Seq(Nat) \cup {Absent}
      /\ streams' \in [Stream -> [mode : {"closed", "read", "write", "append"}, pos : Nat, eof : BOOLEAN, held : Seq(Nat)]]
      /\ \A g \in Stream : streams'[g].mode = streams[g].mode
  BY <1>1, FlushesType
<1>3. FileTypeOK'
  BY <1>1, <1>2 DEF FileTypeOK, Call
<1>4. Attached'
  BY <1>1, <1>2, SameModes DEF FileTypeOK
<1>5. QED
  BY <1>3, <1>4 DEF FilesInv

LEMMA WriteTextStep ==
  ASSUME FilesInv, NEW n \in Nat, NEW ok \in BOOLEAN, WriteText(n, ok)
  PROVE  FilesInv'
<1>1. call \in Call /\ call.stage = "write" /\ call.text \in Seq(Nat) /\ call.f \in Stream
  BY DEF WriteText, FilesInv, FileTypeOK, Call
<1>2. /\ call' \in Call /\ call'.stage = "close" /\ call'.op = call.op /\ call'.f = call.f
  BY <1>1 DEF WriteText, Call, Stage
<1>3. Busy /\ Busy' /\ Staged'
  BY <1>1, <1>2 DEF Busy, FilesInv, Staged
<1>4. QED
  BY <1>1, <1>2, <1>3, FlushStep DEF WriteText, FilesInv, FileTypeOK

\* A stream that belongs to the call is closed, and the call returns.
LEMMA CloseStep ==
  ASSUME FilesInv, Busy, streams' = [streams EXCEPT ![call.f] = Closed],
         disk' \in Seq(Nat) \cup {Absent}, before' = before, handles' = handles, calls' = calls,
         NEW r \in Seq(Nat) \cup {Ok, Failure}, Return(r)
  PROVE  FilesInv'
<1>1. /\ streams \in [Stream -> StreamRec] /\ call.f \in FILE /\ call.f \in Stream /\ call.f # Stdin
      /\ handles \in [Handle -> [f : Stream, no_close : BOOLEAN, writable : BOOLEAN, live : BOOLEAN]]
  BY FileAssumption DEF FilesInv, FileTypeOK, Attached, StreamRec, Stream
<1>2. Closed \in StreamRec /\ Closed.mode = "closed"
  BY DEF Closed, StreamRec
<1>3. /\ streams' \in [Stream -> StreamRec] /\ streams'[call.f].mode = "closed"
      /\ \A g \in Stream \ {call.f} : streams'[g] = streams[g]
  BY <1>1, <1>2
<1>4. call' \in Call /\ call'.stage = "idle" /\ result' \in [op : Op, text : Seq(Nat), value : Seq(Nat) \cup {Ok, Failure}]
  BY ReturnFacts DEF FilesInv
<1>5. FileTypeOK'
  BY <1>3, <1>4 DEF FilesInv, FileTypeOK, Call, StreamRec
<1>6. Staged' /\ ~Busy'
  BY <1>4 DEF Staged, Busy
<1>7. \A h \in Handle : Owns(h)' <=> Owns(h)
  BY DEF Owns
<1>8. \A h \in Handle : Owns(h) => handles[h].f \in Stream /\ handles[h].f # call.f
  BY <1>1 DEF FilesInv, Attached
<1>9. Attached'
  <2>1. streams'[Stdin].mode = "read"
    BY <1>1, <1>3 DEF FilesInv, Attached, Stream
  <2>2. ASSUME NEW h \in Handle
        PROVE  IF handles'[h].no_close THEN handles'[h].f = Stdin /\ ~handles'[h].writable
               ELSE handles'[h].live /\ handles'[h].f \in FILE /\ streams'[handles'[h].f].mode # "closed"
    <3>1. Owns(h) => streams'[handles[h].f] = streams[handles[h].f]
      BY <1>3, <1>8
    <3>2. QED
      BY <3>1 DEF FilesInv, Attached, Owns
  <2>3. \A g, h \in Handle : Owns(g)' /\ Owns(h)' /\ handles'[g].f = handles'[h].f => g = h
    BY <1>7 DEF FilesInv, Attached
  <2>4. ASSUME NEW g \in FILE, streams'[g].mode # "closed"
        PROVE  \E h \in Handle : Owns(h)' /\ handles'[h].f = g
    <3>1. g # call.f /\ streams'[g] = streams[g]
      BY <1>3, <2>4 DEF Stream
    <3>2. PICK h \in Handle : Owns(h) /\ handles[h].f = g
      BY <2>4, <3>1 DEF FilesInv, Attached
    <3>3. QED
      BY <1>7, <3>2
  <2>5. QED
    BY <1>6, <2>1, <2>2, <2>3, <2>4 DEF Attached
<1>10. QED
  BY <1>5, <1>6, <1>9 DEF FilesInv

LEMMA CloseWrittenStep ==
  ASSUME FilesInv, NEW n \in Nat, NEW ok \in BOOLEAN, CloseWritten(n, ok)
  PROVE  FilesInv'
<1>1. call.f \in Stream /\ streams[call.f].held \in Seq(Nat) /\ Busy
  BY DEF CloseWritten, FilesInv, FileTypeOK, Busy
<1>2. n \in 0 .. Len(streams[call.f].held)
  BY <1>1 DEF CloseWritten
<1>3. disk' \in Seq(Nat) \cup {Absent}
  BY <1>1, <1>2, PrefixType, WrittenType DEF CloseWritten, FilesInv
<1>4. PICK r \in Seq(Nat) \cup {Ok, Failure} : Return(r)
  BY DEF CloseWritten
<1>5. QED
  BY <1>1, <1>3, <1>4, CloseStep DEF CloseWritten

LEMMA EndReadStep ==
  ASSUME FilesInv, EndRead
  PROVE  FilesInv'
<1>1. Busy /\ call.text \in Seq(Nat) /\ disk \in Seq(Nat) \cup {Absent}
  BY DEF EndRead, Busy, FilesInv, FileTypeOK
<1>2. PICK r \in Seq(Nat) \cup {Ok, Failure} : Return(r)
  BY <1>1 DEF EndRead
<1>3. QED
  BY <1>1, <1>2, CloseStep DEF EndRead, AfterRead

LEMMA WriteHandleStep ==
  ASSUME FilesInv, NEW n \in Nat, NEW ok \in BOOLEAN, n <= Len(call.text), WriteHandle(n, ok)
  PROVE  FilesInv'
<1>1. call.stage = "check" /\ call.text \in Seq(Nat) /\ call.h \in Handle /\ handles[call.h].f \in Stream
  BY DEF WriteHandle, FilesInv, FileTypeOK
<1>2. /\ call' \in Call /\ call'.stage \in {"idle", "panic"}
      /\ result' \in [op : Op, text : Seq(Nat), value : Seq(Nat) \cup {Ok, Failure}]
  <2>1. CASE ok
    BY <2>1, ReturnFacts DEF WriteHandle, FilesInv
  <2>2. CASE ~ok
    <3>1. call' = [Idle EXCEPT !.stage = "panic"] /\ result' = result
      BY <2>2 DEF WriteHandle
    <3>2. QED
      BY <3>1, IdleFacts DEF Call, Stage, FilesInv, FileTypeOK
  <2>3. QED
    BY <2>1, <2>2
<1>3. ~Busy /\ ~Busy' /\ Staged'
  BY <1>1, <1>2 DEF Busy, Staged
<1>4. QED
  BY <1>1, <1>2, <1>3, FlushStep DEF WriteHandle

LEMMA Reading ==
  ASSUME FilesInv, call' \in Call, call'.stage \in {"read", "end"}, call.stage \in {"check", "read"},
         call'.op = call.op, call.stage = "check" => call.op = "slurp", call.stage = "read" => call'.f = call.f,
         disk' = disk, handles' = handles, calls' = calls, result' = result, before' = before,
         streams' \in [Stream -> StreamRec], \A f \in Stream : streams'[f].mode = streams[f].mode,
         call'.stage = "read" => Len(call'.text) <= call'.cap /\ call'.cap > 0
  PROVE  FilesInv'
<1>1. FileTypeOK'
  BY DEF FilesInv, FileTypeOK, Call, StreamRec
<1>2. Staged'
  BY DEF FilesInv, Staged
<1>3. (Busy' <=> Busy) /\ (Busy => call'.f = call.f)
  BY DEF Busy
<1>4. Attached'
  BY <1>3, SameModes DEF FilesInv, FileTypeOK
<1>5. QED
  BY <1>1, <1>2, <1>4 DEF FilesInv

\* A turn of a reading loop gives as much as there is room for, or all that is left.
LEMMA TurnFacts ==
  ASSUME FilesInv, ReadTurn
  PROVE  \E cap \in Nat, got \in Nat :
           LET left == Left(call.f)   room == cap - Len(call.text) IN
           /\ left \in Seq(Nat) /\ room > 0 /\ cap > 0 /\ got <= room /\ got <= Len(left)
           /\ got < room => streams[call.f].eof \/ got = Len(left)
           /\ streams[call.f].eof => got = 0
           /\ call' \in Call /\ call'.op = call.op /\ call'.f = call.f /\ call'.ok = call.ok /\ call'.cap = cap
           /\ call'.text = call.text \o Prefix(left, got) /\ Len(call'.text) = Len(call.text) + got
           /\ call'.stage = (IF got = 0 THEN "end" ELSE "read")
           /\ streams' \in [Stream -> StreamRec] /\ \A g \in Stream \ {call.f} : streams'[g] = streams[g]
           /\ streams'[call.f].mode = streams[call.f].mode /\ streams'[call.f].held = streams[call.f].held
           /\ streams'[call.f].pos = streams[call.f].pos + got /\ streams'[call.f].eof = (got < room)
<1> DEFINE cap0 == IF Len(call.text) = call.cap THEN 2 * call.cap ELSE call.cap
           got0 == IF streams[call.f].eof THEN 0 ELSE Min2(cap0 - Len(call.text), Len(Left(call.f)))
<1>1. /\ call \in Call /\ call.stage = "read" /\ call.text \in Seq(Nat) /\ call.f \in Stream /\ call.cap \in Nat
      /\ Len(call.text) \in Nat /\ Len(call.text) <= call.cap /\ call.cap > 0
      /\ streams \in [Stream -> StreamRec]
  BY DEF ReadTurn, FilesInv, FileTypeOK, Staged, Call, StreamRec
<1>2. PICK left : left = Left(call.f)
  OBVIOUS
<1>3. left \in Seq(Nat) /\ Len(left) \in Nat
  <2>1. \A s \in Seq(Nat), p \in Nat : SubSeq(s, p + 1, Len(s)) \in Seq(Nat)
    OBVIOUS
  <2>2. <<>> \in Seq(Nat) /\ Typed \in Seq(Nat) /\ disk \in Seq(Nat) \cup {Absent} /\ streams[call.f].pos \in Nat
    BY <1>1, FileAssumption DEF FilesInv, FileTypeOK, StreamRec
  <2>3. left \in Seq(Nat)
    BY <1>2, <2>1, <2>2 DEF Left
  <2>4. QED
    BY <2>3
<1>4. PICK cap \in Nat : cap = cap0 /\ cap > 0 /\ cap - Len(call.text) > 0
  BY <1>1
<1> PICK room \in Nat \ {0} : room = cap - Len(call.text)
  BY <1>1, <1>4
<1> PICK rest \in Nat : rest = Len(left)
  BY <1>3
<1>5. PICK got \in Nat : /\ got = got0 /\ got <= cap - Len(call.text) /\ got <= Len(left)
                         /\ got < cap - Len(call.text) => streams[call.f].eof \/ got = Len(left)
                         /\ streams[call.f].eof => got = 0
  <2>1. CASE streams[call.f].eof
    BY <1>1, <1>3, <1>4, <2>1
  <2>2. CASE ~streams[call.f].eof
    <3>1. got0 = Min2(room, rest)
      BY <1>2, <1>4, <2>2
    <3>2. PICK m \in Nat : m = Min2(room, rest) /\ m <= room /\ m <= rest /\ (m < room => m = rest)
      BY DEF Min2
    <3>3. QED
      BY <2>2, <3>1, <3>2
  <2>3. QED
    BY <2>1, <2>2
<1>6. PICK text \in Seq(Nat) : text = call.text \o Prefix(left, got) /\ Len(text) = Len(call.text) + got
  <2>1. got \in 0 .. Len(left)
    BY <1>3, <1>5
  <2>2. PICK some \in Seq(Nat) : some = Prefix(left, got) /\ Len(some) = got
    BY <1>3, <2>1, PrefixType
  <2>3. PICK old \in Seq(Nat) : old = call.text
    BY <1>1
  <2>4. old \o some \in Seq(Nat) /\ Len(old \o some) = Len(old) + Len(some)
    OBVIOUS
  <2>5. QED
    BY <2>2, <2>3, <2>4
<1>7. /\ call' = [call EXCEPT !.cap = cap, !.text = call.text \o Prefix(left, got), !.stage = IF got = 0 THEN "end" ELSE "read"]
      /\ streams' = [streams EXCEPT ![call.f].pos = @ + got, ![call.f].eof = got < cap - Len(call.text)]
  BY <1>2, <1>4, <1>5 DEF ReadTurn
<1>8. PICK stage \in Stage : stage = IF got = 0 THEN "end" ELSE "read"
  BY DEF Stage
<1>9. /\ call' \in Call /\ call'.op = call.op /\ call'.f = call.f /\ call'.ok = call.ok /\ call'.cap = cap
      /\ call'.text = text /\ call'.stage = stage
  <2>1. call' = [call EXCEPT !.cap = cap, !.text = text, !.stage = stage]
    BY <1>6, <1>7, <1>8
  <2>2. QED
    BY <1>1, <2>1 DEF Call
<1>10. PICK at \in Nat : at = streams[call.f].pos + got
  BY <1>1 DEF StreamRec
<1>11. PICK full \in BOOLEAN : full = (got < cap - Len(call.text))
  <2>1. (got < cap - Len(call.text)) \in BOOLEAN
    OBVIOUS
  <2>2. QED
    BY <2>1
<1>12. /\ streams' \in [Stream -> StreamRec] /\ \A g \in Stream \ {call.f} : streams'[g] = streams[g]
       /\ streams'[call.f].mode = streams[call.f].mode /\ streams'[call.f].held = streams[call.f].held
       /\ streams'[call.f].pos = at /\ streams'[call.f].eof = full
  <2>1. PICK f \in Stream : f = call.f
    BY <1>1
  <2>2. streams' = [[streams EXCEPT ![f].pos = at] EXCEPT ![f].eof = full]
    BY <1>1, <1>7, <1>10, <1>11, <2>1 DEF StreamRec
  <2>3. PICK one \in [Stream -> StreamRec] : one = [streams EXCEPT ![f].pos = at]
    BY <1>1, <2>1 DEF StreamRec
  <2>4. /\ one[f].pos = at /\ one[f].mode = streams[f].mode /\ one[f].held = streams[f].held
        /\ \A g \in Stream \ {f} : one[g] = streams[g]
    BY <1>1, <2>1, <2>3 DEF StreamRec
  <2>5. /\ streams' \in [Stream -> StreamRec]
        /\ streams'[f].pos = at /\ streams'[f].mode = one[f].mode /\ streams'[f].held = one[f].held /\ streams'[f].eof = full
        /\ \A g \in Stream \ {f} : streams'[g] = one[g]
    <3>1. PICK r \in StreamRec : /\ r = [one[f] EXCEPT !.eof = full]
                                 /\ r.pos = one[f].pos /\ r.mode = one[f].mode /\ r.held = one[f].held /\ r.eof = full
      <4>1. PICK o \in StreamRec : o = one[f]
        OBVIOUS
      <4>2. [o EXCEPT !.eof = full] \in StreamRec
        BY DEF StreamRec
      <4>3. LET r == [o EXCEPT !.eof = full] IN r.pos = o.pos /\ r.mode = o.mode /\ r.held = o.held /\ r.eof = full
        BY DEF StreamRec
      <4>4. QED
        BY <4>1, <4>2, <4>3
    <3>2. streams' = [one EXCEPT ![f] = r]
      BY <2>2, <2>3, <3>1
    <3>3. QED
      BY <2>3, <2>4, <3>1, <3>2
  <2>6. QED
    BY <2>1, <2>4, <2>5
<1> HIDE DEF cap0, got0
<1>13. WITNESS cap \in Nat, got \in Nat
<1>14. QED
  BY <1>2, <1>3, <1>4, <1>5, <1>6, <1>8, <1>9, <1>10, <1>11, <1>12

LEMMA ReadStep ==
  ASSUME FilesInv, ReadTurn
  PROVE  FilesInv'
<1>1. /\ call' \in Call /\ call'.op = call.op /\ call'.f = call.f /\ call'.stage \in {"read", "end"}
      /\ Len(call'.text) <= call'.cap /\ call'.cap > 0
      /\ streams' \in [Stream -> StreamRec] /\ \A g \in Stream : streams'[g].mode = streams[g].mode
  <2>1. call.text \in Seq(Nat) /\ Len(call.text) \in Nat
    BY DEF FilesInv, FileTypeOK
  <2>2. PICK cap \in Nat, got \in Nat :
           /\ cap - Len(call.text) > 0 /\ cap > 0 /\ got <= cap - Len(call.text)
           /\ call' \in Call /\ call'.op = call.op /\ call'.f = call.f /\ call'.cap = cap
           /\ Len(call'.text) = Len(call.text) + got /\ call'.stage = (IF got = 0 THEN "end" ELSE "read")
           /\ streams' \in [Stream -> StreamRec] /\ \A g \in Stream \ {call.f} : streams'[g] = streams[g]
           /\ streams'[call.f].mode = streams[call.f].mode
    BY TurnFacts
  <2>3. Len(call'.text) <= call'.cap
    BY <2>1, <2>2
  <2>4. QED
    BY <2>2, <2>3
<1>2. QED
  BY <1>1, Reading DEF ReadTurn

LEMMA ReadErrorStep ==
  ASSUME FilesInv, ReadError
  PROVE  FilesInv'
<1>1. call \in Call /\ call' \in Call /\ call'.stage = "end" /\ call'.op = call.op /\ call'.f = call.f
  BY DEF ReadError, FilesInv, FileTypeOK, Call, Stage
<1>2. QED
  BY <1>1, Reading DEF ReadError, FilesInv, FileTypeOK, StreamRec

LEMMA SlurpHandleStep ==
  ASSUME FilesInv, SlurpHandle
  PROVE  FilesInv'
<1>1. call \in Call /\ handles[call.h].f \in Stream /\ CapMin \in Nat
  BY FileAssumption DEF FilesInv, FileTypeOK, Call
<1>2. call' \in Call /\ call'.stage = "read" /\ call'.op = call.op /\ call'.cap = CapMin /\ call'.text = call.text
  BY <1>1 DEF SlurpHandle, Call, Stage
<1>4. Len(call'.text) <= call'.cap /\ call'.cap > 0
  BY <1>2, FileAssumption DEF SlurpHandle, FilesInv, Staged
<1>3. QED
  BY <1>2, <1>4, Reading DEF SlurpHandle, FilesInv, FileTypeOK, StreamRec

LEMMA EndSlurpStep ==
  ASSUME FilesInv, EndSlurp
  PROVE  FilesInv'
<1>1. ~Busy /\ call.text \in Seq(Nat)
  BY DEF EndSlurp, Busy, FilesInv, FileTypeOK
<1>2. CASE call.ok
  BY <1>1, <1>2, StopStep, ReturnFacts DEF EndSlurp, FilesInv
<1>3. CASE ~call.ok
  BY <1>1, <1>3, PanicsStep DEF EndSlurp
<1>4. QED
  BY <1>2, <1>3

LEMMA FilesInitially ==
  ASSUME FileInit
  PROVE  FilesInv
<1>1. disk \in Seq(Nat) \cup {Absent} /\ before = disk /\ calls = 0
  BY FileAssumption DEF FileInit, NoCalls
<1>2. /\ streams = [f \in FILE \cup {Stdin} |-> IF f = Stdin THEN [Closed EXCEPT !.mode = "read"] ELSE Closed]
      /\ handles = [h \in Handle |-> Dead] /\ call = [Idle EXCEPT !.stage = "idle"]
      /\ result = [op |-> "none", text |-> <<>>, value |-> Ok]
  BY DEF FileInit, NoCalls
<1>3. /\ Closed \in StreamRec /\ [Closed EXCEPT !.mode = "read"] \in StreamRec
      /\ Closed.mode = "closed" /\ [Closed EXCEPT !.mode = "read"].mode = "read"
  BY ClosedAs
<1>4. /\ streams \in [Stream -> StreamRec] /\ streams[Stdin].mode = "read"
      /\ \A f \in FILE : streams[f].mode = "closed"
  BY <1>2, <1>3, FileAssumption DEF Stream
<1>5. /\ handles \in [Handle -> [f : Stream, no_close : BOOLEAN, writable : BOOLEAN, live : BOOLEAN]]
      /\ \A h \in Handle : handles[h].no_close /\ handles[h].f = Stdin /\ ~handles[h].writable
  BY <1>2 DEF Dead, Stream
<1>6. call \in Call /\ call.stage = "idle"
  BY <1>2, IdleFacts DEF Call, Stage
<1>7. result \in [op : Op, text : Seq(Nat), value : Seq(Nat) \cup {Ok, Failure}]
  BY <1>2 DEF Op
<1>8. FileTypeOK
  BY <1>1, <1>4, <1>5, <1>6, <1>7 DEF FileTypeOK, Call, StreamRec
<1>9. Staged /\ ~Busy
  BY <1>6 DEF Staged, Busy
<1>10. Attached
  BY <1>4, <1>5, <1>9 DEF Attached, Owns
<1>11. QED
  BY <1>8, <1>9, <1>10 DEF FilesInv

LEMMA FilesStep ==
  ASSUME FilesInv, [FileNext]_fileVars
  PROVE  FilesInv'
<1>1. CASE UNCHANGED fileVars
  BY <1>1 DEF fileVars, FilesInv, FileTypeOK, Staged, Attached, Owns, Busy
<1>2. call.text \in Seq(Nat) /\ Idle.h \in Handle /\ <<>> \in Seq(Nat)
  BY IdleFacts DEF FilesInv, FileTypeOK
<1>3. ASSUME NEW op \in {"write_file", "append_file"}, NEW text \in Content, Begin(op, Idle.h, text)  PROVE FilesInv'
  <2>1. text \in Seq(Nat) /\ op \in Op \ {"none"}
    BY FileAssumption DEF Op
  <2>2. QED
    BY <1>2, <1>3, <2>1, BeginStep
<1>4. CASE Begin("read_file", Idle.h, <<>>)
  BY <1>2, <1>4, BeginStep DEF Op
<1>5. ASSUME NEW op \in {"open", "create"}, NEW h \in NewHandle, Begin(op, h, <<>>)  PROVE FilesInv'
  <2>1. h \in Handle /\ ~handles[h].live /\ op \in Op \ {"none"}
    BY DEF NewHandle, Op
  <2>2. QED
    BY <1>2, <1>5, <2>1, BeginStep
<1>6. ASSUME NEW h \in Handle, NEW text \in Content, Begin("write", h, text) \/ Begin("slurp", h, <<>>)  PROVE FilesInv'
  <2>1. text \in Seq(Nat) /\ {"write", "slurp"} \subseteq Op \ {"none"}
    BY FileAssumption DEF Op
  <2>2. QED
    BY <1>2, <1>6, <2>1, BeginStep
<1>7. ASSUME NEW f \in NewFILE, OpenFile(f)  PROVE FilesInv'
  BY <1>7, OpenStep
<1>8. ASSUME NEW n \in 0 .. Len(call.text), NEW ok \in BOOLEAN, WriteText(n, ok) \/ CloseWritten(n, ok) \/ WriteHandle(n, ok)
      PROVE  FilesInv'
  <2>1. n \in Nat /\ n <= Len(call.text)
    BY <1>2
  <2>2. QED
    BY <1>8, <2>1, WriteTextStep, CloseWrittenStep, WriteHandleStep
<1>9. CASE Refused \/ ReadTurn \/ ReadError \/ EndRead \/ SlurpHandle \/ EndSlurp
  BY <1>9, RefusedStep, ReadStep, ReadErrorStep, EndReadStep, SlurpHandleStep, EndSlurpStep
<1>10. CASE NotWritable \/ NotReadable
  <2>1. ~Busy /\ Panics
    BY <1>10 DEF NotWritable, NotReadable, Busy
  <2>2. QED
    BY <2>1, PanicsStep
<1>11. ASSUME NEW h \in NewHandle, StdinHandle(h)  PROVE FilesInv'
  BY <1>11, StdinStep
<1>12. ASSUME NEW h \in Handle, DropHandle(h)  PROVE FilesInv'
  BY <1>12, DropStep
<1>13. QED
  BY <1>1, <1>3, <1>4, <1>5, <1>6, <1>7, <1>8, <1>9, <1>10, <1>11, <1>12 DEF FileNext

\* What is open between calls belongs to the handles.
LEMMA AttachedFacts ==
  ASSUME FilesInv
  PROVE  NoStreamLeft
<1> DEFINE own == {h \in Handle : handles[h].live /\ ~handles[h].no_close}
<1>1. \A h \in Handle : h \in own <=> Owns(h)
  BY DEF Owns
<1>2. streams[Stdin].mode = "read" /\ \A g, h \in own : handles[g].f = handles[h].f => g = h
  BY <1>1 DEF FilesInv, Attached
<1>3. ASSUME call.stage = "idle"
      PROVE  {f \in FILE : streams[f].mode # "closed"} = {handles[h].f : h \in own}
  <2>1. ~Busy
    BY <1>3 DEF Busy
  <2>2. \A f \in FILE : streams[f].mode # "closed" => \E h \in own : handles[h].f = f
    BY <1>1, <2>1 DEF FilesInv, Attached
  <2>3. \A h \in own : handles[h].f \in FILE /\ streams[handles[h].f].mode # "closed"
    BY <1>1 DEF FilesInv, Attached, Owns
  <2>4. QED
    BY <2>2, <2>3
<1>4. QED
  BY <1>2, <1>3 DEF NoStreamLeft

-----------------------------------------------------------------------------
(* Texts.                                                                  *)

LEMMA PrefixFacts ==
  ASSUME NEW s \in Seq(Nat)
  PROVE  Prefix(s, 0) = <<>> /\ Prefix(s, Len(s)) = s /\ <<>> \o s = s /\ s \o <<>> = s /\ SubSeq(s, 1, Len(s)) = s
BY DEF Prefix

LEMMA PrefixSplit ==
  ASSUME NEW s \in Seq(Nat), NEW n \in 0 .. Len(s), NEW r, r = SubSeq(s, n + 1, Len(s)), NEW m \in 0 .. Len(r)
  PROVE  n + m \in 0 .. Len(s) /\ Prefix(s, n) \o Prefix(r, m) = Prefix(s, n + m) /\ Len(r) = Len(s) - n
<1>1. /\ r \in Seq(Nat) /\ Len(r) = Len(s) - n /\ \A k \in 1 .. Len(r) : r[k] = s[n + k]
  BY PrefixType
<1>2. n \in Nat /\ m \in Nat /\ Len(s) \in Nat /\ n + m \in 0 .. Len(s)
  BY <1>1
<1>3. Prefix(r, m) = SubSeq(s, n + 1, n + m)
  <2>1. PICK a \in Seq(Nat) : a = Prefix(r, m) /\ Len(a) = m /\ \A k \in 1 .. m : a[k] = r[k]
    BY <1>1, PrefixType
  <2>2. \A k \in n + 1 .. n + m : s[k] \in Nat
    BY <1>2, SMTT(30)
  <2>3. PICK b \in Seq(Nat) : b = SubSeq(s, n + 1, n + m) /\ Len(b) = m /\ \A k \in 1 .. m : b[k] = s[n + k]
    <3>1. PICK c : c = SubSeq(s, n + 1, n + m)
      OBVIOUS
    <3>2. /\ c \in Seq(Nat) /\ Len(c) = IF n + 1 <= n + m THEN n + m - (n + 1) + 1 ELSE 0
          /\ \A i \in 1 .. n + m - (n + 1) + 1 : c[i] = s[n + 1 + i - 1]
      <4>1. n + 1 \in Int /\ n + m \in Int
        BY <1>2
      <4>2. QED
        BY <2>2, <3>1, <4>1, SubSeqProperties
    <3>3. Len(c) = m /\ \A k \in 1 .. m : c[k] = s[n + k]
      BY <1>2, <3>2
    <3>4. QED
      BY <3>1, <3>2, <3>3
  <2>4. ASSUME NEW k \in 1 .. m  PROVE a[k] = b[k]
    <3>1. k \in 1 .. Len(r)
      OBVIOUS
    <3>2. QED
      BY <1>1, <2>1, <2>3, <3>1
  <2>5. a = b
    BY <2>1, <2>3, <2>4, SeqEqual
  <2>6. QED
    BY <2>1, <2>3, <2>5
<1>4. Prefix(s, n) \o SubSeq(s, n + 1, n + m) = Prefix(s, n + m)
  <2>1. 1 \in 1 .. Len(s) + 1 /\ n \in 1 - 1 .. Len(s) /\ n + m \in n .. Len(s)
    BY <1>2
  <2>2. QED
    BY <2>1, ConcatAdjacentSubSeq DEF Prefix
<1>5. QED
  BY <1>1, <1>2, <1>3, <1>4

LEMMA Associative ==
  ASSUME NEW a \in Seq(Nat), NEW b \in Seq(Nat), NEW c \in Seq(Nat)
  PROVE  (a \o b) \o c = a \o (b \o c)
BY ConcatAssociative

\* What is written at the end of the file follows what it had.
LEMMA WrittenEnd ==
  ASSUME FileTypeOK, NEW f \in Stream, NEW data \in Seq(Nat), NEW old \in Seq(Nat), disk = old, disk # Absent,
         streams[f].mode = "append" \/ streams[f].pos = Len(old)
  PROVE  Written(f, data) = old \o data
<1>1. CASE data = <<>>
  BY <1>1, PrefixFacts DEF Written
<1>2. CASE data # <<>>
  <2> DEFINE new == [k \in 1 .. Len(old) + Len(data) |-> IF k > Len(old) /\ k <= Len(old) + Len(data) THEN data[k - Len(old)]
                                                         ELSE IF k <= Len(old) THEN old[k] ELSE 0]
  <2>1. Len(old) \in Nat /\ Len(data) \in Nat /\ Len(data) > 0
    BY <1>2
  <2>2. Len(old) + Len(data) > Len(old)
    BY <2>1
  <2>3. Written(f, data) = new
    BY <1>2, <2>2 DEF Written
  <2> PICK d : d = old \o data
    OBVIOUS
  <2>4. /\ d \in Seq(Nat) /\ Len(d) = Len(old) + Len(data)
        /\ \A i \in 1 .. Len(old) + Len(data) : d[i] = IF i <= Len(old) THEN old[i] ELSE data[i - Len(old)]
    BY ConcatProperties
  <2>5. ASSUME NEW k \in 1 .. Len(old) + Len(data)  PROVE new[k] = d[k]
    BY <2>1, <2>4
  <2>6. new \in [1 .. Len(old) + Len(data) -> Nat]
    BY <2>4, <2>5, LenProperties
  <2>7. d \in [1 .. Len(old) + Len(data) -> Nat]
    BY <2>4, LenProperties
  <2> HIDE DEF new
  <2>8. new = d
    <3>1. PICK n \in Nat : n = Len(old) + Len(data)
      BY <2>1
    <3>2. new \in Seq(Nat) /\ Len(new) = n
      <4>1. new \in [1 .. n -> Nat] /\ DOMAIN new = 1 .. n
        BY <2>6, <3>1
      <4>2. new \in Seq(Nat)
        BY <4>1, SMTT(30)
      <4>3. QED
        BY <4>1, <4>2, LenProperties
    <3>3. Len(d) = n /\ \A k \in 1 .. n : new[k] = d[k]
      BY <2>4, <2>5, <3>1
    <3>4. QED
      BY <2>4, <3>2, <3>3, SeqEqual
  <2>9. QED
    BY <2>3, <2>4, <2>8
<1>3. QED
  BY <1>1, <1>2

\* What is written is there, wherever the stream was.
LEMMA WrittenThere ==
  ASSUME FileTypeOK, NEW f \in Stream, NEW data \in Seq(Nat), disk \in Seq(Nat), disk # Absent
  PROVE  /\ Written(f, data) \in Seq(Nat)
         /\ \E n \in 0 .. Len(Written(f, data)) : SubSeq(Written(f, data), n + 1, n + Len(data)) = data
<1>1. CASE data = <<>>
  <2>1. PICK d \in Seq(Nat) : d = Written(f, data)
    BY <1>1 DEF Written
  <2>2. SubSeq(d, 0 + 1, 0 + Len(data)) = data /\ 0 \in 0 .. Len(d)
    BY <1>1
  <2>3. QED
    BY <2>1, <2>2
<1>2. CASE data # <<>>
  <2>1. PICK old \in Seq(Nat) : old = disk
    OBVIOUS
  <2>2. Len(old) \in Nat /\ Len(data) \in Nat /\ streams[f].pos \in Nat
    BY DEF FileTypeOK
  <2>3. PICK at \in Nat : at = IF streams[f].mode = "append" THEN Len(old) ELSE streams[f].pos
    BY <2>2
  <2>4. PICK size \in Nat : size = (IF at + Len(data) > Len(old) THEN at + Len(data) ELSE Len(old)) /\ at + Len(data) <= size
    <3>1. \A x, y \in Nat : \E z \in Nat : z = (IF x > y THEN x ELSE y) /\ x <= z
      OBVIOUS
    <3>2. at + Len(data) \in Nat
      BY <2>2, <2>3
    <3>3. QED
      BY <2>2, <3>1, <3>2, Zenon
  <2> DEFINE new == [k \in 1 .. size |-> IF k > at /\ k <= at + Len(data) THEN data[k - at]
                                         ELSE IF k <= Len(old) THEN old[k] ELSE 0]
  <2>5. Written(f, data) = new
    BY <1>2, <2>1, <2>3, <2>4 DEF Written
  <2>6. \A k \in 1 .. Len(data) : new[at + k] = data[k]
    <3>1. ASSUME NEW k \in 1 .. Len(data)  PROVE new[at + k] = data[k]
      <4>1. at + k \in 1 .. size /\ at + k > at /\ at + k <= at + Len(data) /\ at + k - at = k
        BY <2>2, <2>4
      <4>2. QED
        BY <4>1
    <3>2. QED
      BY <3>1
  <2>7. \A k \in 1 .. size : new[k] \in Nat
    <3>1. ASSUME NEW k \in 1 .. size  PROVE new[k] \in Nat
      <4>1. CASE k > at /\ k <= at + Len(data)
        BY <2>2, <2>4, <4>1
      <4>2. CASE ~(k > at /\ k <= at + Len(data)) /\ k <= Len(old)
        BY <2>2, <2>4, <4>2
      <4>3. CASE ~(k > at /\ k <= at + Len(data)) /\ ~(k <= Len(old))
        BY <4>3
      <4>4. QED
        BY <4>1, <4>2, <4>3
    <3>2. QED
      BY <3>1
  <2>8. new \in Seq(Nat) /\ Len(new) = size
    <3>1. new = [k \in 1 .. size |-> new[k]] /\ DOMAIN new = 1 .. size
      OBVIOUS
    <3> HIDE DEF new
    <3>2. new \in [1 .. size -> Nat]
      BY <2>7, <3>1
    <3>3. new \in Seq(Nat)
      BY <3>2
    <3>4. QED
      BY <3>1, <3>3, LenProperties
  <2> HIDE DEF new
  <2>9. SubSeq(new, at + 1, at + Len(data)) = data
    <3> PICK a \in Int, b \in Int : a = at + 1 /\ b = at + Len(data)
      BY <2>2
    <3>1. \A i \in a .. b : new[i] \in Nat
      BY <2>2, <2>4, <2>7
    <3>2. PICK c : c = SubSeq(new, a, b)
      OBVIOUS
    <3>3. /\ c \in Seq(Nat) /\ Len(c) = IF a <= b THEN b - a + 1 ELSE 0
          /\ \A i \in 1 .. b - a + 1 : c[i] = new[a + i - 1]
      BY <3>1, <3>2, SubSeqProperties
    <3>4. Len(c) = Len(data)
      BY <2>2, <3>3
    <3>5. ASSUME NEW i \in 1 .. Len(c)  PROVE c[i] = data[i]
      <4>1. i \in 1 .. Len(data) /\ i \in 1 .. b - a + 1 /\ a + i - 1 = at + i
        BY <2>2, <3>4
      <4>2. QED
        BY <2>6, <3>3, <4>1
    <3>6. QED
      BY <3>2, <3>3, <3>4, <3>5, SeqEqual
  <2>10. at \in 0 .. Len(new)
    BY <2>2, <2>4, <2>8
  <2>11. QED
    BY <2>5, <2>8, <2>9, <2>10
<1>3. QED
  BY <1>1, <1>2

-----------------------------------------------------------------------------
(* What is reported.                                                       *)

Reports == Flushed /\ UnderWay /\ Reported

LEMMA BaseType ==
  ASSUME FileTypeOK
  PROVE  Base \in Seq(Nat) /\ <<>> # Absent /\ \A s \in Seq(Nat) : s # Absent /\ s # Failure
<1>1. <<>> \in Seq(Nat)
  OBVIOUS
<1>2. \A s \in Seq(Nat) : s # Absent /\ s # Failure
  BY FileAssumption
<1>3. Base \in Seq(Nat)
  BY <1>1 DEF FileTypeOK, Base
<1>4. QED
  BY <1>1, <1>2, <1>3

\* Between steps of a call nothing is held, unless the call closes its stream.
LEMMA NothingHeld ==
  ASSUME Flushed, call.stage \notin {"panic", "close"}
  PROVE  \A f \in Stream : streams[f].held = <<>>
BY DEF Flushed

LEMMA SameFlushed ==
  ASSUME Flushed, handles' = handles, \A f \in Stream : streams'[f].mode = streams[f].mode,
         handles \in [Handle -> [f : Stream, no_close : BOOLEAN, writable : BOOLEAN, live : BOOLEAN]],
         disk # Absent => disk' # Absent,
         \A f \in Stream : streams'[f].held # <<>> => call'.stage = "panic" \/ (call'.stage = "close" /\ f = call'.f)
  PROVE  Flushed'
<1>1. \A h \in Handle : handles[h].f \in Stream
  OBVIOUS
<1>2. QED
  BY <1>1 DEF Flushed

LEMMA BeginReports ==
  ASSUME FileTypeOK, Reports, NEW op, NEW h, NEW text, Begin(op, h, text)
  PROVE  Reports'
<1>1. /\ call'.stage \in {"check", "open"} /\ disk' = disk /\ before' = disk
      /\ streams' = streams /\ handles' = handles /\ call.stage = "idle"
  BY DEF Begin, Idle
<1>2. \A f \in Stream : streams'[f].held = <<>>
  BY <1>1, NothingHeld DEF Reports
<1>3. Flushed'
  BY <1>1, <1>2, SameFlushed DEF Reports, FileTypeOK
<1>4. UnderWay' /\ Reported'
  BY <1>1 DEF UnderWay, Reported
<1>5. QED
  BY <1>3, <1>4 DEF Reports

LEMMA RefusedReports ==
  ASSUME FilesInv, Reports, Refused
  PROVE  Reports'
<1>1. /\ call.stage = "open" /\ call' = Idle /\ call'.stage = "idle"
      /\ disk' = disk /\ before' = before /\ streams' = streams /\ handles' = handles
      /\ result'.op = call.op /\ result'.value = Failure
      /\ call.op \in {"read_file", "write_file", "append_file", "open", "create"}
  BY ReturnFacts DEF Refused, FilesInv, Staged
<1>2. disk = before
  BY <1>1 DEF Reports, UnderWay
<1>3. \A f \in Stream : streams'[f].held = <<>>
  BY <1>1, NothingHeld DEF Reports
<1>4. Flushed'
  BY <1>1, <1>3, SameFlushed DEF Reports, FilesInv, FileTypeOK
<1>5. UnderWay'
  BY <1>1 DEF UnderWay
<1>6. Reported'
  BY <1>1, <1>2 DEF Reported
<1>7. QED
  BY <1>4, <1>5, <1>6 DEF Reports

\* A panic keeps everything as it is.
LEMMA PanicsReports ==
  ASSUME FilesInv, Reports, Panics, call.stage # "close"
  PROVE  Reports'
<1>1. call'.stage = "panic" /\ disk' = disk /\ streams' = streams /\ handles' = handles
  BY DEF Panics, Idle
<1>2. Flushed'
  BY <1>1, SameFlushed DEF Reports, FilesInv, FileTypeOK
<1>3. UnderWay' /\ Reported'
  BY <1>1 DEF UnderWay, Reported
<1>4. QED
  BY <1>2, <1>3 DEF Reports

LEMMA StdinReports ==
  ASSUME FilesInv, Reports, NEW h \in NewHandle, StdinHandle(h)
  PROVE  Reports'
<1>1. /\ h \in Handle /\ handles' = [handles EXCEPT ![h] = [f |-> Stdin, no_close |-> TRUE, writable |-> FALSE, live |-> TRUE]]
      /\ disk' = disk /\ streams' = streams /\ call' = call /\ result' = result /\ before' = before /\ call.stage = "idle"
  BY DEF StdinHandle, NewHandle
<1>2. ~handles'[h].writable /\ \A g \in Handle \ {h} : handles'[g] = handles[g]
  BY <1>1 DEF FilesInv, FileTypeOK
<1>3. Flushed'
  BY <1>1, <1>2 DEF Reports, Flushed
<1>4. UnderWay' /\ Reported'
  BY <1>1 DEF Reports, UnderWay, Reported
<1>5. QED
  BY <1>3, <1>4 DEF Reports

\* A handle is dropped: nothing is held, so that the file stays as it was.
LEMMA DropReports ==
  ASSUME FilesInv, Reports, NEW h \in Handle, DropHandle(h)
  PROVE  Reports'
<1>1. /\ handles' = [handles EXCEPT ![h] = Dead]
      /\ streams' = IF handles[h].no_close THEN streams ELSE [streams EXCEPT ![handles[h].f] = Closed]
      /\ disk' = IF handles[h].writable THEN Written(handles[h].f, streams[handles[h].f].held) ELSE disk
      /\ call' = call /\ result' = result /\ before' = before /\ call.stage = "idle"
  BY DEF DropHandle
<1>2. /\ handles \in [Handle -> [f : Stream, no_close : BOOLEAN, writable : BOOLEAN, live : BOOLEAN]]
      /\ streams \in [Stream -> StreamRec] /\ handles[h].f \in Stream
  BY DEF FilesInv, FileTypeOK, StreamRec
<1>3. \A f \in Stream : streams[f].held = <<>>
  BY <1>1, NothingHeld DEF Reports
<1>4. disk' = disk
  BY <1>1, <1>2, <1>3 DEF Written
<1>5. ~handles'[h].writable /\ \A g \in Handle \ {h} : handles'[g] = handles[g]
  BY <1>1, <1>2 DEF Dead
<1>6. /\ \A f \in Stream : f # handles[h].f => streams'[f] = streams[f]
      /\ \A f \in Stream : streams'[f].held = <<>>
      /\ handles[h].no_close => streams' = streams
  BY <1>1, <1>2, <1>3, ClosedAs
<1>7. ASSUME NEW g \in Handle, handles'[g].writable  PROVE streams'[handles'[g].f].mode = "write" /\ disk' # Absent
  <2>1. g # h /\ handles'[g] = handles[g] /\ handles[g].f \in Stream
    BY <1>2, <1>5, <1>7
  <2>2. Owns(g) /\ (~handles[h].no_close => Owns(h) /\ handles[g].f # handles[h].f)
    BY <1>7, <2>1 DEF FilesInv, Attached, Owns
  <2>3. streams'[handles[g].f] = streams[handles[g].f]
    BY <1>6, <2>1, <2>2
  <2>4. QED
    BY <1>4, <1>7, <2>1, <2>3 DEF Reports, Flushed
<1>8. Flushed'
  BY <1>6, <1>7 DEF Flushed
<1>9. UnderWay' /\ Reported'
  BY <1>1, <1>4 DEF Reports, UnderWay, Reported
<1>10. QED
  BY <1>8, <1>9 DEF Reports

LEMMA OpenReports ==
  ASSUME FilesInv, Reports, NEW f \in NewFILE, OpenFile(f)
  PROVE  Reports'
<1>1. /\ f \in FILE /\ f \in Stream /\ f # Stdin /\ streams[f].mode = "closed" /\ call.stage = "open"
      /\ call.op \in {"read_file", "write_file", "append_file", "open", "create"} /\ disk = before
  BY FileAssumption DEF NewFILE, Stream, OpenFile, FilesInv, Staged, Reports, UnderWay
<1>2. Mode = IF call.op \in {"write_file", "create"} THEN "write" ELSE IF call.op = "append_file" THEN "append" ELSE "read"
  BY <1>1 DEF Mode
<1>3. /\ streams \in [Stream -> StreamRec] /\ call \in Call
      /\ handles \in [Handle -> [f : Stream, no_close : BOOLEAN, writable : BOOLEAN, live : BOOLEAN]]
  BY DEF FilesInv, FileTypeOK, StreamRec, Call
<1>4. PICK r : r = [Closed EXCEPT !.mode = Mode]
  OBVIOUS
<1>5. r \in StreamRec /\ r.mode = Mode /\ r.pos = 0 /\ r.eof = FALSE /\ r.held = <<>>
  BY <1>2, <1>4, ClosedAs
<1>6. streams'[f] = r /\ \A g \in Stream \ {f} : streams'[g] = streams[g]
  BY <1>1, <1>3, <1>4 DEF OpenFile
<1>7. /\ before' = before /\ disk' = (IF Mode = "write" \/ disk = Absent THEN <<>> ELSE disk) /\ disk' # Absent
      /\ Mode = "read" => disk # Absent
  BY BaseType DEF OpenFile, FilesInv
<1>8. \A g \in Stream : streams'[g].held = <<>>
  BY <1>1, <1>5, <1>6, NothingHeld DEF Reports
<1>9. \A h \in Handle : handles[h].writable => handles[h].f \in Stream \ {f} /\ streams[handles[h].f].mode = "write"
  BY <1>1, <1>3 DEF FilesInv, Attached, Reports, Flushed
<1>10. CASE call.op \in {"open", "create"}
  <2>1. /\ handles' = [handles EXCEPT ![call.h] = [f |-> f, no_close |-> FALSE, writable |-> call.op = "create", live |-> TRUE]]
        /\ Return(Ok) /\ call.h \in Handle
    BY <1>1, <1>3, <1>10 DEF OpenFile, Call
  <2> PICK k \in Handle : k = call.h
    BY <2>1
  <2>2. handles'[k].f = f /\ (handles'[k].writable => call.op = "create") /\ \A g \in Handle \ {k} : handles'[g] = handles[g]
    BY <1>3, <2>1
  <2>3. call'.stage = "idle" /\ result'.op = call.op
    BY <2>1, ReturnFacts DEF FilesInv
  <2>4. Flushed'
    <3>1. ASSUME NEW h \in Handle, handles'[h].writable  PROVE streams'[handles'[h].f].mode = "write"
      <4>1. CASE h = k
        BY <1>2, <1>5, <1>6, <2>2, <3>1, <4>1
      <4>2. CASE h # k
        BY <1>6, <1>9, <2>2, <3>1, <4>2
      <4>3. QED
        BY <4>1, <4>2
    <3>2. QED
      BY <1>7, <1>8, <3>1 DEF Flushed
  <2>5. UnderWay' /\ Reported'
    BY <1>10, <2>3 DEF UnderWay, Reported
  <2>6. QED
    BY <2>4, <2>5 DEF Reports
<1>11. CASE call.op \notin {"open", "create"}
  <2>1. /\ call' = [call EXCEPT !.f = f, !.cap = CapMin, !.stage = IF call.op = "read_file" THEN "read" ELSE "write"]
        /\ handles' = handles
    BY <1>11 DEF OpenFile
  <2>2. /\ call'.f = f /\ call'.op = call.op /\ call'.text = call.text
        /\ call'.stage = IF call.op = "read_file" THEN "read" ELSE "write"
    BY <1>3, <2>1 DEF Call
  <2>3. Flushed'
    BY <1>6, <1>7, <1>8, <1>9, <2>1 DEF Flushed
  <2>4. UnderWay'
    <3>1. CASE call.op = "read_file"
      <4>1. call'.stage = "read" /\ call'.text = <<>> /\ disk' = disk /\ disk \in Seq(Nat) /\ streams'[call'.f] = r
        BY <1>1, <1>2, <1>6, <1>7, <2>2, <3>1 DEF FilesInv, FileTypeOK, Staged
      <4>2. Prefix(disk, Len(<<>>)) = <<>> /\ Len(<<>>) = 0 /\ 0 <= Len(disk)
        BY <4>1, PrefixFacts
      <4>3. QED
        BY <1>1, <1>5, <1>7, <4>1, <4>2 DEF UnderWay
    <3>2. CASE call.op = "write_file"
      <4>1. call'.stage = "write" /\ call'.op = "write_file" /\ disk' = <<>> /\ streams'[call'.f] = r /\ r.mode = "write" /\ Base' = <<>>
        BY <1>2, <1>5, <1>6, <1>7, <2>2, <3>2 DEF Base
      <4>2. QED
        BY <1>5, <4>1 DEF UnderWay
    <3>3. CASE call.op = "append_file"
      <4>1. call'.stage = "write" /\ call'.op = "append_file" /\ disk' = Base' /\ streams'[call'.f].mode = "append"
        BY <1>1, <1>2, <1>5, <1>6, <1>7, <2>2, <3>3 DEF Base
      <4>2. QED
        BY <4>1 DEF UnderWay
    <3>4. QED
      BY <1>1, <1>11, <3>1, <3>2, <3>3
  <2>5. Reported'
    BY <2>2 DEF Reported
  <2>6. QED
    BY <2>3, <2>4, <2>5 DEF Reports
<1>12. QED
  BY <1>10, <1>11

LEMMA WriteTextReports ==
  ASSUME FilesInv, Reports, NEW n \in Nat, NEW ok \in BOOLEAN, WriteText(n, ok)
  PROVE  Reports'
<1>1. /\ call \in Call /\ call.stage = "write" /\ call.op \in {"write_file", "append_file"}
      /\ call.f \in Stream /\ handles' = handles /\ before' = before
      /\ handles \in [Handle -> [f : Stream, no_close : BOOLEAN, writable : BOOLEAN, live : BOOLEAN]]
  BY DEF WriteText, FilesInv, FileTypeOK, Staged, Call
<1>2. PICK text \in Seq(Nat) : text = call.text
  BY <1>1 DEF Call
<1>3. n \in 0 .. Len(text) /\ Flushes(call.f, text, n)
  BY <1>2 DEF WriteText
<1>4. call'.stage = "close" /\ call'.op = call.op /\ call'.f = call.f /\ call'.text = text
  BY <1>1, <1>2 DEF WriteText, Call
<1>5. streams[call.f].held \o text = text
  BY <1>1, NothingHeld, PrefixFacts DEF Reports
<1>6. /\ disk' = Written(call.f, Prefix(text, n))
      /\ streams'[call.f].held = SubSeq(text, n + 1, Len(text)) /\ streams'[call.f].pos = streams[call.f].pos + n
      /\ \A g \in Stream : streams'[g].mode = streams[g].mode
      /\ \A g \in Stream \ {call.f} : streams'[g] = streams[g]
  <2> PICK f \in Stream : f = call.f
    BY <1>1
  <2> PICK all : all = streams[f].held \o text
    OBVIOUS
  <2>1. FileTypeOK /\ n <= Len(text) /\ Flushes(f, text, n)
    BY <1>3 DEF FilesInv
  <2>2. /\ disk' = Written(f, Prefix(all, n))
        /\ streams'[f].held = SubSeq(all, n + 1, Len(all)) /\ streams'[f].pos = streams[f].pos + n
        /\ \A g \in Stream : streams'[g].mode = streams[g].mode
        /\ \A g \in Stream \ {f} : streams'[g] = streams[g]
    BY <2>1, FlushesType
  <2>3. all = text
    BY <1>5
  <2>4. QED
    BY <2>2, <2>3
<1>7. PICK old \in Seq(Nat) : old = disk /\ old = Base /\ old # Absent
  BY <1>1, BaseType DEF Reports, UnderWay, FilesInv
<1>8. PICK data \in Seq(Nat) : data = Prefix(text, n) /\ Len(data) = n
  BY <1>3, PrefixType
<1>9. streams[call.f].mode = "append" \/ streams[call.f].pos = Len(old)
  BY <1>1, <1>7 DEF Reports, UnderWay
<1>10. disk' = old \o data /\ Len(old \o data) = Len(old) + n /\ old \o data \in Seq(Nat)
  <2>1. Len(old \o data) = Len(old) + n /\ old \o data \in Seq(Nat)
    BY <1>8, ConcatProperties
  <2>2. FileTypeOK /\ disk = old /\ disk # Absent
    BY <1>7 DEF FilesInv
  <2>3. Written(call.f, data) = old \o data
    BY <1>1, <1>9, <2>2, WrittenEnd
  <2>4. QED
    BY <1>6, <1>8, <2>1, <2>3
<1>11. Base' = Base
  BY <1>1, <1>4 DEF Base
<1>12. UnderWay'
  <2>1. disk' = Base' \o Prefix(text, n)
    BY <1>7, <1>8, <1>10, <1>11
  <2>2. IF call.op = "append_file" THEN streams'[call.f].mode = "append"
        ELSE streams'[call.f].mode = "write" /\ streams'[call.f].pos = Len(disk')
    BY <1>1, <1>6, <1>7, <1>10 DEF Reports, UnderWay
  <2>3. QED
    BY <1>3, <1>4, <1>6, <2>1, <2>2 DEF UnderWay
<1>13. Flushed'
  <2>1. disk' # Absent
    BY <1>10, BaseType DEF FilesInv
  <2>2. \A g \in Stream : streams'[g].held # <<>> => g = call.f
    BY <1>1, <1>6, NothingHeld DEF Reports
  <2>3. QED
    BY <1>1, <1>4, <1>6, <2>1, <2>2, SameFlushed DEF Reports
<1>14. Reported'
  BY <1>4 DEF Reported
<1>15. QED
  BY <1>12, <1>13, <1>14 DEF Reports

\* A stream of the call is closed: those of the handles are others.
LEMMA CloseFlushed ==
  ASSUME FilesInv, Busy, Flushed, streams' = [streams EXCEPT ![call.f] = Closed],
         handles' = handles, disk # Absent => disk' # Absent, call.stage # "panic"
  PROVE  Flushed'
<1>1. /\ streams \in [Stream -> StreamRec] /\ call.f \in Stream
      /\ handles \in [Handle -> [f : Stream, no_close : BOOLEAN, writable : BOOLEAN, live : BOOLEAN]]
  BY DEF FilesInv, FileTypeOK, StreamRec
<1>2. /\ streams'[call.f] = Closed /\ Closed.held = <<>>
      /\ \A g \in Stream \ {call.f} : streams'[g] = streams[g]
  BY <1>1, ClosedAs
<1>3. \A g \in Stream : streams'[g].held = <<>>
  BY <1>2 DEF Flushed
<1>4. \A h \in Handle : handles[h].writable => handles[h].f \in Stream \ {call.f}
  BY <1>1 DEF FilesInv, Attached, Owns
<1>5. QED
  BY <1>2, <1>3, <1>4 DEF Flushed

LEMMA CloseWrittenReports ==
  ASSUME FilesInv, Reports, NEW m \in Nat, NEW ok \in BOOLEAN, CloseWritten(m, ok)
  PROVE  Reports'
<1>1. /\ call \in Call /\ call.stage = "close" /\ call.op \in {"write_file", "append_file"} /\ Busy
      /\ call.f \in Stream /\ handles' = handles /\ before' = before
      /\ streams' = [streams EXCEPT ![call.f] = Closed]
  BY DEF CloseWritten, FilesInv, FileTypeOK, Staged, Call, Busy
<1>2. PICK text \in Seq(Nat) : text = call.text
  BY <1>1 DEF Call
<1>3. PICK n \in 0 .. Len(text) : disk = Base \o Prefix(text, n) /\ streams[call.f].held = SubSeq(text, n + 1, Len(text))
  BY <1>1, <1>2 DEF Reports, UnderWay
<1>4. PICK base \in Seq(Nat) : base = Base
  BY BaseType DEF FilesInv
<1>5. PICK first \in Seq(Nat) : first = Prefix(text, n)
  BY PrefixType
<1>6. PICK held \in Seq(Nat) : held = SubSeq(text, n + 1, Len(text)) /\ Len(held) = Len(text) - n
  BY PrefixType
<1>7. m \in 0 .. Len(held) /\ (ok => m = Len(held)) /\ disk' = Written(call.f, Prefix(held, m))
  BY <1>3, <1>6 DEF CloseWritten
<1>8. PICK rest \in Seq(Nat) : rest = Prefix(held, m)
  BY <1>7, PrefixType
<1>9. n + m \in 0 .. Len(text) /\ first \o rest = Prefix(text, n + m) /\ (ok => n + m = Len(text))
  <2>1. n \in 0 .. Len(text) /\ held = SubSeq(text, n + 1, Len(text)) /\ m \in 0 .. Len(held)
    BY <1>6, <1>7
  <2>2. n + m \in 0 .. Len(text) /\ Prefix(text, n) \o Prefix(held, m) = Prefix(text, n + m) /\ Len(held) = Len(text) - n
    <3>1. \A r : r = SubSeq(text, n + 1, Len(text)) =>
            \A k \in 0 .. Len(r) : n + k \in 0 .. Len(text) /\ Prefix(text, n) \o Prefix(r, k) = Prefix(text, n + k) /\ Len(r) = Len(text) - n
      BY PrefixSplit
    <3>2. QED
      BY <2>1, <3>1
  <2>3. ok => n + m = Len(text)
    BY <1>7, <2>2
  <2>4. QED
    BY <1>5, <1>8, <2>2, <2>3
<1>10. PICK old \in Seq(Nat) : old = disk /\ old = base \o first /\ disk # Absent
  BY <1>3, <1>4, <1>5, BaseType, ConcatProperties DEF FilesInv
<1>11. streams[call.f].mode = "append" \/ streams[call.f].pos = Len(old)
  BY <1>1, <1>10 DEF Reports, UnderWay
<1>12. disk' = base \o Prefix(text, n + m)
  <2>1. disk' = old \o rest
    BY <1>1, <1>7, <1>8, <1>10, <1>11, WrittenEnd DEF FilesInv
  <2>2. (base \o first) \o rest = base \o (first \o rest)
    <3>1. \A b, c \in Seq(Nat) : (base \o b) \o c = base \o (b \o c)
      BY Associative, Zenon
    <3>2. \A c \in Seq(Nat) : (base \o first) \o c = base \o (first \o c)
      BY <3>1, Zenon
    <3>3. QED
      BY <3>2, Zenon
  <2>3. QED
    BY <1>9, <1>10, <2>1, <2>2
<1>13. PICK v \in {Ok, Failure} : Return(v) /\ (v = Ok => ok)
  BY FileAssumption DEF CloseWritten, Succeeded
<1>14. call'.stage = "idle" /\ result'.op = call.op /\ result'.text = text /\ result'.value = v
  BY <1>2, <1>13, ReturnFacts DEF FilesInv
<1>15. Flushed'
  <2>1. disk' # Absent
    <3>1. Prefix(text, n + m) \in Seq(Nat)
      BY <1>9, PrefixType
    <3>2. base \o Prefix(text, n + m) \in Seq(Nat)
      BY <3>1, ConcatProperties
    <3>3. QED
      BY <1>12, <3>2, BaseType DEF FilesInv
  <2>2. QED
    BY <1>1, <2>1, CloseFlushed DEF Reports
<1>16. UnderWay'
  BY <1>14 DEF UnderWay
<1>17. Reported'
  <2>1. CASE call.op = "write_file"
    <3>1. base = <<>>
      BY <1>4, <2>1 DEF Base
    <3>2. v # Failure => disk' = text
      <4>1. SUFFICES ASSUME v # Failure  PROVE disk' = text
        OBVIOUS
      <4>2. n + m = Len(text)
        BY <1>9, <1>13, <4>1
      <4>3. disk' = <<>> \o text
        BY <1>12, <3>1, <4>2, PrefixFacts
      <4>4. QED
        BY <4>3, PrefixFacts
    <3>3. QED
      BY <1>14, <2>1, <3>2 DEF Reported
  <2>2. CASE call.op = "append_file"
    <3>1. base = IF before' = Absent THEN <<>> ELSE before'
      BY <1>1, <1>4, <2>2 DEF Base
    <3>2. v # Failure => disk' = base \o text
      BY <1>9, <1>12, <1>13, PrefixFacts
    <3>3. QED
      BY <1>9, <1>12, <1>14, <2>2, <3>1, <3>2 DEF Reported
  <2>3. QED
    BY <1>1, <2>1, <2>2
<1>18. QED
  BY <1>15, <1>16, <1>17 DEF Reports

LEMMA ReadReports ==
  ASSUME FilesInv, Reports, ReadTurn
  PROVE  Reports'
<1>1. /\ call.stage = "read" /\ disk' = disk /\ before' = before /\ handles' = handles /\ disk = before
      /\ handles \in [Handle -> [f : Stream, no_close : BOOLEAN, writable : BOOLEAN, live : BOOLEAN]]
  BY DEF ReadTurn, Reports, UnderWay, FilesInv, FileTypeOK
<1>2. PICK left : left = Left(call.f)
  OBVIOUS
<1>3. PICK cap \in Nat, got \in Nat :
        /\ left \in Seq(Nat) /\ cap - Len(call.text) > 0 /\ got <= Len(left)
        /\ got < cap - Len(call.text) => streams[call.f].eof \/ got = Len(left)
        /\ streams[call.f].eof => got = 0
        /\ call'.op = call.op /\ call'.f = call.f
        /\ call'.text = call.text \o Prefix(left, got) /\ Len(call'.text) = Len(call.text) + got
        /\ call'.stage = (IF got = 0 THEN "end" ELSE "read")
        /\ \A g \in Stream \ {call.f} : streams'[g] = streams[g]
        /\ streams'[call.f].mode = streams[call.f].mode /\ streams'[call.f].held = streams[call.f].held
        /\ streams'[call.f].pos = streams[call.f].pos + got /\ streams'[call.f].eof = (got < cap - Len(call.text))
  BY <1>2, TurnFacts
<1>4. Flushed'
  <2>1. \A g \in Stream : streams'[g].mode = streams[g].mode /\ streams'[g].held = <<>>
    BY <1>1, <1>3, NothingHeld DEF Reports
  <2>2. QED
    BY <1>1, <2>1, SameFlushed DEF Reports
<1>5. Reported'
  BY <1>3 DEF Reported
<1>6. CASE call.op # "read_file"
  <2>1. UnderWay'
    BY <1>1, <1>3, <1>6 DEF UnderWay
  <2>2. QED
    BY <1>4, <1>5, <2>1 DEF Reports
<1>7. CASE call.op = "read_file"
  <2>1. PICK text \in Seq(Nat) : text = call.text
    BY DEF FilesInv, FileTypeOK
  <2>2. /\ disk # Absent /\ streams[call.f].pos = Len(text) /\ Len(text) <= Len(disk) /\ text = Prefix(disk, Len(text))
        /\ streams[call.f].eof => Len(text) = Len(disk)
    BY <1>1, <1>7, <2>1 DEF Reports, UnderWay
  <2>3. PICK have \in Seq(Nat) : have = disk
    BY <2>2 DEF FilesInv, FileTypeOK
  <2>4. PICK p \in Nat : p = Len(text) /\ p \in 0 .. Len(have) /\ streams[call.f].pos = p
    BY <2>2, <2>3
  <2>5. call.f # Stdin
    BY <1>1, <1>7, FileAssumption DEF FilesInv, Attached, Busy
  <2>6. left = SubSeq(have, p + 1, Len(have))
    BY <1>2, <2>2, <2>3, <2>4, <2>5 DEF Left
  <2>7. Len(left) = Len(have) - p
    BY <2>4, <2>6, PrefixType
  <2>8. call'.text = Prefix(have, p + got) /\ p + got \in 0 .. Len(have)
    <3>1. \A r : r = SubSeq(have, p + 1, Len(have)) =>
            \A k \in 0 .. Len(r) : p + k \in 0 .. Len(have) /\ Prefix(have, p) \o Prefix(r, k) = Prefix(have, p + k) /\ Len(r) = Len(have) - p
      BY <2>4, PrefixSplit
    <3>2. got \in 0 .. Len(left)
      BY <1>3
    <3>3. Prefix(have, p) \o Prefix(left, got) = Prefix(have, p + got) /\ p + got \in 0 .. Len(have)
      BY <2>6, <3>1, <3>2
    <3>4. call'.text = Prefix(have, p) \o Prefix(left, got)
      BY <1>3, <2>1, <2>2, <2>3, <2>4
    <3>5. QED
      BY <3>3, <3>4
  <2>9. Len(call'.text) = p + got /\ streams'[call.f].pos = p + got
    BY <1>3, <2>1, <2>4
  <2>10. streams[call.f].eof \/ got = Len(left) => p + got = Len(have)
    <3>1. CASE streams[call.f].eof
      BY <1>3, <2>2, <2>3, <2>4, <3>1
    <3>2. CASE got = Len(left)
      BY <2>4, <2>7, <3>2
    <3>3. QED
      BY <3>1, <3>2
  <2>11. CASE got = 0
    <3>1. p + got = Len(have)
      BY <1>3, <2>1, <2>10, <2>11
    <3>2. call'.text = have /\ call'.stage = "end"
      BY <1>3, <2>8, <2>11, <3>1, PrefixFacts
    <3>3. UnderWay'
      BY <1>1, <2>2, <2>3, <3>2 DEF UnderWay
    <3>4. QED
      BY <1>4, <1>5, <3>3 DEF Reports
  <2>12. CASE got # 0
    <3>1. call'.stage = "read" /\ call'.f = call.f
      BY <1>3, <2>12
    <3>2. streams'[call.f].eof => p + got = Len(have)
      BY <1>3, <2>10
    <3>3. /\ disk' # Absent /\ streams'[call'.f].pos = Len(call'.text) /\ Len(call'.text) <= Len(disk')
          /\ call'.text = Prefix(disk', Len(call'.text))
          /\ streams'[call'.f].eof => Len(call'.text) = Len(disk')
      BY <1>1, <2>2, <2>3, <2>8, <2>9, <3>1, <3>2
    <3>4. UnderWay'
      BY <1>1, <3>1, <3>3 DEF UnderWay
    <3>5. QED
      BY <1>4, <1>5, <3>4 DEF Reports
  <2>13. QED
    BY <2>11, <2>12
<1>8. QED
  BY <1>6, <1>7

\* The reading ends in an error, or begins for a handle.
LEMMA ReadErrorReports ==
  ASSUME FilesInv, Reports, ReadError \/ SlurpHandle
  PROVE  Reports'
<1>1. /\ call.stage \in {"read", "check"} /\ disk' = disk /\ before' = before /\ handles' = handles /\ streams' = streams
      /\ disk = before /\ call \in Call
      /\ handles \in [Handle -> [f : Stream, no_close : BOOLEAN, writable : BOOLEAN, live : BOOLEAN]]
  BY DEF ReadError, SlurpHandle, Reports, UnderWay, FilesInv, FileTypeOK, Call
<1>2. \/ call'.stage = "end" /\ call'.ok = FALSE
      \/ call'.stage = "read" /\ call'.op = "slurp"
  BY <1>1 DEF ReadError, SlurpHandle, Call
<1>3. Flushed'
  <2>1. \A g \in Stream : streams'[g].held = <<>>
    BY <1>1, NothingHeld DEF Reports
  <2>2. QED
    BY <1>1, <2>1, SameFlushed DEF Reports
<1>4. UnderWay' /\ Reported'
  BY <1>1, <1>2 DEF UnderWay, Reported
<1>5. QED
  BY <1>3, <1>4 DEF Reports

LEMMA EndReadReports ==
  ASSUME FilesInv, Reports, EndRead
  PROVE  Reports'
<1>1. /\ call.stage = "end" /\ call.op = "read_file" /\ disk' = disk /\ before' = before /\ handles' = handles
      /\ streams' = [streams EXCEPT ![call.f] = Closed] /\ Busy /\ disk = before
      /\ (call.ok => call.text = disk)
  BY DEF EndRead, AfterRead, Busy, Reports, UnderWay
<1>2. PICK v \in Seq(Nat) \cup {Failure} : Return(v) /\ (v = Failure \/ (call.ok /\ v = call.text))
  BY DEF EndRead, FilesInv, FileTypeOK
<1>3. call'.stage = "idle" /\ result'.op = "read_file" /\ result'.value = v
  BY <1>1, <1>2, ReturnFacts DEF FilesInv
<1>4. Flushed'
  BY <1>1, CloseFlushed DEF Reports
<1>5. UnderWay'
  BY <1>3 DEF UnderWay
<1>6. Reported'
  BY <1>1, <1>2, <1>3 DEF Reported
<1>7. QED
  BY <1>4, <1>5, <1>6 DEF Reports

LEMMA EndSlurpReports ==
  ASSUME FilesInv, Reports, EndSlurp
  PROVE  Reports'
<1>1. call.stage = "end" /\ call.op = "slurp" /\ call.text \in Seq(Nat)
  BY DEF EndSlurp, FilesInv, FileTypeOK
<1>2. CASE call.ok
  <2>1. Return(call.text) /\ disk' = disk /\ before' = before /\ handles' = handles /\ streams' = streams
    BY <1>2 DEF EndSlurp
  <2>2. call'.stage = "idle" /\ result'.op = "slurp"
    BY <1>1, <2>1, ReturnFacts DEF FilesInv
  <2>3. \A f \in Stream : streams'[f].held = <<>>
    BY <1>1, <2>1, NothingHeld DEF Reports
  <2>4. Flushed'
    BY <2>1, <2>3, SameFlushed DEF Reports, FilesInv, FileTypeOK
  <2>5. UnderWay' /\ Reported'
    BY <2>2 DEF UnderWay, Reported
  <2>6. QED
    BY <2>4, <2>5 DEF Reports
<1>3. CASE ~call.ok
  BY <1>1, <1>3, PanicsReports DEF EndSlurp
<1>4. QED
  BY <1>2, <1>3

LEMMA WriteHandleReports ==
  ASSUME FilesInv, Reports, NEW n \in Nat, NEW ok \in BOOLEAN, n <= Len(call.text), WriteHandle(n, ok)
  PROVE  Reports'
<1>1. PICK h \in Handle : h = call.h
  BY DEF FilesInv, FileTypeOK
<1>2. PICK f \in Stream : f = handles[h].f
  BY DEF FilesInv, FileTypeOK
<1>3. PICK text \in Seq(Nat) : text = call.text
  BY DEF FilesInv, FileTypeOK
<1>4. /\ call.stage = "check" /\ call.op = "write" /\ handles[h].writable /\ Flushes(f, text, n) /\ n \in 0 .. Len(text)
      /\ handles' = handles /\ before' = before
  BY <1>1, <1>2, <1>3 DEF WriteHandle
<1>5. PICK old \in Seq(Nat) : old = disk /\ disk # Absent
  BY <1>4 DEF Reports, Flushed, FilesInv, FileTypeOK
<1>6. PICK data \in Seq(Nat) : data = Prefix(text, n)
  BY <1>4, PrefixType
<1>7. /\ disk' = Written(f, data) /\ streams'[f].held = SubSeq(text, n + 1, Len(text))
      /\ \A g \in Stream : streams'[g].mode = streams[g].mode
      /\ \A g \in Stream \ {f} : streams'[g] = streams[g]
  <2> PICK all : all = streams[f].held \o text
    OBVIOUS
  <2>1. FileTypeOK /\ n <= Len(text)
    BY <1>4 DEF FilesInv
  <2>2. /\ disk' = Written(f, Prefix(all, n)) /\ streams'[f].held = SubSeq(all, n + 1, Len(all))
        /\ \A g \in Stream : streams'[g].mode = streams[g].mode
        /\ \A g \in Stream \ {f} : streams'[g] = streams[g]
    BY <1>4, <2>1, FlushesType
  <2>3. all = text
    BY <1>4, NothingHeld, PrefixFacts DEF Reports
  <2>4. QED
    BY <1>6, <2>2, <2>3
<1>8. disk' \in Seq(Nat) /\ \E k \in 0 .. Len(disk') : SubSeq(disk', k + 1, k + Len(data)) = data
  BY <1>5, <1>7, WrittenThere DEF FilesInv
<1>9. disk' # Absent
  BY <1>8, BaseType DEF FilesInv
<1>10. \A g \in Stream \ {f} : streams'[g].held = <<>>
  BY <1>4, <1>7, NothingHeld DEF Reports
<1>11. handles \in [Handle -> [f : Stream, no_close : BOOLEAN, writable : BOOLEAN, live : BOOLEAN]]
  BY DEF FilesInv, FileTypeOK
<1>12. CASE ok
  <2>1. n = Len(text) /\ Return(Ok)
    BY <1>3, <1>12 DEF WriteHandle
  <2>2. data = text /\ streams'[f].held = <<>>
    <3>1. SubSeq(text, Len(text) + 1, Len(text)) = <<>>
      BY SubSeqEmpty
    <3>2. QED
      BY <1>6, <1>7, <2>1, <3>1, PrefixFacts
  <2>3. call'.stage = "idle" /\ result'.op = "write" /\ result'.text = text
    BY <1>3, <1>4, <2>1, ReturnFacts DEF FilesInv
  <2>4. Flushed'
    BY <1>4, <1>7, <1>9, <1>10, <1>11, <2>2, SameFlushed DEF Reports
  <2>5. UnderWay'
    BY <2>3 DEF UnderWay
  <2>6. Reported'
    BY <1>8, <2>2, <2>3 DEF Reported
  <2>7. QED
    BY <2>4, <2>5, <2>6 DEF Reports
<1>13. CASE ~ok
  <2>1. call'.stage = "panic"
    BY <1>13 DEF WriteHandle, Idle
  <2>2. Flushed'
    BY <1>4, <1>7, <1>9, <1>11, <2>1, SameFlushed DEF Reports
  <2>3. UnderWay' /\ Reported'
    BY <2>1 DEF UnderWay, Reported
  <2>4. QED
    BY <2>2, <2>3 DEF Reports
<1>14. QED
  BY <1>12, <1>13

LEMMA ReportsInitially ==
  ASSUME FileInit
  PROVE  Reports
<1>1. FilesInv
  BY FilesInitially
<1>2. /\ call.stage = "idle" /\ result.op = "none"
      /\ \A h \in Handle : ~handles[h].writable
      /\ streams = [f \in FILE \cup {Stdin} |-> IF f = Stdin THEN [Closed EXCEPT !.mode = "read"] ELSE Closed]
  BY IdleFacts DEF FileInit, NoCalls, Dead, Call
<1>3. \A f \in Stream : streams[f].held = <<>>
  BY <1>2, ClosedAs DEF Stream
<1>4. Flushed
  BY <1>2, <1>3 DEF Flushed
<1>5. UnderWay /\ Reported
  BY <1>2 DEF UnderWay, Reported
<1>6. QED
  BY <1>4, <1>5 DEF Reports

LEMMA ReportsStep ==
  ASSUME FilesInv, Reports, [FileNext]_fileVars
  PROVE  Reports'
<1>1. CASE UNCHANGED fileVars
  BY <1>1 DEF fileVars, Reports, Flushed, UnderWay, Base, Reported
<1>2. call.text \in Seq(Nat) /\ FileTypeOK
  BY DEF FilesInv, FileTypeOK
<1>3. ASSUME NEW op, NEW h, NEW text, Begin(op, h, text)  PROVE Reports'
  BY <1>2, <1>3, BeginReports
<1>4. ASSUME NEW f \in NewFILE, OpenFile(f)  PROVE Reports'
  BY <1>4, OpenReports
<1>5. ASSUME NEW n \in 0 .. Len(call.text), NEW ok \in BOOLEAN, WriteText(n, ok) \/ CloseWritten(n, ok) \/ WriteHandle(n, ok)
      PROVE  Reports'
  <2>1. n \in Nat /\ n <= Len(call.text)
    BY <1>2
  <2>2. QED
    BY <1>5, <2>1, WriteTextReports, CloseWrittenReports, WriteHandleReports
<1>6. CASE Refused \/ ReadTurn \/ ReadError \/ EndRead \/ SlurpHandle \/ EndSlurp
  BY <1>6, RefusedReports, ReadReports, ReadErrorReports, EndReadReports, EndSlurpReports
<1>7. CASE NotWritable \/ NotReadable
  BY <1>7, PanicsReports DEF NotWritable, NotReadable
<1>8. ASSUME NEW h \in NewHandle, StdinHandle(h)  PROVE Reports'
  BY <1>8, StdinReports
<1>9. ASSUME NEW h \in Handle, DropHandle(h)  PROVE Reports'
  BY <1>9, DropReports
<1>10. QED
  BY <1>1, <1>3, <1>4, <1>5, <1>6, <1>7, <1>8, <1>9 DEF FileNext

-----------------------------------------------------------------------------
(* Theorems.                                                               *)

\* Between calls the streams that are open are those of the handles, each of
\* one handle, whatever open, write, read or fclose said: read_file and
\* write_file close what they open on every path.
THEOREM FileStreams == FileSpec => []NoStreamLeft
<1>1. FileInit => FilesInv
  BY FilesInitially
<1>2. FilesInv /\ [FileNext]_fileVars => FilesInv'
  BY FilesStep
<1>3. FilesInv => NoStreamLeft
  BY AttachedFacts
<1>4. QED
  BY <1>1, <1>2, <1>3, PTL DEF FileSpec

\* What a call has reported is so: a text that write_file or append_file says
\* is written is all in the file, an append that failed leaves what was there,
\* read_file gives the whole file, and what write returned for is in the file.
THEOREM FileReports == FileSpec => []Reported
<1>1. FileInit => FilesInv /\ Reports
  BY FilesInitially, ReportsInitially
<1>2. FilesInv /\ Reports /\ [FileNext]_fileVars => (FilesInv /\ Reports)'
  BY FilesStep, ReportsStep
<1>3. Reports => Reported
  BY DEF Reports
<1>4. QED
  BY <1>1, <1>2, <1>3, PTL DEF FileSpec

=============================================================================
