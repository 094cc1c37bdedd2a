------------------------------ MODULE GujiFile ------------------------------
(***************************************************************************)
(* Files and handles, runtime_prologue.c 208-215, 1406-1535 and 1722-1806: *)
(* read_file, write_file, append_file, open, create, stdin, and write,     *)
(* slurp and the drop of a handle, with a disk and a C library that may    *)
(* fail at every call.                                                     *)
(*                                                                         *)
(* There is one file.  A FILE* writes through a buffer, any part of which  *)
(* may reach the disk before it is flushed.                                *)
(***************************************************************************)
EXTENDS Integers, Sequences

CONSTANTS FILE,       \* the FILE*s there may be
          Stdin,        \* one more, which is open from the beginning
          Handle,
          Content,      \* what is written
          Typed,        \* what comes from standard input
          CapMin,       \* of the buffer of a reading loop (4096 in the code)
          MaxCalls,
          Absent, Ok, Failure

ASSUME FileAssumption ==
    /\ Content \subseteq Seq(Nat) /\ Typed \in Seq(Nat)
    /\ Absent \notin Seq(Nat) /\ Failure \notin Seq(Nat) /\ Ok # Failure
    /\ Stdin \notin FILE /\ Handle # {} /\ CapMin \in Nat \ {0}

VARIABLES disk,         \* what the file has, or Absent
          streams,      \* FILE*s: mode, position, end seen, and what is in the buffer
          handles,
          call,         \* the one that runs, with a stage
          calls,        \* how many there were
          result,       \* of the last
          before        \* what the file had when it began

fileVars == <<disk, streams, handles, call, calls, result, before>>

Closed == [mode |-> "closed", pos |-> 0, eof |-> FALSE, held |-> <<>>]
Dead == [f |-> Stdin, no_close |-> TRUE, writable |-> FALSE, live |-> FALSE]
Idle == [op |-> "none", stage |-> "idle", f |-> Stdin, h |-> CHOOSE h \in Handle : TRUE,
         text |-> <<>>, cap |-> 0, ok |-> TRUE]

NoCalls(stage) ==
    /\ streams = [f \in FILE \cup {Stdin} |-> IF f = Stdin THEN [Closed EXCEPT !.mode = "read"] ELSE Closed]
    /\ handles = [h \in Handle |-> Dead]
    /\ call = [Idle EXCEPT !.stage = stage] /\ calls = 0 /\ before = disk
    /\ result = [op |-> "none", text |-> <<>>, value |-> Ok]
FileInit == disk \in {Absent} \cup Content /\ NoCalls("idle")

----------------------------------------------------------------------------
\* The C library.

Min2(a, b) == IF a < b THEN a ELSE b
Prefix(s, n) == SubSeq(s, 1, n)

\* What the file has when data is written at a position, or at the end.
Written(f, data) ==
    LET old == IF disk = Absent THEN <<>> ELSE disk
        at == IF streams[f].mode = "append" THEN Len(old) ELSE streams[f].pos
        size == IF at + Len(data) > Len(old) THEN at + Len(data) ELSE Len(old)
    IN IF data = <<>> THEN disk
       ELSE [k \in 1 .. size |-> IF k > at /\ k <= at + Len(data) THEN data[k - at]
                                 ELSE IF k <= Len(old) THEN old[k] ELSE 0]

\* n characters of what is held, and then of data, reach the disk.
Flushes(f, data, n) ==
    LET all == streams[f].held \o data
    IN /\ disk' = Written(f, Prefix(all, n))
       /\ streams' = [streams EXCEPT ![f].pos = @ + n, ![f].held = SubSeq(all, n + 1, Len(all))]

\* What a FILE* that is read has left.
Left(f) ==
    LET from == IF f = Stdin THEN Typed ELSE IF disk = Absent THEN <<>> ELSE disk
    IN SubSeq(from, streams[f].pos + 1, Len(from))

----------------------------------------------------------------------------
\* Calls.  Each begins, opens the file, writes or reads, and closes it.

Begin(op, h, text) ==
    /\ call.stage = "idle" /\ calls < MaxCalls
    /\ calls' = calls + 1 /\ before' = disk
    /\ call' = [Idle EXCEPT !.op = op, !.h = h, !.text = text,
                    !.stage = IF op \in {"write", "slurp"} THEN "check" ELSE "open"]
    /\ UNCHANGED <<disk, streams, handles, result>>

Return(r) == result' = [op |-> call.op, text |-> call.text, value |-> r] /\ call' = Idle

\* A path with a NUL in it is refused before it is opened, and fopen may fail.
Refused == call.stage = "open" /\ Return(Failure) /\ UNCHANGED <<disk, streams, handles, calls, before>>

\* Which of those that are not in use makes no difference.
NewFILE == LET free == {f \in FILE : streams[f].mode = "closed"} IN {f \in free : f = CHOOSE g \in free : TRUE}
NewHandle == LET free == {h \in Handle : ~handles[h].live} IN {h \in free : h = CHOOSE i \in free : TRUE}

Mode == CASE call.op \in {"write_file", "create"} -> "write"
          [] call.op = "append_file" -> "append"
          [] call.op \in {"read_file", "open"} -> "read"

OpenFile(f) ==
    /\ call.stage = "open"
    /\ Mode = "read" => disk # Absent
    /\ disk' = IF Mode = "write" \/ disk = Absent THEN <<>> ELSE disk
    /\ streams' = [streams EXCEPT ![f] = [Closed EXCEPT !.mode = Mode]]
    /\ IF call.op \in {"open", "create"}
       THEN /\ handles' = [handles EXCEPT ![call.h] = [f |-> f, no_close |-> FALSE, writable |-> call.op = "create", live |-> TRUE]]
            /\ Return(Ok)
       ELSE /\ call' = [call EXCEPT !.f = f, !.cap = CapMin,
                            !.stage = IF call.op = "read_file" THEN "read" ELSE "write"]
            /\ UNCHANGED <<handles, result>>
    /\ UNCHANGED <<calls, before>>

\* write_file and append_file.
WriteText(n, ok) ==
    /\ call.stage = "write"
    /\ n <= Len(call.text) /\ (ok \/ n < Len(call.text))
    /\ Flushes(call.f, call.text, n)
    /\ call' = [call EXCEPT !.stage = "close", !.ok = ok]
    /\ UNCHANGED <<handles, calls, result, before>>

\* Mutant: the result of fclose is not looked at.
ClosedUnchecked(ok) == call.ok
Succeeded(ok) == call.ok /\ ok

CloseWritten(n, ok) ==
    /\ call.stage = "close"
    /\ n <= Len(streams[call.f].held) /\ (ok => n = Len(streams[call.f].held))
    /\ disk' = Written(call.f, Prefix(streams[call.f].held, n))
    /\ streams' = [streams EXCEPT ![call.f] = Closed]
    /\ Return(IF Succeeded(ok) THEN Ok ELSE Failure)
    /\ UNCHANGED <<handles, calls, before>>

\* A turn of the loop of read_file or slurp: fread gives what fits, or what is left.
ReadTurn ==
    /\ call.stage = "read"
    /\ LET cap == IF Len(call.text) = call.cap THEN 2 * call.cap ELSE call.cap
           room == cap - Len(call.text)
           got == IF streams[call.f].eof THEN 0 ELSE Min2(room, Len(Left(call.f)))
       IN /\ call' = [call EXCEPT !.cap = cap, !.text = @ \o Prefix(Left(call.f), got),
                                  !.stage = IF got = 0 THEN "end" ELSE "read"]
          /\ streams' = [streams EXCEPT ![call.f].pos = @ + got, ![call.f].eof = got < room]
    /\ UNCHANGED <<disk, handles, calls, result, before>>

\* fread gives nothing, as the file cannot be read.
ReadError ==
    /\ call.stage = "read"
    /\ call' = [call EXCEPT !.stage = "end", !.ok = FALSE]
    /\ UNCHANGED <<disk, streams, handles, calls, result, before>>

\* Mutant: the file that could not be read stays open.
AfterReadLeak == IF call.ok THEN [streams EXCEPT ![call.f] = Closed] ELSE streams
AfterRead == [streams EXCEPT ![call.f] = Closed]

\* The end of read_file.
EndRead ==
    /\ call.stage = "end" /\ call.op = "read_file"
    /\ streams' = AfterRead
    /\ Return(IF call.ok THEN call.text ELSE Failure)
    /\ UNCHANGED <<disk, handles, calls, before>>

----------------------------------------------------------------------------
\* Handles.  A panic ends the program.

Panics == call' = [Idle EXCEPT !.stage = "panic"] /\ UNCHANGED <<disk, streams, handles, calls, result, before>>

StdinHandle(h) ==
    /\ call.stage = "idle"
    /\ handles' = [handles EXCEPT ![h] = [f |-> Stdin, no_close |-> TRUE, writable |-> FALSE, live |-> TRUE]]
    /\ UNCHANGED <<disk, streams, call, calls, result, before>>

\* guji_write: fwrite and fflush.
WriteHandle(n, ok) ==
    /\ call.stage = "check" /\ call.op = "write" /\ handles[call.h].writable
    /\ Flushes(handles[call.h].f, call.text, n)
    /\ IF ok THEN n = Len(call.text) /\ Return(Ok) ELSE call' = [Idle EXCEPT !.stage = "panic"] /\ UNCHANGED result
    /\ UNCHANGED <<handles, calls, before>>

NotWritable == call.stage = "check" /\ call.op = "write" /\ ~handles[call.h].writable /\ Panics

\* guji_slurp.
SlurpHandle ==
    /\ call.stage = "check" /\ call.op = "slurp" /\ ~handles[call.h].writable
    /\ call' = [call EXCEPT !.stage = "read", !.f = handles[call.h].f, !.cap = CapMin]
    /\ UNCHANGED <<disk, streams, handles, calls, result, before>>

NotReadable == call.stage = "check" /\ call.op = "slurp" /\ handles[call.h].writable /\ Panics

EndSlurp ==
    /\ call.stage = "end" /\ call.op = "slurp"
    /\ IF call.ok THEN Return(call.text) /\ UNCHANGED <<disk, streams, handles, calls, before>> ELSE Panics

\* guji_drop_reader, which ignores the result of fclose.
DropHandle(h) ==
    /\ call.stage = "idle" /\ handles[h].live
    /\ handles' = [handles EXCEPT ![h] = Dead]
    /\ streams' = IF handles[h].no_close THEN streams ELSE [streams EXCEPT ![handles[h].f] = Closed]
    /\ disk' = IF handles[h].writable THEN Written(handles[h].f, streams[handles[h].f].held) ELSE disk
    /\ UNCHANGED <<call, calls, result, before>>

FileNext ==
    \/ \E op \in {"write_file", "append_file"}, text \in Content : Begin(op, Idle.h, text)
    \/ Begin("read_file", Idle.h, <<>>)
    \/ \E op \in {"open", "create"}, h \in NewHandle : Begin(op, h, <<>>)
    \/ \E h \in Handle, text \in Content : handles[h].live /\ (Begin("write", h, text) \/ Begin("slurp", h, <<>>))
    \/ Refused
    \/ \E f \in NewFILE : OpenFile(f)
    \/ \E n \in 0 .. Len(call.text), ok \in BOOLEAN : WriteText(n, ok) \/ CloseWritten(n, ok) \/ WriteHandle(n, ok)
    \/ ReadTurn \/ ReadError \/ EndRead
    \/ SlurpHandle \/ EndSlurp \/ NotWritable \/ NotReadable
    \/ \E h \in NewHandle : StdinHandle(h)
    \/ \E h \in Handle : DropHandle(h)

----------------------------------------------------------------------------
\* Properties.

\* write_file and append_file return success only if the file has all of the text,
\* and append_file leaves what was there even if it fails; read_file returns all
\* that the file has; and what write has returned for is in the file before the
\* handle is dropped.
Reported ==
    LET old == IF before = Absent THEN <<>> ELSE before
        good == result.value # Failure
    IN call.stage = "idle" =>
        CASE result.op = "write_file" -> good => disk = result.text
          [] result.op = "append_file" ->
                /\ good => disk = old \o result.text
                /\ ~good => disk = before \/ \E n \in 0 .. Len(result.text) : disk = old \o Prefix(result.text, n)
          [] result.op = "read_file" -> good => result.value = disk /\ disk = before
          [] result.op = "write" -> \E n \in 0 .. Len(disk) : SubSeq(disk, n + 1, n + Len(result.text)) = result.text
          [] OTHER -> TRUE

\* Between calls the FILE*s that are open are those of the handles, each of one
\* handle, whatever failed; and standard input is never closed.
NoStreamLeft ==
    LET own == {h \in Handle : handles[h].live /\ ~handles[h].no_close}
    IN /\ streams[Stdin].mode = "read"
       /\ call.stage = "idle" =>
            /\ {f \in FILE : streams[f].mode # "closed"} = {handles[h].f : h \in own}
            /\ \A g, h \in own : handles[g].f = handles[h].f => g = h
=============================================================================
