# A TLA+ model of guji

guji is a programming language whose compiler and interpreter are written in
guji (`src/selfhost/lexer.guji`). The compiler emits C, which is compiled
together with a runtime written in C (`src/selfhost/rt/`). This directory holds
TLA+ specifications of the parts of that system where a mistake is easy to make
and hard to test, TLC configurations that check them on small instances, and
TLAPS proofs of what matters most.

Line numbers below refer to `src/selfhost/rt/guji_conc.c` unless another file is
named.

## The system

| Component | Where | State | Operations | Hard because |
|---|---|---|---|---|
| Scheduler accounting, deadlock detector | 25–126, 508–545 | `guji_live_tasks`, `guji_blocked_tasks`, `guji_progress`, `guji_main_exiting`, `guji_deadlock_panicking`, `guji_sched_cv` | block-wait, select-wait, progress bump, panic | every task runs the check on its own, against a clock; a panic kills the program |
| Tasks | 128–229 | completed list, one pthread per task | spawn, exit, reap, exit of `main` | exit and join race; the exit can complete a deadlock |
| Channels | 231–501, 550–579 | mutex, condition variable, ring or handoff slot, `closed`, `recv_waiters`, handle count | new, retain, release, send, recv, try_send, try_recv, close, lines | rendezvous in several critical sections, shared slot, close in the middle |
| `select` | `lexer.guji` 42257–42700, 10729–11160 | the progress snapshot | poll each arm, else or park | polls without holding anything, parks on a counter |
| `hatch`, copy-on-send | `lexer.guji` 41880–42060, 50280–50860 | environment struct | deep copy, retain | reference counts are not atomic: nothing counted may be shared |
| Reference-counted heap | `runtime_prologue.c` 38–300, 500–585 | headers, kind-tagged storage | alloc, retain, release, drop, copy | ownership conventions spread over all generated code |
| Integers | `runtime_prologue.c` 596–680, 1354–1395 | – | add, sub, mul, div, mod, pow, neg, parse_int | overflow at the ends of the range |
| Text | `runtime_prologue.c` 310–419, 680–1060, Unicode tables 1968–10015 | – | decoding, repair, runes forth and back, split, lines, case, trim | malformed input, two decoders that must agree |
| Values | `runtime_prologue.c` 38–300, 421–580, 951–1290, 1814–1945 | counted objects, kind-tagged storage | drop, deep copy, equality, map order, display of lists, maps, matches, trees | one routine per kind, nested at will, spare slots |
| Files and handles | `runtime_prologue.c` 205–212, 1406–1516, 1722–1812 | `FILE*`, handles | read, write, append, open, create, slurp, drop | a C library that fails at any call, buffers |
| Processes | `runtime_prologue.c` 1517–1720 | pipes, child | `run` | pipes that fill, failed exec, concurrent calls |
| Regular expressions | `runtime_prologue.c` 10016–14050 | compiled program, backtracking stacks | parse, compile, match | captures, empty loops, limits |
| Grammars and trees (`bush`) | `runtime_prologue.c` 1886–1960, 14054– | memo table, tree | parse | – |
| Front end, evaluator, code generator | `lexer.guji` | token lists, environments | lex, parse, check, evaluate, emit | size (59911 lines) |
| Drivers, build and bootstrap | `compile_driver.guji`, `eval_driver.guji`, `selfhost/*.sh`, `bootstrap/` | files | build, verify seed, compare | – |
| Conformance harness | `conform/lib/` | child process groups | run, time out, compare | time-outs, process groups, pipes |

The generated program calls the runtime; tasks share nothing but channels.
`guji_chan_*` functions hold the channel's mutex and take the scheduler's mutex
inside it. Blocking goes through `guji_task_block_wait` (send, recv) or
`guji_select_wait` (select), which keep the counters that the deadlock detector
reads. A select is not a runtime function: the compiler emits a loop around
`guji_progress_snapshot`, `guji_chan_try_send`, `guji_chan_try_recv` and
`guji_select_wait`. A blocking or committed operation on a channel bumps
`guji_progress`, which is what a parked select watches.

What makes each component correct:

- detector: it never panics while the program can go on, and a dead program
  panics; the counters agree with the tasks.
- tasks: each thread is joined once; after `main` has returned nobody panics; a
  normal return leaves no thread behind.
- channels: FIFO, at most once, nothing lost or freed twice, Ok and
  `Err(Closed)` and None mean what the language says; no wakeup is lost.
- select: an arm that becomes ready is noticed; a committed send ends.
- heap and hatch: nothing counted is reachable from two tasks; no use after free.
- integers: the mathematical result, or a panic.
- text: what comes from outside is repaired byte by byte and nothing else is
  changed; forth and back agree; split and lines give the pieces they promise.
- values: a copy is equal and shares nothing; a drop frees each object once.
- files: success is reported only if the bytes are there; no stream is left open.
- processes: complete output, exact exit code, no deadlock on a full pipe.
- harness: a time-out really ends the run.
- regular expressions: the match that backtracking over the tree prefers, with
  its captures; a spliced value changes nothing of its host; every call returns.

## Modules

| Module | What it is |
|---|---|
| `GujiSched` | the counters guarded by `guji_sched_mu`, `guji_sched_cv`, confirmation windows; one operator per piece of code that touches them |
| `GujiChan` | the channel block `guji_chan_t` and what the channel functions do to it |
| `GujiConc` | EXTENDS both: tasks and their program counters, one action per path through a critical section, the environment (the program), time, properties |
| `ChanSpec` | the abstract channel: what §17.2 and §17.3 of `guji-spec.md` promise, without tasks, locks or rings |
| `ChanSpecProofs` | the properties of the abstract channel, proved |
| `GujiConcProofs` | type correctness, the handoff invariant and the absence of lost wakeups of `GujiConc`, the counters `guji_live_tasks`, `guji_blocked_tasks` and `recv_waiters`, the join records, the exit of the process, select and the deadlock detector, proved |
| `GujiPromiseProofs` | EXTENDS it: that `GujiConc` implements `ChanSpec`, and that every message is in one place, proved |
| `GujiHeap` | ownership: the C statements that the compiler emits for bindings, captures, send, recv and scope exit, over channels, Strs and function values with counted references |
| `GujiHeapProofs` | that these statements keep the counts right, proved |
| `GujiInt` | `int64_t` at any width, and the checked operations as operators |
| `GujiArith` | EXTENDS `GujiInt`: a call of one of them; `guji_pow` round by round |
| `GujiRange` | EXTENDS `GujiInt`: the loop over a range |
| `GujiParse` | EXTENDS `GujiInt`: `parse_int`, digit by digit |
| `GujiIntProofs` | addition, subtraction, negation, multiplication and the range loop, proved at every width |
| `GujiRun` | `run`: pipes, fork, exec, poll, wait, with several calls at once and inherited descriptors |
| `GujiRunProofs` | its outcome, and that it leaves nothing behind, proved |
| `GujiCapture` | the conformance harness's runner: process group, pipes, deadline, limit, SIGTERM and SIGKILL |
| `GujiCaptureProofs` | that its report is honest, proved |
| `GujiUtf8` | bytes from outside become a Str; its characters; runes forth and back |
| `GujiText` | split and lines |
| `GujiValue` | Strs, lists, maps, matches and trees on the counted heap: drop, copy, equality, order, display |
| `GujiFile` | files and handles over a disk and a C library that fail |
| `GujiFileProofs` | that what they report is so and no stream is left open, proved |
| `GujiUnicode` | the runes of the regex models and the tables of the runtime restricted to them |
| `GujiRegexSyntax` | EXTENDS it: the parser of patterns, to a tree |
| `GujiRegexCode` | EXTENDS it: the compiler, from a tree to instructions |
| `GujiRegexVM` | EXTENDS it: the backtracking machine, a turn of its loop at a time |
| `GujiSplice` | EXTENDS `GujiRegexCode`: values made of parts, and escaping |
| `GujiRegexMeaning` | EXTENDS both: what a tree matches, without a machine |
| `GujiRegex` | EXTENDS it: the calls match, replace and terminal, from the pattern to the answer |
| `RegexCalls`, `ValueCalls` | the requests and the values of a run |
| `MCConc`, `MCPromises`, `MCHeap`, `MCHeapCapture`, `MCInts`, `MCLibrary`, `MCAlternation` | small programs and constants for TLC |

`GujiConc` composes the scheduler, the channels, the tasks and the program into
one system. `MCLibrary` composes the sequential parts of the library in another
way: its variable `part` says which of them is called, and the others stand
still, as a call of one of them touches no other. `MCPromises` does the same for
the abstract channel and `run`.

### GujiConc

**State.** The fields of `guji_chan_t` and the scheduler's globals keep their
names (`mu`, `cv`, `buf`, `head`, `len`, `closed`, `handoff`, `recvWaiters`;
`live`, `blocked`, `exiting`, `panicking`). `cv[c]` and `schedCv` hold the tasks
that wait on the condition variable and have not been signalled: a broadcast
empties the set, and a task that is parked but not in it may leave its wait as
soon as it gets the mutex. `guji_progress` is only compared for equality with an
earlier reading, so the model keeps, instead of the number, the set `current` of
tasks whose reading is still up to date. `pc`, `op`, `arm`, `msg` and `cont` are
the call stack of a task: the operation, the arm of a select, the message it
sends and the loop around `guji_task_block_wait` to which it returns.

**Granularity.** A critical section of `guji_sched_mu` is one step. A critical
section of a channel mutex is one step if it contains at most one of those;
otherwise it is cut after each, and `mu[c]` stays taken in between. So
`RecvWait` (which bumps the counter) and `RecvBlock` (which counts the task as
blocked) are two steps with the mutex held, and between them a task that needs
another mutex, or none, may run.

| Code | Actions |
|---|---|
| `guji_task_block_wait` 92–126 | `BlockOn` (inside the caller's step), `WakeSignaled`, `Timeout`, `Confirm`, `Unblock`, `SpuriousWake` |
| `guji_chan_send` 321–372 | `SendWait`, `SendClosed`, `SendOffer`, `SendPut`, `OfferWait`, `OfferTaken`, `OfferReclaim` |
| `guji_chan_recv` 439–468 | `RecvTake`, `RecvNone`, `RecvWait`, `RecvBlock` |
| `guji_chan_close` 550–561 | `CloseOk`, `CloseAgain` |
| `guji_chan_try_send` 383–434 | `TrySendClosed`, `TrySendMiss`, `TrySendOffer` (then as a send), `TrySendPut` |
| `guji_chan_try_recv` 476–501 | `TryRecvTake`, `TryRecvNone`, `TryRecvMiss` |
| select loop, `guji_select_wait` 520–545 | `Snapshot`, `SelectElse`, `SelectWait`, `SelectWake`, `SelectTimeout` |
| tasks 139–229 | `SpawnReap`, `Join`, `SpawnCreate`, `Exit`, `ExitConfirm`, `MainExit`, `MainReap`, `EndProcess` |

**The program** is an environment, one of the set `Programs`, chosen in `Init`:
`p.start` are the tasks that run from the beginning, `p.may[t]` lists what task
`t` may call, on which channels, and `Call` picks any of it at any time; a task
may return at any time. `p.calls` (calls per task) and `MaxMsg` (messages in
all) are the only bounds of the model.

**Time.** All windows last 250 ms, so they expire in the order they were opened
(`armed`, `older`). The comment at line 31 states the assumption on which the
detector rests: a woken task is scheduled before a whole window has passed. The
constant `Prompt` turns it on. `owed[t]` are the tasks that had been woken but
had not yet left their wait when `t`'s window opened; with `Prompt`, `t`'s
window does not expire while one of them is still there. All runs set it.
Without it `PanicSound` is false, as the comment says.

**History variables** (`used`, `got`, `drops`, `verdict`, `drained`, `joined`)
record what the program sees and are read by no action.

### GujiHeap

A compiled program is a sequence of C statements that the compiler chooses by
construct: `code[t]` holds those that task `t` still has to execute, and an
operator (`Alias`, `RebindCode`, `Send`, `Capture`, `Hatch`, `LeaveScope`, ...)
gives what is emitted for a construct. `mem[o]` and `rc[o]` are the object and
its header; `local[t][x]` is the object whose reference the C local `x` owns.
The count of a channel is atomic (`guji_chan_retain`, `guji_chan_release`). The
count of a Str or of a closure's environment is plain, and `retain` and
`release` on it are a load and a store, with the other tasks in between: if two
tasks could reach one object, an update would be lost. `share` is the statement
that puts a captured channel or environment into a new task's frame: the channel
is retained and stored, the environment stored and then retained. Objects are
taken from the pools `Chan`, `Text` and `Closure`, which are disjoint and bound
what a program allocates.

### GujiInt, GujiArith, GujiRange, GujiParse

`GujiInt` takes the width as a constant, `IntMax`. C arithmetic wraps (the
compiler is run with `-fwrapv`), so `Wrap` reduces into the range, and each
operation decides from the wrapped result, as the code does, whether to panic
(the value `Panic`). `GujiRange` is the loop that the compiler emits for `for
$i in a .. b`, which has to end at the greatest integer without incrementing
past it. `GujiParse` reads a Str as the C code does: up to the first U+0000,
trimmed, with a sign, digit by digit with the test for overflow before each.

### GujiRun

`fds[p]` are the pipe ends that process `p` has open, `cloexec[p]` those of them
it closes when it executes a program. A fork copies all of the parent's, also
those that another task's call has just made: that is why end-of-file is a fact
about all processes (`HungUp`), and why a call can see the end of a stream late.
A program writes what it wants to write, closes streams early or not, exits, or
is killed.

| Code (`runtime_prologue.c`) | Actions |
|---|---|
| checks, three `pipe`, `fcntl` 1557–1579 | `Call`, `MakePipe` (and `Abandon`), `Protect` |
| `fork` 1595–1602, child 1603–1618 | `Fork`, `Wire`, `Exec` |
| parent 1619–1636 | `CloseWriteEnds`, `ReadStatus`, `ReapFailed` |
| poll loop 1646–1698 | `Poll`, `Read` |
| `waitpid`, status 1700–1720 | `Wait`, `ExitCode` |

### GujiCapture

The group is the child and a process it may fork; each of them writes, reads,
closes streams, exits and ignores SIGTERM at will. A step of the harness is one
system call with the code up to the next; between SIGTERM and SIGKILL the group
goes on. What the group wrote is counted in `said`, what is in the pipes in
`bytes`, what was captured in `buf`.

| Code (`Runner.pm`) | Actions |
|---|---|
| `_spawn`, parent 243–275, 295–318 | `StartChild`, `AwaitExec` |
| `_spawn`, child 276–293 | `JoinGroup`, `Execute` |
| `_capture` 131–143 | `Configure` |
| loop 169–224 | `Top`, `Select`, `Serve` and `Served`, `Feed` |
| `_terminate_group` 327–332 | `Terminate` in the calling step, `KillGroup` |
| 226–241 | `WaitForPid` |

### GujiUtf8, GujiText

A Str is a sequence of bytes in `GujiUtf8`, where the encoding is the subject,
and of characters in `GujiText`, where it is not. `Repair` is one turn of the
loop of `guji_str_from_external`: the scalar at the position if
`guji_utf8_valid_width` finds one (`ValidWidth`), else U+FFFD for one byte. The
Str is then taken apart by a function that trusts the first byte (`Character`).
The properties refer to the arithmetic of UTF-8 instead (`Encode`, `Decode`),
and compare with it the second decoder, that of the regular expressions
(`ReadRune`), and the functions that walk back.

### GujiValue

An object is `[kind, rc, immortal, slots]` at an address; storage may have spare
slots, a Str may be an immortal literal. A call makes two values from terms, then
compares them, or copies one, drops the original, and drops the copy. `Dropped`,
`Copied`, `SlotEqual`, `MapOrder` and `Shown` go by kind, as the C functions do.

### GujiFile

One file on a disk, the `FILE*`s and the handles that a program may have. Any
part of what a `FILE*` holds may have reached the disk before it is flushed, and
every call of the library (`fopen`, `fwrite`, `fflush`, `fread`, `fclose`) may
fail: `n` and `ok` in `WriteText`, `CloseWritten` and `WriteHandle` are how far it
came and what it said. A panic ends the program, and the model.

### The regular expressions

A rune is a string, a subject a sequence of runes, a position the number of runes
before it; as a Str is valid UTF-8 (`TextRepaired`) and the machine moves by
runes (`RunesAgree`), positions inside of a rune do not occur.

| Code (`runtime_prologue.c`) | Definitions |
|---|---|
| `guji_rec_parse_*` 10789–12580 | the operators of `GujiRegexSyntax`: from a parser state to a state and a node |
| `guji_rec_compile_*` 12580–13047 | `Compile`, one operator per kind of node |
| the machine 10356–10763 | `Turn`: pops, runs or gives up; `Cut` for atomic groups, a nested run for a lookaround |
| `guji_regex_value_append_demoted`, `guji_regex_value_from_parts`, `guji_regex_escape_literal` 13492–13807, 13851 | `GujiSplice`: hidden names, renumbered references, `EscapeLiteral` |
| match, replace, terminal 13380–14066 | `CompileCall`, `NextStart`, `ReturnMatch`, `ReplaceOne`, `ReturnReplaced`, `ReturnTerminal` |

`GujiRegexMeaning` defines `Ways`, the sequence of ways in which a tree can match
from a position on, preferred first, by recursion over the tree. It knows neither
instructions nor a stack nor the set of visited states, and is what `FirstMatch`
and `ReplacedAll` compare the machine with.

These modules and `GujiValue` use RECURSIVE operators (a parser of nested groups,
values nested at will), so there are no theorems about them.

## Runs

| Run | Question | Bounds |
|---|---|---|
| `promises` | does the abstract channel have the properties of §17.3? Does `run` report what happened, and leave nothing? | a rendezvous and a 2-slot channel, 3 messages; 2 concurrent calls of `run`, one program writes 1 and 2 bytes, the other none, pipes hold 1, any system call may fail |
| `channels` | send, recv, close, on an unbuffered channel or on a ring | 3 tasks × 2 calls, 3 messages, ring of 2 slots (fills, wraps, empties), spurious wakeups |
| `scheduler` | select, birth, exit and reaping of tasks, the detector | 4 programs: a select on one channel, one over two channels, a family of tasks that spawn each other, two reapers; up to 5 tasks, 1 to 3 calls, 2 messages |
| `live` | a dead program with one window panics; a committed select send ends | 3 tasks × 2 calls, one of them selects |
| `detector` (violated) | does every dead program panic? | 2 tasks |
| `pair` (violated) | is nothing left to do when the detector panics? | 2 tasks, 1 call each |
| `heap` | is nothing freed too early, shared, or leaked? Does the harness report what happened, and come back? | 2 tasks with 4 and 2 constructs, 2 names, 2 channels, 2 Strs, 1 closure; a program of 2 processes that writes 3 bytes and 1 where 2 are the limit and the capacity of a pipe, an input of 1 byte, any call may fail |
| `heap_rebind` (violated) | may a program say `x = x` of a channel? | 2 tasks, 1 channel |
| `heap_closure` (violated) | may a hatch capture a function value? | 2 tasks, 1 closure |
| `library` | does one call of the library give what it should? | integers of 5 bits, Strs of up to 5 characters; about 5000 regex requests (below); bytes at the borders of each form of UTF-8, up to 4; texts of up to 6 letters; 4300 values and pairs of values, nested twice; 3 calls on one file with 2 `FILE*`s and 2 handles, each failing anywhere |
| `int_sum` (violated) | is every sum exact, or a panic? | the same integers |
| `alternation` (violated) | does an alternation try all of its arms? | up to 4 arms of a letter, subjects of 1 or 2 |

Two tasks suffice for each race between two parties, the third is there to
disturb them (a second sender on the handoff slot, a task that closes, a task
that exits). Two calls per task let a task come back to a channel after its
first operation; two messages tell order and loss apart, and the third makes the
ring wrap. Five bits are the least width at which `parse_int` sees both sides of
its test (15 and 16) and a power squares twice; the operations themselves do not
depend on the width, and the theorems below say so for most of them. Two bytes
fill a pipe of one, and the theorems about `run` hold for any capacity and any
programs. The regex requests are: every tree of a set closed under one more
operator (a repetition of any bounds, greedy or not, of a group, capture or
atomic group of a letter, a sequence, an alternative of two arms, an empty one or
an inner repetition; lookarounds; anchors), before, after and beside a letter, matched with
four subjects; braces that begin no bounds, and bounds that are equal, out of order
or of nothing; a list of patterns that brings in every other construct and every
error of the parser; templates and patterns with empty, adjacent and final
matches to replace; and values with captures, references and flags spliced into
hosts with their own. What is left out are longer subjects: a machine that is
wrong about the order of ways is wrong on two letters already, as the mutants are. In `heap` the configuration turns the deadlock check off: a
task blocked on a channel for ever is panicked by the detector, which is
`GujiConc`'s business. In all other runs the model only stops where the code
has ended.

**Properties.** `OneOffer` (the handoff slot belongs to one sender from offer to
release), `OnePlace` (every message handed to the runtime is in one place:
with its sender, in a channel, with a receiver, dropped once), `NoLostWakeup`
and `NoLostSelect` (nobody sleeps although what it waits for has happened),
`WaitersCounted`, `Accounting`, `Watched` (a dead program is always inside some
window), `Reaped`, `PanicSound` (the program is dead when the detector panics),
`ExitStands` (no panic after main has returned), `ChannelPromise` (refinement of
`ChanSpec`), `LoneWindowPanics` and `SelectSendEnds` (liveness: a select that has
made an offer returns, although others wake it and it waits again, and no panic
takes it down); `NoUseAfterFree`,
`TaskLocal` (only channels are shared, which is why plain counts suffice) and
`NothingLeaks` of the heap; `Exact`, `EveryOnce` (a range loop visits each element
once) and `ParsedRight` of the integers;
`Outcome`, `NothingLeft` (neither descriptor nor zombie) and `EveryRunReturns`
(liveness) of `run`; `ParsedBack` (the parser inverts the printer of trees, takes a brace that
begins no bounds for a letter, and refuses bounds that are not in order),
`FirstMatch` (the match, its extent and its captures are the meaning's),
`HostCaptures` (a splice leaves the host's captures their numbers and names),
`ReplacedAll` and `EveryCallReturns` (liveness) of the regular expressions;
`TextRepaired`, `RunesAgree` and `PiecesMeant` of text; `CopyStands` (a copy is
equal to the original and lives on without it), `NothingKept` (drops free
everything, each object once) and `EqualAsMeant` (equality and display go by
value, whatever the order of insertion) of values; `Reported` (success means that
the bytes are in the file) and `NoStreamLeft` of files; `ReportHonest` (the verdict on
a fixture is what happened to it) and `CaptureEnds` (liveness) of the harness.
`Once` and `AnswersStand` are those of the abstract channel.

**What the violated runs show.**

- `detector`: when two tasks are inside overlapping windows, the one that
  expires first finds that the counter has moved or goes back to its loop, and
  its leaving the wait is itself "progress" (line 124), which refutes the other
  window; then it blocks again and opens a new one. The comment at 36 promises a
  panic after one window. The counterexample repeats this for ever. In practice
  the windows drift and the panic comes late rather than never.
- `pair`: `guji_chan_try_send` requires a *blocking* receiver (393), so a select
  that sends and a select that receives on one unbuffered channel never meet,
  and the detector panics. `guji-spec.md` §17.6 reserves that panic for programs
  in which "no channel operation can make progress".

- `heap_rebind`: rebinding a channel binding releases the old value before it
  retains the new one (`lexer.guji` 47776), so `$x = $x` frees a channel with one
  handle and then uses it. Strs and function values are retained first.
- `heap_closure`: a hatch captures a function value by retaining its environment
  (`lexer.guji` 50698), so two tasks count one object without atomic operations.
  A function value that is *sent* is copied.
- `int_sum`: `guji_add` recognises a negative overflow by a positive result, and
  the sum of the two least integers wraps to exactly 0
  (`runtime_prologue.c` 598). It is the only pair, as `Exact` and the theorem
  `AddExact` show.

- `alternation`: the jump that should lead from one split to the next leads past
  it, into the next arm (`runtime_prologue.c` 12770), so `a|b|c` never tries `c`.
  All other requests use alternations of two arms.

More deviations have no run of their own. The properties leave them out by name,
or no request contains them:

- `parse_int` rejects the least integer, because it accumulates a positive
  number (1377): `IsLeast` in `ParsedRight`.
- `parse_int` takes the end of its argument from `strlen` (1357), so it accepts a
  Str that has U+0000 after an integer: `HasNul` in `ParsedRight`. Trim and case
  end at U+0000 as well, and so does the literal of a grammar.
- Where an unbounded repetition can match nothing, the set of visited states can
  cut off the preferred way: `(a*?)*` takes one `a` of `aa`. `Plain` in
  `FirstMatch` leaves such trees their start only.
- The width of a lookbehind counts lookarounds inside of it, so
  `(?<=a(?=b))b` does not match in `xab`.
- A value made of parts wraps each spliced pattern in a plain group, so flags of
  the host apply inside, against `guji-spec.md` 985; a spliced `(?x)` pattern
  that ends in a comment swallows the parenthesis that should close it; the
  scanner that renumbers captures leaves a class at its first `]`.
- A text with U+E000 and following is taken for the marker of a splice; a
  pattern with more than 63 captures never matches; escaping leaves blanks and
  `#` alone, which `(?x)` drops.
- A list of trees in which a match stands cannot be copied: `guji_copy_value`
  panics.
- The write ends of `run`'s pipes for output are not close-on-exec (1565, 1595):
  the program of a concurrent call inherits them, and a call whose own program
  has ended returns only when that one has too. `EveryRunReturns` holds because
  its fairness lets every program end.
- The deadline of the harness ends with the streams (`Runner.pm` 169, 229): a
  fixture that closes its streams and goes on is waited for without a time-out,
  although `--timeout` is a "Per-process timeout" (`Config.pm` 141). It is the
  exception in `CaptureEnds`.

**Fairness.** In `GujiConc`, `WF(Runtime(t))`: the kernel runs a thread that can
run. `WF(Elapse(t))`: a timed wait times out. There is none on what the program
does: it may stop calling. The runs about liveness have no spurious wakeups: one that
comes each time the other task could lock the channel keeps that task out for ever
under weak fairness, and no kernel does that. In `GujiRun`, weak fairness of the caller, of the
child, that is of its way to the exec and then of the program: it writes what it has
to write and exits if nobody keeps it from writing. In `GujiRegex`, the call goes on.
In `GujiCapture`, the harness goes on, the child gets to its program, and the
deadline passes; of what the program does nothing is assumed.

## Proofs

All theorems hold for every value of the constants that satisfies the named
assumptions (`SchedAssumption`, `ChanAssumption`, `ProgramAssumption`,
`ChanSpecAssumption`, `RunAssumption`, `CaptureAssumption`, `HeapAssumption`,
`FileAssumption`, and those of the integers), so
for any number of tasks, channels, messages and any capacities and programs.
`NoFalseAlarm` and the theorems on the heap have hypotheses of their own. Every
safety property that the runs check of `GujiConc`, `ChanSpec`, `GujiHeap`,
`GujiFile`, `GujiRange`, `GujiRun` and `GujiCapture` is proved; TLC checked the parts
of each inductive invariant first.

- `ChanSpecProofs`: `Inv`, the conjunction of `TypeOK`, `Once` and the parts
  `OkIsKept`, `ErrIsFinal` and `NoneIsFinal` of `AnswersStand`, is inductive; the
  theorems `ReceivedOnce` and `AnswersKept` follow.
- `GujiConcProofs`:
  - `Typing` (`Spec => []TypeOK`). `TypeOK` alone is not inductive: that an
    index into `buf` is right depends on where a task is. `Typed` adds `Control`
    (a task at a label executes an operation to which the label belongs, with an
    arm that exists and a message that is one) and `Spawners` (the task to be
    spawned is unborn).
  - `HandoffOwned` (`Spec => []OneOffer`), with the strengthening `Slot` =
    `OneOffer` and that a buffered channel never has a handoff.
  - `WakeupsReach` (`Spec => []NoLostWakeup`), with `LockedToWait`: a task that
    is between `RecvWait` and `RecvBlock` holds the mutex, so nobody changes the
    channel before it is on the condition variable.
  - For the counters, `Form` reduces the steps of `GujiConc` to ten effects on
    them (a task parks, resumes, arrives, leaves, ..., or none), and `CountOne` says
    how a set that changes in one element changes its size.
  - `CountersRight` (`Spec => []Accounting`). Inductive only with `Outside`: a
    task that runs the program's own code, or has left it, is in no operation. A
    call could otherwise take a task out of a wait uncounted.
  - `WaitersRight` (`Spec => []WaitersCounted`), with the same `Form`.
  - `EveryThreadJoined` (`Spec => []Reaped`), with `Records`: the records of
    completed tasks are in exactly one of `completed`, a reaper's `claimed` and
    `joined`, and they are those of the tasks that finished; only main is past its
    body with records in hand, and only when nobody else lives.
  - `ExitFinal` (`Spec => ExitStands`), an action property: `panicking` is set in
    three places only (`PanicOnly`), and each has compared the counters first.
  - `SelectsWoken` (`Spec => []NoLostSelect`), with `Attentive`: `Sleeping` says
    where a task on a condition variable is; `Owned`, that a sender back at its
    offer has the channel's mutex; `SelectsRight`, that while `guji_progress`
    has not moved since its snapshot every arm a select has polled would still
    miss, and that one asleep on `guji_sched_cv` has missed nothing but what will be
    announced again. The one change that is not announced is a sender that frees
    the handoff slot; `TakenHeld` says that it announced it when it took the mutex.
  - `DeadWatched` (`Spec => []Watched`), with `OnePanics` (a panic that has begun
    is carried out by somebody) and `Vigilant`: when everybody is blocked, there
    is a window that can still confirm it, or a task that has been woken or is past
    its window. Each task that blocks or exits last opens one; the proof is that
    nobody who leaves a window leaves the check to those who sleep.
  - `NoFalseAlarm` (`Prompt` implies `Spec => []PanicSound`): whoever panics is in
    a dead program. Hypothesis and comment agree (`guji_conc.c` 31): a task that has
    been woken runs before a whole window goes by; all runs of `GujiConc` assume it too. Without
    it the detector can be wrong, and the code says so. `Settled` follows from
    the absence of lost wakeups; `Frozen` carries it through a window: while
    `guji_progress` stands, everybody is blocked, and only tasks that had been woken
    before the window opened (`owed`, `OwedWoken`) have anything to find.
    `NothingMoves` and `FrozenStep` show that a step that would break this
    moves `guji_progress`, and `Prompt` that `owed` is empty when the window ends.
- `GujiPromiseProofs`.
  - `KeepsPromise` (`Spec => ChannelPromise`): `GujiConc` refines `ChanSpec`.
    The ring of slots, read from `head` for `len` slots, is the queue of the
    abstract channel (`RingRead`); an unbuffered channel's queue is the value on
    offer. Each action maps to an action of `ChanSpec` or to a stutter. That the
    abstract step is enabled needs `Messages`: a message that a task is about to
    send has been seen nowhere (`Unsent`), no two tasks send the same one
    (`SendersOf`), and one on offer is undecided and, once taken, with a receiver
    (`Offers`). The abstract invariant `Inv` is used too, which every
    step keeps because it is a step of `ChanSpec`.
  - `EveryMessageOnce` (`Spec => []OnePlace`), with `Handed`: a message has been
    handed to the runtime exactly if it is still held by its sender or has been
    seen by the abstract channel. `Once` of `ChanSpec` does the rest.

- `GujiHeapProofs`, from `HeapAssumption` (the pools and sets of names are finite
  and disjoint) and the hypotheses `~SelfRebind` and `~FnCapture`, which exclude
  the two constructs that the runs `heap_rebind` and `heap_closure` show to be
  wrong: `HeapUse` (`Spec => []NoUseAfterFree`), `HeapLocal` (`Spec =>
  []TaskLocal`) and `HeapLeaks` (`Spec => []NothingLeaks`), for any number of
  tasks, bindings, objects and constructs. All three follow from `HeapBooks`
  (`Spec => []HeapInv`), and none is inductive: that a count is right says nothing
  unless what is emitted and not executed yet fits it.
  - `Placed` says where a statement may stand and whose locals it may write: those
    of its own task, or of one that is not born yet and that only this task spawns.
    `Supported`: what a statement takes a reference to is bound to a variable that
    no statement before it gives up. `Aimed`: a local is empty, or emptied before,
    when it is written, and bound when it is released. `Stored` and `Passing`: a
    reference that is taken is stored later, and one in a temporary is taken from
    it. `Tidy`: temporaries are bound within their construct only, and a task that
    has not begun or has ended owns nothing.
  - `Counted` is the heart: the count of a live object is the number of its owners,
    which are locals, queues, tasks that have taken a reference and not stored it,
    and tasks between the two halves of a `release`; it is zero only if one task is
    about to free the object; and what is not live has no owner. `Halved`: between
    the two halves of a plain count, what was loaded is still the count. `Queued`: a
    message has one owner. `Apart`: what is no channel belongs to one task, which is
    why `Halved` is kept.
  - `StatementStep` goes through the thirteen statements, `ConstructStep` through
    what is emitted. `EmitStep` says once that code that `Fits` the state keeps the
    invariant when it is emitted.

- `GujiFileProofs`, from `FileAssumption` (a Str is a sequence of numbers, standard
  input is no file, there is a handle, a buffer has room for a byte): `FileStreams`
  (`FileSpec => []NoStreamLeft`) and `FileReports` (`FileSpec => []Reported`), for any
  texts, files, handles and sizes of buffers. Both speak of the moments between
  calls only; the invariants say what leads there.
  - `FilesInv`: `Staged`, which call is at which stage, and `Attached`: every open
    stream belongs to exactly one live handle, or to the call while it has one of
    its own. Without "exactly one" the drop of a handle could close the stream of
    another.
  - `Flushed`: bytes wait in a buffer only while a call closes its stream, so that a
    drop or a second handle never finds any. `UnderWay`: between the write and the
    close of `write_file` and `append_file` the file holds what it had (or nothing)
    and the first bytes of the text, and the buffer holds the rest (`PrefixSplit`);
    a reading loop has collected exactly the bytes before the position of its
    stream, and all of them once it has seen the end (`TurnFacts`).
  - `WrittenEnd` and `WrittenThere` say what a write does to a file, at its end and
    anywhere in it.

- `GujiIntProofs`, from `WidthAssumption` (`IntMax` is positive) and
  `PanicAssumption`, so for 64 bits in particular:
  - `AddExact` (but for the sum of the two least integers), `SubExact`,
    `NegExact`: a wrapped sum is off by at most one modulus (`WrapOnce`), and the
    sign tells.
  - `MulExact`: the code divides the wrapped product by one factor and compares.
    A wrapped product differs from the exact one by a multiple of the modulus
    (`WrapMultiple`), a quotient that gives back the other factor leaves a
    remainder smaller than the divisor (`QuotRemainder`), and a non-zero multiple
    of the modulus is larger than that (`SmallMultiple`).
  - `RangeLoop` (`RangeSpec => []EveryOnce`), with the loop invariant `LoopInv`:
    what has been seen is the ascending sequence up to the counter, and the
    counter is at most the bound, so that its increment is exact by `AddExact`.

- `GujiRunProofs`, from `RunAssumption` (pipes hold something, a read reads
  something): `EveryOutcome` (`RunSpec => []Outcome`) and `EveryCallTidy`
  (`RunSpec => []NothingLeft`), for any number of concurrent calls. Neither is
  inductive. `Inv` says of each call what is known at each of its places: `Tidy`,
  which pipe ends guji holds and whether there is a child; `Told`, that a child
  which has not yet run its program holds the write end of `exec`, so that a
  hang-up there means the program runs; `Counted`, that what was written is
  either read or in the pipe, and that a stream taken for ended has neither bytes
  nor a writer in any process. `Bystander` shows that a step of one call keeps
  all that of the others: a fork copies descriptors, but only those that were
  open (`Descriptors`), so what has hung up stays so (`HungUpStays`).

- `GujiCaptureProofs`, from `CaptureAssumption` (a pipe and the limit have room
  for a byte): `HonestReport` (`CaptureSpec => []ReportHonest`), for any limit,
  input, capacity and program. `ReportHonest` speaks of the end only; `CaptureInv`
  says what leads there: `Family`, who is alive at which stage; `Flowing`, that
  what a stream's writers wrote is captured or in the pipe unless the limit was
  exceeded, that `select` reported nothing that has become untrue since, and that a
  stream taken for ended has no writer and will have none; `Verdicts`, which
  reasons for cutting short exclude each other at which stage, and that one has
  ended the group unless SIGKILL is still to come; `Reporting`, that a report is
  of the present state of the capture. `Dying` and `Terminated` say once what
  the end of processes changes, `Working` what the program does.

Only model-checked: all of the liveness (TLAPS does not handle `ENABLED`); `Div`,
`Mod`, `guji_pow` and `parse_int`, whose meaning is a recursion over data; text;
and the modules with recursive operators (values, regular expressions).

## Not modelled

- Failing `malloc`, `pthread_create`, `pthread_join`: they panic.
- 64-bit wrap-round of `guji_progress`.
- In `GujiHeap`: lists, maps, classes, enums and carriers, which follow the rules
  of their fields (their copies and drops are in `GujiValue`), and borrowed
  bindings. In `GujiRun`: a `poll` or `read` that fails, which the code takes for
  the end of the stream, and the buffers.
- In `GujiValue`: closures (in `GujiHeap`) and the boxes of classes and enums,
  whose routines the compiler generates; Floats.
- In `GujiText`: case, trim, prefixes, concatenation: a loop over bytes each.
- In `GujiFile`: stdout and stderr, and two handles on one path.
- 32-bit wrap-round of the bounds of a counted quantifier (11048).
- Of the Unicode tables, only the entries of the runes in `GujiUnicode`; of the
  named classes, those that the requests use.
- Grammars: the productions are functions that the compiler emits for each
  grammar. Their terminals (a match at a position) are in `GujiRegex`, the trees
  they build in `GujiValue`.
- The front end (parsing, type checking, emission): 59911 lines of pure
  functions, tested by comparing engines, not by state exploration.
- Of the conformance harness: reading, comparing and reporting fixtures, which
  is text processing; a second `waitpid` for the child, and a failing read of the
  pipe that tells of the exec.
- Build scripts and bootstrap: straight-line shell.

## Plan

1. Heap objects with fields: lists and carriers in `GujiHeap`.
2. Grammars: the memo table and the emitted productions for a small grammar.
3. Proofs: that `ValidWidth` finds exactly the encodings of UTF-8.
