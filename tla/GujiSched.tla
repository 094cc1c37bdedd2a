------------------------------ MODULE GujiSched ------------------------------
(***************************************************************************)
(* The scheduler accounting of guji's concurrency runtime                  *)
(* (src/selfhost/rt/guji_conc.c): the counters guarded by guji_sched_mu,   *)
(* the condition variable that parked selects wait on, and the             *)
(* confirmation windows of the deadlock detector.                          *)
(*                                                                         *)
(* Every critical section of guji_sched_mu is one step of the model, so    *)
(* the mutex itself is not a variable.                                     *)
(*                                                                         *)
(* guji_progress is a 64-bit counter that is only ever compared for        *)
(* equality with a value read earlier.  `current' is the set of tasks      *)
(* whose last reading still equals it: reading it puts the task in the     *)
(* set, an increment empties the set.  (The counter does not wrap back to  *)
(* an old value: that takes 2^64 increments.)                              *)
(*                                                                         *)
(* All confirmation windows have the same length, so they expire in the    *)
(* order they were opened: `armed' is the set of tasks inside a window and *)
(* older[t] the armed tasks whose window was opened before t's.            *)
(***************************************************************************)
EXTENDS Integers, FiniteSets

CONSTANTS Task,      \* every task the program may ever run
          Main       \* the task that runs main()

ASSUME SchedAssumption == Main \in Task /\ IsFiniteSet(Task)

VARIABLES live,      \* guji_live_tasks
          blocked,   \* guji_blocked_tasks
          current,   \* {t : the guji_progress t has read is still the value}
          exiting,   \* guji_main_exiting
          panicking, \* guji_deadlock_panicking
          schedCv,   \* tasks waiting on guji_sched_cv and not yet signalled
          armed,     \* tasks in a GUJI_DEADLOCK_CONFIRM_NS window
          older      \* older[t]: armed tasks whose window opened before t's

schedVars == <<live, blocked, current, exiting, panicking, schedCv, armed, older>>

SchedTypeOK ==
  /\ live \in Int
  /\ blocked \in Int
  /\ current \subseteq Task
  /\ exiting \in BOOLEAN
  /\ panicking \in BOOLEAN
  /\ schedCv \subseteq Task
  /\ armed \subseteq Task
  /\ older \in [Task -> SUBSET Task]

SchedInit(started) ==
  /\ live = Cardinality(started)
  /\ blocked = 0
  /\ current = {}
  /\ exiting = FALSE
  /\ panicking = FALSE
  /\ schedCv = {}
  /\ armed = {}
  /\ older = [t \in Task |-> {}]

-----------------------------------------------------------------------------
(* Windows.  OpenWindow(t) starts one; CloseWindows(S) ends those of S,     *)
(* because they expired or because a broadcast came first.                  *)

OpenWindow(t) ==
  /\ armed' = armed \cup {t}
  /\ older' = [older EXCEPT ![t] = armed]

CloseWindows(S) ==
  /\ armed' = armed \ S
  /\ older' = [t \in Task |-> IF t \in S THEN {} ELSE older[t] \ S]

\* The window of t is the next to expire.
Expires(t) == t \in armed /\ older[t] = {}

-----------------------------------------------------------------------------
(* The pieces of a step that touch the counters.                            *)

\* guji_progress++ with no broadcast: a wake, a spawn, a task exit.
ProgressTick == current' = {}

\* guji_progress_bump, in a step that also broadcasts to the tasks `others'
\* of a channel's condition variable.
ProgressBump(others) ==
  /\ ProgressTick
  /\ schedCv' = {}
  /\ CloseWindows(schedCv \cup others)

\* seen = guji_progress
ReadProgress(t) == current' = current \cup {t}

\* Faulty: forgets that the process is exiting.
AllBlockedEvenInExit(n) == n = live

\* "blocked == live", the candidate condition, when n tasks are blocked.
AllBlocked(n) == n = live /\ ~exiting

\* Faulty: does not look at the progress counter.
ConfirmedByCountOnly(t) == AllBlocked(blocked)

\* What a task that has waited out its window checks before it panics.
Confirmed(t) == AllBlocked(blocked) /\ t \in current

=============================================================================
