------------------------------- MODULE TaskPool -------------------------------
(***************************************************************************)
(* What the engine promises about its worker pool (engine/common/          *)
(* thread_pool.h), without threads, locks or condition variables: tasks    *)
(* are accepted into a log while the pool is open, start in the order of   *)
(* the log, finish once, and a drained pool has finished all of them.      *)
(***************************************************************************)
EXTENDS Naturals, Sequences, Functions

CONSTANTS Tasks

VARIABLES
  log,        \* the accepted tasks, in the order they were accepted
  started,    \* how many of them have started
  done,       \* the tasks that have finished
  open,       \* submissions are accepted
  drained     \* the pool was closed and everything accepted has finished

vars == <<log, started, done, open, drained>>

Init ==
  /\ log = <<>> /\ started = 0 /\ done = {}
  /\ open = TRUE /\ drained = FALSE

Accept(t) ==
  /\ open
  /\ t \notin Range(log)
  /\ log' = Append(log, t)
  /\ UNCHANGED <<started, done, open, drained>>

Start ==
  /\ started < Len(log)
  /\ started' = started + 1
  /\ UNCHANGED <<log, done, open, drained>>

Finish(t) ==
  /\ \E i \in 1..started : log[i] = t
  /\ t \notin done
  /\ done' = done \cup {t}
  /\ UNCHANGED <<log, started, open, drained>>

Close ==
  /\ open
  /\ open' = FALSE
  /\ UNCHANGED <<log, started, done, drained>>

Drain ==
  /\ ~open
  /\ done = Range(log)
  /\ drained' = TRUE
  /\ UNCHANGED <<log, started, done, open>>

Next ==
  \/ \E t \in Tasks : Accept(t) \/ Finish(t)
  \/ Start \/ Close \/ Drain

Spec == Init /\ [][Next]_vars
=============================================================================
