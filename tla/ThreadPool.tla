------------------------------ MODULE ThreadPool ------------------------------
(***************************************************************************)
(* The engine's worker pool, engine/common/thread_pool.h.                  *)
(*                                                                         *)
(* Every critical section on m_QueueMutex is one action; what the code     *)
(* does after unlocking (notify_one, notify_all, join) is an action of its *)
(* own, so a notification can be overtaken by any other thread.  A task is *)
(* a name.  Its body may enqueue sub-tasks and then wait for their futures *)
(* on the worker it runs on, which is what the model importer does from    *)
(* inside a pool task (assimp_importer.cpp, animation_sampler.cpp).        *)
(***************************************************************************)
EXTENDS Naturals, Sequences, FiniteSets, Functions

CONSTANTS
  Workers,    \* the threads created by the constructor
  Callers,    \* every other thread that uses the pool (main thread, ...)
  Tasks,      \* names of tasks, each submitted at most once
  Roots,      \* the tasks submitted by Callers
  Children,   \* Children[t]: the sub-tasks the body of t enqueues and joins
  NoTask      \* "this worker holds no task"

\* The application creates hardware_concurrency() - 1 workers, and at least one.
ASSUME PoolAssumption ==
  /\ IsFiniteSet(Workers) /\ Workers # {} /\ IsFiniteSet(Callers)
  /\ Workers \cap Callers = {}
  /\ Roots \subseteq Tasks
  /\ Children \in [Tasks -> SUBSET (Tasks \ Roots)]
  /\ NoTask \notin Tasks

VARIABLES
  queue,      \* m_Tasks
  stop,       \* m_Stop
  active,     \* m_ActiveTasks
  pc,         \* where each thread is
  held,       \* the local variable `task` of each worker
  left,       \* sub-tasks the body of a task has still to enqueue
  finished,   \* tasks whose body returned or threw: their future is ready
  joined,     \* Stop() joined the workers and cleared m_Workers
  accepted,   \* history: the tasks pushed on m_Tasks, in order
  taken       \* history: the tasks popped from m_Tasks, in order

vars == <<queue, stop, active, pc, held, left, finished, joined,
          accepted, taken>>

Threads == Workers \cup Callers

WorkerPCs == {"ready", "blocked", "run", "notify", "done", "exited"}
CallerPCs == {"idle", "notify", "checkIdle", "waitIdle", "notifyAll", "join"}

Init ==
  /\ queue = <<>> /\ accepted = <<>> /\ taken = <<>>
  /\ stop = FALSE /\ joined = FALSE
  /\ active = 0
  /\ pc = [x \in Threads |-> IF x \in Workers THEN "ready" ELSE "idle"]
  /\ held = [w \in Workers |-> NoTask]
  /\ left = Children
  /\ finished = {}

-----------------------------------------------------------------------------
(* Submitting: Enqueue and QueueTask share their control flow.             *)

\* Slip: the push is not followed by a notification.
Push_NoNotify(x, t) ==
  /\ ~stop
  /\ queue' = Append(queue, t)
  /\ accepted' = Append(accepted, t)
  /\ pc' = pc

\* Slip: m_Stop is not tested before the push.
Push_Unchecked(x, t) ==
  /\ queue' = Append(queue, t)
  /\ accepted' = Append(accepted, t)
  /\ pc' = [pc EXCEPT ![x] = "notify"]

Push(x, t) ==
  /\ ~stop
  /\ queue' = Append(queue, t)
  /\ accepted' = Append(accepted, t)
  /\ pc' = [pc EXCEPT ![x] = "notify"]

\* A caller submits a task.  On a stopped pool the call throws and changes
\* nothing, so that case is a stuttering step.
QueueTask(c, t) ==
  /\ pc[c] = "idle"
  /\ t \in Roots \ Range(accepted)
  /\ Push(c, t)
  /\ UNCHANGED <<stop, active, held, left, finished, joined, taken>>

\* m_Condition.notify_one(), after the lock was released.
NotifyOne(x) ==
  LET resumed == [pc EXCEPT ![x] = IF x \in Workers THEN "run" ELSE "idle"]
      blocked == {w \in Workers : pc[w] = "blocked"}
  IN /\ pc[x] = "notify"
     /\ \/ blocked = {} /\ pc' = resumed
        \/ \E w \in blocked : pc' = [resumed EXCEPT ![w] = "ready"]
     /\ UNCHANGED <<queue, stop, active, held, left, finished,
                    joined, accepted, taken>>

-----------------------------------------------------------------------------
(* The worker loop.                                                        *)

\* The predicate of m_Condition.wait is false: release the lock and block.
Sleep(w) ==
  /\ pc[w] = "ready" /\ ~stop /\ queue = <<>>
  /\ pc' = [pc EXCEPT ![w] = "blocked"]
  /\ UNCHANGED <<queue, stop, active, held, left, finished, joined,
                 accepted, taken>>

\* Slip: the worker leaves as soon as m_Stop is set, whatever is queued.
Exit_Eager(w) ==
  /\ pc[w] = "ready" /\ stop
  /\ pc' = [pc EXCEPT ![w] = "exited"]
  /\ UNCHANGED <<queue, stop, active, held, left, finished, joined,
                 accepted, taken>>

\* m_Stop and nothing left to do: the thread function returns.
Exit(w) ==
  /\ pc[w] = "ready" /\ stop /\ queue = <<>>
  /\ pc' = [pc EXCEPT ![w] = "exited"]
  /\ UNCHANGED <<queue, stop, active, held, left, finished, joined,
                 accepted, taken>>

\* Slip: the front task is copied and the pop is forgotten.
Take_NoPop(w) ==
  /\ pc[w] = "ready" /\ queue # <<>>
  /\ held' = [held EXCEPT ![w] = Head(queue)]
  /\ taken' = Append(taken, Head(queue))
  /\ active' = active + 1
  /\ pc' = [pc EXCEPT ![w] = "run"]
  /\ UNCHANGED <<queue, stop, left, finished, joined, accepted>>

\* Pop the front task and count it as active, in one critical section.
Take(w) ==
  /\ pc[w] = "ready" /\ queue # <<>>
  /\ held' = [held EXCEPT ![w] = Head(queue)]
  /\ taken' = Append(taken, Head(queue))
  /\ queue' = Tail(queue)
  /\ active' = active + 1
  /\ pc' = [pc EXCEPT ![w] = "run"]
  /\ UNCHANGED <<stop, left, finished, joined, accepted>>

\* The body enqueues its next sub-task.
SubmitChild(w) ==
  /\ pc[w] = "run"
  /\ \E t \in left[held[w]] \ Range(accepted) :
       /\ Push(w, t)
       /\ left' = [left EXCEPT ![held[w]] = @ \ {t}]
  /\ UNCHANGED <<stop, active, held, finished, joined, taken>>

EndBody(w) ==
  /\ finished' = finished \cup {held[w]}
  /\ pc' = [pc EXCEPT ![w] = "done"]
  /\ UNCHANGED <<queue, stop, active, held, left, joined, accepted, taken>>

\* The body has enqueued every sub-task and ft.wait() returned for each: the
\* worker was parked in the body until they had all finished.
FinishBody(w) ==
  /\ pc[w] = "run"
  /\ left[held[w]] = {}
  /\ Children[held[w]] \subseteq finished
  /\ EndBody(w)

\* Slip: the handler of the exception counts the task out, as the loop then does.
AbortBody_Decrement(w) ==
  /\ pc[w] = "run" /\ stop
  /\ left[held[w]] # {}
  /\ finished' = finished \cup {held[w]}
  /\ active' = active - 1
  /\ pc' = [pc EXCEPT ![w] = "done"]
  /\ UNCHANGED <<queue, stop, held, left, joined, accepted, taken>>

\* Enqueue throws inside a body on a stopped pool.  The exception leaves the
\* body without waiting for the sub-tasks already enqueued, and is caught and
\* logged by the worker loop.
AbortBody(w) ==
  /\ pc[w] = "run" /\ stop
  /\ left[held[w]] # {}
  /\ EndBody(w)

\* Slip: nobody notifies m_IdleCondition.
Retire_NoNotify(w) ==
  /\ pc[w] = "done"
  /\ active' = active - 1
  /\ held' = [held EXCEPT ![w] = NoTask]
  /\ pc' = [pc EXCEPT ![w] = "ready"]
  /\ UNCHANGED <<queue, stop, left, finished, joined, accepted, taken>>

\* Back under the lock: --m_ActiveTasks, and wake every WaitIdle when this was
\* the last active task and none is queued.
Retire(w) ==
  /\ pc[w] = "done"
  /\ active' = active - 1
  /\ held' = [held EXCEPT ![w] = NoTask]
  /\ pc' = [x \in Threads |->
              IF x = w THEN "ready"
              ELSE IF pc[x] = "waitIdle" /\ queue = <<>> /\ active' = 0
                   THEN "checkIdle" ELSE pc[x]]
  /\ UNCHANGED <<queue, stop, left, finished, joined, accepted, taken>>

-----------------------------------------------------------------------------
(* WaitIdle.                                                               *)

\* Slip: an empty queue is taken for an idle pool.
IsIdle_QueueOnly == queue = <<>>

IsIdle == queue = <<>> /\ active = 0

WaitIdle(c) ==
  /\ pc[c] = "idle"
  /\ pc' = [pc EXCEPT ![c] = "checkIdle"]
  /\ UNCHANGED <<queue, stop, active, held, left, finished, joined,
                 accepted, taken>>

\* The predicate is evaluated under the lock: return, or block.
CheckIdle(c) ==
  /\ pc[c] = "checkIdle"
  /\ pc' = [pc EXCEPT ![c] = IF IsIdle THEN "idle" ELSE "waitIdle"]
  /\ UNCHANGED <<queue, stop, active, held, left, finished, joined,
                 accepted, taken>>

-----------------------------------------------------------------------------
(* Stop, called by Shutdown and by the destructor.  A second call returns  *)
(* at once (a stuttering step).                                            *)

Stop(c) ==
  /\ pc[c] = "idle" /\ ~stop
  /\ stop' = TRUE
  /\ pc' = [pc EXCEPT ![c] = "notifyAll"]
  /\ UNCHANGED <<queue, active, held, left, finished, joined,
                 accepted, taken>>

\* Slip: notify_one in place of notify_all.
StopNotifyAll_One(c) ==
  LET blocked == {w \in Workers : pc[w] = "blocked"}
      joining == [pc EXCEPT ![c] = "join"]
  IN /\ pc[c] = "notifyAll"
     /\ \/ blocked = {} /\ pc' = joining
        \/ \E w \in blocked : pc' = [joining EXCEPT ![w] = "ready"]
     /\ UNCHANGED <<queue, stop, active, held, left, finished, joined,
                    accepted, taken>>

StopNotifyAll(c) ==
  /\ pc[c] = "notifyAll"
  /\ pc' = [x \in Threads |-> IF x = c THEN "join"
                              ELSE IF pc[x] = "blocked" THEN "ready" ELSE pc[x]]
  /\ UNCHANGED <<queue, stop, active, held, left, finished, joined,
                 accepted, taken>>

Join(c) ==
  /\ pc[c] = "join"
  /\ \A w \in Workers : pc[w] = "exited"
  /\ pc' = [pc EXCEPT ![c] = "idle"]
  /\ joined' = TRUE
  /\ UNCHANGED <<queue, stop, active, held, left, finished,
                 accepted, taken>>

-----------------------------------------------------------------------------
\* A condition variable may return without a notification.
SpuriousWakeup(x) ==
  /\ pc[x] \in {"blocked", "waitIdle"}
  /\ pc' = [pc EXCEPT ![x] = IF @ = "blocked" THEN "ready" ELSE "checkIdle"]
  /\ UNCHANGED <<queue, stop, active, held, left, finished, joined,
                 accepted, taken>>

WorkerStep(w) ==
  \/ Sleep(w) \/ Exit(w) \/ Take(w)
  \/ SubmitChild(w) \/ NotifyOne(w) \/ FinishBody(w) \/ AbortBody(w)
  \/ Retire(w)

\* What a caller does once it is inside a call of the pool.
CallerStep(c) ==
  NotifyOne(c) \/ CheckIdle(c) \/ StopNotifyAll(c) \/ Join(c)

CallerCall(c) ==
  (\E t \in Roots : QueueTask(c, t)) \/ WaitIdle(c) \/ Stop(c)

Next ==
  \/ \E w \in Workers : WorkerStep(w)
  \/ \E c \in Callers : CallerStep(c) \/ CallerCall(c)
  \/ \E x \in Threads : SpuriousWakeup(x)

Spec == Init /\ [][Next]_vars

\* Every thread inside the pool keeps being scheduled and every task body
\* makes progress; nobody is obliged to call the pool, and a wake-up that no
\* one sent may never come.
Fairness ==
  /\ \A w \in Workers : WF_vars(WorkerStep(w))
  /\ \A c \in Callers : WF_vars(CallerStep(c))

FairSpec == Spec /\ Fairness

-----------------------------------------------------------------------------
TypeOK ==
  /\ queue \in Seq(Tasks) /\ accepted \in Seq(Tasks) /\ taken \in Seq(Tasks)
  /\ stop \in BOOLEAN /\ joined \in BOOLEAN
  /\ active \in Nat
  /\ pc \in [Threads -> WorkerPCs \cup CallerPCs]
  /\ \A w \in Workers : pc[w] \in WorkerPCs
  /\ \A c \in Callers : pc[c] \in CallerPCs
  /\ held \in [Workers -> Tasks \cup {NoTask}]
  /\ left \in [Tasks -> SUBSET Tasks]
  /\ finished \subseteq Tasks

Busy == {w \in Workers : held[w] # NoTask}

\* Every task accepted by the pool is in exactly one place: still queued, held
\* by exactly one worker, or finished and held by none but its own retiring
\* worker; it never runs twice and is never dropped, whatever the interleaving
\* of submitters, workers and Stop.
InOrder == accepted = taken \o queue
NoRepeat == \A i, j \in DOMAIN accepted : accepted[i] = accepted[j] => i = j
OneHolder ==
  \A v, w \in Workers : held[v] = held[w] /\ held[v] # NoTask => v = w
TakenIsPlaced == Range(taken) = finished \cup {held[w] : w \in Busy}

ExactlyOnce == InOrder /\ NoRepeat /\ OneHolder /\ TakenIsPlaced

\* m_ActiveTasks counts the workers between popping a task and retiring it.
ActiveCountsBusy == active = Cardinality(Busy)

\* No lost wake-up: while some worker is blocked on m_Condition, every queued
\* task is matched by a thread that will look at the queue or that has still
\* to send the notification for a task it pushed.
Pending(S) == {x \in S : pc[x] = "notify"}
Awake == {w \in Workers : pc[w] = "ready"}
NoLostWakeup ==
  (\E w \in Workers : pc[w] = "blocked")
    => Len(queue) <= Cardinality(Awake) + Cardinality(Pending(Threads))

\* WaitIdle is a barrier: when it returns, every task accepted so far has
\* finished and been retired.
WaitIdleIsBarrier ==
  [][\A c \in Callers :
       pc[c] = "checkIdle" /\ pc'[c] = "idle"
         => Range(accepted) = finished /\ Busy = {}]_vars

\* Stop drains: once the workers are joined, everything accepted has finished.
JoinDrains ==
  joined => Range(accepted) = finished /\ queue = <<>> /\ active = 0

\* The future returned by Enqueue becomes ready.
EveryFutureReady ==
  \A t \in Tasks : t \in Range(accepted) ~> t \in finished

\* No caller waits for ever: WaitIdle returns (the set of tasks is finite, so
\* submissions cease), and Stop joins every worker.
CallsReturn ==
  /\ \A c \in Callers : pc[c] = "checkIdle" ~> pc[c] = "idle"
  /\ stop ~> joined

-----------------------------------------------------------------------------
(* The pool implements the abstract pool.                                  *)

Abstract == INSTANCE TaskPool WITH
  log <- accepted, started <- Len(taken), done <- finished,
  open <- ~stop, drained <- joined

\* Every step of the pool is a step of TaskPool or invisible to it: tasks start
\* in the order in which they were accepted, only accepted tasks finish, each
\* once, nothing is accepted after Stop, and Stop returns only after a drain.
ImplementsTaskPool == Abstract!Spec

=============================================================================
