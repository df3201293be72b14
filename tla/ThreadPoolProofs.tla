--------------------------- MODULE ThreadPoolProofs ---------------------------
(***************************************************************************)
(* Proofs about ThreadPool for every number of workers, callers and tasks  *)
(* and every nesting of sub-tasks.                                         *)
(***************************************************************************)
EXTENDS ThreadPool, FiniteSetTheorems, SequenceTheorems, TLAPS

-----------------------------------------------------------------------------
(* Facts about sequences.                                                  *)

\* Moving the head of a queue to the end of a log leaves their concatenation
\* alone.
LEMMA MoveHead ==
  ASSUME NEW S, NEW p \in Seq(S), NEW q \in Seq(S), q # <<>>
  PROVE  Append(p, Head(q)) \o Tail(q) = p \o q
  OBVIOUS

\* Appending adds one element to the range.
LEMMA RangeAppend ==
  ASSUME NEW S, NEW s \in Seq(S), NEW e \in S
  PROVE  Range(Append(s, e)) = Range(s) \cup {e}
<1>1. DOMAIN Append(s, e) = DOMAIN s \cup {Len(s) + 1}
  OBVIOUS
<1>2. /\ \A i \in DOMAIN s : Append(s, e)[i] = s[i]
      /\ Append(s, e)[Len(s) + 1] = e
  OBVIOUS
<1>3. QED
  BY <1>1, <1>2, Zenon DEF Range

\* The elements of a concatenation.
LEMMA RangeConcat ==
  ASSUME NEW S, NEW p \in Seq(S), NEW q \in Seq(S)
  PROVE  Range(p \o q) = Range(p) \cup Range(q)
<1>1. /\ \A i \in DOMAIN p : i \in DOMAIN (p \o q) /\ (p \o q)[i] = p[i]
      /\ \A j \in DOMAIN q : /\ Len(p) + j \in DOMAIN (p \o q)
                             /\ (p \o q)[Len(p) + j] = q[j]
  OBVIOUS
<1>2. \A i \in DOMAIN (p \o q) :
        i \in DOMAIN p \/ \E j \in DOMAIN q : i = Len(p) + j
  <2>1. SUFFICES ASSUME NEW i \in DOMAIN (p \o q), i \notin DOMAIN p
                 PROVE  i - Len(p) \in DOMAIN q /\ i = Len(p) + (i - Len(p))
    OBVIOUS
  <2>2. QED
    BY <2>1
<1>3. \A i \in DOMAIN (p \o q) : (p \o q)[i] \in Range(p) \cup Range(q)
  BY <1>1, <1>2, Zenon DEF Range
<1>4. Range(p) \subseteq Range(p \o q)
  BY <1>1, Zenon DEF Range
<1>5. Range(q) \subseteq Range(p \o q)
  BY <1>1, Zenon DEF Range
<1>6. Range(p \o q) \subseteq Range(p) \cup Range(q)
  BY <1>3, Zenon DEF Range
<1>7. QED
  BY <1>4, <1>5, <1>6

-----------------------------------------------------------------------------
(* The inductive invariant.                                                *)

\* A worker holds a task exactly between popping it and retiring it.
PcHeld ==
  \A w \in Workers :
    held[w] # NoTask <=> pc[w] \in {"run", "notify", "done"}

\* A worker leaves its loop only when the pool is stopped and drained.
ExitedWhenDrained ==
  \A w \in Workers : pc[w] = "exited" => stop /\ queue = <<>>

\* A task is finished exactly when its body is behind the worker that holds it.
BodyState ==
  \A w \in Workers :
    /\ pc[w] = "done" => held[w] \in finished
    /\ pc[w] \in {"run", "notify"} => held[w] \notin finished

\* Stop sets `joined` only after every worker left its loop.
JoinedAfterExit ==
  joined => stop /\ \A w \in Workers : pc[w] = "exited"

IInv ==
  /\ TypeOK
  /\ PcHeld
  /\ ActiveCountsBusy
  /\ ExactlyOnce
  /\ BodyState
  /\ ExitedWhenDrained
  /\ JoinedAfterExit

\* The workers that hold a task are finitely many, and one that holds a task is
\* counted.
LEMMA BusyFinite ==
  ASSUME ActiveCountsBusy
  PROVE  /\ IsFiniteSet(Busy)
         /\ active \in Nat
         /\ Busy # {} => active - 1 \in Nat
         /\ active = 0 => Busy = {}
<1>1. IsFiniteSet(Busy)
  BY PoolAssumption, FS_Subset DEF Busy
<1>2. active \in Nat /\ (active = 0 <=> Busy = {})
  BY <1>1, FS_CardinalityType, FS_EmptySet DEF ActiveCountsBusy
<1>3. QED
  BY <1>1, <1>2

\* The initial states satisfy the invariant.
LEMMA InitIInv == Init => IInv
<1> SUFFICES ASSUME Init PROVE IInv
  OBVIOUS
<1>1. TypeOK
  <2>1. left \in [Tasks -> SUBSET Tasks]
    BY PoolAssumption DEF Init
  <2>2. pc \in [Threads -> WorkerPCs \cup CallerPCs]
    BY DEF Init, WorkerPCs, CallerPCs
  <2>3. /\ \A w \in Workers : pc[w] \in WorkerPCs
        /\ \A c \in Callers : pc[c] \in CallerPCs
    BY PoolAssumption DEF Init, Threads, WorkerPCs, CallerPCs
  <2>4. <<>> \in Seq(Tasks)
    OBVIOUS
  <2>5. held \in [Workers -> Tasks \cup {NoTask}]
    BY DEF Init
  <2>6. QED
    BY <2>1, <2>2, <2>3, <2>4, <2>5, Zenon DEF Init, TypeOK
<1>2. PcHeld /\ ExitedWhenDrained /\ JoinedAfterExit
  BY DEF Init, PcHeld, ExitedWhenDrained, JoinedAfterExit, Threads
<1>3. Busy = {}
  BY DEF Init, Busy
<1>4. ActiveCountsBusy
  BY <1>3, FS_EmptySet DEF Init, ActiveCountsBusy
<1>5. ExactlyOnce
  <2>1. Range(taken) = {} /\ {held[w] : w \in Busy} = {} /\ finished = {}
    BY <1>3 DEF Init, Range
  <2>2. InOrder /\ NoRepeat
    BY DEF Init, InOrder, NoRepeat
  <2>3. OneHolder
    BY DEF Init, OneHolder
  <2>4. TakenIsPlaced
    BY <2>1 DEF TakenIsPlaced
  <2>5. QED
    BY <2>2, <2>3, <2>4 DEF ExactlyOnce
<1>6. BodyState
  BY DEF Init, BodyState, Threads
<1>7. QED
  BY <1>1, <1>2, <1>4, <1>5, <1>6 DEF IInv

-----------------------------------------------------------------------------
(* Every step preserves the invariant.  The actions fall into those that    *)
(* move a thread and leave the tasks alone, and those that move a task.     *)

\* The steps that change program counters and flags only.
Moves ==
  \/ \E x \in Threads : NotifyOne(x) \/ SpuriousWakeup(x)
  \/ \E w \in Workers : Sleep(w) \/ Exit(w)
  \/ \E c \in Callers : \/ WaitIdle(c) \/ CheckIdle(c)
                         \/ Stop(c) \/ StopNotifyAll(c) \/ Join(c)
  \/ UNCHANGED vars

\* The steps of Next, sorted that way.
LEMMA NextCases ==
  ASSUME [Next]_vars
  PROVE  \/ Moves
         \/ \E c \in Callers, t \in Roots : QueueTask(c, t)
         \/ \E w \in Workers : \/ Take(w) \/ SubmitChild(w) \/ FinishBody(w)
                                \/ AbortBody(w) \/ Retire(w)
  BY DEF Next, WorkerStep, CallerStep, CallerCall, Moves, Threads

\* A step that only moves threads touches no task.
LEMMA MovesKeepTasks ==
  ASSUME Moves
  PROVE  UNCHANGED <<queue, active, held, left, finished, accepted,
                     taken>>
  BY DEF Moves, vars, NotifyOne, SpuriousWakeup, Sleep, Exit, WaitIdle,
         CheckIdle, Stop, StopNotifyAll, Join

\* What a step that only moves threads does to the program counters.
LEMMA MovesKeepPCs ==
  ASSUME TypeOK, Moves
  PROVE  /\ pc' \in [Threads -> WorkerPCs \cup CallerPCs]
         /\ \A w \in Workers : pc'[w] \in WorkerPCs
         /\ \A c \in Callers : pc'[c] \in CallerPCs
         /\ \A w \in Workers : pc[w] \in {"run", "notify", "done"}
                               <=> pc'[w] \in {"run", "notify", "done"}
         /\ \A w \in Workers : pc[w] = "done" <=> pc'[w] = "done"
         /\ \A w \in Workers : pc'[w] = "exited" /\ pc[w] # "exited"
                               => stop /\ queue = <<>>
         /\ \A w \in Workers : pc[w] = "exited" => pc'[w] = "exited"
         /\ stop => stop'
         /\ stop' \in BOOLEAN /\ joined' \in BOOLEAN
         /\ joined' /\ ~joined => \A w \in Workers : pc[w] = "exited"
<1> USE PoolAssumption DEF TypeOK, Threads, WorkerPCs, CallerPCs
<1>1. CASE \E x \in Threads : NotifyOne(x)
  <2>1. PICK x \in Threads : NotifyOne(x)
    BY <1>1
  <2> DEFINE back == IF x \in Workers THEN "run" ELSE "idle"
  <2>2. CASE pc' = [pc EXCEPT ![x] = back]
    BY <2>1, <2>2 DEF NotifyOne
  <2>3. ASSUME NEW w \in Workers, pc[w] = "blocked",
               pc' = [[pc EXCEPT ![x] = back] EXCEPT ![w] = "ready"]
        PROVE  pc' = [t \in Threads |-> IF t = w THEN "ready"
                                        ELSE IF t = x THEN back ELSE pc[t]]
    BY <2>3
  <2>4. QED
    BY <2>1, <2>2, <2>3 DEF NotifyOne
<1>2. CASE \E x \in Threads : SpuriousWakeup(x)
  BY <1>2 DEF SpuriousWakeup
<1>3. CASE \E w \in Workers : Sleep(w)
  BY <1>3 DEF Sleep
<1>4. CASE \E w \in Workers : Exit(w)
  BY <1>4 DEF Exit
<1>5. CASE \E c \in Callers : WaitIdle(c)
  BY <1>5 DEF WaitIdle
<1>6. CASE \E c \in Callers : CheckIdle(c)
  BY <1>6 DEF CheckIdle
<1>7. CASE \E c \in Callers : Stop(c)
  BY <1>7 DEF Stop
<1>8. CASE \E c \in Callers : StopNotifyAll(c)
  BY <1>8 DEF StopNotifyAll
<1>9. CASE \E c \in Callers : Join(c)
  BY <1>9 DEF Join
<1>10. CASE UNCHANGED vars
  BY <1>10 DEF vars
<1>11. QED
  BY <1>1, <1>2, <1>3, <1>4, <1>5, <1>6, <1>7, <1>8, <1>9, <1>10 DEF Moves

\* Types are preserved; the count stays a natural number because a worker that
\* retires is counted.
LEMMA TypeStep ==
  ASSUME IInv, [Next]_vars
  PROVE  TypeOK'
<1> USE PoolAssumption
<1> USE DEF TypeOK, Threads, WorkerPCs, CallerPCs, Push, EndBody
<1>1. CASE Moves
  BY <1>1, MovesKeepTasks, MovesKeepPCs DEF IInv
<1>2. ASSUME NEW c \in Callers, NEW t \in Roots, QueueTask(c, t)
      PROVE  TypeOK'
  BY <1>2 DEF IInv, QueueTask
<1>3. ASSUME NEW w \in Workers, Take(w)
      PROVE  TypeOK'
  BY <1>3 DEF IInv, Take
<1>4. ASSUME NEW w \in Workers, SubmitChild(w)
      PROVE  TypeOK'
  <2>1. PICK t \in left[held[w]] \ Range(accepted) :
          Push(w, t) /\ left' = [left EXCEPT ![held[w]] = @ \ {t}]
    BY <1>4 DEF SubmitChild
  <2>2. held[w] \in Tasks /\ t \in Tasks
    BY <1>4 DEF IInv, PcHeld, SubmitChild
  <2>3. left' \in [Tasks -> SUBSET Tasks]
    BY <2>1, <2>2 DEF IInv
  <2>4. QED
    BY <1>4, <2>1, <2>2, <2>3 DEF IInv, SubmitChild
<1>5. ASSUME NEW w \in Workers, FinishBody(w) \/ AbortBody(w)
      PROVE  TypeOK'
  <2>1. held[w] \in Tasks
    BY <1>5 DEF IInv, PcHeld, FinishBody, AbortBody
  <2>2. QED
    BY <1>5, <2>1 DEF IInv, FinishBody, AbortBody
<1>6. ASSUME NEW w \in Workers, Retire(w)
      PROVE  TypeOK'
  <2>1. w \in Busy
    BY <1>6 DEF IInv, PcHeld, Busy, Retire
  <2>2. active' \in Nat
    BY <1>6, <2>1, BusyFinite DEF IInv, Retire
  <2>3. /\ pc' \in [Threads -> WorkerPCs \cup CallerPCs]
        /\ \A v \in Workers : pc'[v] \in WorkerPCs
        /\ \A c \in Callers : pc'[c] \in CallerPCs
    BY <1>6 DEF IInv, Retire
  <2>4. QED
    BY <1>6, <2>2, <2>3 DEF IInv, Retire
<1>7. QED
  BY <1>1, <1>2, <1>3, <1>4, <1>5, <1>6, NextCases

\* Program counters and held tasks stay in step.
LEMMA PcHeldStep ==
  ASSUME IInv, [Next]_vars
  PROVE  PcHeld'
<1> USE PoolAssumption
<1> USE DEF TypeOK, PcHeld, Threads, Push, EndBody
<1>1. CASE Moves
  BY <1>1, MovesKeepTasks, MovesKeepPCs DEF IInv
<1>2. ASSUME NEW c \in Callers, NEW t \in Roots, QueueTask(c, t)
      PROVE  PcHeld'
  BY <1>2 DEF IInv, QueueTask
<1>3. ASSUME NEW w \in Workers, Take(w)
      PROVE  PcHeld'
  <2>1. Head(queue) \in Tasks
    BY <1>3 DEF IInv, Take
  <2>2. QED
    BY <1>3, <2>1 DEF IInv, Take
<1>4. ASSUME NEW w \in Workers, SubmitChild(w)
      PROVE  PcHeld'
  BY <1>4 DEF IInv, SubmitChild
<1>5. ASSUME NEW w \in Workers, FinishBody(w) \/ AbortBody(w)
      PROVE  PcHeld'
  BY <1>5 DEF IInv, FinishBody, AbortBody
<1>6. ASSUME NEW w \in Workers, Retire(w)
      PROVE  PcHeld'
  BY <1>6 DEF IInv, Retire
<1>7. QED
  BY <1>1, <1>2, <1>3, <1>4, <1>5, <1>6, NextCases

\* The count follows the set of busy workers: Take adds one worker to it,
\* Retire removes one, and no other step changes either.
LEMMA ActiveStep ==
  ASSUME IInv, [Next]_vars
  PROVE  ActiveCountsBusy'
<1>1. IsFiniteSet(Busy) /\ active = Cardinality(Busy) /\ active \in Nat
  BY BusyFinite DEF IInv, ActiveCountsBusy
<1>2. ASSUME NEW w \in Workers, Take(w)
      PROVE  ActiveCountsBusy'
  <2>1. w \notin Busy
    BY <1>2 DEF IInv, PcHeld, Busy, Take
  <2>2. Head(queue) \in Tasks /\ Head(queue) # NoTask
    BY <1>2, PoolAssumption DEF IInv, TypeOK, Take
  <2>3. Busy' = Busy \cup {w}
    BY <1>2, <2>2 DEF IInv, TypeOK, Busy, Take
  <2>4. Cardinality(Busy') = Cardinality(Busy) + 1
    BY <1>1, <2>1, <2>3, FS_AddElement
  <2>5. QED
    BY <1>1, <1>2, <2>4 DEF ActiveCountsBusy, Take
<1>3. ASSUME NEW w \in Workers, Retire(w)
      PROVE  ActiveCountsBusy'
  <2>1. w \in Busy
    BY <1>3 DEF IInv, PcHeld, Busy, Retire
  <2>2. Busy' = Busy \ {w}
    BY <1>3 DEF IInv, TypeOK, Busy, Retire
  <2>3. Cardinality(Busy') = Cardinality(Busy) - 1
    BY <1>1, <2>1, <2>2, FS_RemoveElement
  <2>4. QED
    BY <1>1, <1>3, <2>3 DEF ActiveCountsBusy, Retire
<1>4. ASSUME UNCHANGED <<held, active>>
      PROVE  ActiveCountsBusy'
  BY <1>1, <1>4 DEF ActiveCountsBusy, Busy
<1>5. QED
  BY <1>2, <1>3, <1>4, NextCases, MovesKeepTasks
     DEF QueueTask, SubmitChild, FinishBody, AbortBody, EndBody

\* A thread that pushes a task not accepted before keeps the log in order and
\* free of repetition.
LEMMA PushKeepsLog ==
  ASSUME IInv, NEW x, NEW t \in Tasks \ Range(accepted), Push(x, t),
         UNCHANGED taken
  PROVE  InOrder' /\ NoRepeat'
<1> USE DEF IInv, TypeOK, ExactlyOnce
<1>1. InOrder'
  <2>1. Append(taken \o queue, t) = taken \o Append(queue, t)
    <3>1. taken \in Seq(Tasks) /\ queue \in Seq(Tasks) /\ t \in Tasks
      OBVIOUS
    <3>2. QED
      BY ONLY <3>1
  <2>2. QED
    BY <2>1 DEF InOrder, Push
<1>2. /\ DOMAIN accepted' = DOMAIN accepted \cup {Len(accepted) + 1}
      /\ \A i \in DOMAIN accepted : accepted'[i] = accepted[i]
      /\ accepted'[Len(accepted) + 1] = t
  BY DEF Push
<1>3. \A i \in DOMAIN accepted : accepted[i] # t
  BY DEF Range
<1>4. NoRepeat'
  BY <1>2, <1>3, Zenon DEF NoRepeat
<1>5. QED
  BY <1>1, <1>4

\* The task a worker is about to pop was never popped before.
LEMMA HeadIsFresh ==
  ASSUME IInv, queue # <<>>
  PROVE  Head(queue) \in Tasks \ Range(taken)
<1> USE DEF IInv, TypeOK, ExactlyOnce
<1>1. Head(queue) \in Tasks
  OBVIOUS
<1>2. ASSUME NEW i \in DOMAIN taken, taken[i] = Head(queue) PROVE FALSE
  <2>1. /\ i \in DOMAIN accepted /\ accepted[i] = Head(queue)
        /\ Len(taken) + 1 \in DOMAIN accepted
        /\ accepted[Len(taken) + 1] = Head(queue)
        /\ i # Len(taken) + 1
    BY <1>2 DEF InOrder
  <2>2. QED
    BY <2>1 DEF NoRepeat
<1>3. QED
  BY <1>1, <1>2 DEF Range

\* Each task is in one place: the log stays the concatenation of what was popped
\* and what is queued, without repetition, and what was popped is finished or
\* held by the one worker that popped it.
LEMMA OnceStep ==
  ASSUME IInv, [Next]_vars
  PROVE  ExactlyOnce'
<1> USE PoolAssumption
<1>0. InOrder /\ NoRepeat /\ OneHolder /\ TakenIsPlaced /\ TypeOK
  BY DEF IInv, ExactlyOnce
<1>1. ASSUME UNCHANGED <<held, taken, finished>>
      PROVE  OneHolder' /\ TakenIsPlaced'
  BY <1>0, <1>1, Zenon DEF OneHolder, TakenIsPlaced, Busy
<1>2. ASSUME UNCHANGED <<accepted, taken, queue>>
      PROVE  InOrder' /\ NoRepeat'
  BY <1>0, <1>2, Zenon DEF InOrder, NoRepeat
<1>3. CASE Moves
  BY <1>1, <1>2, <1>3, MovesKeepTasks, Zenon DEF ExactlyOnce
<1>4. ASSUME NEW c \in Callers, NEW t \in Roots, QueueTask(c, t)
      PROVE  ExactlyOnce'
  <2>1. t \in Tasks \ Range(accepted) /\ Push(c, t)
    BY <1>4 DEF QueueTask
  <2>2. UNCHANGED <<taken, held, finished>>
    BY <1>4 DEF QueueTask
  <2>3. QED
    BY <1>1, <2>1, <2>2, PushKeepsLog DEF ExactlyOnce
<1>5. ASSUME NEW w \in Workers, SubmitChild(w)
      PROVE  ExactlyOnce'
  <2>1. PICK t \in left[held[w]] \ Range(accepted) : Push(w, t)
    BY <1>5 DEF SubmitChild
  <2>2. t \in Tasks
    BY <1>5 DEF IInv, TypeOK, PcHeld, SubmitChild
  <2>3. UNCHANGED <<taken, held, finished>>
    BY <1>5 DEF SubmitChild
  <2>4. QED
    BY <1>1, <2>1, <2>2, <2>3, PushKeepsLog DEF ExactlyOnce
<1>6. ASSUME NEW w \in Workers, Take(w)
      PROVE  ExactlyOnce'
  <2> DEFINE t == Head(queue)
  <2>1. t \in Tasks /\ t \notin Range(taken) /\ t # NoTask
    BY <1>6, HeadIsFresh DEF Take
  <2>2. InOrder'
    BY <1>0, <1>6, MoveHead DEF InOrder, TypeOK, Take
  <2>3. NoRepeat'
    BY <1>0, <1>6, Zenon DEF NoRepeat, Take
  <2>4. held' = [held EXCEPT ![w] = t] /\ held[w] = NoTask
    BY <1>6 DEF IInv, PcHeld, Take
  <2>5. \A v \in Workers : held[v] # NoTask => held[v] \in Range(taken)
    BY <1>0 DEF TakenIsPlaced, Busy
  <2>6. OneHolder'
    BY <1>0, <2>1, <2>4, <2>5 DEF OneHolder, TypeOK
  <2>7. Range(taken') = Range(taken) \cup {t}
    BY <1>0, <1>6, <2>1, RangeAppend DEF TypeOK, Take
  <2>8. {held'[v] : v \in Busy'} = {held[v] : v \in Busy} \cup {t}
    BY <1>0, <2>1, <2>4 DEF Busy, TypeOK
  <2>9. TakenIsPlaced'
    BY <1>0, <1>6, <2>7, <2>8 DEF TakenIsPlaced, Take
  <2>10. QED
    BY <2>2, <2>3, <2>6, <2>9 DEF ExactlyOnce
<1>7. ASSUME NEW w \in Workers, FinishBody(w) \/ AbortBody(w)
      PROVE  ExactlyOnce'
  <2>1. w \in Busy /\ finished' = finished \cup {held[w]}
    BY <1>7 DEF IInv, PcHeld, Busy, FinishBody, AbortBody, EndBody
  <2>2. UNCHANGED <<queue, held, accepted, taken>>
    BY <1>7 DEF FinishBody, AbortBody, EndBody
  <2>3. Range(taken) = finished' \cup {held[v] : v \in Busy}
    BY <1>0, <2>1 DEF TakenIsPlaced
  <2>4. OneHolder' /\ TakenIsPlaced'
    BY <1>0, <2>2, <2>3, Zenon DEF OneHolder, TakenIsPlaced, Busy
  <2>5. QED
    BY <1>2, <2>2, <2>4 DEF ExactlyOnce
<1>8. ASSUME NEW w \in Workers, Retire(w)
      PROVE  ExactlyOnce'
  <2>1. /\ held' = [held EXCEPT ![w] = NoTask] /\ held[w] \in finished
        /\ w \in Busy
    BY <1>8 DEF IInv, PcHeld, BodyState, Busy, Retire
  <2>2. UNCHANGED <<queue, finished, accepted, taken>>
    BY <1>8 DEF Retire
  <2>3. OneHolder'
    BY <1>0, <2>1 DEF OneHolder, TypeOK
  <2>4. Busy' = Busy \ {w} /\ \A v \in Busy' : held'[v] = held[v]
    BY <1>0, <2>1 DEF Busy, TypeOK
  <2>5. finished \cup {held'[v] : v \in Busy'}
          = finished \cup {held[v] : v \in Busy}
    BY <2>1, <2>4
  <2>6. TakenIsPlaced'
    BY <1>0, <2>2, <2>5 DEF TakenIsPlaced
  <2>7. QED
    BY <1>2, <2>2, <2>3, <2>6 DEF ExactlyOnce
<1>9. QED
  BY <1>3, <1>4, <1>5, <1>6, <1>7, <1>8, NextCases

\* A body is finished when it is left, and the body of a task just popped is
\* not: tasks are popped once and held by one worker.
LEMMA BodyStep ==
  ASSUME IInv, [Next]_vars
  PROVE  BodyState'
<1> USE PoolAssumption DEF IInv, TypeOK, BodyState, PcHeld, Threads
<1>1. CASE Moves
  BY <1>1, MovesKeepTasks, MovesKeepPCs
<1>2. ASSUME NEW c \in Callers, NEW t \in Roots, QueueTask(c, t)
      PROVE  BodyState'
  BY <1>2 DEF QueueTask, Push
<1>3. ASSUME NEW w \in Workers, Take(w)
      PROVE  BodyState'
  <2>1. Head(queue) \notin finished
    BY <1>3, HeadIsFresh DEF Take, ExactlyOnce, TakenIsPlaced
  <2>2. QED
    BY <1>3, <2>1 DEF Take
<1>4. ASSUME NEW w \in Workers, SubmitChild(w)
      PROVE  BodyState'
  BY <1>4 DEF SubmitChild, Push
<1>5. ASSUME NEW w \in Workers, FinishBody(w) \/ AbortBody(w)
      PROVE  BodyState'
  <2>1. \A v \in Workers : v # w => held[v] # held[w] \/ held[v] = NoTask
    BY DEF ExactlyOnce, OneHolder
  <2>2. held[w] # NoTask /\ pc[w] = "run"
    BY <1>5 DEF FinishBody, AbortBody
  <2>3. QED
    BY <1>5, <2>1, <2>2 DEF FinishBody, AbortBody, EndBody
<1>6. ASSUME NEW w \in Workers, Retire(w)
      PROVE  BodyState'
  BY <1>6 DEF Retire
<1>7. QED
  BY <1>1, <1>2, <1>3, <1>4, <1>5, <1>6, NextCases

\* Once stopped, nothing is pushed, so what an exiting worker saw stays true.
LEMMA ExitStep ==
  ASSUME IInv, [Next]_vars
  PROVE  ExitedWhenDrained' /\ JoinedAfterExit'
<1> USE PoolAssumption
<1> USE DEF IInv, TypeOK, ExitedWhenDrained, JoinedAfterExit, Threads
<1>1. CASE Moves
  BY <1>1, MovesKeepTasks, MovesKeepPCs
<1>2. ASSUME NEW c \in Callers, NEW t \in Roots, QueueTask(c, t)
      PROVE  ExitedWhenDrained' /\ JoinedAfterExit'
  BY <1>2 DEF QueueTask, Push
<1>3. ASSUME NEW w \in Workers, Take(w)
      PROVE  ExitedWhenDrained' /\ JoinedAfterExit'
  BY <1>3 DEF Take
<1>4. ASSUME NEW w \in Workers, SubmitChild(w)
      PROVE  ExitedWhenDrained' /\ JoinedAfterExit'
  BY <1>4 DEF SubmitChild, Push
<1>5. ASSUME NEW w \in Workers, FinishBody(w) \/ AbortBody(w)
      PROVE  ExitedWhenDrained' /\ JoinedAfterExit'
  BY <1>5 DEF FinishBody, AbortBody, EndBody
<1>6. ASSUME NEW w \in Workers, Retire(w)
      PROVE  ExitedWhenDrained' /\ JoinedAfterExit'
  BY <1>6 DEF Retire
<1>7. QED
  BY <1>1, <1>2, <1>3, <1>4, <1>5, <1>6, NextCases

-----------------------------------------------------------------------------
(* Theorems.                                                               *)

\* The strengthened invariant holds in every reachable state of the pool.
THEOREM Invariance == Spec => []IInv
<1>1. IInv /\ [Next]_vars => IInv'
  BY TypeStep, PcHeldStep, ActiveStep, OnceStep, BodyStep, ExitStep DEF IInv
<1>2. QED
  BY <1>1, InitIInv, PTL DEF Spec

\* The variables keep their types (thread_pool.h:161-169).
THEOREM TypeCorrect == Spec => []TypeOK
  BY Invariance, PTL DEF IInv

\* Every accepted task is queued, held by one worker, or finished, and is popped
\* once, in the order of acceptance (Enqueue, QueueTask and the worker loop).
THEOREM TasksRunOnce == Spec => []ExactlyOnce
  BY Invariance, PTL DEF IInv

\* m_ActiveTasks is the number of workers that hold a task, so the predicate of
\* WaitIdle means what it says.
THEOREM CountIsExact == Spec => []ActiveCountsBusy
  BY Invariance, PTL DEF IInv

\* When Stop has joined the workers, every accepted task has finished.
THEOREM StopDrains == Spec => []JoinDrains
<1>1. IInv => JoinDrains
  <2>1. SUFFICES ASSUME IInv, joined
                 PROVE  Range(accepted) = finished /\ queue = <<>> /\ active = 0
    BY DEF JoinDrains
  <2>2. \A w \in Workers : pc[w] = "exited"
    BY <2>1 DEF IInv, JoinedAfterExit
  <2>3. queue = <<>>
    BY <2>1, <2>2, PoolAssumption DEF IInv, ExitedWhenDrained
  <2>4. Busy = {}
    BY <2>1, <2>2 DEF IInv, PcHeld, Busy
  <2>5. active = 0
    BY <2>1, <2>4, FS_EmptySet DEF IInv, ActiveCountsBusy
  <2>6. accepted = taken
    BY <2>1, <2>3 DEF IInv, TypeOK, ExactlyOnce, InOrder
  <2>7. QED
    BY <2>1, <2>3, <2>4, <2>5, <2>6 DEF IInv, ExactlyOnce, TakenIsPlaced
<1>2. QED
  BY <1>1, Invariance, PTL

\* WaitIdle returns only in a state in which every accepted task has finished
\* and no worker holds one.
THEOREM WaitIdleBarrier == Spec => WaitIdleIsBarrier
<1>1. ASSUME IInv, [Next]_vars, NEW c \in Callers,
             pc[c] = "checkIdle", pc'[c] = "idle"
      PROVE  Range(accepted) = finished /\ Busy = {}
  <2>1. IsIdle
    <3> USE <1>1, PoolAssumption DEF IInv, TypeOK, Threads
    <3>1. CASE Moves
      BY <3>1 DEF Moves, vars, NotifyOne, SpuriousWakeup, Sleep, Exit, WaitIdle,
                  CheckIdle, Stop, StopNotifyAll, Join
    <3>2. CASE \E d \in Callers, t \in Roots : QueueTask(d, t)
      BY <3>2 DEF QueueTask, Push
    <3>3. CASE \E w \in Workers : Take(w) \/ SubmitChild(w) \/ FinishBody(w)
                                 \/ AbortBody(w) \/ Retire(w)
      BY <3>3 DEF Take, SubmitChild, Push, FinishBody, AbortBody, EndBody, Retire
    <3>4. QED
      BY <3>1, <3>2, <3>3, NextCases
  <2>2. Busy = {} /\ queue = <<>>
    BY <1>1, <2>1, BusyFinite DEF IInv, IsIdle
  <2>3. accepted = taken
    BY <1>1, <2>2 DEF IInv, TypeOK, ExactlyOnce, InOrder
  <2>4. QED
    BY <1>1, <2>2, <2>3 DEF IInv, ExactlyOnce, TakenIsPlaced
<1>2. IInv /\ [Next]_vars
        => [\A c \in Callers :
              pc[c] = "checkIdle" /\ pc'[c] = "idle"
                => Range(accepted) = finished /\ Busy = {}]_vars
  BY <1>1
<1>3. QED
  BY <1>2, Invariance, PTL DEF Spec, WaitIdleIsBarrier

-----------------------------------------------------------------------------
(* Wake-ups.                                                               *)

\* A state in which no worker is blocked, or the queue is matched by awake
\* workers and pending notifications: NoLostWakeup with its numbers exposed.
LEMMA WakeupCounts ==
  /\ IsFiniteSet(Awake) /\ IsFiniteSet(Pending(Threads))
  /\ Cardinality(Awake) \in Nat /\ Cardinality(Pending(Threads)) \in Nat
<1>1. IsFiniteSet(Threads)
  BY PoolAssumption, FS_Union DEF Threads
<1>2. Awake \subseteq Workers /\ Pending(Threads) \subseteq Threads
  BY DEF Awake, Pending
<1>3. IsFiniteSet(Awake) /\ IsFiniteSet(Pending(Threads))
  BY <1>1, <1>2, PoolAssumption, FS_Subset
<1>4. QED
  BY <1>3, FS_CardinalityType

\* No wake-up is lost: a push adds a pending notification, a notification wakes
\* a worker if one is blocked, a worker that pops had been awake, and a worker
\* blocks only on an empty queue.
LEMMA WakeupStep ==
  ASSUME IInv, NoLostWakeup, [Next]_vars
  PROVE  NoLostWakeup'
<1> USE PoolAssumption DEF IInv, TypeOK, Threads
<1> DEFINE A == Cardinality(Awake)
           P == Cardinality(Pending(Threads))
           AsleepIn(f) == \E w \in Workers : f[w] = "blocked"
<1>0. A \in Nat /\ P \in Nat /\ A' \in Nat /\ P' \in Nat
  <2>1. A \in Nat /\ P \in Nat
    BY WakeupCounts
  <2>2. IsFiniteSet(Awake') /\ IsFiniteSet(Pending(Threads)')
    <3>1. Awake' \subseteq Workers /\ Pending(Threads)' \subseteq Threads
      BY DEF Awake, Pending
    <3>2. QED
      BY <3>1, FS_Union, FS_Subset
  <2>3. QED
    BY <2>1, <2>2, FS_CardinalityType
<1>1. IsFiniteSet(Awake) /\ IsFiniteSet(Pending(Threads))
  BY WakeupCounts
<1>2. NoLostWakeup <=> (AsleepIn(pc) => Len(queue) <= A + P)
  BY DEF NoLostWakeup
<1>3. NoLostWakeup' <=> (AsleepIn(pc') => Len(queue') <= A' + P')
  BY DEF NoLostWakeup
<1> HIDE DEF A, P
<1>4. ASSUME AsleepIn(pc') => AsleepIn(pc),
             Len(queue') <= Len(queue), A' >= A, P' >= P
      PROVE  NoLostWakeup'
  BY <1>0, <1>2, <1>3, <1>4
<1>5. ASSUME NEW x \in Threads, NEW t, Push(x, t), pc[x] \in {"idle", "run"}
      PROVE  NoLostWakeup'
  <2>1. AsleepIn(pc') => AsleepIn(pc)
    BY <1>5 DEF Push
  <2>2. Awake' = Awake
    BY <1>5 DEF Push, Awake
  <2>3. Pending(Threads)' = Pending(Threads) \cup {x} /\ x \notin Pending(Threads)
    BY <1>5 DEF Push, Pending
  <2>4. A' = A /\ P' = P + 1
    BY <1>1, <2>2, <2>3, FS_AddElement DEF A, P
  <2>5. Len(queue') = Len(queue) + 1
    BY <1>5 DEF Push
  <2>6. QED
    BY <1>0, <1>2, <1>3, <2>1, <2>4, <2>5
<1>6. ASSUME NEW x \in Threads, NotifyOne(x)
      PROVE  NoLostWakeup'
  <2> DEFINE back == IF x \in Workers THEN "run" ELSE "idle"
  <2>1. CASE ~AsleepIn(pc)
    BY <1>3, <1>6, <2>1 DEF NotifyOne
  <2>2. ASSUME NEW w \in Workers, pc[w] = "blocked",
               pc' = [[pc EXCEPT ![x] = back] EXCEPT ![w] = "ready"]
        PROVE  NoLostWakeup'
    <3>1. /\ pc[x] = "notify" /\ queue' = queue
          /\ pc' = [y \in Threads |-> IF y = w THEN "ready"
                                      ELSE IF y = x THEN back ELSE pc[y]]
      BY <1>6, <2>2 DEF NotifyOne
    <3>2. Awake' = Awake \cup {w} /\ w \notin Awake
      BY <2>2, <3>1 DEF Awake
    <3>3. Pending(Threads)' = Pending(Threads) \ {x} /\ x \in Pending(Threads)
      BY <2>2, <3>1 DEF Pending
    <3>4. A' = A + 1
      BY <1>1, <3>2, FS_AddElement DEF A
    <3>5. P' = P - 1
      <4>1. Cardinality(Pending(Threads) \ {x})
              = Cardinality(Pending(Threads)) - 1
        BY ONLY <1>1, <3>3, FS_RemoveElement
      <4>2. QED
        BY <3>3, <4>1, Zenon DEF P
    <3>6. QED
      BY <1>0, <1>2, <1>3, <2>2, <3>1, <3>4, <3>5
  <2>3. QED
    BY <1>6, <2>1, <2>2 DEF NotifyOne
<1>7. ASSUME NEW w \in Workers, Take(w)
      PROVE  NoLostWakeup'
  <2>1. AsleepIn(pc') => AsleepIn(pc)
    BY <1>7 DEF Take
  <2>2. Awake' = Awake \ {w} /\ w \in Awake
    BY <1>7 DEF Take, Awake
  <2>3. Pending(Threads)' = Pending(Threads)
    BY <1>7 DEF Take, Pending
  <2>4. A' = A - 1 /\ P' = P
    BY <1>1, <2>2, <2>3, FS_RemoveElement DEF A, P
  <2>5. Len(queue') = Len(queue) - 1
    BY <1>7 DEF Take
  <2>6. QED
    BY <1>0, <1>2, <1>3, <2>1, <2>4, <2>5
<1>8. ASSUME NEW w \in Workers, Sleep(w) \/ Exit(w)
      PROVE  NoLostWakeup'
  BY <1>0, <1>3, <1>8 DEF Sleep, Exit
<1>9. ASSUME NEW w \in Workers, FinishBody(w) \/ AbortBody(w)
      PROVE  NoLostWakeup'
  <2>1. /\ pc[w] = "run" /\ pc' = [pc EXCEPT ![w] = "done"]
        /\ queue' = queue
    BY <1>9 DEF FinishBody, AbortBody, EndBody
  <2>2. Awake' = Awake /\ Pending(Threads)' = Pending(Threads)
    BY <2>1 DEF Awake, Pending
  <2>3. AsleepIn(pc') => AsleepIn(pc)
    BY <2>1
  <2>4. QED
    BY <1>0, <1>4, <2>1, <2>2, <2>3 DEF A, P
<1>10. ASSUME NEW w \in Workers,
              \/ Retire(w)
              \/ SpuriousWakeup(w)
       PROVE  NoLostWakeup'
  <2>1. Awake' = Awake \cup {w} /\ w \notin Awake
    BY <1>10 DEF Retire, SpuriousWakeup, Awake, WorkerPCs
  <2>2. Pending(Threads)' = Pending(Threads)
    BY <1>10 DEF Retire, SpuriousWakeup, Pending, WorkerPCs
  <2>3. A' = A + 1 /\ P' = P
    BY <1>1, <2>1, <2>2, FS_AddElement DEF A, P
  <2>4. /\ AsleepIn(pc') => AsleepIn(pc)
        /\ queue' = queue
    BY <1>10 DEF Retire, SpuriousWakeup
  <2>5. QED
    BY <1>0, <1>4, <2>3, <2>4
<1>11. ASSUME NEW c \in Callers, StopNotifyAll(c)
       PROVE  NoLostWakeup'
  BY <1>3, <1>11 DEF StopNotifyAll
<1>12. ASSUME NEW c \in Callers,
              WaitIdle(c) \/ CheckIdle(c) \/ Stop(c) \/ Join(c)
                \/ SpuriousWakeup(c)
       PROVE  NoLostWakeup'
  <2>1. /\ pc[c] # "notify" /\ pc'[c] # "notify" /\ queue' = queue
        /\ \A x \in Threads \ {c} : pc'[x] = pc[x]
    BY <1>12 DEF WaitIdle, CheckIdle, Stop, Join, SpuriousWakeup, CallerPCs
  <2>2. Awake' = Awake /\ Pending(Threads)' = Pending(Threads)
    BY <2>1 DEF Awake, Pending
  <2>3. AsleepIn(pc') => AsleepIn(pc)
    BY <2>1
  <2>4. QED
    BY <1>0, <1>4, <2>1, <2>2, <2>3 DEF A, P
<1>13. ASSUME UNCHANGED vars
       PROVE  NoLostWakeup'
  BY <1>2, <1>13 DEF vars, NoLostWakeup, Awake, Pending
<1>14. ASSUME NEW c \in Callers, NEW t \in Roots, QueueTask(c, t)
       PROVE  NoLostWakeup'
  BY <1>5, <1>14 DEF QueueTask
<1>15. ASSUME NEW w \in Workers, SubmitChild(w)
       PROVE  NoLostWakeup'
  BY <1>5, <1>15 DEF SubmitChild
<1>16. CASE Moves
  BY <1>6, <1>8, <1>10, <1>11, <1>12, <1>13, <1>16 DEF Moves
<1>17. QED
  BY <1>7, <1>9, <1>10, <1>14, <1>15, <1>16, NextCases

\* A queued task never waits for a sleeping worker nobody is about to wake
\* (notify_one at thread_pool.h:54 and 69 happens after the lock is released).
THEOREM WakeupsArriveNoLater == Spec => []NoLostWakeup
<1>1. Init => NoLostWakeup
  BY PoolAssumption DEF Init, NoLostWakeup, Threads
<1>2. IInv /\ NoLostWakeup /\ [Next]_vars => NoLostWakeup'
  BY WakeupStep
<1>3. QED
  BY <1>1, <1>2, Invariance, PTL DEF Spec

-----------------------------------------------------------------------------
(* Refinement.                                                             *)

\* In a state where every worker has left its loop, everything accepted is
\* finished.
LEMMA ExitedMeansDrained ==
  ASSUME IInv, \A w \in Workers : pc[w] = "exited"
  PROVE  stop /\ Range(accepted) = finished
<1>1. stop /\ queue = <<>>
  BY PoolAssumption DEF IInv, ExitedWhenDrained
<1>2. Busy = {}
  BY DEF IInv, PcHeld, Busy
<1>3. accepted = taken
  BY <1>1 DEF IInv, TypeOK, ExactlyOnce, InOrder
<1>4. QED
  BY <1>1, <1>2, <1>3 DEF IInv, ExactlyOnce, TakenIsPlaced

\* A task held by a worker was started in the abstract pool.
LEMMA HeldIsStarted ==
  ASSUME IInv, NEW w \in Busy
  PROVE  \E i \in 1..Len(taken) : accepted[i] = held[w]
<1> USE DEF IInv, TypeOK, ExactlyOnce
<1>1. PICK i \in DOMAIN taken : taken[i] = held[w]
  BY DEF TakenIsPlaced, Range
<1>2. i \in 1..Len(taken) /\ accepted[i] = taken[i]
  BY <1>1 DEF InOrder
<1>3. QED
  BY <1>1, <1>2

\* The pool implements TaskPool: acceptance order is start order, tasks finish
\* once, nothing is accepted after Stop, Stop returns after a drain.
THEOREM Refinement == Spec => ImplementsTaskPool
<1>1. Init => Abstract!Init
  BY DEF Init, Abstract!Init
<1>2. ASSUME IInv, [Next]_vars
      PROVE  [Abstract!Next]_(Abstract!vars)
  <2> USE DEF Abstract!vars, Abstract!Next
  <2>1. ASSUME NEW c \in Callers, NEW t \in Roots, QueueTask(c, t)
        PROVE  Abstract!Accept(t) /\ t \in Tasks
    <3>1. /\ ~stop /\ t \notin Range(accepted) /\ t \in Tasks
          /\ accepted' = Append(accepted, t)
          /\ taken' = taken /\ finished' = finished
          /\ stop' = stop /\ joined' = joined
      BY <2>1, PoolAssumption DEF QueueTask, Push
    <3>2. QED
      BY <3>1, Zenon DEF Abstract!Accept, Abstract!Range, Range
  <2>2. ASSUME NEW w \in Workers, SubmitChild(w)
        PROVE  \E t \in Tasks : Abstract!Accept(t)
    <3>1. PICK t \in left[held[w]] \ Range(accepted) : Push(w, t)
      BY <2>2 DEF SubmitChild
    <3>2. t \in Tasks
      BY <1>2, <2>2, <3>1 DEF IInv, TypeOK, PcHeld, SubmitChild
    <3>3. /\ ~stop /\ t \notin Range(accepted)
          /\ accepted' = Append(accepted, t)
          /\ taken' = taken /\ finished' = finished
          /\ stop' = stop /\ joined' = joined
      BY <2>2, <3>1 DEF SubmitChild, Push
    <3>4. QED
      BY <3>2, <3>3, Zenon DEF Abstract!Accept, Abstract!Range, Range
  <2>3. ASSUME NEW w \in Workers, Take(w)
        PROVE  Abstract!Start
    <3>1. Len(taken) < Len(accepted) /\ Len(taken') = Len(taken) + 1
      BY <1>2, <2>3 DEF IInv, TypeOK, ExactlyOnce, InOrder, Take
    <3>2. QED
      BY <2>3, <3>1 DEF Take, Abstract!Start
  <2>4. ASSUME NEW w \in Workers, FinishBody(w) \/ AbortBody(w)
        PROVE  Abstract!Finish(held[w]) /\ held[w] \in Tasks
    <3>1. w \in Busy /\ held[w] \in Tasks /\ held[w] \notin finished
      BY <1>2, <2>4 DEF IInv, TypeOK, PcHeld, BodyState, Busy, FinishBody,
                        AbortBody
    <3>2. \E i \in 1..Len(taken) : accepted[i] = held[w]
      BY <1>2, <3>1, HeldIsStarted
    <3>3. QED
      BY <2>4, <3>1, <3>2 DEF FinishBody, AbortBody, EndBody, Abstract!Finish
  <2>5. ASSUME NEW w \in Workers, Retire(w)
        PROVE  UNCHANGED Abstract!vars
    BY <2>5 DEF Retire
  <2>6. ASSUME NEW c \in Callers, Stop(c)
        PROVE  Abstract!Close
    BY <2>6 DEF Stop, Abstract!Close
  <2>7. ASSUME NEW c \in Callers, Join(c)
        PROVE  Abstract!Drain
    <3>1. stop /\ Range(accepted) = finished
      BY <1>2, <2>7, ExitedMeansDrained DEF Join
    <3>2. /\ joined' = TRUE /\ accepted' = accepted /\ taken' = taken
          /\ finished' = finished /\ stop' = stop
      BY <2>7 DEF Join
    <3>3. QED
      BY <3>1, <3>2, Zenon DEF Abstract!Drain, Abstract!Range, Range
  <2>8. ASSUME Moves, UNCHANGED <<stop, joined>>
        PROVE  UNCHANGED Abstract!vars
    BY <2>8, MovesKeepTasks
  <2>9. CASE Moves
    BY <2>6, <2>7, <2>8, <2>9
       DEF Moves, vars, NotifyOne, SpuriousWakeup, Sleep, Exit, WaitIdle,
           CheckIdle, StopNotifyAll
  <2>10. QED
    BY <1>2, <2>1, <2>2, <2>3, <2>4, <2>5, <2>9, NextCases
<1>3. QED
  BY <1>1, <1>2, Invariance, PTL DEF Spec, ImplementsTaskPool, Abstract!Spec

=============================================================================
