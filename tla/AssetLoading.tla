---------------------------- MODULE AssetLoading ----------------------------
(***************************************************************************)
(* AssetManager: the asset cache, asynchronous loads and their             *)
(* finalization on the main thread, with the ThreadPool reduced to "queued *)
(* tasks run in any order and WaitIdle waits for all of them" (what        *)
(* TaskPool promises), and the runtime layer's wait for background work.   *)
(*                                                                         *)
(* LoadAsset is called by the main thread and by a task that deserializes  *)
(* a scene.  Paths and handles are one to one: a handle is the UUID in the *)
(* .meta file beside the asset.  An object is one Create of a loader.      *)
(***************************************************************************)
EXTENDS Integers, FiniteSets, SequencesExt

CONSTANTS
  Paths,     \* the files that are asked for
  Objects,   \* the Asset objects a run may create
  Workers,   \* how many threads the pool has
  None,      \* no object
  Main,      \* the main thread
  Task,      \* the pool task that deserializes a scene
  Callers    \* which of the two call LoadAsset

ASSUME AssetAssumption ==
  /\ IsFiniteSet(Paths) /\ IsFiniteSet(Objects) /\ None \notin Objects
  /\ Main # Task /\ Main \in Callers /\ Callers \subseteq {Main, Task}
  /\ Workers \in Nat \ {0}

VARIABLES
  cache,       \* m_AssetCache
  state,       \* AssetState of each object; "None" also when not created
  starting,    \* the object a caller has put in the cache and not yet started
  taskActive,  \* the scene task is queued or running
  queued,      \* loads of each object that are queued or in ExecuteLoad
  loaded,      \* loads of each object between ExecuteLoad and m_PendingAssets
  leaving,     \* load tasks with only the decrement of the counter left
  count,       \* m_LoadingCount
  pending,     \* m_PendingAssets
  main,        \* where the main thread is
  current,     \* the object main is finalizing or reloading
  stale,       \* the paths CollectStaleAssets found
  started      \* RuntimeLoadState: "no", or how the scene was let start

tasks == <<taskActive, queued, loaded, leaving, count>>
thread == <<main, current, stale>>
vars == <<cache, state, starting, tasks, pending, thread, started>>

States == {"None", "Loading", "Ready", "Failed"}
Stages == {"frame", "reload", "reloading", "uploading", "finalize", "finalizing",
           "resolve", "readPending", "readCount", "stopping", "waiting",
           "draining", "closed"}

Init ==
  /\ cache = [p \in Paths |-> None]
  /\ state = [o \in Objects |-> "None"]
  /\ starting = [c \in Callers |-> None]
  /\ taskActive = FALSE
  /\ queued = [o \in Objects |-> 0] /\ loaded = [o \in Objects |-> 0]
  /\ leaving = 0 /\ count = 0
  /\ pending = <<>>
  /\ main = "frame" /\ current = None /\ stale = {}
  /\ started = "no"

Fresh == {o \in Objects : state[o] = "None"}

-----------------------------------------------------------------------------
(* LoadAsset and StartAsyncLoad, on any thread.                            *)

\* Where the caller may ask for an asset: the task while it runs, the main
\* thread while it resolves components, or while OnLoaded of a model asks for its
\* textures, be it loaded or reloaded.  Shutdown comes after
\* Project::SetActive(nullptr): an upload then asks for no texture.
MayLoad(c) ==
  IF c = Task THEN taskActive ELSE main \in {"uploading", "finalizing", "resolve"}

\* Under m_AssetLock: the path is not cached, and a new object is.
Insert(c, p, o) ==
  /\ MayLoad(c) /\ starting[c] = None
  /\ cache[p] = None /\ o \in Fresh
  /\ cache' = [cache EXCEPT ![p] = o]
  /\ state' = [state EXCEPT ![o] = "Loading"]
  /\ starting' = [starting EXCEPT ![c] = o]
  /\ UNCHANGED <<tasks, pending, thread, started>>

\* Slip: the counter is left for the worker to increment.
StartLoad_Uncounted(c) ==
  /\ starting[c] # None
  /\ queued' = [queued EXCEPT ![starting[c]] = @ + 1]
  /\ starting' = [starting EXCEPT ![c] = None]
  /\ UNCHANGED <<cache, state, taskActive, loaded, leaving, count, pending,
                 thread, started>>

\* The lock is gone; the load is counted, then queued.
StartLoad(c) ==
  /\ starting[c] # None
  /\ count' = count + 1
  /\ queued' = [queued EXCEPT ![starting[c]] = @ + 1]
  /\ starting' = [starting EXCEPT ![c] = None]
  /\ UNCHANGED <<cache, state, taskActive, loaded, leaving, pending, thread,
                 started>>

\* A loader that is not asynchronous: OnLoaded and Ready follow at once.
LoadInPlace(c, ok) ==
  /\ starting[c] # None
  /\ state' = [state EXCEPT ![starting[c]] = IF ok THEN "Ready" ELSE "Failed"]
  /\ starting' = [starting EXCEPT ![c] = None]
  /\ UNCHANGED <<cache, tasks, pending, thread, started>>

StartTask ==
  /\ main = "frame" /\ ~taskActive /\ Task \in Callers
  /\ taskActive' = TRUE
  /\ UNCHANGED <<cache, state, starting, queued, loaded, leaving, count,
                 pending, thread, started>>

EndTask ==
  /\ taskActive /\ Task \notin {c \in Callers : starting[c] # None}
  /\ taskActive' = FALSE
  /\ UNCHANGED <<cache, state, starting, queued, loaded, leaving, count,
                 pending, thread, started>>

-----------------------------------------------------------------------------
(* The load tasks of the pool.                                             *)

\* A worker is left to run ExecuteLoad.
Runs(o) == queued[o] > 0 /\ leaving + FoldFunction(+, 0, loaded) < Workers

Succeed(o) ==
  /\ Runs(o)
  /\ queued' = [queued EXCEPT ![o] = @ - 1]
  /\ loaded' = [loaded EXCEPT ![o] = @ + 1]
  /\ UNCHANGED <<cache, state, starting, taskActive, leaving, count, pending,
                 thread, started>>

\* Slip: the failing path decrements the counter, and so does the task's end.
Fail_Twice(o) ==
  /\ Runs(o)
  /\ queued' = [queued EXCEPT ![o] = @ - 1]
  /\ state' = [state EXCEPT ![o] = "Failed"]
  /\ leaving' = leaving + 1 /\ count' = count - 1
  /\ UNCHANGED <<cache, starting, taskActive, loaded, pending, thread, started>>

Fail(o) ==
  /\ Runs(o)
  /\ queued' = [queued EXCEPT ![o] = @ - 1]
  /\ state' = [state EXCEPT ![o] = "Failed"]
  /\ leaving' = leaving + 1
  /\ UNCHANGED <<cache, starting, taskActive, loaded, count, pending, thread,
                 started>>

Push(o) ==
  /\ loaded[o] > 0
  /\ loaded' = [loaded EXCEPT ![o] = @ - 1]
  /\ pending' = Append(pending, o)
  /\ leaving' = leaving + 1
  /\ UNCHANGED <<cache, state, starting, taskActive, queued, count, thread,
                 started>>

Leave ==
  /\ leaving > 0
  /\ leaving' = leaving - 1 /\ count' = count - 1
  /\ UNCHANGED <<cache, state, starting, taskActive, queued, loaded, pending,
                 thread, started>>

-----------------------------------------------------------------------------
(* The main thread: AssetManager::Update.                                  *)

Goto(s) == main' = s
InMain(s) == main = s /\ starting[Main] = None

\* Slip: assets that are being loaded are collected as well.
CollectStale_Loading(S) ==
  /\ InMain("frame")
  /\ S \subseteq {p \in Paths : cache[p] # None}
  /\ stale' = S
  /\ Goto("reload")
  /\ UNCHANGED <<cache, state, starting, tasks, pending, current, started>>

\* CollectStaleAssets: S is what has changed on disk.  It is empty when the
\* interval has not passed.
CollectStale(S) ==
  /\ InMain("frame")
  /\ S \subseteq {p \in Paths : cache[p] # None /\ state[cache[p]] # "Loading"}
  /\ stale' = S
  /\ Goto("reload")
  /\ UNCHANGED <<cache, state, starting, tasks, pending, current, started>>

BeginReload(p) ==
  /\ InMain("reload") /\ p \in stale
  /\ current' = cache[p]
  /\ state' = [state EXCEPT ![cache[p]] = "Loading"]
  /\ stale' = stale \ {p}
  /\ Goto("reloading")
  /\ UNCHANGED <<cache, starting, tasks, pending, started>>

\* ReloadAsset runs the loader on this thread, asynchronous or not.
LoadAgain ==
  /\ InMain("reloading")
  /\ Goto("uploading")
  /\ UNCHANGED <<cache, state, starting, tasks, pending, current, stale, started>>

\* A load that fails does not get to OnLoaded.
EndReload(ok) ==
  /\ InMain(IF ok THEN "uploading" ELSE "reloading")
  /\ state' = [state EXCEPT ![current] = IF ok THEN "Ready" ELSE "Failed"]
  /\ current' = None
  /\ Goto("reload")
  /\ UNCHANGED <<cache, starting, tasks, pending, stale, started>>

StartFinalize ==
  /\ InMain("reload") /\ stale = {}
  /\ Goto("finalize")
  /\ UNCHANGED <<cache, state, starting, tasks, pending, current, stale,
                 started>>

-----------------------------------------------------------------------------
(* The main thread: FinalizePendingLoads.                                  *)

PopPending ==
  /\ InMain("finalize") /\ pending # <<>>
  /\ current' = Head(pending) /\ pending' = Tail(pending)
  /\ Goto("finalizing")
  /\ UNCHANGED <<cache, state, starting, tasks, stale, started>>

\* Slip: a frame that is out of budget drops what it has not reached.
EndFinalize_Drop(ok, next) ==
  /\ InMain("finalizing")
  /\ next \in {"finalize", "resolve"}
  /\ state' = [state EXCEPT ![current] = IF ok THEN "Ready" ELSE "Failed"]
  /\ pending' = IF next = "resolve" THEN <<>> ELSE pending
  /\ current' = None
  /\ Goto(next)
  /\ UNCHANGED <<cache, starting, tasks, stale, started>>

\* OnLoaded may fail.  Afterwards the next one is taken, or the budget of the
\* frame (128 assets, 12 ms) is used up.
EndFinalize(ok, next) ==
  /\ InMain("finalizing")
  /\ next \in {"finalize", "resolve"}
  /\ state' = [state EXCEPT ![current] = IF ok THEN "Ready" ELSE "Failed"]
  /\ current' = None
  /\ Goto(next)
  /\ UNCHANGED <<cache, starting, tasks, pending, stale, started>>

NothingPending ==
  /\ InMain("finalize") /\ pending = <<>>
  /\ Goto("resolve")
  /\ UNCHANGED <<cache, state, starting, tasks, pending, current, stale,
                 started>>

-----------------------------------------------------------------------------
(* The main thread: the rest of a frame.                                   *)

\* RetryFailedAsset holds m_AssetLock throughout; it is used for models only,
\* whose loader is asynchronous.
Retry(p) ==
  /\ InMain("resolve")
  /\ cache[p] # None /\ state[cache[p]] = "Failed"
  /\ state' = [state EXCEPT ![cache[p]] = "Loading"]
  /\ count' = count + 1
  /\ queued' = [queued EXCEPT ![cache[p]] = @ + 1]
  /\ UNCHANGED <<cache, starting, taskActive, loaded, leaving, pending, thread,
                 started>>

\* Invalidate: the cache forgets the object, a load in flight does not.
Invalidate(p) ==
  /\ InMain("resolve")
  /\ cache[p] # None
  /\ cache' = [cache EXCEPT ![p] = None]
  /\ UNCHANGED <<state, starting, tasks, pending, thread, started>>

\* The scene runs, or waits for its assets.
EndResolve ==
  /\ InMain("resolve")
  /\ Goto(IF started = "no" THEN "readPending" ELSE "frame")
  /\ UNCHANGED <<cache, state, starting, tasks, pending, current, stale,
                 started>>

\* HasBackgroundWork, first read.
ReadPending ==
  /\ InMain("readPending")
  /\ Goto(IF pending = <<>> THEN "readCount" ELSE "frame")
  /\ UNCHANGED <<cache, state, starting, tasks, pending, current, stale,
                 started>>

\* HasBackgroundWork, second read, and what TickSceneLoading makes of it.
ReadCount ==
  /\ InMain("readCount")
  /\ started' = IF count > 0 THEN started ELSE "ready"
  /\ Goto("frame")
  /\ UNCHANGED <<cache, state, starting, tasks, pending, current, stale>>

\* kLoadingTimeoutSec has passed.
ForceStart ==
  /\ InMain("frame") /\ started = "no"
  /\ started' = "forced"
  /\ UNCHANGED <<cache, state, starting, tasks, pending, thread>>

\* Another scene is loaded.
LoadScene ==
  /\ InMain("frame") /\ started # "no"
  /\ started' = "no"
  /\ UNCHANGED <<cache, state, starting, tasks, pending, thread>>

-----------------------------------------------------------------------------
(* AssetManager::Shutdown.                                                 *)

Shutdown ==
  /\ InMain("frame")
  /\ Goto("stopping")
  /\ UNCHANGED <<cache, state, starting, tasks, pending, current, stale,
                 started>>

\* The loop may end at any time: there is no work left, or kMaxIter is reached.
StopLooping ==
  /\ InMain("stopping")
  /\ Goto("waiting")
  /\ UNCHANGED <<cache, state, starting, tasks, pending, current, stale,
                 started>>

\* FinalizePendingLoads, in the loop and once more after WaitIdle.
FinalizeStopping(ok) ==
  /\ InMain("stopping") \/ InMain("draining")
  /\ pending # <<>>
  /\ state' = [state EXCEPT ![Head(pending)] = IF ok THEN "Ready" ELSE "Failed"]
  /\ pending' = Tail(pending)
  /\ UNCHANGED <<cache, starting, tasks, thread, started>>

NoTasks ==
  /\ ~taskActive /\ leaving = 0
  /\ \A o \in Objects : queued[o] = 0 /\ loaded[o] = 0

\* Slip: only tasks that have not started yet are waited for.
WaitIdle_QueueOnly ==
  /\ InMain("waiting")
  /\ \A o \in Objects : queued[o] = 0
  /\ Goto("draining")
  /\ UNCHANGED <<cache, state, starting, tasks, pending, current, stale,
                 started>>

WaitIdle ==
  /\ InMain("waiting")
  /\ NoTasks
  /\ Goto("draining")
  /\ UNCHANGED <<cache, state, starting, tasks, pending, current, stale,
                 started>>

Close ==
  /\ InMain("draining")
  /\ Goto("closed")
  /\ UNCHANGED <<cache, state, starting, tasks, pending, current, stale,
                 started>>

-----------------------------------------------------------------------------
Loading ==
  \/ \E c \in Callers : \/ \E p \in Paths, o \in Objects : Insert(c, p, o)
                       \/ StartLoad(c)
                       \/ \E ok \in BOOLEAN : LoadInPlace(c, ok)
  \/ StartTask

Pool ==
  \/ \E o \in Objects : Succeed(o) \/ Fail(o) \/ Push(o)
  \/ Leave \/ EndTask

Frame ==
  \/ \E S \in SUBSET Paths : CollectStale(S)
  \/ \E p \in Paths : BeginReload(p)
  \/ \E ok \in BOOLEAN : EndReload(ok) \/ FinalizeStopping(ok)
  \/ \E ok \in BOOLEAN, next \in Stages : EndFinalize(ok, next)
  \/ LoadAgain \/ StartFinalize \/ PopPending \/ NothingPending \/ EndResolve
  \/ ReadPending \/ ReadCount
  \/ StopLooping \/ WaitIdle \/ Close

Requests ==
  \/ \E p \in Paths : Retry(p) \/ Invalidate(p)
  \/ ForceStart \/ LoadScene \/ Shutdown

Next == Loading \/ Pool \/ Frame \/ Requests

Spec == Init /\ [][Next]_vars

\* The pool's queue is first in, first out: a load is reached however often the
\* workers are busy when it could be.  A caller that has put an object in the
\* cache goes on; frames follow each other.
Fairness ==
  /\ \A o \in Objects : SF_vars(Succeed(o) \/ Fail(o)) /\ WF_vars(Push(o))
  /\ \A c \in Callers :
       WF_vars(StartLoad(c) \/ \E ok \in BOOLEAN : LoadInPlace(c, ok))
  /\ WF_vars(Leave) /\ WF_vars(EndTask) /\ WF_vars(Frame)

FairSpec == Spec /\ Fairness
-----------------------------------------------------------------------------
MaybeObject == Objects \cup {None}

TypeOK ==
  /\ cache \in [Paths -> MaybeObject] /\ state \in [Objects -> States]
  /\ starting \in [Callers -> MaybeObject] /\ taskActive \in BOOLEAN
  /\ queued \in [Objects -> Nat] /\ loaded \in [Objects -> Nat]
  /\ leaving \in Nat /\ count \in Nat
  /\ pending \in Seq(Objects)
  /\ main \in Stages /\ current \in MaybeObject /\ stale \subseteq Paths
  /\ started \in {"no", "ready", "forced"}

\* The places that are going to set the state of an object.
Owners(o) ==
  queued[o] + loaded[o]
    + Cardinality({c \in Callers : starting[c] = o})
    + Cardinality({n \in DOMAIN pending : pending[n] = o})
    + (IF current = o THEN 1 ELSE 0)

\* An object is Loading exactly as long as one thread, task or queue has it: no
\* load is forgotten, and no object is loaded by two threads at once, although
\* hot reload and retry start loads of objects others have loaded before.
OwnedOnce ==
  \A o \in Objects : Owners(o) = IF state[o] = "Loading" THEN 1 ELSE 0

\* What HasBackgroundWork promises if its two reads are one: with nothing
\* pending, nothing counted and no caller on its way, no asset is Loading.
IdleMeansSettled ==
  pending = <<>> /\ count = 0 /\ current = None
    /\ (\A c \in Callers : starting[c] = None)
      => \A o \in Objects : state[o] # "Loading"

\* When Shutdown has returned, no task is left that uses the manager, even when
\* the loop gave up waiting.
ShutdownOutlivesTasks == main = "closed" => NoTasks /\ count = 0

\* An asset that is asked for is loaded or fails, or is dropped from the cache,
\* or the manager shuts down.
LoadsSettle ==
  \A p \in Paths, o \in Objects :
    cache[p] = o /\ state[o] = "Loading"
      ~> state[o] # "Loading" \/ cache[p] # o \/ main = "closed"

\* "RuntimeSystem: Scene assets and physics are ready, entering runtime": a scene
\* that starts before its timeout finds no cached asset still loading.
ReadyMeansSettled ==
  [][started = "no" /\ started' = "ready"
       => \A p \in Paths : cache[p] # None => state[cache[p]] # "Loading"]_vars
=============================================================================
