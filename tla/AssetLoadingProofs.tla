-------------------------- MODULE AssetLoadingProofs --------------------------
(***************************************************************************)
(* Proofs about AssetLoading for every number of paths, objects and        *)
(* workers, with and without a scene task.                                 *)
(***************************************************************************)
EXTENDS AssetLoading, FiniteSetTheorems, TLAPS

-----------------------------------------------------------------------------
(* The queue of loads to be finalized.                                     *)

Distinct(s) == \A m, n \in DOMAIN s : s[m] = s[n] => m = n

\* A load is queued.
LEMMA AppendSet ==
  ASSUME NEW S, NEW s \in Seq(S), NEW e \in S, Distinct(s), e \notin ToSet(s)
  PROVE  /\ Append(s, e) \in Seq(S) /\ Distinct(Append(s, e))
         /\ ToSet(Append(s, e)) = ToSet(s) \cup {e}
<1> DEFINE t == Append(s, e)
<1>1. /\ t \in Seq(S) /\ Len(t) = Len(s) + 1 /\ Len(s) \in Nat
      /\ \A n \in 1 .. Len(s) : t[n] = s[n]
      /\ t[Len(s) + 1] = e /\ DOMAIN s = 1 .. Len(s) /\ DOMAIN t = 1 .. Len(t)
  OBVIOUS
<1> HIDE DEF t
<1>2. ToSet(t) = ToSet(s) \cup {e}
  BY <1>1 DEF ToSet
<1>3. \A n \in 1 .. Len(s) : s[n] # e
  BY <1>1 DEF ToSet
<1>4. Distinct(t)
  BY <1>1, <1>3 DEF Distinct
<1>5. QED
  BY <1>1, <1>2, <1>4 DEF t

\* The next load is taken.
LEMMA TailSet ==
  ASSUME NEW S, NEW s \in Seq(S), s # <<>>, Distinct(s)
  PROVE  /\ Head(s) \in S /\ Head(s) \in ToSet(s)
         /\ Tail(s) \in Seq(S) /\ Distinct(Tail(s))
         /\ ToSet(Tail(s)) = ToSet(s) \ {Head(s)}
<1> DEFINE t == Tail(s)
<1>1. /\ t \in Seq(S) /\ Len(t) = Len(s) - 1 /\ Len(s) \in Nat \ {0}
      /\ \A n \in 1 .. Len(s) - 1 : t[n] = s[n + 1]
      /\ Head(s) = s[1] /\ Head(s) \in S
      /\ DOMAIN s = 1 .. Len(s) /\ DOMAIN t = 1 .. Len(s) - 1
  OBVIOUS
<1> HIDE DEF t
<1>2. Distinct(t)
  BY <1>1 DEF Distinct
<1>3. ToSet(t) \subseteq ToSet(s) \ {Head(s)}
  BY <1>1 DEF ToSet, Distinct
<1>4. ASSUME NEW e \in ToSet(s), e # Head(s) PROVE e \in ToSet(t)
  <2>1. PICK n \in 1 .. Len(s) : e = s[n]
    BY <1>1 DEF ToSet
  <2>2. n # 1 /\ n - 1 \in 1 .. Len(s) - 1 /\ (n - 1) + 1 = n
    BY <1>1, <1>4, <2>1
  <2>3. t[n - 1] = e
    BY <1>1, <2>1, <2>2
  <2>4. QED
    BY <1>1, <2>2, <2>3 DEF ToSet
<1>5. Head(s) \in ToSet(s)
  BY <1>1 DEF ToSet
<1>6. QED
  BY <1>1, <1>2, <1>3, <1>4, <1>5 DEF t

-----------------------------------------------------------------------------
(* The inductive invariant.                                                *)

\* TypeOK without the counter, whose type depends on what it counts.
Typed ==
  /\ cache \in [Paths -> MaybeObject] /\ state \in [Objects -> States]
  /\ starting \in [Callers -> MaybeObject] /\ taskActive \in BOOLEAN
  /\ queued \in [Objects -> Nat] /\ loaded \in [Objects -> Nat]
  /\ leaving \in Nat /\ pending \in Seq(Objects)
  /\ main \in Stages /\ current \in MaybeObject /\ stale \subseteq Paths
  /\ started \in {"no", "ready", "forced"}

\* The objects a load task has, those on their way to one, those that wait for
\* the main thread, and the one it has.
InFlight == {o \in Objects : queued[o] + loaded[o] # 0}
Starting == {starting[c] : c \in Callers} \ {None}
Waiting == ToSet(pending)
Held == {current} \ {None}
LoadingSet == {o \in Objects : state[o] = "Loading"}

\* Every object that is Loading is in one of these places, once, and no other is.
Apart ==
  /\ InFlight \cap Starting = {} /\ InFlight \cap Waiting = {}
  /\ InFlight \cap Held = {} /\ Starting \cap Waiting = {}
  /\ Starting \cap Held = {} /\ Waiting \cap Held = {}

Once ==
  /\ \A o \in Objects : queued[o] + loaded[o] <= 1
  /\ \A c, d \in Callers : starting[c] = starting[d] /\ starting[c] # None => c = d
  /\ Distinct(pending)

Everywhere == LoadingSet = InFlight \cup Starting \cup Waiting \cup Held

\* m_LoadingCount counts the tasks from StartLoad to Leave.
Counted == count = leaving + Cardinality(InFlight)

\* Objects in the cache have been created, each for one path.
CacheOK ==
  /\ \A p \in Paths : cache[p] # None => state[cache[p]] # "None"
  /\ \A p, q \in Paths : cache[p] = cache[q] /\ cache[p] # None => p = q

\* What CollectStaleAssets found stays in the cache and is not Loading until it is
\* reloaded.
StaleOK ==
  /\ main \notin {"reload", "reloading", "uploading"} => stale = {}
  /\ \A p \in stale : cache[p] # None /\ state[cache[p]] # "Loading"

\* Where the main thread is.
MainOK ==
  /\ current # None <=> main \in {"reloading", "uploading", "finalizing"}
  /\ starting[Main] # None => main \in {"uploading", "finalizing", "resolve"}
  /\ \A c \in Callers : c # Main /\ starting[c] # None => taskActive = TRUE

\* After WaitIdle nobody is left to queue a task.
StoppedOK ==
  main \in {"draining", "closed"} =>
    /\ taskActive = FALSE /\ leaving = 0 /\ InFlight = {} /\ Starting = {}

AssetInv ==
  /\ Typed /\ Apart /\ Once /\ Everywhere /\ Counted
  /\ CacheOK /\ StaleOK /\ MainOK /\ StoppedOK

-----------------------------------------------------------------------------
(* What an assignment does to the places.                                  *)

LEMMA FlightFinite ==
  ASSUME AssetAssumption
  PROVE  IsFiniteSet(InFlight) /\ Cardinality(InFlight) \in Nat
<1>1. InFlight \in SUBSET Objects
  BY DEF InFlight
<1>2. IsFiniteSet(InFlight)
  BY <1>1, FS_Subset DEF AssetAssumption
<1>3. QED
  BY <1>2, FS_CardinalityType

\* The state of an object is set; it has been created before or is now.
LEMMA StateSet ==
  ASSUME Typed, NEW o \in Objects, NEW v \in States \ {"None"},
         state' = [state EXCEPT ![o] = v]
  PROVE  /\ state' \in [Objects -> States]
         /\ LoadingSet' = IF v = "Loading" THEN LoadingSet \cup {o} ELSE LoadingSet \ {o}
         /\ \A x \in Objects : state[x] # "None" => state'[x] # "None"
         /\ \A x \in Objects \ {o} : state'[x] = state[x]
         /\ state'[o] = v
<1>1. state \in [Objects -> States]
  BY DEF Typed
<1>2. /\ state' \in [Objects -> States] /\ state'[o] = v
      /\ \A x \in Objects \ {o} : state'[x] = state[x]
  BY <1>1
<1>3. LoadingSet' = IF v = "Loading" THEN LoadingSet \cup {o} ELSE LoadingSet \ {o}
  BY <1>2 DEF LoadingSet
<1>4. QED
  BY <1>2, <1>3

\* A load of an object without one is queued.
LEMMA FlightGrows ==
  ASSUME AssetAssumption, Typed, Once, NEW o \in Objects, o \notin InFlight,
         queued' = [queued EXCEPT ![o] = @ + 1], loaded' = loaded
  PROVE  /\ queued' \in [Objects -> Nat] /\ loaded' \in [Objects -> Nat]
         /\ InFlight' = InFlight \cup {o}
         /\ Cardinality(InFlight') = Cardinality(InFlight) + 1
         /\ \A x \in Objects : queued'[x] + loaded'[x] <= 1
<1>1. queued \in [Objects -> Nat] /\ loaded \in [Objects -> Nat]
  BY DEF Typed
<1>2. queued[o] = 0 /\ loaded[o] = 0
  BY <1>1 DEF InFlight
<1>3. /\ queued' \in [Objects -> Nat] /\ loaded' \in [Objects -> Nat]
      /\ queued'[o] + loaded'[o] = 1
      /\ \A x \in Objects \ {o} : queued'[x] = queued[x] /\ loaded'[x] = loaded[x]
  BY <1>1, <1>2
<1>4. InFlight' = InFlight \cup {o}
  BY <1>3 DEF InFlight
<1>5. Cardinality(InFlight') = Cardinality(InFlight) + 1
  BY <1>4, FlightFinite, FS_AddElement
<1>6. \A x \in Objects : queued'[x] + loaded'[x] <= 1
  BY <1>3 DEF Once
<1>7. QED
  BY <1>3, <1>4, <1>5, <1>6

\* The load of an object is over.
LEMMA FlightShrinks ==
  ASSUME AssetAssumption, Typed, Once, NEW o \in Objects, o \in InFlight,
         queued' \in [Objects -> Nat], loaded' \in [Objects -> Nat],
         queued'[o] = 0, loaded'[o] = 0,
         \A x \in Objects \ {o} : queued'[x] = queued[x] /\ loaded'[x] = loaded[x]
  PROVE  /\ InFlight' = InFlight \ {o}
         /\ Cardinality(InFlight') = Cardinality(InFlight) - 1
         /\ \A x \in Objects : queued'[x] + loaded'[x] <= 1
<1>1. InFlight' = InFlight \ {o}
  BY DEF InFlight
<1>2. Cardinality(InFlight') = Cardinality(InFlight) - 1
  BY <1>1, FlightFinite, FS_RemoveElement
<1>3. \A x \in Objects : queued'[x] + loaded'[x] <= 1
  BY DEF Once
<1>4. QED
  BY <1>1, <1>2, <1>3

\* A caller is done with the object it has put in the cache.
LEMMA CallerDone ==
  ASSUME Typed, Once, NEW c \in Callers, starting[c] # None,
         starting' = [starting EXCEPT ![c] = None]
  PROVE  /\ starting[c] \in Objects /\ starting[c] \in Starting
         /\ starting' \in [Callers -> MaybeObject]
         /\ Starting' = Starting \ {starting[c]}
         /\ \A d, e \in Callers :
              starting'[d] = starting'[e] /\ starting'[d] # None => d = e
         /\ \A d \in Callers : starting'[d] \in {starting[d], None}
<1>1. starting \in [Callers -> MaybeObject]
  BY DEF Typed
<1>2. /\ starting' \in [Callers -> MaybeObject] /\ starting'[c] = None
      /\ \A d \in Callers \ {c} : starting'[d] = starting[d]
  BY <1>1 DEF MaybeObject
<1>3. starting[c] \in Objects /\ starting[c] \in Starting
  BY <1>1 DEF MaybeObject, Starting
<1>4. \A d \in Callers \ {c} : starting[d] # starting[c]
  BY DEF Once
<1>5. Starting' = Starting \ {starting[c]}
  BY <1>2, <1>4 DEF Starting
<1>6. \A d, e \in Callers :
        starting'[d] = starting'[e] /\ starting'[d] # None => d = e
  BY <1>2 DEF Once
<1>7. QED
  BY <1>2, <1>3, <1>5, <1>6

\* A step that leaves the cache alone and un-creates nothing.
LEMMA CacheKept ==
  ASSUME Typed, CacheOK, UNCHANGED cache,
         \A o \in Objects : state[o] # "None" => state'[o] # "None"
  PROVE  CacheOK'
<1>1. \A p \in Paths : cache[p] # None => cache[p] \in Objects
  BY DEF Typed, MaybeObject
<1>2. QED
  BY <1>1 DEF CacheOK

\* A step that makes nothing of what is stale Loading.
LEMMA StaleKept ==
  ASSUME StaleOK, UNCHANGED <<stale, main>>,
         \A p \in stale : cache'[p] = cache[p],
         \A p \in stale : state'[cache[p]] \in {state[cache[p]], "Ready", "Failed"}
  PROVE  StaleOK'
BY DEF StaleOK

-----------------------------------------------------------------------------
(* Steps that move no object.                                              *)

LEMMA PlacesKept ==
  ASSUME Apart, Once, Everywhere,
         UNCHANGED <<state, starting, queued, loaded, pending, current>>
  PROVE  Apart' /\ Once' /\ Everywhere'
BY DEF Apart, Once, Everywhere, InFlight, Starting, Waiting, Held, LoadingSet

LEMMA CountKept ==
  ASSUME Counted, UNCHANGED <<count, leaving, queued, loaded>>
  PROVE  Counted'
BY DEF Counted, InFlight

\* The main thread goes from one stage to the next.
LEMMA StageSteps ==
  ASSUME AssetAssumption, AssetInv,
         \/ StartFinalize \/ NothingPending \/ EndResolve \/ ReadPending
         \/ ReadCount \/ ForceStart \/ LoadScene \/ Shutdown \/ StopLooping
         \/ WaitIdle \/ Close \/ LoadAgain \/ \E S \in SUBSET Paths : CollectStale(S)
  PROVE  AssetInv'
<1>1. UNCHANGED <<cache, state, starting, taskActive, queued, loaded, leaving,
                  count, pending, current>>
  BY DEF StartFinalize, NothingPending, EndResolve, ReadPending, ReadCount,
         ForceStart, LoadScene, Shutdown, StopLooping, WaitIdle, Close, LoadAgain,
         CollectStale, tasks, thread
<1>2. Apart' /\ Once' /\ Everywhere' /\ Counted'
  BY <1>1, PlacesKept, CountKept DEF AssetInv
<1>3. CacheOK'
  BY <1>1, CacheKept DEF AssetInv
<1> USE DEF AssetInv, InMain, Goto, Stages
<1>4. CASE \E S \in SUBSET Paths : CollectStale(S)
  <2>1. PICK S \in SUBSET Paths : CollectStale(S)
    BY <1>4
  <2>2. /\ main = "frame" /\ main' = "reload" /\ stale' = S /\ UNCHANGED started
        /\ \A p \in S : cache[p] # None /\ state[cache[p]] # "Loading"
    BY <2>1 DEF CollectStale
  <2>3. Typed'
    BY <1>1, <2>2 DEF Typed
  <2>4. StaleOK'
    BY <1>1, <2>2 DEF StaleOK
  <2>5. MainOK' /\ StoppedOK'
    BY <1>1, <2>2 DEF MainOK, StoppedOK
  <2>6. QED
    BY <1>2, <1>3, <2>3, <2>4, <2>5
<1>5. CASE WaitIdle
  <2>1. /\ main = "waiting" /\ main' = "draining" /\ starting[Main] = None
        /\ NoTasks /\ UNCHANGED <<stale, started>>
    BY <1>5 DEF WaitIdle
  <2>2. Typed' /\ StaleOK' /\ MainOK'
    BY <1>1, <2>1 DEF Typed, StaleOK, MainOK
  <2>3. taskActive = FALSE /\ leaving = 0
    BY <2>1 DEF NoTasks, Typed
  <2>4. InFlight = {}
    BY <2>1 DEF NoTasks, InFlight
  <2>5. Starting = {}
    BY <2>1, <2>3 DEF MainOK, Starting
  <2>6. StoppedOK'
    BY <1>1, <2>3, <2>4, <2>5 DEF StoppedOK, InFlight, Starting
  <2>7. QED
    BY <1>2, <1>3, <2>2, <2>6
<1>6. CASE \/ StartFinalize \/ NothingPending \/ EndResolve \/ ReadPending
           \/ ReadCount \/ ForceStart \/ LoadScene \/ Shutdown \/ StopLooping
           \/ Close
  <2>1. /\ stale' = stale /\ started' \in {started, "no", "ready", "forced"}
        /\ main' \in Stages
        /\ main' \notin {"reload", "reloading", "uploading", "finalizing", "draining"}
        /\ main \notin {"reloading", "uploading", "finalizing", "closed"}
        /\ main' # main => starting[Main] = None
        /\ main = "reload" => stale = {}
        /\ main' = "closed" => main = "draining"
    BY <1>6 DEF StartFinalize, NothingPending, EndResolve, ReadPending, ReadCount,
                ForceStart, LoadScene, Shutdown, StopLooping, Close, thread
  <2>2. Typed'
    BY <1>1, <2>1 DEF Typed
  <2>3. StaleOK'
    BY <1>1, <2>1 DEF StaleOK
  <2>4. MainOK'
    BY <1>1, <2>1 DEF MainOK
  <2>5. StoppedOK'
    BY <1>1, <2>1 DEF StoppedOK, InFlight, Starting
  <2>6. QED
    BY <1>2, <1>3, <2>2, <2>3, <2>4, <2>5
<1>7. CASE LoadAgain
  <2>1. /\ main = "reloading" /\ main' = "uploading" /\ UNCHANGED <<stale, started>>
    BY <1>7 DEF LoadAgain
  <2>2. Typed' /\ StaleOK' /\ MainOK'
    BY <1>1, <2>1 DEF Typed, StaleOK, MainOK
  <2>3. StoppedOK'
    BY <1>1, <2>1 DEF StoppedOK, InFlight, Starting
  <2>4. QED
    BY <1>2, <1>3, <2>2, <2>3
<1>8. QED
  BY <1>4, <1>5, <1>6, <1>7

\* The scene task comes and goes, and the cache forgets an object.
LEMMA TaskSteps ==
  ASSUME AssetAssumption, AssetInv,
         StartTask \/ EndTask \/ \E p \in Paths : Invalidate(p)
  PROVE  AssetInv'
<1> USE DEF AssetInv, InMain
<1>1. UNCHANGED <<state, starting, queued, loaded, leaving, count, pending,
                  main, current, stale, started>>
  BY DEF StartTask, EndTask, Invalidate, tasks, thread
<1>2. Apart' /\ Once' /\ Everywhere' /\ Counted'
  BY <1>1, PlacesKept, CountKept
<1>3. CASE StartTask
  <2>1. UNCHANGED cache /\ taskActive' = TRUE /\ main = "frame"
    BY <1>3 DEF StartTask, thread
  <2>2. Typed'
    BY <1>1, <2>1 DEF Typed
  <2>3. CacheOK' /\ StaleOK'
    BY <1>1, <2>1, CacheKept DEF StaleOK
  <2>4. MainOK' /\ StoppedOK'
    BY <1>1, <2>1 DEF MainOK, StoppedOK
  <2>5. QED
    BY <1>2, <2>2, <2>3, <2>4
<1>4. CASE EndTask
  <2>1. UNCHANGED cache /\ taskActive' = FALSE
        /\ \A c \in Callers : c # Main => starting[c] = None
    BY <1>4 DEF EndTask, AssetAssumption
  <2>2. Typed'
    BY <1>1, <2>1 DEF Typed
  <2>3. CacheOK' /\ StaleOK'
    BY <1>1, <2>1, CacheKept DEF StaleOK
  <2>4. MainOK' /\ StoppedOK'
    BY <1>1, <2>1 DEF MainOK, StoppedOK, InFlight, Starting
  <2>5. QED
    BY <1>2, <2>2, <2>3, <2>4
<1>5. CASE \E p \in Paths : Invalidate(p)
  <2>1. PICK p \in Paths : Invalidate(p)
    BY <1>5
  <2>2. /\ UNCHANGED taskActive /\ main = "resolve"
        /\ cache' = [cache EXCEPT ![p] = None]
    BY <2>1 DEF Invalidate, tasks
  <2>3. Typed'
    BY <1>1, <2>2 DEF Typed, MaybeObject
  <2>4. CacheOK'
    BY <1>1, <2>2 DEF CacheOK, Typed
  <2>5. StaleOK'
    BY <1>1, <2>2 DEF StaleOK
  <2>6. MainOK' /\ StoppedOK'
    BY <1>1, <2>2 DEF MainOK, StoppedOK
  <2>7. QED
    BY <1>2, <2>3, <2>4, <2>5, <2>6
<1>6. QED
  BY <1>3, <1>4, <1>5

-----------------------------------------------------------------------------
(* Callers of LoadAsset.                                                   *)

\* A new object is nowhere yet.
LEMMA InsertStep ==
  ASSUME AssetAssumption, AssetInv, NEW c \in Callers, NEW p \in Paths,
         NEW o \in Objects, Insert(c, p, o)
  PROVE  AssetInv'
<1> USE DEF AssetInv
<1>1. /\ MayLoad(c) /\ starting[c] = None /\ cache[p] = None /\ state[o] = "None"
      /\ cache' = [cache EXCEPT ![p] = o]
      /\ state' = [state EXCEPT ![o] = "Loading"]
      /\ starting' = [starting EXCEPT ![c] = o]
      /\ UNCHANGED <<taskActive, queued, loaded, leaving, count, pending>>
      /\ UNCHANGED <<main, current, stale, started>>
  BY DEF Insert, Fresh, tasks, thread
<1>2. /\ state' \in [Objects -> States]
      /\ LoadingSet' = LoadingSet \cup {o}
      /\ \A x \in Objects : state[x] # "None" => state'[x] # "None"
      /\ \A x \in Objects \ {o} : state'[x] = state[x]
      /\ state'[o] = "Loading"
  BY <1>1, StateSet DEF States
<1>3. o \notin LoadingSet /\ o # None
  BY <1>1 DEF LoadingSet, AssetAssumption
<1>4. /\ starting' \in [Callers -> MaybeObject] /\ starting'[c] = o
      /\ \A d \in Callers \ {c} : starting'[d] = starting[d]
  BY <1>1 DEF Typed, MaybeObject
<1>5. Starting' = Starting \cup {o}
  BY <1>1, <1>3, <1>4 DEF Starting
<1>6. InFlight' = InFlight /\ Waiting' = Waiting /\ Held' = Held
  BY <1>1 DEF InFlight, Waiting, Held
<1>7. Typed'
  BY <1>1, <1>2, <1>4 DEF Typed, MaybeObject
<1>8. Apart' /\ Everywhere'
  BY <1>2, <1>3, <1>5, <1>6 DEF Apart, Everywhere
<1>9. Once'
  <2>1. \A d \in Callers : starting[d] # o
    BY <1>3 DEF Everywhere, Starting
  <2>2. QED
    BY <1>1, <1>4, <2>1 DEF Once
<1>10. Counted'
  BY <1>1, CountKept
<1>11. CacheOK'
  <2>1. \A q \in Paths : cache[q] # o /\ (cache[q] # None => cache[q] \in Objects)
    BY <1>1, <1>3 DEF CacheOK, Typed, MaybeObject
  <2>2. cache'[p] = o /\ \A q \in Paths \ {p} : cache'[q] = cache[q]
    BY <1>1 DEF Typed
  <2>3. QED
    BY <1>2, <2>1, <2>2 DEF CacheOK
<1>12. StaleOK'
  <2>1. \A q \in stale : q \in Paths /\ q # p /\ cache[q] # o /\ cache[q] \in Objects
    BY <1>1 DEF StaleOK, CacheOK, Typed, MaybeObject
  <2>2. \A q \in stale : cache'[q] = cache[q] /\ state'[cache[q]] = state[cache[q]]
    BY <1>1, <1>2, <2>1 DEF Typed
  <2>3. QED
    BY <1>1, <2>2 DEF StaleOK
<1>13. MainOK' /\ StoppedOK'
  <2>1. c = Main => main \in {"uploading", "finalizing", "resolve"}
    BY <1>1 DEF MayLoad, AssetAssumption
  <2>2. c # Main => taskActive = TRUE
    BY <1>1 DEF MayLoad, AssetAssumption, Typed
  <2>3. main \notin {"draining", "closed"}
    BY <2>1, <2>2 DEF StoppedOK
  <2>4. MainOK'
    BY <1>1, <1>4, <2>1, <2>2 DEF MainOK, AssetAssumption
  <2>5. QED
    BY <1>1, <2>3, <2>4 DEF StoppedOK
<1>14. QED
  BY <1>7, <1>8, <1>9, <1>10, <1>11, <1>12, <1>13

\* A caller hands its object to the pool.
LEMMA StartLoadStep ==
  ASSUME AssetAssumption, AssetInv, NEW c \in Callers, StartLoad(c)
  PROVE  AssetInv'
<1> USE DEF AssetInv
<1> DEFINE o == starting[c]
<1>1. /\ o # None /\ count' = count + 1
      /\ queued' = [queued EXCEPT ![o] = @ + 1]
      /\ starting' = [starting EXCEPT ![c] = None]
      /\ UNCHANGED <<cache, state, taskActive, loaded, leaving, pending>>
      /\ UNCHANGED <<main, current, stale, started>>
  BY DEF StartLoad, thread
<1>2. /\ o \in Objects /\ o \in Starting
      /\ starting' \in [Callers -> MaybeObject]
      /\ Starting' = Starting \ {o}
      /\ \A d, e \in Callers :
           starting'[d] = starting'[e] /\ starting'[d] # None => d = e
      /\ \A d \in Callers : starting'[d] \in {starting[d], None}
  BY <1>1, CallerDone
<1> HIDE DEF o
<1>3. o \notin InFlight
  BY <1>2 DEF Apart
<1>4. /\ queued' \in [Objects -> Nat] /\ loaded' \in [Objects -> Nat]
      /\ InFlight' = InFlight \cup {o}
      /\ Cardinality(InFlight') = Cardinality(InFlight) + 1
      /\ \A x \in Objects : queued'[x] + loaded'[x] <= 1
  BY <1>1, <1>2, <1>3, FlightGrows
<1>5. Waiting' = Waiting /\ Held' = Held /\ LoadingSet' = LoadingSet
  BY <1>1 DEF Waiting, Held, LoadingSet
<1>6. Typed'
  BY <1>1, <1>2, <1>4 DEF Typed
<1>7. Apart' /\ Everywhere'
  BY <1>2, <1>4, <1>5 DEF Apart, Everywhere
<1>8. Once'
  BY <1>1, <1>2, <1>4 DEF Once
<1>9. Counted'
  <2>1. Cardinality(InFlight) \in Nat /\ leaving \in Nat
    BY FlightFinite DEF Typed
  <2>2. QED
    BY <1>1, <1>4, <2>1 DEF Counted
<1>10. CacheOK' /\ StaleOK'
  BY <1>1, CacheKept DEF StaleOK
<1>11. MainOK' /\ StoppedOK'
  BY <1>1, <1>2 DEF MainOK, StoppedOK, AssetAssumption
<1>12. QED
  BY <1>6, <1>7, <1>8, <1>9, <1>10, <1>11

\* A caller loads its object itself.
LEMMA LoadInPlaceStep ==
  ASSUME AssetAssumption, AssetInv, NEW c \in Callers, NEW ok \in BOOLEAN,
         LoadInPlace(c, ok)
  PROVE  AssetInv'
<1> USE DEF AssetInv
<1> DEFINE o == starting[c]
           v == IF ok THEN "Ready" ELSE "Failed"
<1>1. /\ o # None /\ state' = [state EXCEPT ![o] = v]
      /\ starting' = [starting EXCEPT ![c] = None]
      /\ UNCHANGED <<cache, taskActive, queued, loaded, leaving, count, pending>>
      /\ UNCHANGED <<main, current, stale, started>>
  BY DEF LoadInPlace, tasks, thread
<1>2. /\ o \in Objects /\ o \in Starting
      /\ starting' \in [Callers -> MaybeObject]
      /\ Starting' = Starting \ {o}
      /\ \A d, e \in Callers :
           starting'[d] = starting'[e] /\ starting'[d] # None => d = e
      /\ \A d \in Callers : starting'[d] \in {starting[d], None}
  BY <1>1, CallerDone
<1>3. v \in States \ {"None"} /\ v \in {"Ready", "Failed"} /\ v # "Loading"
  BY DEF States
<1> HIDE DEF o, v
<1>4. /\ state' \in [Objects -> States]
      /\ LoadingSet' = LoadingSet \ {o}
      /\ \A x \in Objects : state[x] # "None" => state'[x] # "None"
      /\ \A x \in Objects \ {o} : state'[x] = state[x]
      /\ state'[o] = v
  BY <1>1, <1>2, <1>3, StateSet
<1>5. InFlight' = InFlight /\ Waiting' = Waiting /\ Held' = Held
  BY <1>1 DEF InFlight, Waiting, Held
<1>6. Typed'
  BY <1>1, <1>2, <1>4 DEF Typed
<1>7. Apart' /\ Everywhere'
  BY <1>2, <1>4, <1>5 DEF Apart, Everywhere
<1>8. Once'
  BY <1>1, <1>2 DEF Once
<1>9. Counted' /\ CacheOK'
  BY <1>1, <1>4, CountKept, CacheKept
<1>10. StaleOK'
  <2>1. \A q \in stale : cache[q] \in Objects
    BY DEF StaleOK, Typed, MaybeObject
  <2>2. \A q \in stale : state'[cache[q]] \in {state[cache[q]], "Ready", "Failed"}
    BY <1>3, <1>4, <2>1
  <2>3. QED
    BY <1>1, <2>2, StaleKept
<1>11. MainOK' /\ StoppedOK'
  BY <1>1, <1>2, <1>5 DEF MainOK, StoppedOK, AssetAssumption
<1>12. QED
  BY <1>6, <1>7, <1>8, <1>9, <1>10, <1>11

-----------------------------------------------------------------------------
(* Load tasks.                                                             *)

LEMMA RunsQueued == ASSUME NEW o, Runs(o) PROVE queued[o] > 0
BY Zenon DEF Runs

\* ExecuteLoad is over: the load changes hands within its task.
LEMMA SucceedStep ==
  ASSUME AssetAssumption, AssetInv, NEW o \in Objects, Succeed(o)
  PROVE  AssetInv'
<1> USE DEF AssetInv
<1>1. /\ queued[o] > 0
      /\ queued' = [queued EXCEPT ![o] = @ - 1]
      /\ loaded' = [loaded EXCEPT ![o] = @ + 1]
      /\ UNCHANGED <<cache, state, starting, taskActive, leaving, count, pending>>
      /\ UNCHANGED <<main, current, stale, started>>
  BY RunsQueued DEF Succeed, thread
<1>2. /\ queued \in [Objects -> Nat] /\ loaded \in [Objects -> Nat]
      /\ queued[o] = 1 /\ loaded[o] = 0
  BY <1>1 DEF Typed, Once
<1>3. /\ queued' \in [Objects -> Nat] /\ loaded' \in [Objects -> Nat]
      /\ \A x \in Objects : queued'[x] + loaded'[x] = queued[x] + loaded[x]
  BY <1>1, <1>2
<1>4. InFlight' = InFlight /\ o \in InFlight
  BY <1>2, <1>3 DEF InFlight
<1>5. /\ Starting' = Starting /\ Waiting' = Waiting /\ Held' = Held
      /\ LoadingSet' = LoadingSet
  BY <1>1 DEF Starting, Waiting, Held, LoadingSet
<1>6. Typed'
  BY <1>1, <1>3 DEF Typed
<1>7. Apart' /\ Everywhere' /\ Counted'
  BY <1>1, <1>4, <1>5 DEF Apart, Everywhere, Counted
<1>8. Once'
  BY <1>1, <1>3 DEF Once
<1>9. CacheOK' /\ StaleOK'
  BY <1>1, CacheKept DEF StaleOK
<1>10. MainOK' /\ StoppedOK'
  BY <1>1, <1>4, <1>5 DEF MainOK, StoppedOK
<1>11. QED
  BY <1>6, <1>7, <1>8, <1>9, <1>10

\* The load fails; its task has only the counter left to decrement.
LEMMA FailStep ==
  ASSUME AssetAssumption, AssetInv, NEW o \in Objects, Fail(o)
  PROVE  AssetInv'
<1> USE DEF AssetInv
<1>1. /\ queued[o] > 0 /\ leaving' = leaving + 1
      /\ queued' = [queued EXCEPT ![o] = @ - 1]
      /\ state' = [state EXCEPT ![o] = "Failed"]
      /\ UNCHANGED <<cache, starting, taskActive, loaded, count, pending>>
      /\ UNCHANGED <<main, current, stale, started>>
  BY RunsQueued DEF Fail, thread
<1>2. /\ queued \in [Objects -> Nat] /\ loaded \in [Objects -> Nat]
      /\ queued[o] = 1 /\ loaded[o] = 0
  BY <1>1 DEF Typed, Once
<1>3. /\ queued' \in [Objects -> Nat] /\ loaded' \in [Objects -> Nat]
      /\ queued'[o] = 0 /\ loaded'[o] = 0
      /\ \A x \in Objects \ {o} : queued'[x] = queued[x] /\ loaded'[x] = loaded[x]
  BY <1>1, <1>2
<1>4. o \in InFlight
  BY <1>2 DEF InFlight
<1>5. /\ InFlight' = InFlight \ {o}
      /\ Cardinality(InFlight') = Cardinality(InFlight) - 1
      /\ \A x \in Objects : queued'[x] + loaded'[x] <= 1
  BY <1>3, <1>4, FlightShrinks
<1>6. /\ state' \in [Objects -> States]
      /\ LoadingSet' = LoadingSet \ {o}
      /\ \A x \in Objects : state[x] # "None" => state'[x] # "None"
      /\ \A x \in Objects \ {o} : state'[x] = state[x]
      /\ state'[o] = "Failed"
  BY <1>1, StateSet DEF States
<1>7. Starting' = Starting /\ Waiting' = Waiting /\ Held' = Held
  BY <1>1 DEF Starting, Waiting, Held
<1>8. Typed'
  BY <1>1, <1>3, <1>6 DEF Typed
<1>9. Apart' /\ Everywhere'
  BY <1>4, <1>5, <1>6, <1>7 DEF Apart, Everywhere
<1>10. Once'
  BY <1>1, <1>5 DEF Once
<1>11. Counted'
  <2>1. Cardinality(InFlight) \in Nat /\ leaving \in Nat
    BY FlightFinite DEF Typed
  <2>2. QED
    BY <1>1, <1>5, <2>1 DEF Counted
<1>12. CacheOK'
  BY <1>1, <1>6, CacheKept
<1>13. StaleOK'
  <2>1. \A q \in stale : cache[q] \in Objects
    BY DEF StaleOK, Typed, MaybeObject
  <2>2. \A q \in stale : state'[cache[q]] \in {state[cache[q]], "Ready", "Failed"}
    BY <1>6, <2>1
  <2>3. QED
    BY <1>1, <2>2, StaleKept
<1>14. MainOK' /\ StoppedOK'
  BY <1>1, <1>4 DEF MainOK, StoppedOK
<1>15. QED
  BY <1>8, <1>9, <1>10, <1>11, <1>12, <1>13, <1>14

\* The load joins m_PendingAssets.
LEMMA PushStep ==
  ASSUME AssetAssumption, AssetInv, NEW o \in Objects, Push(o)
  PROVE  AssetInv'
<1> USE DEF AssetInv
<1>1. /\ loaded[o] > 0 /\ leaving' = leaving + 1
      /\ loaded' = [loaded EXCEPT ![o] = @ - 1]
      /\ pending' = Append(pending, o)
      /\ UNCHANGED <<cache, state, starting, taskActive, queued, count>>
      /\ UNCHANGED <<main, current, stale, started>>
  BY DEF Push, thread
<1>2. /\ queued \in [Objects -> Nat] /\ loaded \in [Objects -> Nat]
      /\ queued[o] = 0 /\ loaded[o] = 1
  BY <1>1 DEF Typed, Once
<1>3. /\ queued' \in [Objects -> Nat] /\ loaded' \in [Objects -> Nat]
      /\ queued'[o] = 0 /\ loaded'[o] = 0
      /\ \A x \in Objects \ {o} : queued'[x] = queued[x] /\ loaded'[x] = loaded[x]
  BY <1>1, <1>2
<1>4. o \in InFlight
  BY <1>2 DEF InFlight
<1>5. /\ InFlight' = InFlight \ {o}
      /\ Cardinality(InFlight') = Cardinality(InFlight) - 1
      /\ \A x \in Objects : queued'[x] + loaded'[x] <= 1
  BY <1>3, <1>4, FlightShrinks
<1>6. /\ pending' \in Seq(Objects) /\ Distinct(pending')
      /\ Waiting' = Waiting \cup {o}
  <2>1. o \notin ToSet(pending)
    BY <1>4 DEF Apart, Waiting
  <2>2. QED
    BY <1>1, <2>1, AppendSet DEF Typed, Once, Waiting
<1>7. Starting' = Starting /\ Held' = Held /\ LoadingSet' = LoadingSet
  BY <1>1 DEF Starting, Held, LoadingSet
<1>8. Typed'
  BY <1>1, <1>3, <1>6 DEF Typed
<1>9. Apart' /\ Everywhere'
  BY <1>4, <1>5, <1>6, <1>7 DEF Apart, Everywhere
<1>10. Once'
  BY <1>1, <1>5, <1>6 DEF Once
<1>11. Counted'
  <2>1. Cardinality(InFlight) \in Nat /\ leaving \in Nat
    BY FlightFinite DEF Typed
  <2>2. QED
    BY <1>1, <1>5, <2>1 DEF Counted
<1>12. CacheOK' /\ StaleOK'
  BY <1>1, CacheKept DEF StaleOK
<1>13. MainOK' /\ StoppedOK'
  BY <1>1, <1>4 DEF MainOK, StoppedOK
<1>14. QED
  BY <1>8, <1>9, <1>10, <1>11, <1>12, <1>13

\* A load task ends.
LEMMA LeaveStep ==
  ASSUME AssetAssumption, AssetInv, Leave
  PROVE  AssetInv'
<1> USE DEF AssetInv
<1>1. /\ leaving > 0 /\ leaving' = leaving - 1 /\ count' = count - 1
      /\ UNCHANGED <<cache, state, starting, taskActive, queued, loaded, pending>>
      /\ UNCHANGED <<main, current, stale, started>>
  BY DEF Leave, thread
<1>2. Apart' /\ Once' /\ Everywhere' /\ InFlight' = InFlight
  BY <1>1, PlacesKept DEF InFlight
<1>3. Typed' /\ Counted'
  <2>1. leaving \in Nat /\ Cardinality(InFlight) \in Nat
    BY FlightFinite DEF Typed
  <2>2. leaving' \in Nat
    BY <1>1, <2>1
  <2>3. Counted'
    BY <1>1, <1>2, <2>1 DEF Counted
  <2>4. QED
    BY <1>1, <2>2, <2>3 DEF Typed
<1>4. CacheOK' /\ StaleOK'
  BY <1>1, CacheKept DEF StaleOK
<1>5. MainOK' /\ StoppedOK'
  BY <1>1 DEF MainOK, StoppedOK, Typed
<1>6. QED
  BY <1>2, <1>3, <1>4, <1>5

-----------------------------------------------------------------------------
(* The main thread.                                                        *)

\* Only the main thread leaves the place it is in.
LEMMA BeginReloadStep ==
  ASSUME AssetAssumption, AssetInv, NEW p \in Paths, BeginReload(p)
  PROVE  AssetInv'
<1> USE DEF AssetInv
<1> DEFINE o == cache[p]
<1>1. /\ main = "reload" /\ main' = "reloading" /\ starting[Main] = None
      /\ p \in stale /\ stale' = stale \ {p} /\ current' = o
      /\ state' = [state EXCEPT ![o] = "Loading"]
      /\ UNCHANGED <<cache, starting, taskActive, queued, loaded, leaving, count>>
      /\ UNCHANGED <<pending, started>>
  BY DEF BeginReload, InMain, Goto, tasks
<1>2. o \in Objects /\ state[o] # "Loading" /\ o # None /\ current = None
  BY <1>1 DEF StaleOK, MainOK, Typed, MaybeObject
<1> HIDE DEF o
<1>3. /\ state' \in [Objects -> States]
      /\ LoadingSet' = LoadingSet \cup {o}
      /\ \A x \in Objects : state[x] # "None" => state'[x] # "None"
      /\ \A x \in Objects \ {o} : state'[x] = state[x]
  BY <1>1, <1>2, StateSet DEF States
<1>4. o \notin LoadingSet
  BY <1>2 DEF LoadingSet
<1>5. InFlight' = InFlight /\ Starting' = Starting /\ Waiting' = Waiting
  BY <1>1 DEF InFlight, Starting, Waiting
<1>6. Held = {} /\ Held' = {o}
  BY <1>1, <1>2 DEF Held
<1>7. Typed'
  BY <1>1, <1>2, <1>3 DEF Typed, MaybeObject, Stages
<1>8. Apart' /\ Everywhere'
  BY <1>3, <1>4, <1>5, <1>6 DEF Apart, Everywhere
<1>9. Once' /\ Counted'
  BY <1>1, CountKept DEF Once
<1>10. CacheOK'
  BY <1>1, <1>3, CacheKept
<1>11. StaleOK'
  <2>1. \A q \in stale \ {p} : cache[q] \in Objects \ {o}
    BY <1>1 DEF StaleOK, CacheOK, Typed, MaybeObject, o
  <2>2. \A q \in stale \ {p} : state'[cache[q]] = state[cache[q]]
    BY <1>3, <2>1
  <2>3. QED
    BY <1>1, <2>2 DEF StaleOK
<1>12. MainOK' /\ StoppedOK'
  BY <1>1, <1>2 DEF MainOK, StoppedOK
<1>13. QED
  BY <1>7, <1>8, <1>9, <1>10, <1>11, <1>12

\* What the main thread had is settled.
LEMMA EndSteps ==
  ASSUME AssetAssumption, AssetInv, NEW ok \in BOOLEAN,
         EndReload(ok) \/ \E next \in Stages : EndFinalize(ok, next)
  PROVE  AssetInv'
<1> USE DEF AssetInv
<1> DEFINE o == current
           v == IF ok THEN "Ready" ELSE "Failed"
<1>1. /\ \/ main \in {"reloading", "uploading"} /\ main' = "reload"
         \/ main = "finalizing" /\ main' \in {"finalize", "resolve"}
      /\ starting[Main] = None
      /\ state' = [state EXCEPT ![o] = v] /\ current' = None
      /\ UNCHANGED <<cache, starting, taskActive, queued, loaded, leaving, count>>
      /\ UNCHANGED <<pending, started, stale>>
  BY DEF EndReload, EndFinalize, InMain, Goto, tasks
<1>2. o \in Objects /\ o # None
  BY <1>1 DEF MainOK, Typed, MaybeObject
<1>3. v \in States \ {"None"} /\ v \in {"Ready", "Failed"} /\ v # "Loading"
  BY DEF States
<1>4. Held = {o} /\ Held' = {}
  BY <1>1, <1>2 DEF Held
<1> HIDE DEF o, v
<1>5. /\ state' \in [Objects -> States]
      /\ LoadingSet' = LoadingSet \ {o}
      /\ \A x \in Objects : state[x] # "None" => state'[x] # "None"
      /\ \A x \in Objects \ {o} : state'[x] = state[x]
      /\ state'[o] = v
  BY <1>1, <1>2, <1>3, StateSet
<1>6. InFlight' = InFlight /\ Starting' = Starting /\ Waiting' = Waiting
  BY <1>1 DEF InFlight, Starting, Waiting
<1>7. Typed'
  BY <1>1, <1>5 DEF Typed, MaybeObject, Stages
<1>8. Apart' /\ Everywhere'
  BY <1>4, <1>5, <1>6 DEF Apart, Everywhere
<1>9. Once' /\ Counted'
  BY <1>1, CountKept DEF Once
<1>10. CacheOK'
  BY <1>1, <1>5, CacheKept
<1>11. StaleOK'
  <2>1. \A q \in stale : cache[q] \in Objects /\ state[cache[q]] # "Loading"
    BY DEF StaleOK, Typed, MaybeObject
  <2>2. \A q \in stale : state'[cache[q]] # "Loading"
    BY <1>3, <1>5, <2>1
  <2>3. QED
    BY <1>1, <2>2 DEF StaleOK
<1>12. MainOK' /\ StoppedOK'
  BY <1>1 DEF MainOK, StoppedOK
<1>13. QED
  BY <1>7, <1>8, <1>9, <1>10, <1>11, <1>12

\* A load is taken from m_PendingAssets.
LEMMA PopStep ==
  ASSUME AssetAssumption, AssetInv, PopPending
  PROVE  AssetInv'
<1> USE DEF AssetInv
<1> DEFINE o == Head(pending)
<1>1. /\ main = "finalize" /\ main' = "finalizing" /\ starting[Main] = None
      /\ pending # <<>> /\ current' = o /\ pending' = Tail(pending)
      /\ UNCHANGED <<cache, state, starting, taskActive, queued, loaded, leaving>>
      /\ UNCHANGED <<count, stale, started>>
  BY DEF PopPending, InMain, Goto, tasks
<1>2. /\ o \in Objects /\ o \in Waiting /\ pending' \in Seq(Objects)
      /\ Distinct(pending') /\ Waiting' = Waiting \ {o}
  BY <1>1, TailSet DEF Typed, Once, Waiting
<1> HIDE DEF o
<1>3. Held = {} /\ Held' = {o}
  BY <1>1, <1>2 DEF MainOK, Held, AssetAssumption
<1>4. /\ InFlight' = InFlight /\ Starting' = Starting /\ LoadingSet' = LoadingSet
  BY <1>1 DEF InFlight, Starting, LoadingSet
<1>5. Typed'
  BY <1>1, <1>2 DEF Typed, MaybeObject, Stages
<1>6. Apart' /\ Everywhere'
  BY <1>2, <1>3, <1>4 DEF Apart, Everywhere
<1>7. Once' /\ Counted'
  BY <1>1, <1>2, CountKept DEF Once
<1>8. CacheOK' /\ StaleOK'
  BY <1>1, CacheKept DEF StaleOK
<1>9. MainOK' /\ StoppedOK'
  BY <1>1, <1>2 DEF MainOK, StoppedOK, AssetAssumption
<1>10. QED
  BY <1>5, <1>6, <1>7, <1>8, <1>9

\* During shutdown a load is finalized where it is taken.
LEMMA FinalizeStoppingStep ==
  ASSUME AssetAssumption, AssetInv, NEW ok \in BOOLEAN, FinalizeStopping(ok)
  PROVE  AssetInv'
<1> USE DEF AssetInv
<1> DEFINE o == Head(pending)
           v == IF ok THEN "Ready" ELSE "Failed"
<1>1. /\ main \in {"stopping", "draining"} /\ pending # <<>>
      /\ state' = [state EXCEPT ![o] = v] /\ pending' = Tail(pending)
      /\ UNCHANGED <<cache, starting, taskActive, queued, loaded, leaving, count>>
      /\ UNCHANGED <<main, current, stale, started>>
  BY DEF FinalizeStopping, InMain, tasks, thread
<1>2. /\ o \in Objects /\ o \in Waiting /\ pending' \in Seq(Objects)
      /\ Distinct(pending') /\ Waiting' = Waiting \ {o}
  BY <1>1, TailSet DEF Typed, Once, Waiting
<1>3. v \in States \ {"None"} /\ v \in {"Ready", "Failed"} /\ v # "Loading"
  BY DEF States
<1> HIDE DEF o, v
<1>4. /\ state' \in [Objects -> States]
      /\ LoadingSet' = LoadingSet \ {o}
      /\ \A x \in Objects : state[x] # "None" => state'[x] # "None"
  BY <1>1, <1>2, <1>3, StateSet
<1>5. /\ InFlight' = InFlight /\ Starting' = Starting /\ Held' = Held
  BY <1>1 DEF InFlight, Starting, Held
<1>6. Typed'
  BY <1>1, <1>2, <1>4 DEF Typed
<1>7. Apart' /\ Everywhere'
  BY <1>2, <1>4, <1>5 DEF Apart, Everywhere
<1>8. Once' /\ Counted'
  BY <1>1, <1>2, CountKept DEF Once
<1>9. CacheOK'
  BY <1>1, <1>4, CacheKept
<1>10. StaleOK' /\ MainOK' /\ StoppedOK'
  BY <1>1, <1>5 DEF StaleOK, MainOK, StoppedOK
<1>11. QED
  BY <1>6, <1>7, <1>8, <1>9, <1>10

\* A failed load is tried again.
LEMMA RetryStep ==
  ASSUME AssetAssumption, AssetInv, NEW p \in Paths, Retry(p)
  PROVE  AssetInv'
<1> USE DEF AssetInv
<1> DEFINE o == cache[p]
<1>1. /\ main = "resolve" /\ o # None /\ state[o] = "Failed"
      /\ state' = [state EXCEPT ![o] = "Loading"] /\ count' = count + 1
      /\ queued' = [queued EXCEPT ![o] = @ + 1]
      /\ UNCHANGED <<cache, starting, taskActive, loaded, leaving, pending>>
      /\ UNCHANGED <<main, current, stale, started>>
  BY DEF Retry, InMain, thread
<1>2. o \in Objects /\ o \notin LoadingSet
  BY <1>1 DEF Typed, MaybeObject, LoadingSet
<1> HIDE DEF o
<1>3. /\ state' \in [Objects -> States]
      /\ LoadingSet' = LoadingSet \cup {o}
      /\ \A x \in Objects : state[x] # "None" => state'[x] # "None"
  BY <1>1, <1>2, StateSet DEF States
<1>4. o \notin InFlight
  BY <1>2 DEF Everywhere
<1>5. /\ queued' \in [Objects -> Nat] /\ loaded' \in [Objects -> Nat]
      /\ InFlight' = InFlight \cup {o}
      /\ Cardinality(InFlight') = Cardinality(InFlight) + 1
      /\ \A x \in Objects : queued'[x] + loaded'[x] <= 1
  BY <1>1, <1>2, <1>4, FlightGrows
<1>6. Starting' = Starting /\ Waiting' = Waiting /\ Held' = Held
  BY <1>1 DEF Starting, Waiting, Held
<1>7. Typed'
  BY <1>1, <1>3, <1>5 DEF Typed
<1>8. Apart' /\ Everywhere'
  BY <1>2, <1>3, <1>5, <1>6 DEF Apart, Everywhere
<1>9. Once'
  BY <1>1, <1>5 DEF Once
<1>10. Counted'
  <2>1. Cardinality(InFlight) \in Nat /\ leaving \in Nat
    BY FlightFinite DEF Typed
  <2>2. QED
    BY <1>1, <1>5, <2>1 DEF Counted
<1>11. CacheOK'
  BY <1>1, <1>3, CacheKept
<1>12. StaleOK' /\ MainOK' /\ StoppedOK'
  BY <1>1 DEF StaleOK, MainOK, StoppedOK
<1>13. QED
  BY <1>7, <1>8, <1>9, <1>10, <1>11, <1>12

-----------------------------------------------------------------------------
\* Every step.
LEMMA AssetStep ==
  ASSUME AssetAssumption, AssetInv, [Next]_vars
  PROVE  AssetInv'
<1>1. CASE Loading
  BY <1>1, InsertStep, StartLoadStep, LoadInPlaceStep, TaskSteps DEF Loading
<1>2. CASE Pool
  BY <1>2, SucceedStep, FailStep, PushStep, LeaveStep, TaskSteps DEF Pool
<1>3. CASE Frame
  BY <1>3, StageSteps, BeginReloadStep, EndSteps, FinalizeStoppingStep, PopStep
  DEF Frame
<1>4. CASE Requests
  BY <1>4, RetryStep, TaskSteps, StageSteps DEF Requests
<1>5. CASE UNCHANGED vars
  <2>1. /\ UNCHANGED <<cache, state, starting, taskActive, queued, loaded>>
        /\ UNCHANGED <<leaving, count, pending, main, current, stale, started>>
    BY <1>5 DEF vars, tasks, thread
  <2>2. Apart' /\ Once' /\ Everywhere' /\ Counted'
    BY <2>1, PlacesKept, CountKept DEF AssetInv
  <2>3. Typed' /\ CacheOK' /\ StaleOK'
    BY <2>1 DEF AssetInv, Typed, CacheOK, StaleOK
  <2>4. MainOK' /\ StoppedOK'
    BY <2>1 DEF AssetInv, MainOK, StoppedOK, InFlight, Starting
  <2>5. QED
    BY <2>2, <2>3, <2>4 DEF AssetInv
<1>6. QED
  BY <1>1, <1>2, <1>3, <1>4, <1>5 DEF Next

\* The initial states.
LEMMA AssetInit ==
  ASSUME AssetAssumption, Init
  PROVE  AssetInv
<1> USE DEF Init
<1>1. Typed
  <2>1. /\ cache \in [Paths -> MaybeObject] /\ state \in [Objects -> States]
        /\ starting \in [Callers -> MaybeObject]
    BY DEF MaybeObject, States
  <2>2. /\ queued \in [Objects -> Nat] /\ loaded \in [Objects -> Nat]
        /\ leaving \in Nat /\ pending \in Seq(Objects)
    OBVIOUS
  <2>3. /\ taskActive \in BOOLEAN /\ main \in Stages /\ current \in MaybeObject
        /\ stale \subseteq Paths /\ started \in {"no", "ready", "forced"}
    BY DEF MaybeObject, Stages
  <2>4. QED
    BY <2>1, <2>2, <2>3 DEF Typed
<1>2. /\ InFlight = {} /\ Starting = {} /\ Held = {} /\ LoadingSet = {}
  BY DEF InFlight, Starting, Held, LoadingSet
<1>3. Waiting = {} /\ Distinct(pending)
  BY DEF Waiting, ToSet, Distinct
<1>4. Apart /\ Everywhere /\ Once
  BY <1>2, <1>3 DEF Apart, Everywhere, Once
<1>5. Counted
  BY <1>2, FS_EmptySet DEF Counted
<1>6. CacheOK /\ StaleOK /\ MainOK /\ StoppedOK
  BY DEF CacheOK, StaleOK, MainOK, StoppedOK, AssetAssumption
<1>7. QED
  BY <1>1, <1>4, <1>5, <1>6 DEF AssetInv

-----------------------------------------------------------------------------
(* Theorems.                                                               *)

\* Every load is in one place, and the counter counts the tasks.
THEOREM AssetInvariance == Spec => []AssetInv
<1>1. Init => AssetInv
  BY AssetAssumption, AssetInit
<1>2. AssetInv /\ [Next]_vars => AssetInv'
  BY AssetAssumption, AssetStep
<1>3. QED
  BY <1>1, <1>2, PTL DEF Spec

\* Every variable keeps its type; in particular m_LoadingCount is never negative.
THEOREM TypeCorrect == Spec => []TypeOK
<1>1. AssetInv => TypeOK
  <2>1. SUFFICES ASSUME AssetInv PROVE TypeOK
    OBVIOUS
  <2>2. count \in Nat
    BY <2>1, AssetAssumption, FlightFinite DEF AssetInv, Counted, Typed
  <2>3. QED
    BY <2>1, <2>2 DEF AssetInv, Typed, TypeOK
<1>2. QED
  BY <1>1, AssetInvariance, PTL

\* While an object is Loading exactly one thread, task or queue has it, whatever
\* loads, hot reloads, retries and invalidations happen at once.
THEOREM EachLoadOwned == Spec => []OwnedOnce
<1>1. AssetInv => OwnedOnce
  <2>1. SUFFICES ASSUME AssetInv, NEW o \in Objects
                 PROVE  Owners(o) = IF state[o] = "Loading" THEN 1 ELSE 0
    BY DEF OwnedOnce
  <2> USE DEF AssetInv
  <2> DEFINE Cs == {c \in Callers : starting[c] = o}
             Ns == {n \in DOMAIN pending : pending[n] = o}
             inFlight == queued[o] + loaded[o]
             held == IF current = o THEN 1 ELSE 0
  <2>2. o # None
    BY AssetAssumption DEF AssetAssumption
  <2>3. inFlight = IF o \in InFlight THEN 1 ELSE 0
    <3>1. queued[o] \in Nat /\ loaded[o] \in Nat /\ inFlight <= 1
      BY <2>1 DEF Typed, Once
    <3>2. QED
      BY <3>1 DEF InFlight
  <2>4. Cardinality(Cs) = IF o \in Starting THEN 1 ELSE 0
    <3>1. CASE o \in Starting
      <4>1. PICK c \in Callers : starting[c] = o
        BY <3>1 DEF Starting
      <4>2. Cs = {c}
        BY <2>1, <2>2, <4>1 DEF Once
      <4>3. QED
        BY <3>1, <4>2, FS_Singleton
    <3>2. CASE o \notin Starting
      <4>1. Cs = {}
        BY <2>2, <3>2 DEF Starting
      <4>2. QED
        BY <3>2, <4>1, FS_EmptySet
    <3>3. QED
      BY <3>1, <3>2
  <2>5. Cardinality(Ns) = IF o \in Waiting THEN 1 ELSE 0
    <3>1. CASE o \in Waiting
      <4>1. PICK n \in DOMAIN pending : pending[n] = o
        BY <3>1 DEF Waiting, ToSet
      <4>2. Ns = {n}
        BY <2>1, <4>1 DEF Once, Distinct
      <4>3. QED
        BY <3>1, <4>2, FS_Singleton
    <3>2. CASE o \notin Waiting
      <4>1. Ns = {}
        BY <3>2 DEF Waiting, ToSet
      <4>2. QED
        BY <3>2, <4>1, FS_EmptySet
    <3>3. QED
      BY <3>1, <3>2
  <2>6. held = IF o \in Held THEN 1 ELSE 0
    BY <2>2 DEF Held
  <2>7. Owners(o) = inFlight + Cardinality(Cs) + Cardinality(Ns) + held
    BY DEF Owners
  <2> HIDE DEF Cs, Ns, inFlight, held
  <2>8. state[o] = "Loading" <=> o \in LoadingSet
    BY DEF LoadingSet
  <2>9. QED
    BY <2>1, <2>3, <2>4, <2>5, <2>6, <2>7, <2>8 DEF Apart, Everywhere
<1>2. QED
  BY <1>1, AssetInvariance, PTL

\* With nothing pending, nothing counted and no caller on its way every asset has
\* settled.
THEOREM IdleIsSettled == Spec => []IdleMeansSettled
<1>1. AssetInv => IdleMeansSettled
  <2>1. SUFFICES ASSUME AssetInv, pending = <<>>, count = 0, current = None,
                        \A c \in Callers : starting[c] = None
                 PROVE  LoadingSet = {}
    BY DEF IdleMeansSettled, LoadingSet
  <2>2. IsFiniteSet(InFlight) /\ Cardinality(InFlight) \in Nat
    BY AssetAssumption, FlightFinite
  <2>3. Cardinality(InFlight) = 0
    BY <2>1, <2>2 DEF AssetInv, Counted, Typed
  <2>4. InFlight = {}
    BY <2>2, <2>3, FS_EmptySet
  <2>5. Starting = {} /\ Waiting = {} /\ Held = {}
    BY <2>1 DEF Starting, Waiting, Held, ToSet
  <2>6. QED
    BY <2>1, <2>4, <2>5 DEF AssetInv, Everywhere
<1>2. QED
  BY <1>1, AssetInvariance, PTL

\* No task outlives the manager.
THEOREM NothingOutlivesShutdown == Spec => []ShutdownOutlivesTasks
<1>1. AssetInv => ShutdownOutlivesTasks
  <2>1. SUFFICES ASSUME AssetInv, main = "closed"
                 PROVE  NoTasks /\ count = 0
    BY DEF ShutdownOutlivesTasks
  <2>2. taskActive = FALSE /\ leaving = 0 /\ InFlight = {}
    BY <2>1 DEF AssetInv, StoppedOK
  <2>3. \A o \in Objects : queued[o] = 0 /\ loaded[o] = 0
    BY <2>1, <2>2 DEF InFlight, AssetInv, Typed
  <2>4. count = 0
    BY <2>1, <2>2, FS_EmptySet DEF AssetInv, Counted
  <2>5. QED
    BY <2>2, <2>3, <2>4 DEF NoTasks
<1>2. QED
  BY <1>1, AssetInvariance, PTL
=============================================================================
