----------------------------- MODULE SceneStartup -----------------------------
(***************************************************************************)
(* The start of a scene's physics: Scene::InitializePhysicsStartup,        *)
(* Physics::ResetWorld, PhysicsBodySystem and the shape caches of          *)
(* JoltPhysicsWorld.                                                       *)
(*                                                                         *)
(* The main thread visits the bodies without handle once per frame.  The   *)
(* collision shape of a mesh is baked by a pool task that puts it in a     *)
(* cache keyed by the model: one cache for static bodies, one for the      *)
(* hulls of moving ones, one table of bakes in flight for both.  Each lock *)
(* of m_CacheMutex is a step.  A world that is replaced waits for the      *)
(* bakes that refer to it, and hands its caches on: they outlive the scene *)
(* they were filled for, and the next one may have other bodies, or the    *)
(* same ones of another kind.                                              *)
(***************************************************************************)
EXTENDS Naturals, FiniteSets, SequencesExt

CONSTANTS
  Bodies,      \* entities with a rigid body and a mesh collider, in view order
  Models,      \* the models of the colliders
  NoModel,     \* the model path of a collider that has none
  Levels,      \* the scenes that may be played: the collider of each body
  MaxRetries   \* kMaxRetryPerFrame

Kinds == {"static", "moving"}

\* auto is AutoCalculate.
Colliders == [model : Models \cup {NoModel}, kind : Kinds, auto : BOOLEAN]

IsLevel(l) == DOMAIN l \subseteq Bodies /\ l \in [DOMAIN l -> Colliders]

ASSUME LevelAssumption ==
  /\ Bodies \subseteq Nat /\ IsFiniteSet(Bodies)
  /\ NoModel \notin Models
  /\ \A l \in Levels : IsLevel(l)
  /\ MaxRetries \in Nat

VARIABLES
  starting,   \* m_IsStartingUp
  reset,      \* m_PhysicsStartupInitialized
  shape,      \* what the body of each entity is made of, "none" without handle
  retried,    \* RetriedFailedModels
  level,      \* the colliders of the runtime scene
  used,       \* history: the models scenes have been played with, and the kinds
              \* of the bodies that had them
  asset,      \* state of each model; an "Empty" one is ready and has no surface
  meshes,     \* m_MeshShapeCache
  hulls,      \* m_ConvexHullCache
  inFlight,   \* m_InFlightMeshBakes
  closing,    \* m_IsShuttingDown of the world
  bakes,      \* the tasks of QueuePrebuildShape that have not ended
  kept,       \* the copies of the two caches ResetWorld has made
  at,         \* where the main thread is in InitializePhysicsStartup
  todo,       \* the bodies BatchInitializeBodies has not visited
  descs       \* the bodies to create: with triangles ("full") or without

cast == <<level, used>>
scene == <<starting, reset, shape, retried, cast>>
world == <<meshes, hulls, inFlight, closing, bakes>>
batch == <<todo, descs>>
startup == <<scene, asset, world, kept, at, batch>>

AssetStates == {"None", "Loading", "Ready", "Empty", "Failed"}
Stages == {"idle", "hulls", "close", "join", "visit", "baking", "again", "queue",
           "create", "check"}

NoBodies == [b \in Bodies |-> "none"]
NoLevel == [b \in {} |-> NoModel]
NoCopies == [meshes |-> {}, hulls |-> {}]

StartupInit ==
  /\ starting = FALSE /\ reset = FALSE /\ shape = NoBodies /\ retried = {}
  /\ level = NoLevel /\ used = {}
  /\ asset = [m \in Models |-> "None"]
  /\ meshes = {} /\ hulls = {} /\ inFlight = {} /\ closing = FALSE
  /\ bakes = {}
  /\ kept = NoCopies /\ at = "idle" /\ todo = {} /\ descs = NoBodies

Unmade == {b \in DOMAIN level : shape[b] = "none"}

\* BuildBodyDesc does nothing for a body without model.
ToVisit == {b \in Unmade : level[b].model # NoModel}

Uses(l) == {<<l[b].model, l[b].kind>> : b \in DOMAIN l}

-----------------------------------------------------------------------------
(* The scene's life, called by the layer that owns it.                     *)

OnRuntimeStart ==
  /\ starting' = TRUE /\ reset' = FALSE
  /\ used' = used \cup Uses(level)
  /\ UNCHANGED <<shape, retried, level>>

\* ClearContext destroys the bodies; the scene is dropped, or another one, just
\* copied or loaded, takes its place.
OnRuntimeStop(next) ==
  /\ starting' = FALSE /\ reset' = FALSE
  /\ shape' = NoBodies /\ retried' = {}
  /\ level' = next /\ UNCHANGED used

-----------------------------------------------------------------------------
(* The main thread: Physics::ResetWorld.                                   *)

\* The first frame of a start: the copy of the first cache is made.
BeginReset ==
  /\ at = "idle" /\ starting /\ ~reset
  /\ shape' = NoBodies
  /\ kept' = [NoCopies EXCEPT !.meshes = meshes]
  /\ at' = "hulls"
  /\ UNCHANGED <<starting, reset, retried, cast, asset, world, batch>>

CopyHulls ==
  /\ at = "hulls"
  /\ kept' = [kept EXCEPT !.hulls = hulls]
  /\ at' = "close"
  /\ UNCHANGED <<scene, asset, world, batch>>

\* ~JoltPhysicsWorld.
Close ==
  /\ at = "close"
  /\ closing' = TRUE
  /\ at' = "join"
  /\ UNCHANGED <<scene, asset, meshes, hulls, inFlight, bakes, kept, batch>>

\* Slip: the old world does not wait for its bakes.
Join_Eager ==
  /\ at = "join"
  /\ meshes' = kept.meshes /\ hulls' = kept.hulls
  /\ inFlight' = {} /\ closing' = FALSE
  /\ kept' = NoCopies
  /\ reset' = TRUE
  /\ todo' = ToVisit /\ at' = "visit"
  /\ UNCHANGED <<starting, shape, retried, cast, asset, bakes, descs>>

\* m_BakeCondition; then the new world takes the copies over.
Join ==
  /\ at = "join" /\ inFlight = {}
  /\ meshes' = kept.meshes /\ hulls' = kept.hulls
  /\ inFlight' = {} /\ closing' = FALSE
  /\ kept' = NoCopies
  /\ reset' = TRUE
  /\ todo' = ToVisit /\ at' = "visit"
  /\ UNCHANGED <<starting, shape, retried, cast, asset, bakes, descs>>

-----------------------------------------------------------------------------
(* The main thread: BatchInitializeBodies.                                 *)

BeginFrame ==
  /\ at = "idle" /\ starting /\ reset
  /\ todo' = ToVisit /\ at' = "visit"
  /\ UNCHANGED <<scene, asset, world, kept, descs>>

Current == Min(todo)
Model == level[Current].model

\* Slip: a bake in flight counts as a cached shape.
Cached_Baking(m) == m \in meshes \cup hulls \cup inFlight

\* HasCachedMeshShape.
Cached(m) == m \in meshes \cup hulls

Skip == todo' = todo \ {Current} /\ at' = "visit"

\* Slip: any body has its model retried.
MayRetry_Any ==
  /\ asset[Model] = "Failed"
  /\ Cardinality(retried) < MaxRetries /\ Current \notin retried

MayRetry ==
  /\ level[Current].auto /\ asset[Model] = "Failed"
  /\ Cardinality(retried) < MaxRetries /\ Current \notin retried

\* ApplyAutoCalculate, and the first test of BuildBodyDesc: with a cached shape
\* the triangles are not extracted.
Visit ==
  /\ at = "visit" /\ todo # {}
  /\ asset' = IF MayRetry THEN [asset EXCEPT ![Model] = "Loading"] ELSE asset
  /\ retried' = IF MayRetry THEN retried \cup {Current} ELSE retried
  /\ IF Cached(Model)
       THEN Skip /\ descs' = [descs EXCEPT ![Current] = "bare"]
       ELSE at' = "baking" /\ UNCHANGED batch
  /\ UNCHANGED <<starting, reset, shape, cast, world, kept>>

\* The second test, IsShapeBaking.  Asking for the model loads it.
ReadBaking ==
  /\ at = "baking"
  /\ LET ready == Model \notin inFlight /\ asset[Model] \in {"Ready", "Empty"}
     IN IF ready THEN at' = "again" /\ UNCHANGED todo ELSE Skip
  /\ asset' = IF Model \notin inFlight /\ asset[Model] = "None"
                THEN [asset EXCEPT ![Model] = "Loading"] ELSE asset
  /\ UNCHANGED <<scene, world, kept, descs>>

\* BatchInitializeBodies asks once more, now with the triangles.
ReadCache ==
  /\ at = "again"
  /\ IF Cached(Model)
       THEN Skip /\ descs' = [descs EXCEPT ![Current] = "full"]
       ELSE at' = "queue" /\ UNCHANGED batch
  /\ UNCHANGED <<scene, asset, world, kept>>

Bake(m, kind, stage) == [model |-> m, kind |-> kind, stage |-> stage]

\* QueuePrebuildShape tests everything again under the lock.
Queue ==
  /\ at = "queue"
  /\ IF closing \/ Cached(Model) \/ Model \in inFlight
       THEN UNCHANGED <<inFlight, bakes>>
       ELSE /\ inFlight' = inFlight \cup {Model}
            /\ bakes' = bakes \cup {Bake(Model, level[Current].kind, "queued")}
  /\ Skip
  /\ UNCHANGED <<scene, asset, meshes, hulls, closing, kept, descs>>

EndVisits ==
  /\ at = "visit" /\ todo = {}
  /\ at' = "create"
  /\ UNCHANGED <<scene, asset, world, kept, batch>>

Described == {b \in DOMAIN level : descs[b] # "none"}
IsStatic(b) == level[b].kind = "static"

\* BuildShape on the main thread, static bodies first.  The shape is cached for
\* the other bodies of the model and the same kind.
CreateBody(b) ==
  /\ at = "create"
  /\ b \in Described /\ (IsStatic(b) \/ \A c \in Described : ~IsStatic(c))
  /\ LET m == level[b].model
         hit == m \in IF IsStatic(b) THEN meshes ELSE hulls
         built == ~hit /\ descs[b] = "full" /\ asset[m] # "Empty"
     IN /\ shape' = [shape EXCEPT ![b] = IF hit \/ built THEN "mesh" ELSE "box"]
        /\ meshes' = IF built /\ IsStatic(b) THEN meshes \cup {m} ELSE meshes
        /\ hulls' = IF built /\ ~IsStatic(b) THEN hulls \cup {m} ELSE hulls
  /\ descs' = [descs EXCEPT ![b] = "none"]
  /\ UNCHANGED <<starting, reset, retried, cast, asset, inFlight, closing, bakes,
                 kept, at, todo>>

EndCreate ==
  /\ at = "create" /\ Described = {}
  /\ at' = "check"
  /\ UNCHANGED <<scene, asset, world, kept, batch>>

\* IsStartupComplete.
Check ==
  /\ at = "check"
  /\ starting' = (inFlight # {} \/ Unmade # {})
  /\ at' = "idle"
  /\ UNCHANGED <<reset, shape, retried, cast, asset, world, kept, batch>>

-----------------------------------------------------------------------------
(* The pool tasks of QueuePrebuildShape, and the loads of models.          *)

Forget(t) == inFlight' = inFlight \ {t.model} /\ bakes' = bakes \ {t}
Advance(t, stage) == bakes' = (bakes \ {t}) \cup {[t EXCEPT !.stage = stage]}

\* Slip: the task that gives up stays in the table of the bakes in flight.
BeginBake_NoForget(t) ==
  /\ t.stage = "queued"
  /\ IF closing THEN bakes' = bakes \ {t} ELSE Advance(t, "building")
  /\ UNCHANGED <<scene, asset, meshes, hulls, inFlight, closing, kept, at, batch>>

\* The world is alive, or the task gives up.
BeginBake(t) ==
  /\ t.stage = "queued"
  /\ IF closing THEN Forget(t)
     ELSE Advance(t, "building") /\ UNCHANGED inFlight
  /\ UNCHANGED <<scene, asset, meshes, hulls, closing, kept, at, batch>>

\* BuildShape: what fails to build, or comes too late, is not cached.
StoreShape(t) ==
  /\ t.stage = "building"
  /\ LET stored == ~closing /\ asset[t.model] # "Empty"
     IN /\ meshes' = IF stored /\ t.kind = "static" THEN meshes \cup {t.model} ELSE meshes
        /\ hulls' = IF stored /\ t.kind = "moving" THEN hulls \cup {t.model} ELSE hulls
  /\ Advance(t, "built")
  /\ UNCHANGED <<scene, asset, inFlight, closing, kept, at, batch>>

EndBake(t) ==
  /\ t.stage = "built"
  /\ Forget(t)
  /\ UNCHANGED <<scene, asset, meshes, hulls, closing, kept, at, batch>>

\* The load of a model ends; a failed one is loaded again only on a retry.
EndLoad(m, result) ==
  /\ asset[m] = "Loading" /\ result \in {"Ready", "Empty", "Failed"}
  /\ asset' = [asset EXCEPT ![m] = result]
  /\ UNCHANGED <<scene, world, kept, at, batch>>

-----------------------------------------------------------------------------
StartupFrame ==
  \/ BeginReset \/ CopyHulls \/ Close \/ Join
  \/ BeginFrame \/ Visit \/ ReadBaking \/ ReadCache \/ Queue \/ EndVisits
  \/ (\E b \in DOMAIN level : CreateBody(b)) \/ EndCreate \/ Check

Bakes == \E t \in bakes : BeginBake(t) \/ StoreShape(t) \/ EndBake(t)

Loads == \E m \in Models, result \in AssetStates : EndLoad(m, result)
-----------------------------------------------------------------------------
BakeTasks == [model : Models, kind : Kinds,
              stage : {"queued", "building", "built"}]

StartupTypeOK ==
  /\ starting \in BOOLEAN /\ reset \in BOOLEAN /\ closing \in BOOLEAN
  /\ IsLevel(level) /\ used \subseteq (Models \cup {NoModel}) \X Kinds
  /\ shape \in [Bodies -> {"none", "mesh", "box"}]
  /\ retried \subseteq {b \in DOMAIN level : level[b].auto}
  /\ asset \in [Models -> AssetStates]
  /\ meshes \subseteq Models /\ hulls \subseteq Models /\ inFlight \subseteq Models
  /\ bakes \subseteq BakeTasks
  /\ kept \in [meshes : SUBSET Models, hulls : SUBSET Models]
  /\ at \in Stages /\ todo \subseteq {b \in DOMAIN level : level[b].model # NoModel}
  /\ descs \in [Bodies -> {"none", "bare", "full"}]

\* Every bake in flight has exactly one task that will end it, so a world that
\* is replaced waits for its own bakes and for nothing else, and no task is left
\* to write into a world that is gone.
BakesAreOwned ==
  /\ inFlight = {t.model : t \in bakes}
  /\ \A s, t \in bakes : s.model = t.model => s = t

\* A body becomes a unit box only when its model has been played with bodies of
\* the other kind, in this scene or in an earlier one: the cache test does not
\* tell the two caches apart, and both are carried over from world to world.  In
\* a program that never uses a model for both kinds every body gets its mesh,
\* however the tests of the caches and the bakes interleave.
BoxOnlyIfBothKinds ==
  \A b \in DOMAIN level :
    shape[b] = "box" =>
      \E kind \in Kinds \ {level[b].kind} : <<level[b].model, kind>> \in used
=============================================================================
