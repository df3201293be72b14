----------------------------- MODULE EditorProofs -----------------------------
(***************************************************************************)
(* Proofs about Editor and SceneStartup for every number of bodies, models *)
(* and scenes, whatever bodies and models each scene has, and in whatever  *)
(* order they are played, edited and replaced by one another.              *)
(***************************************************************************)
EXTENDS Editor, WellFoundedInduction, TLAPS

-----------------------------------------------------------------------------
(* The inductive invariant of the start-up.                                *)

\* What is in a cache, or in its copy, was put there for a body of that kind, if
\* only in an earlier scene: ResetWorld carries the caches over.
CachesExplained ==
  /\ \A m \in meshes \cup kept.meshes : <<m, "static">> \in used
  /\ \A m \in hulls \cup kept.hulls : <<m, "moving">> \in used

\* A task bakes for a body of its kind.
BakesExplained == \A t \in bakes : <<t.model, t.kind>> \in used

\* The bodies of a scene that starts are among those played so far.
SceneUsed ==
  starting \/ at # "idle"
    => \A b \in DOMAIN level : <<level[b].model, level[b].kind>> \in used

\* A body is described, with or without triangles, only when one of the two
\* caches has its model, and the caches only grow until it is created.
DescsCached ==
  \A b \in Bodies : descs[b] # "none" => b \in DOMAIN level /\ Cached(level[b].model)

\* Between two frames nothing is left of the visits or of the descriptions.
DescsPlaced ==
  /\ at \in {"idle", "hulls", "close", "join", "check"} => descs = NoBodies
  /\ at \in {"idle", "hulls", "close", "join", "create", "check"} => todo = {}

HasCurrent == at \in {"baking", "again", "queue"} => todo # {}

StartupInv ==
  /\ StartupTypeOK
  /\ BakesAreOwned
  /\ BoxOnlyIfBothKinds
  /\ CachesExplained
  /\ BakesExplained
  /\ SceneUsed
  /\ DescsCached
  /\ DescsPlaced
  /\ HasCurrent

\* What a scene says of a body.
LEMMA LevelTypes ==
  ASSUME IsLevel(level), NEW b \in DOMAIN level
  PROVE  /\ b \in Bodies /\ level[b].model \in Models \cup {NoModel}
         /\ level[b].kind \in Kinds /\ level[b].auto \in BOOLEAN
BY DEF IsLevel, Colliders

\* The body BatchInitializeBodies visits is one of those it has not visited.
LEMMA CurrentIsTodo ==
  ASSUME todo \subseteq Bodies, todo # {}
  PROVE  Current \in todo
<1> DEFINE R == {ss \in Nat \X Nat : ss[1] < ss[2]}
<1>1. todo \subseteq Nat
  BY LevelAssumption
<1>2. IsWellFoundedOn(R, Nat)
  BY NatLessThanWellFounded, Zenon DEF OpToRel
<1>3. PICK x \in todo : \A y \in todo : <<y, x>> \notin R
  <2> HIDE DEF R
  <2>1. QED
    BY <1>1, <1>2, WFMin
<1>4. \A y \in todo : x =< y
  <2>1. SUFFICES ASSUME NEW y \in todo, ~(x =< y) PROVE <<y, x>> \in R
    BY <1>3
  <2>2. QED
    BY <1>1, <2>1
<1>5. QED
  BY <1>4, Zenon DEF Current, Min

\* The body under visit has a model.
LEMMA CurrentHasModel ==
  ASSUME StartupTypeOK, todo # {}
  PROVE  /\ Current \in todo /\ Current \in DOMAIN level /\ Current \in Bodies
         /\ Model \in Models /\ level[Current].kind \in Kinds
<1>1. todo \subseteq Bodies
  BY LevelTypes DEF StartupTypeOK
<1>2. Current \in todo
  BY <1>1, CurrentIsTodo
<1>3. Current \in DOMAIN level /\ level[Current].model # NoModel
  BY <1>2 DEF StartupTypeOK
<1>4. QED
  BY <1>2, <1>3, LevelTypes DEF StartupTypeOK, Model

\* A task that goes on stays the only one of its model.
LEMMA MoveBake ==
  ASSUME StartupTypeOK, BakesAreOwned, BakesExplained,
         NEW t \in bakes, NEW stage \in {"queued", "building", "built"},
         bakes' = (bakes \ {t}) \cup {[t EXCEPT !.stage = stage]},
         inFlight' = inFlight, used' = used
  PROVE  /\ BakesAreOwned' /\ BakesExplained' /\ bakes' \subseteq BakeTasks
         /\ inFlight' \subseteq Models
<1> DEFINE u == [t EXCEPT !.stage = stage]
<1>1. u \in BakeTasks /\ u.model = t.model /\ u.kind = t.kind
  BY DEF StartupTypeOK, BakeTasks
<1>2. bakes' = (bakes \ {t}) \cup {u}
  OBVIOUS
<1> HIDE DEF u
<1>3. BakesAreOwned'
  BY <1>1, <1>2 DEF BakesAreOwned
<1>4. BakesExplained'
  BY <1>1, <1>2 DEF BakesExplained
<1>5. QED
  BY <1>1, <1>2, <1>3, <1>4 DEF StartupTypeOK

\* No step of the main thread, of a bake or of a load breaks the invariant.
LEMMA StartupStep ==
  ASSUME StartupInv, StartupFrame \/ Bakes \/ Loads
  PROVE  StartupInv'
<1> USE DEF StartupInv, StartupTypeOK, BakesAreOwned, BoxOnlyIfBothKinds,
            CachesExplained, BakesExplained, SceneUsed, DescsCached, DescsPlaced,
            HasCurrent, scene, cast, world, batch, Stages, AssetStates, BakeTasks,
            Cached
<1>1. ASSUME BeginReset PROVE StartupInv'
  <2>1. /\ at = "idle" /\ starting /\ at' = "hulls" /\ shape' = NoBodies
        /\ kept'.meshes = meshes /\ kept'.hulls = {}
        /\ kept' \in [meshes : SUBSET Models, hulls : SUBSET Models]
        /\ UNCHANGED <<starting, reset, retried, level, used, asset, todo, descs>>
        /\ UNCHANGED <<meshes, hulls, inFlight, closing, bakes>>
    BY <1>1 DEF BeginReset, NoCopies
  <2>2. StartupTypeOK'
    BY <2>1 DEF NoBodies
  <2>3. /\ BakesAreOwned' /\ BakesExplained' /\ CachesExplained' /\ SceneUsed'
        /\ DescsCached' /\ DescsPlaced' /\ HasCurrent'
    BY <2>1
  <2>4. BoxOnlyIfBothKinds'
    <3>1. \A b \in DOMAIN level : shape'[b] # "box"
      BY <2>1, LevelTypes DEF NoBodies
    <3>2. QED
      BY <2>1, <3>1
  <2>5. QED
    BY <2>2, <2>3, <2>4
<1>2. ASSUME CopyHulls PROVE StartupInv'
  BY <1>2 DEF CopyHulls
<1>3. ASSUME Close PROVE StartupInv'
  BY <1>3 DEF Close
<1>4. ASSUME Join PROVE StartupInv'
  <2>1. bakes = {}
    BY <1>4 DEF Join
  <2>2. descs = NoBodies
    BY <1>4 DEF Join
  <2>3. kept.meshes \subseteq Models /\ kept.hulls \subseteq Models
    OBVIOUS
  <2>4. StartupTypeOK'
    BY <1>4, <2>3 DEF Join, NoCopies, ToVisit, Unmade
  <2>5. BakesAreOwned' /\ BakesExplained' /\ BoxOnlyIfBothKinds'
    BY <1>4, <2>1 DEF Join
  <2>6. CachesExplained'
    BY <1>4 DEF Join, NoCopies
  <2>7. SceneUsed' /\ DescsCached' /\ DescsPlaced' /\ HasCurrent'
    BY <1>4, <2>2 DEF Join, NoBodies
  <2>8. QED
    BY <2>4, <2>5, <2>6, <2>7
<1>5. ASSUME BeginFrame PROVE StartupInv'
  BY <1>5 DEF BeginFrame, ToVisit, Unmade, NoBodies
<1>6. ASSUME Visit PROVE StartupInv'
  <2>1. Current \in DOMAIN level /\ Current \in Bodies /\ Model \in Models
    BY <1>6, CurrentHasModel DEF Visit
  <2>2. retried' \subseteq {b \in DOMAIN level : level[b].auto}
        /\ asset' \in [Models -> AssetStates]
    <3>1. CASE MayRetry
      <4>1. Current \in {b \in DOMAIN level : level[b].auto}
        BY <2>1, <3>1 DEF MayRetry
      <4>2. retried' = retried \cup {Current}
        BY <1>6, <3>1 DEF Visit
      <4>3. asset' = [asset EXCEPT ![Model] = "Loading"]
        BY <1>6, <3>1 DEF Visit
      <4>4. QED
        BY <2>1, <4>1, <4>2, <4>3
    <3>2. CASE ~MayRetry
      <4>1. retried' = retried /\ asset' = asset
        BY <1>6, <3>2 DEF Visit
      <4>2. QED
        BY <4>1
    <3>3. QED
      BY <3>1, <3>2
  <2>3. CASE Cached(Model)
    <3>1. descs' = [descs EXCEPT ![Current] = "bare"] /\ todo' \subseteq todo
      BY <1>6, <2>3 DEF Visit, Skip
    <3>2. StartupTypeOK'
      BY <1>6, <2>2, <2>3, <3>1 DEF Visit, Skip
    <3>3. /\ BakesAreOwned' /\ BakesExplained' /\ BoxOnlyIfBothKinds'
          /\ CachesExplained' /\ SceneUsed'
      BY <1>6 DEF Visit
    <3>4. DescsCached'
      BY <1>6, <2>1, <2>3, <3>1 DEF Visit, Model
    <3>5. DescsPlaced' /\ HasCurrent'
      BY <1>6, <2>3 DEF Visit, Skip
    <3>6. QED
      BY <3>2, <3>3, <3>4, <3>5
  <2>4. CASE ~Cached(Model)
    <3>1. at' = "baking" /\ UNCHANGED <<todo, descs>>
      BY <1>6, <2>4 DEF Visit
    <3>2. StartupTypeOK'
      BY <1>6, <2>2, <3>1 DEF Visit
    <3>3. QED
      BY <1>6, <3>1, <3>2 DEF Visit
  <2>5. QED
    BY <2>3, <2>4
<1>7. ASSUME ReadBaking PROVE StartupInv'
  BY <1>7, CurrentHasModel DEF ReadBaking, Skip
<1>8. ASSUME ReadCache PROVE StartupInv'
  <2>1. Current \in DOMAIN level /\ Current \in Bodies /\ Model \in Models
    BY <1>8, CurrentHasModel DEF ReadCache
  <2>2. CASE Cached(Model)
    <3>1. descs' = [descs EXCEPT ![Current] = "full"] /\ todo' \subseteq todo
      BY <1>8, <2>2 DEF ReadCache, Skip
    <3>2. StartupTypeOK'
      BY <1>8, <2>2, <3>1 DEF ReadCache, Skip
    <3>3. DescsCached'
      BY <1>8, <2>1, <2>2, <3>1 DEF ReadCache, Model
    <3>4. QED
      BY <1>8, <2>2, <3>2, <3>3 DEF ReadCache, Skip
  <2>3. CASE ~Cached(Model)
    BY <1>8, <2>3 DEF ReadCache
  <2>4. QED
    BY <2>2, <2>3
<1>9. ASSUME Queue PROVE StartupInv'
  <2>1. /\ Current \in DOMAIN level /\ Model \in Models
        /\ level[Current].kind \in Kinds
    BY <1>9, CurrentHasModel DEF Queue
  <2>2. todo' \subseteq todo /\ at' = "visit"
    BY <1>9 DEF Queue, Skip
  <2>3. CASE closing \/ Cached(Model) \/ Model \in inFlight
    BY <1>9, <2>2, <2>3 DEF Queue
  <2>4. CASE ~(closing \/ Cached(Model) \/ Model \in inFlight)
    <3> DEFINE new == Bake(Model, level[Current].kind, "queued")
    <3>1. inFlight' = inFlight \cup {Model} /\ bakes' = bakes \cup {new}
      BY <1>9, <2>4 DEF Queue
    <3>2. new \in BakeTasks /\ new.model = Model /\ new.kind = level[Current].kind
      BY <2>1 DEF Bake
    <3> HIDE DEF new
    <3>3. StartupTypeOK'
      BY <1>9, <2>1, <2>2, <3>1, <3>2 DEF Queue
    <3>4. BakesAreOwned'
      BY <2>4, <3>1, <3>2
    <3>5. BakesExplained'
      <4>1. <<new.model, new.kind>> \in used
        BY <1>9, <2>1, <3>2 DEF Queue, Model
      <4>2. QED
        BY <1>9, <3>1, <4>1 DEF Queue
    <3>6. QED
      BY <1>9, <2>2, <3>3, <3>4, <3>5 DEF Queue
  <2>5. QED
    BY <2>3, <2>4
<1>10. ASSUME EndVisits PROVE StartupInv'
  BY <1>10 DEF EndVisits
<1>11. ASSUME NEW b \in DOMAIN level, CreateBody(b) PROVE StartupInv'
  <2> DEFINE m == level[b].model
             own == IF IsStatic(b) THEN meshes ELSE hulls
             built == m \notin own /\ descs[b] = "full" /\ asset[m] # "Empty"
  <2>1. /\ b \in Bodies /\ m \in Models \cup {NoModel} /\ level[b].kind \in Kinds
        /\ at = "create" /\ descs[b] # "none" /\ Cached(m)
    BY <1>11, LevelTypes DEF CreateBody, Described
  <2>2. m \in Models /\ <<m, level[b].kind>> \in used
    BY <2>1
  <2>3. /\ shape' = [shape EXCEPT ![b] = IF m \in own \/ built THEN "mesh" ELSE "box"]
        /\ meshes' = IF built /\ IsStatic(b) THEN meshes \cup {m} ELSE meshes
        /\ hulls' = IF built /\ ~IsStatic(b) THEN hulls \cup {m} ELSE hulls
        /\ descs' = [descs EXCEPT ![b] = "none"]
        /\ UNCHANGED <<starting, reset, retried, level, used, asset, inFlight, closing>>
        /\ UNCHANGED <<bakes, kept, at, todo>>
    BY <1>11 DEF CreateBody
  <2>4. m \notin own => \E kind \in Kinds \ {level[b].kind} : <<m, kind>> \in used
    BY <2>1 DEF IsStatic, Kinds
  <2>5. /\ meshes' = meshes \/ (meshes' = meshes \cup {m} /\ level[b].kind = "static")
        /\ hulls' = hulls \/ (hulls' = hulls \cup {m} /\ level[b].kind = "moving")
    BY <2>1, <2>3 DEF IsStatic, Kinds
  <2> HIDE DEF m, own, built
  <2>6. StartupTypeOK'
    BY <2>1, <2>2, <2>3, <2>5
  <2>7. BoxOnlyIfBothKinds'
    <3>1. shape'[b] = "box" => m \notin own
      BY <2>1, <2>3
    <3>2. \A c \in DOMAIN level \ {b} : shape'[c] = shape[c]
      BY <2>3
    <3>3. QED
      BY <2>3, <2>4, <3>1, <3>2 DEF m
  <2>8. CachesExplained' /\ BakesAreOwned' /\ BakesExplained' /\ SceneUsed'
    BY <2>2, <2>3, <2>5
  <2>9. DescsCached' /\ DescsPlaced' /\ HasCurrent'
    BY <2>1, <2>3, <2>5
  <2>10. QED
    BY <2>6, <2>7, <2>8, <2>9
<1>12. ASSUME EndCreate PROVE StartupInv'
  BY <1>12 DEF EndCreate, Described, NoBodies
<1>13. ASSUME Check PROVE StartupInv'
  BY <1>13 DEF Check
<1>14. ASSUME NEW t \in bakes, BeginBake(t) PROVE StartupInv'
  <2>1. CASE closing
    BY <1>14, <2>1 DEF BeginBake, Forget
  <2>2. CASE ~closing
    <3> DEFINE moved == [t EXCEPT !.stage = "building"]
    <3>1. bakes' = (bakes \ {t}) \cup {moved} /\ inFlight' = inFlight /\ used' = used
      BY <1>14, <2>2 DEF BeginBake, Advance
    <3>2. QED
      BY <1>14, <3>1, MoveBake DEF BeginBake
  <2>3. QED
    BY <2>1, <2>2
<1>15. ASSUME NEW t \in bakes, StoreShape(t) PROVE StartupInv'
  <2>1. <<t.model, t.kind>> \in used
    OBVIOUS
  <2>2. /\ meshes' \in {meshes, meshes \cup {t.model}}
        /\ hulls' \in {hulls, hulls \cup {t.model}}
        /\ meshes' # meshes => t.kind = "static"
        /\ hulls' # hulls => t.kind = "moving"
    BY <1>15 DEF StoreShape
  <2>3. /\ BakesAreOwned' /\ BakesExplained' /\ bakes' \subseteq BakeTasks
        /\ inFlight' \subseteq Models
    <3>1. bakes' = (bakes \ {t}) \cup {[t EXCEPT !.stage = "built"]}
          /\ inFlight' = inFlight /\ used' = used
      BY <1>15 DEF StoreShape, Advance
    <3>2. QED
      BY <3>1, MoveBake
  <2>4. meshes' \subseteq Models /\ hulls' \subseteq Models
    BY <2>2
  <2>5. StartupTypeOK'
    BY <1>15, <2>3, <2>4 DEF StoreShape
  <2>6. CachesExplained'
    <3>1. \A m \in meshes' \cup kept.meshes : <<m, "static">> \in used
      BY <2>1, <2>2
    <3>2. \A m \in hulls' \cup kept.hulls : <<m, "moving">> \in used
      BY <2>1, <2>2
    <3>3. QED
      BY <1>15, <3>1, <3>2 DEF StoreShape
  <2>7. /\ SceneUsed' /\ DescsCached' /\ DescsPlaced' /\ HasCurrent'
        /\ BoxOnlyIfBothKinds'
    BY <1>15, <2>2 DEF StoreShape
  <2>8. QED
    BY <2>3, <2>5, <2>6, <2>7
<1>16. ASSUME NEW t \in bakes, EndBake(t) PROVE StartupInv'
  BY <1>16 DEF EndBake, Forget
<1>17. ASSUME NEW m \in Models, NEW result \in AssetStates, EndLoad(m, result)
       PROVE  StartupInv'
  BY <1>17 DEF EndLoad
<1> HIDE DEF StartupInv, StartupTypeOK, BakesAreOwned, BoxOnlyIfBothKinds,
             CachesExplained, BakesExplained, SceneUsed, DescsCached, DescsPlaced,
             HasCurrent, scene, cast, world, batch, Stages, AssetStates, BakeTasks,
             Cached
<1>18. QED
  BY <1>1, <1>2, <1>3, <1>4, <1>5, <1>6, <1>7, <1>8, <1>9, <1>10, <1>11, <1>12,
     <1>13, <1>14, <1>15, <1>16, <1>17
  DEF StartupFrame, Bakes, Loads

\* A scene that has not been started satisfies the invariant.
LEMMA StartupInitInv ==
  ASSUME StartupInit
  PROVE  StartupInv
BY DEF StartupInit, StartupInv, StartupTypeOK, BakesAreOwned, BoxOnlyIfBothKinds,
       CachesExplained, BakesExplained, SceneUsed, DescsCached, DescsPlaced,
       HasCurrent, NoBodies, NoCopies, NoLevel, IsLevel, Stages, AssetStates

\* The levels the manager puts in place.
NextLevels == Levels \cup {NoLevel}

LEMMA NextIsLevel ==
  ASSUME NEW l \in NextLevels
  PROVE  IsLevel(l)
<1>1. CASE l \in Levels
  BY <1>1, LevelAssumption
<1>2. CASE l = NoLevel
  BY <1>2 DEF NoLevel, IsLevel
<1>3. QED
  BY <1>1, <1>2 DEF NextLevels

\* A step outside of BatchInitializeBodies that leaves bodies and scenes alone.
LEMMA SameScene ==
  ASSUME StartupInv, UNCHANGED <<scene, world, kept, at, batch>>,
         asset' \in [Models -> AssetStates]
  PROVE  StartupInv'
BY DEF StartupInv, StartupTypeOK, BakesAreOwned, BoxOnlyIfBothKinds, CachesExplained,
       BakesExplained, SceneUsed, DescsCached, DescsPlaced, HasCurrent, Cached, scene,
       cast, world, batch

\* A scene is started.
LEMMA StartScene ==
  ASSUME StartupInv, OnRuntimeStart, UNCHANGED <<asset, world, kept, at, batch>>
  PROVE  StartupInv'
<1>1. \A b \in DOMAIN level : <<level[b].model, level[b].kind>> \in used'
  BY DEF OnRuntimeStart, Uses
<1>2. used' \subseteq (Models \cup {NoModel}) \X Kinds
  BY LevelTypes DEF OnRuntimeStart, Uses, StartupInv, StartupTypeOK
<1>3. used \subseteq used'
  BY DEF OnRuntimeStart
<1>4. StartupTypeOK'
  BY <1>2 DEF OnRuntimeStart, StartupInv, StartupTypeOK, world, batch
<1>5. BoxOnlyIfBothKinds' /\ SceneUsed'
  BY <1>1, <1>3 DEF OnRuntimeStart, StartupInv, BoxOnlyIfBothKinds, SceneUsed
<1>6. BakesAreOwned' /\ BakesExplained' /\ CachesExplained'
  BY <1>3 DEF StartupInv, BakesAreOwned, BakesExplained, CachesExplained, world
<1>7. DescsCached' /\ DescsPlaced' /\ HasCurrent'
  BY DEF OnRuntimeStart, StartupInv, DescsCached, DescsPlaced, HasCurrent, Cached,
         world, batch
<1>8. QED
  BY <1>4, <1>5, <1>6, <1>7 DEF StartupInv

\* A scene is stopped, and another one, or none, takes its place.
LEMMA StopScene ==
  ASSUME StartupInv, at = "idle", NEW l \in NextLevels, OnRuntimeStop(l),
         UNCHANGED <<asset, world, kept, at, batch>>
  PROVE  StartupInv'
<1>1. IsLevel(level')
  BY NextIsLevel DEF OnRuntimeStop
<1>2. todo' = {} /\ descs' = NoBodies
  BY DEF StartupInv, DescsPlaced, batch
<1>3. StartupTypeOK'
  BY <1>1, <1>2 DEF OnRuntimeStop, StartupInv, StartupTypeOK, world, batch, NoBodies
<1>4. BoxOnlyIfBothKinds' /\ SceneUsed'
  <2>1. \A b \in DOMAIN level' : shape'[b] = "none"
    BY <1>1 DEF OnRuntimeStop, NoBodies, IsLevel
  <2>2. QED
    BY <2>1 DEF OnRuntimeStop, BoxOnlyIfBothKinds, SceneUsed
<1>5. BakesAreOwned' /\ BakesExplained' /\ CachesExplained'
  BY DEF OnRuntimeStop, StartupInv, BakesAreOwned, BakesExplained, CachesExplained,
         world
<1>6. DescsCached' /\ DescsPlaced' /\ HasCurrent'
  BY <1>2 DEF DescsCached, DescsPlaced, HasCurrent, NoBodies
<1>7. QED
  BY <1>3, <1>4, <1>5, <1>6 DEF StartupInv

\* A body that is not made yet becomes another one.
LEMMA EditScene ==
  ASSUME StartupInv, at = "idle", NEW b \in Bodies, NEW l \in Levels, EditBody(b, l)
  PROVE  StartupInv'
<1> DEFINE c == l[b]
<1>1. /\ b \in DOMAIN level /\ c \in Colliders /\ shape[b] = "none"
      /\ c.auto = level[b].auto
      /\ level' = [level EXCEPT ![b] = c]
      /\ used' = used \cup {<<c.model, c.kind>>}
      /\ UNCHANGED <<starting, reset, shape, retried, asset, world>>
      /\ UNCHANGED <<kept, at, todo, descs>>
  BY LevelAssumption DEF EditBody, Input, UntouchedWorld, IsLevel, batch
<1>2. c.model \in Models \cup {NoModel} /\ c.kind \in Kinds
  BY <1>1 DEF Colliders
<1> HIDE DEF c
<1>3. /\ DOMAIN level' = DOMAIN level /\ level'[b] = c
      /\ \A d \in DOMAIN level \ {b} : level'[d] = level[d]
  BY <1>1 DEF StartupInv, StartupTypeOK, IsLevel
<1>4. IsLevel(level')
  BY <1>1 DEF StartupInv, StartupTypeOK, IsLevel
<1>5. todo' = {} /\ descs' = NoBodies
  BY <1>1 DEF StartupInv, DescsPlaced
<1>6. retried' \subseteq {d \in DOMAIN level' : level'[d].auto}
  BY <1>1, <1>3 DEF StartupInv, StartupTypeOK
<1>7. StartupTypeOK'
  BY <1>1, <1>2, <1>4, <1>5, <1>6 DEF StartupInv, StartupTypeOK, world
<1>8. BoxOnlyIfBothKinds' /\ SceneUsed'
  BY <1>1, <1>3 DEF StartupInv, BoxOnlyIfBothKinds, SceneUsed
<1>9. BakesAreOwned' /\ BakesExplained' /\ CachesExplained'
  BY <1>1 DEF StartupInv, BakesAreOwned, BakesExplained, CachesExplained, world
<1>10. DescsCached' /\ DescsPlaced' /\ HasCurrent'
  BY <1>1, <1>5 DEF DescsCached, DescsPlaced, HasCurrent, NoBodies
<1>11. QED
  BY <1>7, <1>8, <1>9, <1>10 DEF StartupInv

-----------------------------------------------------------------------------
(* The inductive invariant of the transitions.                             *)

ManagerTypeOK ==
  /\ edited \in BOOLEAN /\ runtime \in SceneStates \cup {"none"}
  /\ transition \in [state : TransitionStates, play : BOOLEAN,
                     target : SceneStates]
  /\ job \in {"none", "running", "done", "failed"}
  /\ dirty \in BOOLEAN /\ pending \subseteq {"new", "open"}
  /\ request \in BOOLEAN
  /\ turn \in {"input", "request", "ensure", "manage", "scene"}

\* A runtime scene that does not run yet is the one a transition into playing
\* will start, and such a transition ends in a state that plays.
RuntimeAwaited ==
  /\ runtime = "Edit" => IsLoading /\ transition.play
  /\ transition.play => transition.target \in {"Play", "Simulate"}

ManagerInv == ManagerTypeOK /\ RuntimeAwaited

\* The main thread leaves the scene's start-up only at the end of a frame: what
\* the user and the scene manager do to scenes never meets a half-built one.
TurnTaken == turn # "scene" => at = "idle"

Inv == StartupInv /\ ManagerInv /\ TurnTaken

\* What the helpers of the scene manager do to the start-up's state.
SceneCalls ==
  \/ UNCHANGED scene
  \/ OnRuntimeStart
  \/ \E l \in NextLevels : OnRuntimeStop(l)

\* A step of the scene manager that only starts, stops or keeps the runtime scene
\* preserves the invariant when it preserves the manager's part of it.
LEMMA ManagerStep ==
  ASSUME Inv, UntouchedWorld, SceneCalls, ManagerInv',
         at = "idle" \/ (UNCHANGED scene /\ UNCHANGED turn)
  PROVE  Inv'
<1>1. StartupInv'
  <2>1. asset' \in [Models -> AssetStates] /\ UNCHANGED <<asset, world, kept, at, batch>>
    BY DEF Inv, StartupInv, StartupTypeOK, UntouchedWorld
  <2>2. CASE UNCHANGED scene
    BY <2>1, <2>2, SameScene DEF Inv
  <2>3. CASE at = "idle" /\ OnRuntimeStart
    BY <2>1, <2>3, StartScene DEF Inv
  <2>4. CASE at = "idle" /\ \E l \in NextLevels : OnRuntimeStop(l)
    BY <2>1, <2>4, StopScene DEF Inv
  <2>5. QED
    BY <2>2, <2>3, <2>4 DEF SceneCalls
<1>2. TurnTaken'
  BY DEF Inv, TurnTaken, UntouchedWorld
<1>3. QED
  BY <1>1, <1>2 DEF Inv

\* A step that leaves the runtime scene alone.
LEMMA KeepsScene ==
  ASSUME UNCHANGED scene
  PROVE  SceneCalls
BY DEF SceneCalls

\* A step that calls OnRuntimeStart.
LEMMA StartsScene ==
  ASSUME OnRuntimeStart
  PROVE  SceneCalls
BY DEF SceneCalls

\* A step that calls OnRuntimeStop.
LEMMA StopsScene ==
  ASSUME NEW l \in NextLevels, OnRuntimeStop(l)
  PROVE  SceneCalls
BY DEF SceneCalls

\* CancelTransition drops the runtime scene the transition was to start.
LEMMA CancelStep ==
  ASSUME Inv, CancelTransition
  PROVE  /\ SceneCalls /\ RuntimeAwaited'
         /\ runtime' \in SceneStates \cup {"none"}
         /\ transition' \in [state : TransitionStates, play : BOOLEAN,
                             target : SceneStates]
         /\ job' = "none"
<1>1. SceneCalls
  BY KeepsScene, StopsScene DEF CancelTransition, DropRuntime, KeepRuntime, NextLevels
<1>2. transition' = NoTransition /\ job' = "none" /\ runtime' \in {runtime, "none"}
  BY DEF CancelTransition, DropRuntime, KeepRuntime
<1>3. transition' \in [state : TransitionStates, play : BOOLEAN, target : SceneStates]
  BY <1>2 DEF NoTransition, Transition, TransitionStates, SceneStates
<1>4. runtime' # "Edit"
  BY <1>2 DEF CancelTransition, DropRuntime, KeepRuntime, Inv, ManagerInv,
              RuntimeAwaited
<1>5. RuntimeAwaited'
  BY <1>2, <1>4 DEF RuntimeAwaited, NoTransition, Transition
<1>6. QED
  BY <1>1, <1>2, <1>3, <1>5 DEF Inv, ManagerInv, ManagerTypeOK

\* StartSceneLoad, called when no transition is under way.
LEMMA LoadStep ==
  ASSUME Inv, ~IsLoading, StartSceneLoad
  PROVE  /\ SceneCalls /\ RuntimeAwaited'
         /\ runtime' = runtime /\ edited' = edited
         /\ transition' \in [state : TransitionStates, play : BOOLEAN,
                             target : SceneStates]
         /\ job' = "running"
<1>1. /\ SceneCalls /\ runtime' = runtime /\ edited' = edited
      /\ job' = "running"
  BY KeepsScene DEF StartSceneLoad, KeepRuntime
<1>2. runtime # "Edit"
  BY DEF Inv, ManagerInv, RuntimeAwaited
<1>3. \/ transition' = Transition("SceneLoading", TRUE, "Play")
      \/ transition' = Transition("SceneLoading", FALSE, "Edit")
  BY Zenon DEF StartSceneLoad
<1>4. CASE transition' = Transition("SceneLoading", TRUE, "Play")
  BY <1>1, <1>2, <1>4 DEF RuntimeAwaited, Transition, TransitionStates, SceneStates
<1>5. CASE transition' = Transition("SceneLoading", FALSE, "Edit")
  BY <1>1, <1>2, <1>5 DEF RuntimeAwaited, Transition, TransitionStates, SceneStates
<1>6. QED
  BY <1>3, <1>4, <1>5

\* SetSceneState for Play and Simulate.
LEMMA PlayStep ==
  ASSUME Inv, NEW state \in {"Play", "Simulate"}, StartPlaying(state)
  PROVE  /\ SceneCalls /\ RuntimeAwaited'
         /\ runtime' = runtime /\ edited' = edited
         /\ transition' \in [state : TransitionStates, play : BOOLEAN,
                             target : SceneStates]
         /\ job' \in {job, "running"}
<1>1. /\ SceneCalls /\ runtime' = runtime /\ edited' = edited
      /\ job' \in {job, "running"}
  BY KeepsScene DEF StartPlaying, KeepRuntime
<1>2. CASE transition' = transition
  BY <1>1, <1>2 DEF Inv, ManagerInv, ManagerTypeOK, RuntimeAwaited, IsLoading
<1>3. CASE ~IsLoading /\ transition' = Transition("PlayStarting", TRUE, state)
  BY <1>1, <1>3 DEF Inv, ManagerInv, RuntimeAwaited, Transition, TransitionStates,
                    SceneStates, IsLoading
<1>4. QED
  BY <1>2, <1>3 DEF StartPlaying

\* OpenScene, whether it asks, loads or is ignored.
LEMMA OpenStep ==
  ASSUME Inv, Open
  PROVE  /\ SceneCalls /\ RuntimeAwaited'
         /\ runtime' = runtime /\ edited' = edited
         /\ transition' \in [state : TransitionStates, play : BOOLEAN,
                             target : SceneStates]
         /\ job' \in {job, "running"}
         /\ pending' \subseteq {"new", "open"}
<1>1. pending' \subseteq {"new", "open"}
  BY DEF Open, Inv, ManagerInv, ManagerTypeOK
<1>2. CASE UNCHANGED manager /\ UNCHANGED scene
  BY <1>1, <1>2, KeepsScene DEF manager, Inv, ManagerInv, ManagerTypeOK,
                                RuntimeAwaited, IsLoading
<1>3. CASE ~IsLoading /\ StartSceneLoad
  BY <1>1, <1>3, LoadStep
<1>4. QED
  BY <1>2, <1>3 DEF Open

\* What the user does between two frames.
LEMMA UserStep ==
  ASSUME Inv, User
  PROVE  Inv'
<1> USE DEF Input
<1>0. at = "idle"
  <2>1. turn = "input"
    BY DEF User, NewScene, NewProject, OpenScene, SaveScene, MarkSceneDirty,
           ConfirmPendingAction, CancelPendingAction, Play, Stop, EditBody
  <2>2. QED
    BY <2>1 DEF Inv, TurnTaken
<1>1. ASSUME UNCHANGED manager, UNCHANGED scene, UNCHANGED <<turn, request>>,
             UntouchedWorld, dirty' \in BOOLEAN, pending' \subseteq {"new", "open"}
      PROVE  Inv'
  <2>1. ManagerInv'
    BY <1>1 DEF manager, Inv, ManagerInv, ManagerTypeOK, RuntimeAwaited, IsLoading
  <2>2. QED
    BY <1>1, <2>1, KeepsScene, <1>0, ManagerStep
<1>2. ASSUME SetScene, UNCHANGED <<turn, request>>, UntouchedWorld,
             dirty' \in BOOLEAN, pending' \subseteq {"new", "open"}
      PROVE  Inv'
  <2>1. ManagerInv'
    BY <1>2, CancelStep DEF SetScene, Inv, ManagerInv, ManagerTypeOK
  <2>2. QED
    BY <1>2, <2>1, CancelStep, <1>0, ManagerStep DEF SetScene
<1>3. dirty \in BOOLEAN /\ pending \subseteq {"new", "open"}
  BY DEF Inv, ManagerInv, ManagerTypeOK
<1>4. CASE NewScene
  BY <1>1, <1>2, <1>3, <1>4 DEF NewScene
<1>5. CASE OpenScene
  <2>1. ManagerInv'
    BY <1>3, <1>5, OpenStep DEF OpenScene, Inv, ManagerInv, ManagerTypeOK
  <2>2. QED
    BY <1>5, <2>1, OpenStep, <1>0, ManagerStep DEF OpenScene
<1>6. CASE SaveScene
  BY <1>1, <1>3, <1>6 DEF SaveScene
<1>7. CASE MarkSceneDirty
  BY <1>1, <1>3, <1>7 DEF MarkSceneDirty
<1>8. CASE ConfirmPendingAction
  <2>1. dirty' \in BOOLEAN /\ pending' \subseteq {"new", "open"}
    BY <1>3, <1>8 DEF ConfirmPendingAction
  <2>2. CASE SetScene
    BY <1>2, <1>8, <2>1, <2>2 DEF ConfirmPendingAction
  <2>3. CASE UNCHANGED manager /\ UNCHANGED scene
    BY <1>1, <1>8, <2>1, <2>3 DEF ConfirmPendingAction
  <2>4. CASE ~IsLoading /\ StartSceneLoad
    <3>1. ManagerInv'
      BY <1>8, <2>1, <2>4, LoadStep
      DEF ConfirmPendingAction, Inv, ManagerInv, ManagerTypeOK
    <3>2. QED
      BY <1>8, <2>4, <3>1, LoadStep, <1>0, ManagerStep DEF ConfirmPendingAction
  <2>5. QED
    BY <1>8, <2>2, <2>3, <2>4 DEF ConfirmPendingAction
<1>9. CASE CancelPendingAction
  BY <1>1, <1>3, <1>9 DEF CancelPendingAction
<1>10. CASE NewProject
  BY <1>2, <1>3, <1>10 DEF NewProject
<1>11. ASSUME NEW b \in Bodies, NEW l \in Levels, EditBody(b, l) PROVE Inv'
  <2>1. StartupInv'
    BY <1>0, <1>11, EditScene DEF Inv
  <2>2. ManagerInv'
    BY <1>11 DEF EditBody, manager, Inv, ManagerInv, ManagerTypeOK, RuntimeAwaited,
                 IsLoading
  <2>3. TurnTaken'
    BY <1>0, <1>11 DEF EditBody, UntouchedWorld, TurnTaken
  <2>4. QED
    BY <2>1, <2>2, <2>3 DEF Inv
<1>12. ASSUME NEW state \in {"Play", "Simulate"}, Play(state) PROVE Inv'
  <2>1. ManagerInv'
    BY <1>3, <1>12, PlayStep DEF Play, Inv, ManagerInv, ManagerTypeOK
  <2>2. QED
    BY <1>12, <2>1, PlayStep, <1>0, ManagerStep DEF Play
<1>13. CASE Stop
  <2>1. CASE SceneState # "Edit"
    <3>1. SceneCalls /\ runtime' = "none" /\ transition' = NoTransition /\ job' = "none"
      BY <1>13, <2>1, StopsScene DEF Stop, DropRuntime, NextLevels
    <3>2. ManagerInv'
      BY <1>13, <3>1 DEF Stop, Inv, ManagerInv, ManagerTypeOK, RuntimeAwaited,
         NoTransition, Transition, TransitionStates, SceneStates
    <3>3. QED
      BY <1>13, <3>1, <3>2, <1>0, ManagerStep DEF Stop
  <2>2. CASE SceneState = "Edit"
    <3>1. CancelTransition
      BY <1>13, <2>2 DEF Stop
    <3>2. ManagerInv'
      BY <1>13, <3>1, CancelStep DEF Stop, Inv, ManagerInv, ManagerTypeOK
    <3>3. QED
      BY <1>13, <3>1, <3>2, CancelStep, <1>0, ManagerStep DEF Stop
  <2>3. QED
    BY <2>1, <2>2
<1>14. QED
  BY <1>4, <1>5, <1>6, <1>7, <1>8, <1>9, <1>10, <1>11, <1>12,
     <1>13 DEF User

\* EditorSceneManager::OnUpdate.
LEMMA ManageStep ==
  ASSUME Inv, Manage
  PROVE  Inv'
<1>1. /\ UNCHANGED asked /\ UntouchedWorld /\ turn' \in {"scene", "input"}
  BY DEF Manage, EndManage
<1>0. at = "idle"
  BY DEF Manage, Inv, TurnTaken
<1>2. ASSUME SceneCalls, edited' \in BOOLEAN,
             runtime' \in SceneStates \cup {"none"},
             transition' \in [state : TransitionStates, play : BOOLEAN,
                             target : SceneStates],
             job' \in {"none", "running", "done", "failed"},
             RuntimeAwaited'
      PROVE  Inv'
  BY <1>0, <1>1, <1>2, ManagerStep DEF Inv, ManagerInv, ManagerTypeOK, asked
<1>3. CASE UNCHANGED manager /\ UNCHANGED scene
  BY <1>2, <1>3, KeepsScene DEF manager, Inv, ManagerInv, ManagerTypeOK,
                                RuntimeAwaited, IsLoading
<1>4. CASE transition.state # "None" /\ UpdateSceneLoading
  <2>1. CASE CancelTransition /\ UNCHANGED edited
    BY <1>2, <2>1, CancelStep DEF Inv, ManagerInv, ManagerTypeOK
  <2>2. CASE /\ job' = "none"
             /\ transition' = [transition EXCEPT !.state = "Finalizing"]
             /\ IF transition.play
                  THEN /\ runtime' = "Edit"
                       /\ \E l \in Levels : OnRuntimeStop(l)
                       /\ UNCHANGED edited
                  ELSE edited' = TRUE /\ KeepRuntime
    <3>1. /\ transition' \in [state : TransitionStates, play : BOOLEAN,
                              target : SceneStates]
          /\ transition'.state = "Finalizing"
          /\ transition'.play = transition.play
          /\ transition'.target = transition.target
      BY <2>2 DEF Inv, ManagerInv, ManagerTypeOK, TransitionStates
    <3>2. /\ SceneCalls /\ edited' \in BOOLEAN
          /\ IF transition.play THEN runtime' = "Edit" ELSE runtime' = runtime
      BY <2>2, KeepsScene, StopsScene
      DEF KeepRuntime, Inv, ManagerInv, ManagerTypeOK, NextLevels
    <3>3. RuntimeAwaited'
      BY <3>1, <3>2 DEF RuntimeAwaited, IsLoading, Inv, ManagerInv
    <3>4. QED
      BY <1>2, <2>2, <3>1, <3>2, <3>3 DEF Inv, ManagerInv, ManagerTypeOK, SceneStates
  <2>3. QED
    BY <1>3, <1>4, <2>1, <2>2 DEF UpdateSceneLoading
<1>5. CASE transition.state # "None" /\ UpdateFinalizing
  <2>1. CASE /\ transition' = NoTransition
             /\ IF transition.play
                  THEN runtime' = transition.target /\ OnRuntimeStart
                  ELSE KeepRuntime
             /\ UNCHANGED <<edited, job>>
    <3>1. /\ SceneCalls
          /\ runtime' \in SceneStates \cup {"none"} /\ runtime' # "Edit"
      BY <2>1, KeepsScene, StartsScene
      DEF KeepRuntime, Inv, ManagerInv, ManagerTypeOK, RuntimeAwaited, SceneStates
    <3>2. /\ RuntimeAwaited'
          /\ transition' \in [state : TransitionStates, play : BOOLEAN,
                              target : SceneStates]
      BY <2>1, <3>1 DEF RuntimeAwaited, NoTransition, Transition, TransitionStates,
                        SceneStates
    <3>3. QED
      BY <1>2, <2>1, <3>1, <3>2 DEF Inv, ManagerInv, ManagerTypeOK
  <2>2. QED
    BY <1>3, <1>5, <2>1 DEF UpdateFinalizing
<1>6. QED
  BY <1>3, <1>4, <1>5 DEF Manage

\* The frame of EditorLayer.
LEMMA FrameStep ==
  ASSUME Inv, Frame
  PROVE  Inv'
<1>1. ASSUME UNCHANGED manager, ManagerTypeOK' PROVE ManagerInv'
  BY <1>1 DEF manager, Inv, ManagerInv, RuntimeAwaited, IsLoading
<1>2. CASE BeginUpdate
  <2>1. ManagerInv'
    BY <1>1, <1>2 DEF BeginUpdate, Inv, ManagerInv, ManagerTypeOK, manager, asked
  <2>2. UntouchedWorld /\ UNCHANGED scene
    BY <1>2 DEF BeginUpdate, UntouchedWorld, startup
  <2>3. at = "idle"
    BY <1>2 DEF BeginUpdate, Inv, TurnTaken
  <2>4. QED
    BY <2>1, <2>2, <2>3, KeepsScene, ManagerStep
<1>3. CASE OpenRequested
  <2>1. ManagerInv'
    BY <1>3, OpenStep DEF OpenRequested, Inv, ManagerInv, ManagerTypeOK
  <2>2. at = "idle"
    BY <1>3 DEF OpenRequested, Inv, TurnTaken
  <2>3. QED
    BY <1>3, <2>1, <2>2, OpenStep, ManagerStep DEF OpenRequested
<1>4. CASE EnsurePlay
  <2>1. ManagerInv'
    BY <1>4, PlayStep DEF EnsurePlay, Inv, ManagerInv, ManagerTypeOK
  <2>2. at = "idle"
    BY <1>4 DEF EnsurePlay, Inv, TurnTaken
  <2>3. QED
    BY <1>4, <2>1, <2>2, PlayStep, ManagerStep DEF EnsurePlay
<1>5. CASE Manage
  BY <1>5, ManageStep
<1>6. CASE UpdateStarting
  <2>1. ManagerInv'
    BY <1>1, <1>6 DEF UpdateStarting, Inv, ManagerInv, ManagerTypeOK, manager, asked
  <2>2. TurnTaken'
    BY <1>6 DEF UpdateStarting, TurnTaken
  <2>3. QED
    BY <1>6, <2>1, <2>2, StartupStep DEF UpdateStarting, Inv
<1>7. CASE UpdateEdited
  <2>1. ManagerInv'
    BY <1>1, <1>7 DEF UpdateEdited, Inv, ManagerInv, ManagerTypeOK, manager, asked
  <2>2. asset' \in [Models -> AssetStates]
    BY <1>7 DEF UpdateEdited, Inv, StartupInv, StartupTypeOK, AssetStates
  <2>3. StartupInv'
    BY <1>7, <2>2, SameScene DEF UpdateEdited, Inv
  <2>4. TurnTaken'
    BY <1>7 DEF UpdateEdited, TurnTaken
  <2>5. QED
    BY <2>1, <2>3, <2>4 DEF Inv
<1>8. ASSUME NEW ask \in BOOLEAN, UpdateRunning(ask) PROVE Inv'
  <2>1. request' \in BOOLEAN
    BY <1>8, Zenon DEF UpdateRunning
  <2>2. ManagerInv'
    BY <1>1, <1>8, <2>1 DEF UpdateRunning, Inv, ManagerInv, ManagerTypeOK, manager
  <2>3. UntouchedWorld /\ UNCHANGED scene
    BY <1>8 DEF UpdateRunning, UntouchedWorld, startup
  <2>4. at = "idle"
    BY <1>8 DEF UpdateRunning
  <2>5. QED
    BY <2>2, <2>3, <2>4, KeepsScene, ManagerStep
<1>9. QED
  BY <1>2, <1>3, <1>4, <1>5, <1>6, <1>7, <1>8 DEF Frame

\* The pool's bakes and loads of models.
LEMMA PoolStep ==
  ASSUME Inv, Pool
  PROVE  Inv'
<1>1. UNCHANGED <<manager, asked, turn>> /\ (Bakes \/ Loads)
  BY DEF Pool
<1>2. ManagerInv'
  BY <1>1 DEF Inv, ManagerInv, ManagerTypeOK, RuntimeAwaited, IsLoading, manager, asked
<1>3. TurnTaken'
  BY <1>1 DEF Inv, TurnTaken, Bakes, Loads, BeginBake, StoreShape, EndBake, EndLoad
<1>4. QED
  BY <1>1, <1>2, <1>3, StartupStep DEF Inv

\* The copy or the load of a scene ends.
LEMMA EndJobStep ==
  ASSUME Inv, NEW result \in {"done", "failed"}, EndJob(result)
  PROVE  Inv'
<1>1. ManagerInv'
  BY DEF EndJob, Inv, ManagerInv, ManagerTypeOK, RuntimeAwaited, IsLoading, asked
<1>2. UntouchedWorld /\ UNCHANGED scene /\ UNCHANGED turn
  BY DEF EndJob, UntouchedWorld, startup
<1>3. QED
  BY <1>1, <1>2, KeepsScene, ManagerStep

\* Nothing happens.
LEMMA StutterStep ==
  ASSUME Inv, UNCHANGED vars
  PROVE  Inv'
<1>1. ManagerInv'
  BY DEF vars, Inv, ManagerInv, ManagerTypeOK, RuntimeAwaited, IsLoading, manager, asked
<1>2. UntouchedWorld /\ UNCHANGED scene /\ UNCHANGED turn
  BY DEF vars, UntouchedWorld, startup
<1>3. QED
  BY <1>1, <1>2, KeepsScene, ManagerStep

\* The invariant above is inductive: no step of the user, of a frame or of the
\* pool breaks it.
THEOREM Invariance == Spec => []Inv
<1>1. Init => Inv
  <2>1. SUFFICES ASSUME Init PROVE Inv
    OBVIOUS
  <2>2. StartupInv
    BY <2>1, StartupInitInv DEF Init
  <2>3. ManagerInv
    BY <2>1 DEF Init, ManagerInv, ManagerTypeOK, RuntimeAwaited, NoTransition,
                Transition, TransitionStates, SceneStates
  <2>4. TurnTaken
    BY <2>1 DEF Init, StartupInit, TurnTaken
  <2>5. QED
    BY <2>2, <2>3, <2>4 DEF Inv
<1>2. Inv /\ [Next]_vars => Inv'
  BY UserStep, FrameStep, PoolStep, EndJobStep, StutterStep DEF Next
<1>3. QED
  BY <1>1, <1>2, PTL DEF Spec

\* The editor's and the start-up's variables keep their types.
THEOREM TypeCorrect == Spec => []TypeOK
<1>1. Inv => TypeOK
  BY DEF Inv, StartupInv, ManagerInv, ManagerTypeOK, TypeOK
<1>2. QED
  BY <1>1, Invariance, PTL

\* QueuePrebuildShape and the tasks it queues keep m_InFlightMeshBakes exact:
\* the destructor of a world waits for its own bakes and for nothing else.
THEOREM BakesOwned == Spec => []BakesAreOwned
<1>1. Inv => BakesAreOwned
  BY DEF Inv, StartupInv
<1>2. QED
  BY <1>1, Invariance, PTL

\* However many scenes are played one after the other, whatever their bodies and
\* models, and however they are edited while they start, BuildShape falls back to
\* the unit box only for a model that bodies of the other kind have been played
\* with.
THEOREM BoxNeedsBothKinds == Spec => []BoxOnlyIfBothKinds
<1>1. Inv => BoxOnlyIfBothKinds
  BY DEF Inv, StartupInv
<1>2. QED
  BY <1>1, Invariance, PTL

\* No sequence of requests leaves a runtime scene behind that does not run and
\* that no transition will start.
THEOREM RuntimeAlwaysRuns == Spec => []RuntimeRuns
<1>1. Inv => RuntimeRuns
  BY DEF Inv, ManagerInv, RuntimeAwaited, RuntimeRuns
<1>2. QED
  BY <1>1, Invariance, PTL
=============================================================================
