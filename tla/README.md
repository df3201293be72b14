# Chained Engine in TLA+

TLA+ specifications of the concurrent and distributed parts of Chained Engine,
the TLC configurations that check them, and TLAPS proofs about the worker pool,
the host's session, both sides of the replication, the client's link, asset
loading, and the editor with the start of a scene. Paths are relative to `src/`.

## The system

Chained Engine is a C++ game engine with an editor. Most of it is sequential:
the main loop (`engine/app/application.cpp`) updates layers, scenes, scripts and
the renderer on one thread. What is hard about it happens where other threads
and other machines come in.

| Part | State | Operations | Interacts with |
|---|---|---|---|
| `ThreadPool` (`engine/common/thread_pool.h`) | task queue, stop flag, active counter, two condition variables | Enqueue, QueueTask, worker loop, WaitIdle, Stop | asset loads, model import (which enqueues and joins from inside a task), shape bakes, scene loads |
| `ENetThreadedDriver` | role, connected flag, `m_PeerMap`, inbound and outbound queue | Host, Connect, Disconnect, network thread | ENet; the game thread polls |
| `NetworkSession`, `NetworkPlayerManager`, `Network` | activity timers, index-to-ID map, player list, reconnect state | HostGame, ConnectTo, Disconnect, Update, connect/disconnect callbacks | the driver; `NetworkSystem` |
| `NetworkSystem`, host | avatars and IDs by client index, deferred messages, role of the installed callback | PollNetwork, SyncPeerAvatars, Resync, packet handlers, Reset | `Network`, the scene |
| `NetworkSystem`, client | IDs of replicated entities, spawns kept for later, last state per avatar, pending SceneLoaded | PollNetwork, spawn, destroy, state and scene-change handlers, Reset | `Network`, the scene, `RuntimeLayer` |
| `AssetManager` | cache, asset states, pending queue, loading counter | LoadAsset, load task, hot reload, finalize, retry, invalidate, Shutdown | the pool, the runtime's loading screen, the editor's scene task |
| `RuntimeLayer` | loading, running | TickSceneLoading, TickRunning | the asset manager, `Network`, `PollNetwork` |
| `EditorSceneManager`, `EditorLayer` | edited and runtime scene, the transition with its future, the unsaved-changes mark and popup, the scene a script asked for | New, Open, Save, Play, Simulate, Stop, confirm and cancel, the steps of a transition | the pool, the scene, the asset manager |
| Physics: `Scene`'s start-up, `PhysicsBodySystem`, `JoltPhysicsWorld` | two shape caches that outlive world and scene, the bakes in flight, the bodies still to create, the retried models | ResetWorld, BatchInitializeBodies, QueuePrebuildShape and its task, BuildShape, IsStartupComplete | the pool, the asset manager, the owner of the scene |
| Undo, serializers, ECS, UI, graphics, audio, scripting, NAT traversal | sequential data, or input and output | | |

What is hard: notifications sent after an unlock; sub-tasks joined inside the
pool; client indices that are reused while commands and events that name them
are still queued; tables of the game thread that lag behind the network thread;
two stores that should be one; messages that reach a scene they were not sent for,
or no scene at all; retries that race with the user; a load that is
in neither of two places when both are looked at; a cache that is asked twice
while a task fills it; a physics world that goes while tasks hold its address; a
user who changes his mind in the middle of a transition; stopping while work is
in flight. `PROJECT.json` lists these hazards line by line.

What makes each part correct:

- the pool runs every accepted task once and in order, `WaitIdle` is a barrier,
  and `Stop` drains;
- network IDs are never shared or used twice in a session, every client comes to
  know its ID and as much of the player list as a message holds, and silent clients go;
- each connected player has one avatar, registered under its ID, and removals are
  announced;
- a client ends up in the host's scene with each of the host's avatars once and no
  others, and keeps the newest state of each;
- a client takes a link for live only while it is, and reconnects exactly when
  it should;
- an asset is loaded by one thread at a time and always settles, and no load
  outlives the manager;
- no shape bake outlives its world, a mesh becomes a box only when its model has
  been used for both kinds of body, and a scene that starts comes to run;
- transitions end, and whatever the user asks for, the runtime scene runs or is
  about to, so that the auto-save never writes it over the edited scene's file.

## Modules

| Module | Models |
|---|---|
| `TaskPool` | what the pool promises: a log, starts in order, finishes, closing and draining |
| `ThreadPool` | `thread_pool.h`, one action per critical section on `m_QueueMutex`; each `notify_one`, `notify_all` and `join` after it is an action of its own |
| `Roster` | what the host promises about network IDs |
| `PeerSession` | the host: network thread, both queues, `NetworkSession::Update`, `NetworkPlayerManager`, the callbacks of `Network`, HostGame and Disconnect |
| `HostReplication` | extends `PeerSession` with the host half of `NetworkSystem` and the scene's start and stop |
| `ClientReplica` | the client half of `NetworkSystem` and the runtime's scene changes, with a host that sends what `HostReplication`'s does |
| `ClientLink` | the client: the network thread's handling of the server connection, `NetworkSession::Update`, the reconnect logic, user calls between frames |
| `AssetLoading` | `AssetManager` with the pool reduced to what `TaskPool` promises, and the runtime's wait for background work |
| `SceneStartup` | the start of a scene's physics: `ResetWorld`, `PhysicsBodySystem`, the caches and bakes of `JoltPhysicsWorld` |
| `Editor` | extends `SceneStartup` with `EditorSceneManager`, the frame of `EditorLayer`, and the user |
| `SequenceLemmas` | lemmas about sequences, lists of a set and induction that the proofs share |
| `...Proofs` | the theorems about `ThreadPool`, `PeerSession`, `HostReplication`, `ClientReplica`, `ClientLink`, `AssetLoading` and `Editor` |
| `MC...` | small instances for TLC |

A definition whose name is that of another with a suffix (`Push_NoNotify`,
`Take_NoPop`) and whose comment starts with "Slip:" is a plausible mistake in
the code of the definition after it. No specification uses it; substituted for
the original it violates the property it is kept for, which shows that the
property can fail.

### How state and actions correspond to the code

`ThreadPool`. `pc` is where a thread is; `held` is a worker's local `task`.
`Push` is the locked part of `Enqueue` and `QueueTask` (which have the same
control), `NotifyOne` what follows it. The wait of a worker is `Sleep` (release
the lock and block), a notification or `SpuriousWakeup`, and then `Take` or
`Exit` under the lock. A body that has sub-tasks takes `SubmitChild` for each and
`FinishBody` when their futures are ready, as `AssimpImporter::ProcessMeshes`
and the animation sampler do; `AbortBody` is the exception `Enqueue` throws on a
stopped pool, which ends the body of the importer with sub-tasks still queued.
`Retire` is the locked part after the body with its `notify_all`.

`PeerSession`. The network thread is `Drain`, `TransmitSession` (a command),
`Connect`, `Lose` and `Receive` (ENet events). It carries out everything it has
drained before it services an event. A frame is `Poll`, one handler per event of
the swapped batch, `Age` and `Expire`. `told` and `seen` are what a client has
received, and exist to state the properties.

`HostReplication`. `stage` and `cursor` are where `PollNetwork` is: deferred
messages, the joining pass, the leaving pass, `Network::Update`. Between any two
visits of an index the network thread may change `m_PeerMap`. The variable
`entities` holds the network IDs carried by avatars in the scene.

`ClientReplica`. The host is reduced to what one client is sent: it adds and
removes avatars one at a time, answers SceneLoaded, or keeps it until its scene
matches, and changes scenes in the three steps of a script's LoadScene, the stop
of the old scene in the next frame, and the first poll of the new one. A client's
frame is one of `LoadScene` (a change that was asked for), `UpdateLoading` or
`FinishLoading` (a scene that loads), `AdoptScene` or `PollScene` (PollNetwork in a
new or a known scene); then any number of handlers; then `EndUpdate`, which ends
with `CheckAndPropagateSceneChange`. `replica` counts the entities that carry an
ID and `index` is the lookup table, which the code keeps apart. `local` is the ID
the client was assigned and `owned` the IDs of the entities with `IsOwner` set;
`HandleAssign`, `HandleSpawn` and `OwnLocal` (`EnsureLocalIdentity`) set them. The
client begins in a running scene, or in one it loads after a first poll as a client
(so the packet callback is there); `InitMessages` says
what it may find: what was queued for the previous holder of its index, from any
message on, and then its own PlayerAssign. `era` and `unheard` are history: the number of the host's scenes, and the avatars whose
removal the client was not told of.

`ClientLink`. The three steps of a lost connection (`DropFully`, `DropRole`,
`DropReport`) are separate because the game thread reads without a lock. A frame
is `StartFrame` (with the early return of `PollNetwork`), `SessionUpdate` (which
tests `IsConnected`: what the last connection left in the inbound queue stays there
until the next one is confirmed), `PollEvents`, `DetectLoss`, and `KeepWaiting` or
`Attempt`. The link may go between the test and the poll.

`AssetLoading`. `Insert` is the part of `LoadAsset` under the lock and
`StartLoad` or `LoadInPlace` what follows it. The load task is `Succeed` then
`Push`, or `Fail`; then `Leave`, which decrements the counter. A frame of the
main thread is hot reload, finalization, resolution (during which it loads,
retries and invalidates), and, while a scene waits, the two reads of
`HasBackgroundWork`. `MayLoad` says where a thread may ask for an asset: besides
resolution and the scene task, `OnLoaded` of a model asks for its textures, in a
finalization (`finalizing`) and in a hot reload (`LoadAgain`, `uploading`).

`SceneStartup`. `at` is where the main thread is in
`Scene::InitializePhysicsStartup`, and each lock of `m_CacheMutex` is a step. The
first frame of a start is `BeginReset`, `CopyHulls`, `Close` and `Join`:
`ResetWorld` copies the two caches, and `~JoltPhysicsWorld` raises
`m_IsShuttingDown` and waits for its bakes. Then, in this frame and in each that
follows, the bodies without handle are visited in view order (`Visit`, `ReadBaking`,
`ReadCache`, `Queue`: the cache is asked up to three times for one body), those
with a description are created (`CreateBody`), and `Check` is
`IsStartupComplete`. A bake is `BeginBake`, `StoreShape`, `EndBake`. `descs` says
whether a body's triangles were extracted, on which `BuildShape` depends. `level` is
the scene that is played: which entities have a mesh collider, of which model, and
whether their body is static or moving. It is chosen anew from `Levels` for each start,
while the caches go on from one world to the next. `used` is history: the models played
so far, each with the kinds of body that had it. A collider without model path
(`NoModel`) is never visited and never made.

`Editor`. `turn` is where the main thread is in a frame: `input` between two frames,
then the request of a script (`OpenRequested`, `EnsurePlay`), `Manage`
(`EditorSceneManager::OnUpdate`), and the update of the active scene if no
transition is under way. `runtime` is the state of the runtime scene; the scene
that is active is that one if it exists, else the edited one. `CancelTransition`
is the code's, with the runtime scene it drops when the cancelled transition was
one to play. The user acts in `input`, through the menu, the toolbar, the popup or the
keyboard, each where the code offers it (`MenuOpen`, `Reachable`). `NewProject` calls
`SetScene` without asking for unsaved changes. `EditBody` is the inspector: it changes
the model or the kind of a body of the starting scene; edits of the scene that is not
played are in the choice of the next `level`. `HasBackgroundWork` is two reads, the queue
and then the counter, so it may answer either way while a model loads.

### Abstractions

- Time is counted in ticks: a frame adds 0 or 1 to the timers it advances.
- A connection is a number and connects once; a client that comes back is another
  connection. Messages are kept only as far as properties read them: heartbeats,
  chat, names, pings, RTTs and WorldState are left out.
- A frame starts when the network thread is at most `MaxBacklog` commands behind.
  The bound keeps queues finite; commands still pile up within a frame, and
  events still overtake them.
- `HostReplication` assumes a gameplay scene with a valid player prefab, and
  clients that load the host's scene. The host's own avatar is always there.
  The two passes over all indices take the place of loops over hash maps.
- `ClientReplica` leaves out interpolation and input, and has a host that gives each
  client an avatar of its own; that the host may hand on its predecessor's (see
  below) is in `HostReplication`, which in turn leaves out the SceneChange that a new
  client is sent. The client stays connected, and each scene loads. Reliable messages of a
  channel arrive in order, as ENet delivers them; each WorldState may be lost, and
  only those of `Moving` are followed. With `MaxBacklog` 0 the host sends the next
  reliable messages when the last batch has been handled; a batch (the answer to
  a SceneLoaded) may still be handled in several frames and in two scenes.
- `AssetLoading` assumes that the pool exists, which
  `Application::RegisterCoreServices` ensures. The finalization passes of one
  frame are merged, and a path stands for its handle. During shutdown an upload
  requests no textures: `Application::~Application` has unset the project, and
  `ModelAsset::OnLoaded` needs it. A reload may end in either state, whatever
  its loader is.
- `SceneStartup` covers bodies with a mesh collider; those with primitive shapes
  need no bake. The pool is not stopped while the main thread updates scenes, so
  the synchronous bake without a pool is left out, and a bake is a process of its
  own that takes no worker away. A model is loaded once, or again on a retry: hot
  reload is `AssetLoading`'s. `BuildShape` on the main thread is one step.
  Kinematic and dynamic bodies are both moving: they share the cache of hulls. The
  order in which they are created is left open among themselves. The inspector edits a
  body only while it has no handle, and leaves AutoCalculate as it is: an edit of a body
  with a handle does not change its shape. Entities that the user adds to a scene while
  it starts, or deletes from it, are left out.
- `Editor` leaves out paths, the contents of files, the undo history and the
  auto-save timer. A simulated scene starts up like a played one. A failed job is
  one that gave no scene.

## Runs

| Run | Question | Bounds |
|---|---|---|
| `ThreadPool` | do the promises hold in every interleaving, and does everything finish when a worker is to spare? | 2 workers, 2 callers, an import with 2 sub-tasks and a plain task; enough that one worker waits for sub-tasks while Stop and WaitIdle are called and the other one sleeps, works or leaves |
| `ThreadPool_starved` (violation) | and with no worker to spare? | 2 workers, 2 imports with a sub-task each |
| `PeerSession_safety` | do IDs and tables stay right when indices are reused? | 3 connections on 2 indices, 2 sessions, 1 refused HostGame, time-out 2 ticks (3.8 million states); a list message holds 2 entries where there may be 3 players, so that it is truncated |
| `HostReplication` | do avatars, registrations and entities agree, do the avatars of leavers go, do clients become players, and do ghosts expire? | 2 connections on 2 indices, either of which may be reused; one index sends inputs, the other SceneLoaded; time-out 2 ticks, 1 session (268,000 states) |
| `HostReplication_avatar` (violation) | does each client get an avatar of its own? | 2 connections on 1 index |
| `ClientReplica` | does the client end up with the host's scene and its avatars, and owns its own? | 2 scenes, 2 changes, one other client that joins and leaves or had this one's index before, 1 tick a scene (881,000 states) |
| `ClientReplica_frozen` (violation) | does the client only drop older states? | 1 scene that is restarted, 2 ticks |
| `ClientLink` | is a lost link ever taken for a live one, or a live one broken, or a detected loss forgotten? | 6 calls, both application modes, 3 attempts |
| `ClientLink_running` (violation) | is a loss retried in a running scene? | 1 call |
| `AssetLoading` | one owner per load; every load settles; shutdown waits | 2 paths, 2 objects, 2 workers, scene task |
| `AssetLoading_ready` (violation) | does "ready" mean ready? | 1 path, 2 objects, main thread only |
| `Editor` | do bakes stay with their world, do meshes get their shapes, does the runtime scene run, and do transitions and starts settle? | 2 entities and 3 scenes: a static and a moving body of one model; the former as a moving body, alone; a static body of another model beside a collider without one. 1 retry; the user unbounded (955,000 states) |

The bounds are chosen so that each interaction a property is about fits in:
two holders in turn for an index, a caller on each side of a notification, a
worker that waits next to one that works, a user call on either side of each
step of a lost link, two bodies that compete for a model's caches, and a scene that
finds in the caches what an earlier one put there for another kind of body. What they
leave out is width (a third index, a third worker, another
body), and the proofs cover that for the safety properties they are about.

No run uses symmetry. Deadlock is checked in `ClientLink`, `ClientReplica` and
`ThreadPool` and not where the instance stops by itself: a session that is over
and may not be opened again, used-up connections or objects, a client that is
offline in a running scene, a manager that is closed. `Editor` has it off too,
although a user who does nothing stops nothing: there the progress of a frame is
what `StartsSettle` is about. `ThreadPool_starved` turns it off because the state
it looks for is one in which everybody waits.

What each property means is written above it. Those that took most care:

- `NoLostWakeup`: a counting argument. While the pool is open there is an awake
  worker or a notification under way for every queued task, unless no worker
  sleeps. It is inductive only together with where each thread is.
- `CallsReturn`: `WaitIdle` and `Stop` return, with the notifications as the
  code sends them.
- `Converged`: whatever was kicked, reassigned or delayed, once the queues are
  empty each connected client knows its own ID and has the host's list, or the first
  64 entries of it (`Listed`; `network_transport.cpp:191`). It holds
  because the events of an index are handled in order and each answer follows
  the answers to its predecessors.
- `ClientsBecomePlayers`, `GhostsExpire`: checked in `HostReplication`, where the
  frame of the host is the whole one. A kick can hit a client that took the index
  over. ENet then reports nothing, and the player that remains is removed by its
  own time-out.
- `AvatarsRegistered`: that no two indices share an avatar is claimed for the first
  session only. A later one in the same running scene breaks it, see below.
- `ReplicaMatches`: what the client's scene holds is compared with
  the host's only when nothing is under way; the state in between is full of
  spawns for the wrong scene, answers that come twice, and tables that one side
  has dropped.
- `OwnsItsAvatar`: every assignment is followed by another one after the next scene,
  and the spawn may come before or after it, so both handlers and the poll set the
  owner. The exemption is needed: see the ghost below.
- `OwnedOnce`: counts the threads, tasks and queue entries that will still set
  the state of an object.
- `BakesAreOwned`: the destructor of a world waits for an empty
  `m_InFlightMeshBakes`. That is a wait for its own tasks, and for all of them, only
  if each entry has exactly one task that will take it out.
- `BoxOnlyIfBothKinds`: the decision to extract triangles, the decision to bake and
  the creation of the body read the caches at different times, a bake may end between
  any two, and what the caches hold may come from scenes that are gone. All the same a
  mesh loses its shape only if its model has at some time been played with bodies of the
  other kind.
- `StartsSettle`: exempts a start that the user cuts off with another transition, and
  the bodies that cannot get a shape (`Hopeless`): a mesh collider without model path, a
  model without surface, and one that failed and has no retry left.

### What the violations show

Each is listed under `findings` with the line that says otherwise.

1. A model import waits on the pool for its own sub-tasks. When all workers do,
   nothing moves (`ThreadPool_starved`).
2. A client that takes over an index between two passes of `SyncPeerAvatars`
   inherits its predecessor's avatar (`HostReplication_avatar`).
3. When the host restarts its map, a client on that map keeps it, and with it the
   ticks it has seen. The host counts from 0 again, so the client drops what it is
   sent until the ticks have caught up, and the avatars stand still
   (`ClientReplica_frozen`).
4. In a running scene nobody retries a lost connection (`ClientLink_running`).
5. `HasBackgroundWork` can miss an asset that is between its two reads
   (`AssetLoading_ready`).

Other behaviour the models contain, that a reader of the code may not expect
and that no run is devoted to. The network:

- A refused `HostGame` clears the activity timers of the connected players
  (`network_session.cpp:49`), so a silent one is not timed out
  (`HostGameRefused`).
- The EntitySpawn messages for existing clients are addressed by index
  (`network_system.cpp:1219`) and can reach a client that has just taken the index
  over before its PlayerAssign (`Introduce`), as can its predecessor's
  assignment. `ProcessPlayerAssignMessage` (`network_system.cpp:356`) sets the new
  owner and does not unset the old one: a client that connects while its scene
  loads, and is sent its predecessor's assignment, spawn and removal, ignores the
  removal, makes the avatar, owns it, and keeps it as a ghost beside its own
  (`InitMessages`, `HandleAssign`).
- A client that takes an index over before `SyncPeerAvatars` has visited it, and
  reports its scene, is told its predecessor's ID again: `ResyncClientEntities` looks in
  `m_PeerToNetworkID` first (`network_system.cpp:980`, `KnownID`).
- `Network::Disconnect` clears the packet callback (`network_service.cpp:245`) and
  `InstallPacketCallback` goes by a cached role (`network_system.cpp:1305`), so
  after Disconnect and HostGame in one scene no packet has a handler (`installed`
  in `HostReplication`).
- Nor does Disconnect touch `NetworkSystem`'s tables: `PollNetwork` returns while
  the role is Offline (`network_system.cpp:1596`). IDs start at 2 again in the next
  session (`NetworkPlayerManager::Reset`), so after Disconnect and HostGame in one
  scene an avatar of the last session and one of the new can carry the same ID
  (`AvatarsRegistered`).
- An automatic attempt calls `ConnectTo`, which resets the number of attempts
  (`network_service.cpp:213`), and `m_ReconnectPending` is cleared before
  (`network_service.cpp:312`): when it fails there is no second one (`Attempt`).
- An EntityDestroy that arrives while the client loads is dropped, and the spawn
  kept for later is carried out (`network_system.cpp:314`): the avatar stays
  until the next scene (`HandleDestroy`, `unheard`). The same goes for the
  avatars of a host that restarts the map the client is on.
- `Network::HostGame` does not clear a pending reconnect, so a host can be waiting
  to reconnect as a client (`network_service.cpp:93`); `LiveLinkSurvives` shows that
  the attempt is refused while the session is up.

The pool and the start of a scene:

- `Enqueue` throws on a stopped pool, and the sub-tasks that an import had queued
  by then outlive it (`AbortBody`).
- A static and a moving body that share a model: the second one finds the model
  cached, is described without triangles, and does not find it in its own cache. It
  becomes a unit box (`jolt_physics_world.cpp:747`, `CreateBody`). The two need not meet
  in one scene. The caches are carried over (`physics.cpp:62`), so a model that was
  static in the last level, or a body whose type was edited between two plays, has the
  same effect.
- A model that failed, or has no surface, or a mesh collider without model path
  (`physics_body_system.cpp:158`), leaves its body without shape and the
  scene starting for ever (`Hopeless`). `RuntimeLayer` runs it after a time-out
  (`runtime_layer.cpp:213`) with `m_IsStartingUp` still set, so scripts and
  `PollNetwork` are not called.
- The set of retried bodies is compared with a limit that is named per frame
  but never cleared: a scene has 16 retries in its life (`MayRetry`).
- A bake that ends between the copies of the caches and the end of the old world
  is lost and done again (`physics.cpp:66`, `Join`). Nothing calls
  `ClearShapeCache`, so a model reloaded from disk keeps its old shape.

The editor:

- File > New Project replaces the edited scene without asking whether to save it
  (`editor_menu.cpp:49`, `NewProject`).
- Only the material panel marks a scene as changed (`MarkSceneDirty`), so other
  changes are lost without a question.
- Confirming "open" during a transition clears the mark and opens nothing
  (`editor/scene_manager.cpp:548`, `ConfirmPendingAction`).
- When a script asks for a scene and the user stops playing before the next frame,
  the scene is opened for editing; if there are unsaved changes it waits for the popup,
  and playing starts again (`editor/layer.cpp:381`, `OpenRequested`, `EnsurePlay`).
- While simulating, `NewScene` and `OpenScene` replace the edited scene and the
  runtime scene goes on; a load that fails in play mode ends playing
  (`CancelTransition`).
- Save writes the active scene; from the menu or the popup this is the runtime scene
  while playing (`editor_menu.cpp:78` and `:327`), and the shortcut is off in Play
  mode but not in Simulate mode (`editor/layer.cpp:618`).

## Fairness

- `ThreadPool`: each thread goes on when it can; callers need not call anything.
- `HostReplication`: the network thread and the game thread go on (`PollStep` or
  `UpdateStep`, one of which is what a frame does next), and the frames' time adds
  up (strong fairness of a whole tick). Clients and ENet owe nothing. Frames go on
  only while the window is not minimised: `application.cpp:201` skips the layers
  otherwise. `PeerSession_safety` checks no liveness and states no fairness.
- `ClientReplica`: the frames of both sides go on, reliable messages arrive (a
  handler that is possible in frame after frame takes place), and scenes finish
  loading, which `kLoadingTimeoutSec` and `kStartupTimeoutSec` ensure. Joining,
  leaving, scene changes and WorldState are not fair.
- `ClientLink`: in addition an attempt is confirmed or ended, by ENet's own
  time-out. User calls are not fair.
- `AssetLoading`: the pool runs first in, first out, so a load that is enabled
  again and again is run (strong fairness); a caller finishes `LoadAsset`; frames
  go on. Hot reload, retry and shutdown are not fair, with the exception that a
  shutdown that has begun goes on.
- `Editor`: frames go on; bakes, loads of models and scene jobs that have been
  queued are run and end, as the pool promises. The user is not fair and may act
  between any two frames for ever.

## Proofs

Each theorem holds for every value of the constants that meets the named
assumption of its module. The safety properties are not inductive as they stand; each
proof module begins with the invariant that is, in named parts, and shows
that every action keeps it.

| Module | Theorem | Property |
|---|---|---|
| `ThreadPoolProofs` | `TypeCorrect` | `TypeOK` |
| | `TasksRunOnce` | `ExactlyOnce` |
| | `CountIsExact` | `ActiveCountsBusy` (no run of its own) |
| | `StopDrains` | `JoinDrains` |
| | `WaitIdleBarrier` | `WaitIdleIsBarrier` |
| | `WakeupsArriveNoLater` | `NoLostWakeup` |
| | `Refinement` | `ImplementsTaskPool` |
| `PeerSessionProofs` | `TypeCorrect` | `TypeOK` |
| | `TablesAlwaysAgree` | `TablesAgree` |
| | `IDsAreNotShared` | `NoSharedID` |
| | `RosterImplemented` | `ImplementsRoster` |
| | `AlwaysConverges` | `Converged` |
| `HostReplicationProofs` | `TypesKept` | `RTypeOK` |
| | `AvatarsStayRegistered` | `AvatarsRegistered` |
| | `RemovalAnnounced` | `RemovalIsAnnounced` |
| | `TablesStillAgree` | `TablesAgree`, of the whole host |
| | `IDsStillNotShared` | `NoSharedID`, of the whole host in its first session |
| | `RosterStillImplemented` | `ImplementsRoster`, by the whole host |
| `ClientReplicaProofs` | `TypeCorrect` | `TypeOK` |
| | `EachOnce` | `OneCopyEach` |
| | `MatchInvariance` | `MatchInv` (the inductive invariant, no run of its own) |
| | `Matches` | `ReplicaMatches` |
| | `OwnsOne` | `OwnsItsAvatar` |
| `ClientLinkProofs` | `TypesKept` | `TypeOK` |
| | `ConnectedIsUp` | `ConnectedMeansUp` |
| | `DisconnectLasts` | `StaysDisconnected` |
| | `LiveLinkIsLeft` | `LiveLinkSurvives` |
| `AssetLoadingProofs` | `TypeCorrect` | `TypeOK` |
| | `EachLoadOwned` | `OwnedOnce` |
| | `IdleIsSettled` | `IdleMeansSettled` |
| | `NothingOutlivesShutdown` | `ShutdownOutlivesTasks` |
| `EditorProofs` | `TypeCorrect` | `TypeOK` |
| | `BakesOwned` | `BakesAreOwned` |
| | `BoxNeedsBothKinds` | `BoxOnlyIfBothKinds` |
| | `RuntimeAlwaysRuns` | `RuntimeRuns` |

`ThreadPool` (`PoolAssumption`: finite, disjoint sets of threads; at least one
worker; sub-tasks are not roots; `NoTask` is no task). The
barrier of `WaitIdle` needs the counter to be the number of busy workers and
every taken task to be finished or held; draining needs that a worker has left
its loop only when the pool was stopped and the queue empty, and that none is
left when the workers are joined. `IInv` adds these parts by name (`PcHeld`,
`ExitedWhenDrained`, `BodyState`, `JoinedAfterExit`). What many actions share is
stated once (`Moves`). `NoLostWakeup` gets its own induction on top, with lemmas
about the cardinality of a set one member of which moves. The refinement maps
every action to one of `TaskPool` or to a stutter.

`PeerSession` (`SessionAssumption`: finitely many numbered connections, at least one
index, a positive time-out). `SessionInv` says that the two tables and the list agree
(`RosterOK`, `ListMatches`), that each connection holds one index
(`PeersDistinct`), that an ID belongs to one index, also while its assignment is
under way (`OneHolder`: an assignment that reaches the wrong client makes no second
holder), and that nothing is left offline (`OfflineEmpty`). From it follow types,
agreement, uniqueness and the refinement of `Roster`. `Converged` needs
`ConvergeInv` as well: the arrival of a connected client is still to be handled
(`WillJoin`), or it is about to be kicked (`WillBeKicked`), or its ID and the list
have been sent and nothing behind them in the queues undoes that (`Settled`). The
theorem holds for any number of indices and any length of the message (`MaxListed`, 64
in the code): it claims the part of the list that is sent.

The agreement of the tables and the refinement follow from less, `RosterInv`, and
from every step being one of four moves or none (`RosterMove`): a player comes or
goes, a session begins or ends.

`HostReplication` (the same and `ReplicationAssumption`). `RegistryInv`: an ID is
known of one index only and has been handed out before (`KnownOnce`), entities
are those of the avatars, and an avatar is registered under its own ID.
`QueuesTypeOK` adds the queues: what an answer is composed of are commands, and the
scene has finitely many entities, which `SetToSeq` can list. That gives the types, and
that a removal is announced under the ID of the entity. `NetworkSystem` makes no
`RosterMove` of its own, so the theorems of `PeerSession` about the tables and
`Roster` hold of the whole host. `NoSharedID` needs a proof of its own, because
here a client is told its ID in three places: `ClaimInv` says that what an index is
known by, what is under way to it and what its client was told make one claim
(`OneClaim`), and what `NetworkSystem` sends is `Backed` by its tables. It is claimed
of the first session: in a later one in the same scene IDs begin again beside
tables of the last. `Converged` is the one property of `PeerSession` that does not
carry over: a client that takes over an index before the index was reaped is told its
predecessor's ID by `ResyncClientEntities`, which asks `m_PeerToNetworkID` first
(`KnownID`); TLC finds it with 2 connections on 1 index.

`ClientReplica` (`ReplicaAssumption`). `ReplicaInv`: besides the types, once
`PollNetwork` has adopted the scene the lookup table has the entities, each once, and
before that the scene has none (`Copies`); and a host that leaves its scene knows where
to (`Leaving`). `ReplicaMatches` and `OwnsItsAvatar` speak of the states in which nothing
is under way; what makes them true there has to be said of all the others. `MatchInv`
does, in terms of a message of some kind being in the channel (`Has`) and of one being
there with nothing behind it that undoes it (`Final`):

- `SameScene`: the last SceneChange under way, or else the scene the client is in or
  going to, is where the host goes;
- `AllProvided`: once no resynchronisation is owed (`Owed`), each avatar of the host has
  a spawn under way that no removal follows, or the client has it and no removal is under
  way;
- `GhostsKnown`: what the client has or will have of an entity that the host has not
  is still to be removed, or is in `unheard`;
- `KnowsItself`, `OwnersKnown`: the client's own assignment comes last, and whoever
  else it takes itself for is gone for good;
- `FrameOrder`: what the steps of a client's frame leave for each other.

`ReplicaMatches` by itself says nothing about a client that loads, so it is far from
inductive. All steps of the host are one lemma: `Talk` says what a
step adds to the channel and what it keeps (`TalkKeeps`), and each action is shown to be
such a step; the client has a lemma for each of its actions.

`ClientLink` (`LinkAssumption`). `LinkInv`: what the three steps of a lost connection
leave of role, flag and link (`DriverInv`), and that what may make the game connect by
itself goes back to a request of the user that still stands (`RequestStands`). The types
need that the delay before an attempt grows with the attempts (`BackoffGrows`).

`AssetLoading` (`AssetAssumption`: finite sets, at least one worker, the main thread is
not the task). `AssetInv`: an object is Loading exactly if it is in one of four
places, and it is there once (`Apart`, `Once`, `Everywhere`); `m_LoadingCount` is the
number of tasks between their start and their end (`Counted`); the cache holds each
object for one path; and where the main thread is (`MainOK`, `StoppedOK`).

`Editor` (`LevelAssumption`: a scene gives some of the entities, which are finitely many
and numbered, a model or none and a kind; `ConfirmAssumption`). `StartupInv`: what a
cache holds or a bake will put there was played with bodies of its kind, in this scene or
another (`CachesExplained`, `BakesExplained`), as were the bodies of a scene that starts,
also after an edit (`SceneUsed`); a body is described only when one of the caches has
its model, and between frames no description is left, for an edit to make wrong
(`DescsCached`, `DescsPlaced`). `ManagerInv`: a runtime scene that does not run yet has a
transition that will start it (`RuntimeAwaited`), and the frame is in the middle of a
start only while it updates the scene (`TurnTaken`).

The reconnect delay and `FlattenSeq` are defined by recursion. The library's induction
theorems take an operator as a parameter, which the provers cannot instantiate;
`SetInduction` (in `SequenceLemmas`) is induction stated for a set of numbers, from
well-foundedness, and what was needed of both follows from it: the equation of the
delay (`BackoffEquation`) and that flattened sequences of commands are one of commands
(`Flattened`).

TLC has checked these invariants on the instances of the runs before they were
proved. Every safety property of a passing run, and both refinements, are proved. Only
model-checked is liveness, which rests on fairness and ENABLED and is out of the
prover's reach: `EveryFutureReady`, `CallsReturn`, `AvatarsAreRemoved`,
`ClientsBecomePlayers`, `GhostsExpire`, `FollowsHost`, `LossIsRetried`, `LoadsSettle`
and `StartsSettle`.

## Not modelled

The driver's sockets, NAT traversal and the undo history are planned. Interpolation and input
smoothing are arithmetic on positions. The simulation of bodies belongs to Jolt.
`AsyncSceneLoader`, `AssetManager::Unload` and `UnloadUnused` have no callers in
production code. Serializers, ECS, rendering, UI, audio and platform code are
sequential or input and output. The error string of an asset, which a worker
writes while the main thread may read it, is left out: no control depends on it.
`AssetManager::Reload<T>` (`asset_manager.h:168`) reloads whatever the cache has,
Loading or not. Its only caller, `ShaderStorage::ReloadAll`, reloads shaders, whose
loader is not asynchronous, so none is Loading when it is called: it is the step of a hot reload
(`BeginReload`). Most of the repository's lines are third-party libraries
(`thirdparty/`), of which the models keep what the code relies on.

## Plan

1. An abstract "replica follows host" that `ClientReplica` implements.
2. `SceneStartup` composed with `RuntimeLayer`'s loading screen, with the time-out
   that runs a scene still starting.
3. The driver's lifecycle (hosts, sockets, stale events), hole punching, and the
   undo history as an algorithm with a reference definition.
4. What of `Converged` holds under replication (every connected client is a player and
   has the host's list), and its proof.
