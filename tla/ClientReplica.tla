---------------------------- MODULE ClientReplica -----------------------------
(***************************************************************************)
(* A client's copy of the host's scene: which avatars the client's scene   *)
(* contains, which of them is its own, and which WorldState it has for     *)
(* each of them.                                                           *)
(*                                                                         *)
(* The client is NetworkSystem in the role Client together with the scene  *)
(* changes of RuntimeLayer.  The host is its NetworkSystem again, reduced  *)
(* to what this client is sent: avatars are added and removed one index at *)
(* a time, and a SceneLoaded is answered with all of them, as in           *)
(* HostReplication.  PlayerAssign, EntitySpawn, EntityDestroy and          *)
(* SceneChange share one reliable channel; WorldState has a channel of its *)
(* own, keeps its order and may be lost.                                   *)
(*                                                                         *)
(* All scenes are gameplay scenes that load, the client stays connected    *)
(* and goes where the host goes.                                           *)
(***************************************************************************)
EXTENDS Integers, Sequences, SequencesExt, FiniteSets

CONSTANTS
  Me,          \* this client's network ID
  Others,      \* the network IDs of the other clients
  Scenes,
  FirstScene,  \* the one the client joins in
  NoScene,
  Moving,      \* bound: the IDs whose WorldState is followed
  Window,      \* a tick this far behind the last one is taken for a restart
  MaxTick,     \* bound: the ticks of the host in one scene
  MaxChanges,  \* bound: the scene changes of the host
  MaxBacklog   \* bound: the host goes on when no more messages are under way

HostID == 1
IDs == {HostID, Me} \cup Others

ASSUME ReplicaAssumption ==
  /\ IDs \subseteq Nat \ {0} /\ HostID # Me /\ Others \cap {HostID, Me} = {}
  /\ IsFiniteSet(Others) /\ Moving \subseteq IDs /\ NoScene \notin Scenes
  /\ FirstScene \in Scenes
  /\ {Window, MaxTick, MaxChanges, MaxBacklog} \subseteq Nat

VARIABLES
  hScene, hMode,  \* the host's scene; "running", "leaving" or "loading"
  hNext,          \* the scene the host is changing to
  avatars,        \* the network IDs of the entities of the host's scene
  members,        \* the clients that are connected
  newcomers,      \* the other clients that have yet to connect
  deferred,       \* m_DeferredSceneLoaded for this client
  tick,           \* m_HostTick
  era,            \* how often the host has changed its scene (history)
  down,           \* reliable messages to this client
  sync,           \* WorldState messages to this client
  up,             \* SceneLoaded messages to the host
  scene, mode,    \* the client's scene; "running" or "loading"
  stage,          \* where the client is in a frame
  next,           \* m_PendingScenePath
  change,         \* Network::m_PendingSceneChange
  adopted,        \* m_ReplicationScene is the scene
  replica,        \* how many entities of the client's scene carry an ID
  index,          \* the keys of m_NetworkIDToEntity
  owned,          \* the IDs of the entities with IsOwner set
  local,          \* Network's local ID; m_LocalNetworkID is this one or 0
  buffered,       \* m_PendingEntitySpawns
  states,         \* m_PendingStates: tick and era of the last WorldState
  loadedPending,  \* m_SceneLoadedPending
  unheard         \* IDs whose removal the client is not told of (history)

host == <<hScene, hMode, hNext, avatars, members, newcomers, deferred, tick, era>>
client == <<scene, mode, stage, next, change, adopted, replica, index, owned, local,
            buffered, states, loadedPending>>
vars == <<host, down, sync, up, client, unheard>>

Assign(id) == [cmd |-> "Assign", id |-> id]
Spawn(id) == [cmd |-> "Spawn", id |-> id]
Destroy(id) == [cmd |-> "Destroy", id |-> id]
SceneChange(s) == [cmd |-> "SceneChange", scene |-> s]
Spawns(ids) == [n \in 1..Cardinality(ids) |-> Spawn(SetToSeq(ids)[n])]

NoState == [tick |-> 0, era |-> 0]

\* What SyncPeerAvatars sent to a client p that had the index before and is gone.
Farewell(p) ==
  <<SceneChange(hScene), Assign(p), Spawn(HostID), Spawn(p), Destroy(p)>>

\* Commands name an index: those that were queued when this client connected reach
\* it.  Its own assignment follows them.
InitMessages ==
  \/ newcomers = Others /\ down = <<Assign(Me)>>
  \/ \E p \in Others :
       /\ newcomers = Others \ {p}
       /\ \/ down = <<Assign(p), Assign(Me)>>
          \/ \E n \in 1..5 : down = SubSeq(Farewell(p), n, 5) \o <<Assign(Me)>>

Init ==
  /\ hScene = FirstScene /\ hMode = "running" /\ hNext = NoScene
  /\ avatars = {HostID} /\ members = {Me} /\ InitMessages
  /\ deferred = NoScene /\ tick = 0 /\ era = 1
  /\ sync = <<>> /\ up = <<>>
  /\ scene = hScene /\ mode \in {"running", "loading"} /\ stage = "frame"
  /\ next = NoScene /\ change = NoScene /\ adopted = FALSE
  /\ replica = [id \in IDs |-> 0] /\ index = {} /\ buffered = <<>>
  /\ owned = {} /\ local = 0
  /\ states = [id \in IDs |-> NoState] /\ loadedPending = FALSE
  /\ unheard = {}

-----------------------------------------------------------------------------
(* The host.                                                               *)

MaySend == Len(down) <= MaxBacklog /\ UNCHANGED <<client, sync>>

\* Other clients connect and go.
Join(id) ==
  /\ id \in newcomers
  /\ newcomers' = newcomers \ {id} /\ members' = members \cup {id}
  /\ UNCHANGED <<hScene, hMode, hNext, avatars, deferred, tick, era,
                 down, sync, up, client, unheard>>

Leave(id) ==
  /\ id \in members \cap Others
  /\ members' = members \ {id}
  /\ UNCHANGED <<hScene, hMode, hNext, avatars, newcomers, deferred, tick, era,
                 down, sync, up, client, unheard>>

\* ResyncClientEntities.
Resync == <<Assign(Me)>> \o Spawns(avatars)

\* SyncPeerAvatars: a client without avatar gets one.  It is sent the scene, its ID
\* and everybody's avatar; another client's is sent to those who have one.
AddAvatar(id) ==
  /\ hMode = "running" /\ id \in members \ avatars
  /\ MaySend
  /\ avatars' = avatars \cup {id}
  /\ down' = down \o (CASE id = Me -> <<SceneChange(hScene), Assign(Me)>>
                                        \o Spawns(avatars \cup {Me})
                        [] id # Me /\ Me \in avatars -> <<Spawn(id)>>
                        [] OTHER -> <<>>)
  /\ unheard' = unheard \ {id}
  /\ UNCHANGED <<hScene, hMode, hNext, members, newcomers, deferred, tick, era, up>>

RemoveAvatar(id) ==
  /\ hMode = "running" /\ id \in avatars \ (members \cup {HostID})
  /\ MaySend
  /\ avatars' = avatars \ {id}
  /\ down' = Append(down, Destroy(id))
  /\ UNCHANGED <<hScene, hMode, hNext, members, newcomers, deferred, tick, era,
                 up, unheard>>

\* SceneLoaded is answered with the entities of the scene when the host runs
\* that scene, and kept otherwise.  The host polls before its scripts run, so not
\* between a script's LoadScene and the next frame.
HandleLoaded ==
  /\ up # <<>> /\ hMode # "leaving"
  /\ MaySend
  /\ up' = Tail(up)
  /\ IF hMode = "running" /\ Head(up) = hScene
     THEN down' = down \o Resync /\ UNCHANGED deferred
     ELSE deferred' = Head(up) /\ UNCHANGED down
  /\ UNCHANGED <<hScene, hMode, hNext, avatars, members, newcomers, tick, era, unheard>>

AnswerDeferred ==
  /\ hMode = "running" /\ deferred = hScene
  /\ MaySend
  /\ deferred' = NoScene
  /\ down' = down \o Resync
  /\ UNCHANGED <<hScene, hMode, hNext, avatars, members, newcomers, tick, era,
                 up, unheard>>

\* A script calls BroadcastSceneChange and LoadScene, possibly for the same map.
ChangeScene(s) ==
  /\ hMode = "running" /\ era <= MaxChanges
  /\ MaySend
  /\ hMode' = "leaving" /\ hNext' = s
  /\ down' = Append(down, SceneChange(s))
  /\ UNCHANGED <<hScene, avatars, members, newcomers, deferred, tick, era, up, unheard>>

\* The next frame stops the old scene: NetworkSystem::Reset.
StopScene ==
  /\ hMode = "leaving"
  /\ hMode' = "loading" /\ hScene' = hNext /\ hNext' = NoScene
  /\ avatars' = {} /\ deferred' = NoScene
  /\ tick' = 0 /\ era' = era + 1
  /\ unheard' = unheard \cup avatars
  /\ UNCHANGED <<members, newcomers, down, sync, up, client>>

\* The first PollNetwork of the new scene, with EnsureHostIdentity.
StartScene ==
  /\ hMode = "loading"
  /\ hMode' = "running" /\ avatars' = {HostID}
  /\ unheard' = unheard \ {HostID}
  /\ UNCHANGED <<hScene, hNext, members, newcomers, deferred, tick, era,
                 down, sync, up, client>>

\* BroadcastWorldState: of the messages of a tick at most one arrives.
WorldState(id) ==
  /\ hMode # "loading" /\ tick < MaxTick /\ id \in avatars \cap Moving
  /\ tick' = tick + 1
  /\ \/ UNCHANGED sync
     \/ /\ Len(sync) <= MaxBacklog
        /\ sync' = Append(sync, [id |-> id, tick |-> tick', era |-> era])
  /\ UNCHANGED <<hScene, hMode, hNext, avatars, members, newcomers, deferred, era,
                 down, up, client, unheard>>

-----------------------------------------------------------------------------
(* The client between two calls of Network::Update.                        *)

\* NetworkSystem::Reset; the entities go with the old scene.
Reset ==
  /\ adopted' = FALSE /\ loadedPending' = FALSE /\ change' = NoScene
  /\ replica' = [id \in IDs |-> 0] /\ index' = {} /\ owned' = {}
  /\ buffered' = <<>> /\ states' = [id \in IDs |-> NoState]
  /\ UNCHANGED local

\* RuntimeLayer::LoadScene stops the old scene before it loads the new one.
LoadScene ==
  /\ stage = "frame" /\ next # NoScene
  /\ scene' = next /\ mode' = "loading" /\ next' = NoScene
  /\ Reset
  /\ UNCHANGED <<stage, host, down, sync, up, unheard>>

\* While the scene loads, only Network::Update is called.
UpdateLoading ==
  /\ stage = "frame" /\ next = NoScene /\ mode = "loading"
  /\ stage' = "update"
  /\ UNCHANGED <<scene, mode, next, change, adopted, replica, index, owned, local,
                 buffered, states, loadedPending, host, down, sync, up, unheard>>

FinishLoading ==
  /\ stage = "frame" /\ next = NoScene /\ mode = "loading"
  /\ mode' = "running"
  /\ UNCHANGED <<scene, stage, next, change, adopted, replica, index, owned, local,
                 buffered, states, loadedPending, host, down, sync, up, unheard>>

Spawned(ids) ==
  [id \in IDs |-> IF id \in ids /\ replica[id] = 0 THEN 1 ELSE replica[id]]

\* EnsureLocalIdentity, which PollNetwork calls for the scene as it is then.
OwnLocal == owned' = owned \cup {id \in IDs : id = local /\ replica'[id] > 0}

StartPoll ==
  /\ stage = "frame" /\ next = NoScene /\ mode = "running"
  /\ stage' = "update"
  /\ UNCHANGED <<scene, mode, next, change, local, host, down, sync, unheard>>

\* Slip: the path that was asked for is sent, which LoadScene has emptied.
AdoptScene_Pending ==
  /\ StartPoll /\ ~adopted
  /\ adopted' = TRUE
  /\ replica' = Spawned(ToSet(buffered)) /\ index' = ToSet(buffered)
  /\ OwnLocal
  /\ buffered' = <<>>
  /\ states' = [id \in IDs |-> NoState]
  /\ loadedPending' = FALSE /\ up' = Append(up, next)

\* PollNetwork in a scene it has not seen: the tables start anew, the spawns that
\* came during the load are carried out, and the host is told.
AdoptScene ==
  /\ StartPoll /\ ~adopted
  /\ adopted' = TRUE
  /\ replica' = Spawned(ToSet(buffered)) /\ index' = ToSet(buffered)
  /\ OwnLocal
  /\ buffered' = <<>>
  /\ states' = [id \in IDs |-> NoState]
  /\ loadedPending' = FALSE /\ up' = Append(up, scene)

PollScene ==
  /\ StartPoll /\ adopted
  /\ loadedPending' = FALSE
  /\ up' = IF loadedPending THEN Append(up, scene) ELSE up
  /\ UNCHANGED <<adopted, replica, index, buffered, states>>
  /\ OwnLocal

-----------------------------------------------------------------------------
(* Network::Update: the packet callback.                                   *)

Receive(kind) ==
  /\ stage = "update" /\ down # <<>> /\ Head(down).cmd = kind
  /\ down' = Tail(down)
  /\ UNCHANGED <<scene, mode, stage, next, adopted, loadedPending, host, sync, up>>

\* Slip: the first assignment counts.
HandleAssign_First ==
  /\ Receive("Assign")
  /\ local' = IF local = 0 THEN Head(down).id ELSE local
  /\ owned' = IF adopted /\ replica[local'] > 0 THEN owned \cup {local'} ELSE owned
  /\ UNCHANGED <<change, replica, index, buffered, states, unheard>>

\* ProcessPlayerAssignMessage: an entity that was assigned before stays owned.
HandleAssign ==
  LET id == Head(down).id IN
  /\ Receive("Assign")
  /\ local' = id
  /\ IF adopted /\ replica[id] > 0
     THEN owned' = owned \cup {id} /\ index' = index \cup {id}
     ELSE UNCHANGED <<owned, index>>
  /\ UNCHANGED <<change, replica, buffered, states, unheard>>

\* Slip: the entities are not looked up by their ID first.
HandleSpawn_NoLookup ==
  LET id == Head(down).id IN
  /\ Receive("Spawn")
  /\ IF adopted
     THEN /\ replica' = [replica EXCEPT ![id] = @ + 1]
          /\ index' = index \cup {id} /\ owned' = owned \cup ({local} \cap {id})
          /\ UNCHANGED buffered
     ELSE buffered' = Append(buffered, id) /\ UNCHANGED <<replica, index, owned>>
  /\ UNCHANGED <<local, change, states, unheard>>

\* ProcessEntitySpawnMessage, or the buffer for a scene that still loads.
HandleSpawn ==
  LET id == Head(down).id IN
  /\ Receive("Spawn")
  /\ IF adopted
     THEN /\ replica' = IF id \in index THEN replica ELSE Spawned({id})
          /\ index' = index \cup {id}
          /\ owned' = IF id = local /\ replica'[id] > replica[id]
                      THEN owned \cup {id} ELSE owned
          /\ UNCHANGED buffered
     ELSE buffered' = Append(buffered, id) /\ UNCHANGED <<replica, index, owned>>
  /\ UNCHANGED <<local, change, states, unheard>>

\* Slip: only the lookup table is cleared.
HandleDestroy_IndexOnly ==
  LET id == Head(down).id IN
  /\ Receive("Destroy")
  /\ IF adopted
     THEN /\ index' = index \ {id}
          /\ states' = [states EXCEPT ![id] = NoState]
          /\ UNCHANGED <<replica, owned, unheard>>
     ELSE unheard' = unheard \cup {id} /\ UNCHANGED <<replica, index, owned, states>>
  /\ UNCHANGED <<local, change, buffered>>

\* ProcessEntityDestroyMessage returns at once while there is no scene.
HandleDestroy ==
  LET id == Head(down).id IN
  /\ Receive("Destroy")
  /\ IF adopted
     THEN /\ replica' = [replica EXCEPT ![id] = 0]
          /\ index' = index \ {id} /\ owned' = owned \ {id}
          /\ states' = [states EXCEPT ![id] = NoState]
          /\ UNCHANGED unheard
     ELSE unheard' = unheard \cup {id} /\ UNCHANGED <<replica, index, owned, states>>
  /\ UNCHANGED <<local, change, buffered>>

\* Slip: ignored while a scene loads.
HandleSceneChange_Ready ==
  /\ Receive("SceneChange")
  /\ change' = IF adopted THEN Head(down).scene ELSE change
  /\ UNCHANGED <<replica, index, owned, local, buffered, states, unheard>>

HandleSceneChange ==
  /\ Receive("SceneChange")
  /\ change' = Head(down).scene
  /\ UNCHANGED <<replica, index, owned, local, buffered, states, unheard>>

IsOlder(message) ==
  LET last == states[message.id].tick
  IN message.tick < last /\ last - message.tick < Window

HandleState ==
  LET message == Head(sync) IN
  /\ stage = "update" /\ sync # <<>>
  /\ sync' = Tail(sync)
  /\ states' = IF IsOlder(message) THEN states
               ELSE [states EXCEPT ![message.id] =
                       [tick |-> message.tick, era |-> message.era]]
  /\ UNCHANGED <<scene, mode, stage, next, change, adopted, replica, index, owned,
                 local, buffered, loadedPending, host, down, up, unheard>>

\* Update returns.  In a running scene CheckAndPropagateSceneChange follows; the
\* scene the client is on already is not loaded again.
EndUpdate ==
  /\ stage = "update"
  /\ stage' = "frame"
  /\ IF mode = "running" /\ change # NoScene
     THEN /\ change' = NoScene
          /\ next' = IF change = scene THEN NoScene ELSE change
          /\ loadedPending' = (change = scene)
     ELSE UNCHANGED <<change, next, loadedPending>>
  /\ UNCHANGED <<scene, mode, adopted, replica, index, owned, local, buffered,
                 states, host, down, sync, up, unheard>>

-----------------------------------------------------------------------------
HostStep ==
  \/ \E id \in IDs : AddAvatar(id) \/ RemoveAvatar(id)
  \/ HandleLoaded \/ AnswerDeferred \/ StopScene \/ StartScene

Frame == LoadScene \/ UpdateLoading \/ AdoptScene \/ PollScene \/ EndUpdate

Handle == HandleAssign \/ HandleSpawn \/ HandleDestroy \/ HandleSceneChange

Next ==
  \/ HostStep \/ Frame \/ FinishLoading \/ Handle \/ HandleState
  \/ \E id \in IDs : Join(id) \/ Leave(id) \/ WorldState(id)
  \/ \E s \in Scenes : ChangeScene(s)

Spec == Init /\ [][Next]_vars

\* Frames go on, what is sent reliably arrives, and scenes finish loading.
Fairness ==
  /\ WF_vars(HostStep) /\ WF_vars(Frame)
  /\ SF_vars(Handle) /\ SF_vars(FinishLoading)

FairSpec == Spec /\ Fairness
-----------------------------------------------------------------------------
Commands ==
  [cmd : {"Assign", "Spawn", "Destroy"}, id : IDs] \cup [cmd : {"SceneChange"}, scene : Scenes]

TypeOK ==
  /\ hScene \in Scenes /\ hMode \in {"running", "leaving", "loading"}
  /\ hNext \in Scenes \cup {NoScene} /\ avatars \subseteq IDs
  /\ members \subseteq IDs /\ newcomers \subseteq Others
  /\ deferred \in Scenes \cup {NoScene} /\ tick \in Nat /\ era \in Nat
  /\ down \in Seq(Commands) /\ up \in Seq(Scenes)
  /\ sync \in Seq([id : IDs, tick : Nat, era : Nat])
  /\ scene \in Scenes /\ mode \in {"running", "loading"}
  /\ stage \in {"frame", "update"}
  /\ {next, change} \subseteq Scenes \cup {NoScene} /\ adopted \in BOOLEAN
  /\ replica \in [IDs -> Nat] /\ index \subseteq IDs /\ buffered \in Seq(IDs)
  /\ owned \subseteq IDs /\ local \in IDs \cup {0}
  /\ states \in [IDs -> [tick : Nat, era : Nat]]
  /\ loadedPending \in BOOLEAN /\ unheard \subseteq IDs

\* An avatar that the client is told of twice, by a resync and by the host's pass
\* over its clients, is in the client's scene once, and an EntityDestroy finds it.
OneCopyEach ==
  adopted => \A id \in IDs : replica[id] = IF id \in index THEN 1 ELSE 0

\* Nothing is under way between the host and the client, in one running scene.
Settled ==
  /\ down = <<>> /\ up = <<>> /\ hMode = "running" /\ deferred # hScene
  /\ mode = "running" /\ adopted /\ ~loadedPending
  /\ Me \in avatars /\ scene = hScene /\ {next, change} = {NoScene}

Held == {id \in IDs : replica[id] > 0}

\* Whatever was sent to the old scene, buffered or deferred while either side was
\* loading, the client ends up with every avatar of the host's scene, and with no
\* other one but those whose removal it was not told of: the EntityDestroy came
\* while it was loading, or the host had dropped its tables, and the client did
\* not load the scene anew.
ReplicaMatches == Settled => avatars \subseteq Held /\ Held \subseteq avatars \cup unheard

\* Whoever had the client's index before and whatever was sent to it, the client
\* ends up with its own avatar to control, and controls no other one but those
\* whose removal it was not told of.
OwnsItsAvatar == Settled => Me \in owned /\ owned \subseteq {Me} \cup unheard

\* The client goes where the host goes.
FollowsHost ==
  \A s \in Scenes : hMode = "running" /\ hScene = s
                      ~> scene = s \/ hScene # s \/ hMode # "running"

\* "Drop out-of-order / older state": a WorldState that is dropped was sent before
\* the last one that was taken.
OnlyOlderDropped ==
  [][Len(sync') < Len(sync) /\ UNCHANGED states
       => Head(sync).era <= states[Head(sync).id].era]_vars
=============================================================================
