------------------------- MODULE ClientReplicaProofs --------------------------
(***************************************************************************)
(* Proofs about ClientReplica for every set of clients and scenes, every   *)
(* number of scene changes and ticks, and every backlog of messages.       *)
(***************************************************************************)
EXTENDS ClientReplica, SequenceLemmas

-----------------------------------------------------------------------------
(* Messages.                                                               *)

\* The clients are finitely many.
LEMMA IDsFinite == ReplicaAssumption => IsFiniteSet(IDs)
<1> SUFFICES ASSUME ReplicaAssumption PROVE IsFiniteSet(IDs)
  OBVIOUS
<1>1. IDs = (Others \cup {HostID}) \cup {Me}
  BY DEF IDs
<1>2. IsFiniteSet(Others \cup {HostID})
  BY FS_AddElement DEF ReplicaAssumption
<1>3. QED
  BY <1>1, <1>2, FS_AddElement

\* A resync names entities of the host's scene only.
LEMMA SpawnsType ==
  ASSUME ReplicaAssumption, NEW ids \in SUBSET IDs
  PROVE  Spawns(ids) \in Seq(Commands)
<1> DEFINE n == Cardinality(ids)
<1>1. n \in Nat /\ SetToSeq(ids) \in [1 .. n -> ids]
  BY IDsFinite, FS_Subset, SetListed
<1>2. \A id \in IDs : Spawn(id) \in Commands
  BY DEF Spawn, Commands
<1>3. \A k \in 1 .. n : Spawn(SetToSeq(ids)[k]) \in Commands
  BY <1>1, <1>2
<1>4. Spawns(ids) = [k \in 1 .. n |-> Spawn(SetToSeq(ids)[k])]
  BY DEF Spawns
<1>5. [k \in 1 .. n |-> Spawn(SetToSeq(ids)[k])] \in [1 .. n -> Commands]
  BY <1>3, Zenon
<1>6. QED
  BY <1>1, <1>4, <1>5

\* The messages that the code makes.
LEMMA MessageTypes ==
  /\ \A id \in IDs : {Assign(id), Spawn(id), Destroy(id)} \subseteq Commands
  /\ \A s \in Scenes : SceneChange(s) \in Commands
BY DEF Commands, Assign, Spawn, Destroy, SceneChange

\* Several of them.
LEMMA BatchTypes ==
  ASSUME NEW S, NEW a \in S, NEW b \in S, NEW c \in S, NEW d \in S, NEW e \in S
  PROVE  /\ <<a, b>> \in Seq(S)
         /\ <<a, b, c, d, e>> \in Seq(S) /\ Len(<<a, b, c, d, e>>) = 5
OBVIOUS

LEMMA RestType ==
  ASSUME NEW S, NEW s \in Seq(S), NEW n \in 1 .. Len(s)
  PROVE  SubSeq(s, n, Len(s)) \in Seq(S)
OBVIOUS

\* What they carry.
LEMMA MessageParts ==
  ASSUME NEW m \in Commands
  PROVE  /\ m.cmd \in {"Assign", "Spawn", "Destroy"} => m.id \in IDs
         /\ m.cmd = "SceneChange" => m.scene \in Scenes
BY DEF Commands

LastStates == [tick : Nat, era : Nat]
WorldStates == [id : IDs, tick : Nat, era : Nat]

LEMMA StateTypes ==
  /\ NoState \in LastStates
  /\ \A m \in WorldStates : /\ m.id \in IDs
                            /\ [tick |-> m.tick, era |-> m.era] \in LastStates
BY DEF NoState, LastStates, WorldStates

-----------------------------------------------------------------------------
(* The inductive invariant.                                                *)

\* A host that is leaving its scene knows where to.
Leaving == hMode = "leaving" => hNext \in Scenes

\* In a scene that PollNetwork has adopted the lookup table has the entities, each
\* once; before, the scene has no replicated entity.
Copies == \A id \in IDs : replica[id] = IF adopted /\ id \in index THEN 1 ELSE 0

ReplicaInv == TypeOK /\ Leaving /\ Copies

\* The parts of TypeOK that the host's steps and the client's steps leave alone.
HostTyped ==
  /\ hScene \in Scenes /\ hMode \in {"running", "leaving", "loading"}
  /\ hNext \in Scenes \cup {NoScene} /\ avatars \subseteq IDs
  /\ members \subseteq IDs /\ newcomers \subseteq Others
  /\ deferred \in Scenes \cup {NoScene} /\ tick \in Nat /\ era \in Nat
  /\ Leaving

QueuesTyped ==
  /\ down \in Seq(Commands) /\ up \in Seq(Scenes)
  /\ sync \in Seq(WorldStates)
  /\ unheard \subseteq IDs

FrameTyped ==
  /\ scene \in Scenes /\ mode \in {"running", "loading"}
  /\ stage \in {"frame", "update"}
  /\ next \in Scenes \cup {NoScene} /\ change \in Scenes \cup {NoScene}
  /\ adopted \in BOOLEAN /\ loadedPending \in BOOLEAN

EntitiesTyped ==
  /\ replica \in [IDs -> Nat] /\ index \subseteq IDs /\ buffered \in Seq(IDs)
  /\ owned \subseteq IDs /\ local \in IDs \cup {0}
  /\ states \in [IDs -> LastStates]

ClientTyped == FrameTyped /\ EntitiesTyped /\ Copies

LEMMA Parts == ReplicaInv => HostTyped /\ QueuesTyped /\ ClientTyped
BY DEF ReplicaInv, TypeOK, HostTyped, QueuesTyped, ClientTyped, FrameTyped,
       EntitiesTyped, LastStates, WorldStates

LEMMA Whole == HostTyped' /\ QueuesTyped' /\ ClientTyped' => ReplicaInv'
BY DEF ReplicaInv, TypeOK, HostTyped, QueuesTyped, ClientTyped, FrameTyped,
       EntitiesTyped, LastStates, WorldStates

-----------------------------------------------------------------------------
(* Steps of the host.                                                      *)

LEMMA HostIdle == HostTyped /\ UNCHANGED host => HostTyped'
BY DEF HostTyped, host, Leaving

LEMMA EntitiesIdle ==
  ASSUME EntitiesTyped, Copies,
         UNCHANGED <<adopted, replica, index, owned, local, buffered, states>>
  PROVE  EntitiesTyped' /\ Copies'
BY DEF EntitiesTyped, Copies

LEMMA ClientIdle == ClientTyped /\ UNCHANGED client => ClientTyped'
BY EntitiesIdle DEF ClientTyped, FrameTyped, client

\* Members, avatars and the messages that go with them.
LEMMA AvatarSteps ==
  ASSUME ReplicaAssumption, HostTyped, QueuesTyped, NEW id \in IDs,
         Join(id) \/ Leave(id) \/ AddAvatar(id) \/ RemoveAvatar(id)
  PROVE  HostTyped' /\ QueuesTyped' /\ UNCHANGED client
<1>1. CASE Join(id) \/ Leave(id)
  BY <1>1 DEF Join, Leave, HostTyped, QueuesTyped, Leaving, IDs
<1>2. CASE AddAvatar(id)
  <2>1. HostTyped' /\ UNCHANGED <<client, up, sync>> /\ unheard' \subseteq IDs
    BY <1>2 DEF AddAvatar, MaySend, HostTyped, QueuesTyped, Leaving
  <2>2. /\ <<SceneChange(hScene), Assign(Me)>> \o Spawns(avatars \cup {Me}) \in Seq(Commands)
        /\ <<Spawn(id)>> \in Seq(Commands) /\ <<>> \in Seq(Commands)
    <3>1. avatars \cup {Me} \in SUBSET IDs /\ Me \in IDs /\ hScene \in Scenes
      BY DEF HostTyped, IDs
    <3>2. Spawns(avatars \cup {Me}) \in Seq(Commands)
      BY <3>1, SpawnsType
    <3>3. <<SceneChange(hScene), Assign(Me)>> \in Seq(Commands)
      <4>1. SceneChange(hScene) \in Commands /\ Assign(Me) \in Commands
        BY <3>1, MessageTypes
      <4>2. QED
        BY <4>1, BatchTypes
    <3>4. QED
      BY <3>2, <3>3, MessageTypes
  <2>3. \E s \in Seq(Commands) : down' = down \o s
    BY <1>2, <2>2 DEF AddAvatar
  <2>4. down' \in Seq(Commands)
    BY <2>3 DEF QueuesTyped
  <2>5. QED
    BY <2>1, <2>4 DEF QueuesTyped
<1>3. CASE RemoveAvatar(id)
  <2>1. HostTyped' /\ UNCHANGED <<client, up, sync, unheard>>
    BY <1>3 DEF RemoveAvatar, MaySend, HostTyped, Leaving
  <2>2. down' = Append(down, Destroy(id)) /\ Destroy(id) \in Commands
    BY <1>3, MessageTypes DEF RemoveAvatar
  <2>3. down' \in Seq(Commands)
    BY <2>2 DEF QueuesTyped
  <2>4. QED
    BY <2>1, <2>3 DEF QueuesTyped
<1>4. QED
  BY <1>1, <1>2, <1>3

\* Answers to SceneLoaded.
LEMMA AnswerSteps ==
  ASSUME ReplicaAssumption, HostTyped, QueuesTyped,
         HandleLoaded \/ AnswerDeferred
  PROVE  HostTyped' /\ QueuesTyped' /\ UNCHANGED client
<1>1. Resync \in Seq(Commands)
  <2>1. Spawns(avatars) \in Seq(Commands)
    BY SpawnsType DEF HostTyped
  <2>2. <<Assign(Me)>> \in Seq(Commands)
    BY MessageTypes DEF IDs
  <2>3. QED
    BY <2>1, <2>2 DEF Resync
<1>2. down \o Resync \in Seq(Commands)
  BY <1>1 DEF QueuesTyped
<1>3. CASE HandleLoaded
  <2>1. /\ UNCHANGED <<client, sync, unheard>>
        /\ UNCHANGED <<hScene, hMode, hNext, avatars, members, newcomers, tick, era>>
        /\ up # <<>> /\ up' = Tail(up)
        /\ down' \in {down, down \o Resync}
        /\ deferred' \in {deferred, Head(up)}
    BY <1>3 DEF HandleLoaded, MaySend
  <2>2. up' \in Seq(Scenes) /\ Head(up) \in Scenes
    BY <2>1 DEF QueuesTyped
  <2>3. HostTyped'
    BY <2>1, <2>2 DEF HostTyped, Leaving
  <2>4. QueuesTyped'
    BY <1>2, <2>1, <2>2 DEF QueuesTyped
  <2>5. QED
    BY <2>1, <2>3, <2>4
<1>4. CASE AnswerDeferred
  <2>1. HostTyped' /\ UNCHANGED <<client, sync, up, unheard>>
        /\ down' = down \o Resync
    BY <1>4 DEF AnswerDeferred, MaySend, HostTyped, Leaving
  <2>2. QED
    BY <1>2, <2>1 DEF QueuesTyped
<1>5. QED
  BY <1>3, <1>4

\* The host's scene changes.
LEMMA SceneSteps ==
  ASSUME ReplicaAssumption, HostTyped, QueuesTyped,
         StopScene \/ StartScene \/ \E s \in Scenes : ChangeScene(s)
  PROVE  HostTyped' /\ QueuesTyped' /\ UNCHANGED client
<1>1. CASE StopScene
  BY <1>1 DEF StopScene, HostTyped, QueuesTyped, Leaving
<1>2. CASE StartScene
  BY <1>2 DEF StartScene, HostTyped, QueuesTyped, Leaving, IDs
<1>3. ASSUME NEW s \in Scenes, ChangeScene(s)
      PROVE  HostTyped' /\ QueuesTyped' /\ UNCHANGED client
  <2>1. HostTyped' /\ UNCHANGED <<client, sync, up, unheard>>
        /\ down' = Append(down, SceneChange(s))
    BY <1>3 DEF ChangeScene, MaySend, HostTyped, Leaving
  <2>2. QED
    BY <2>1, MessageTypes DEF QueuesTyped
<1>4. QED
  BY <1>1, <1>2, <1>3

LEMMA WorldStateStep ==
  ASSUME HostTyped, QueuesTyped, NEW id \in IDs, WorldState(id)
  PROVE  HostTyped' /\ QueuesTyped' /\ UNCHANGED client
<1>1. HostTyped' /\ UNCHANGED <<client, down, up, unheard>>
      /\ tick' \in Nat /\ era \in Nat
  BY DEF WorldState, HostTyped, Leaving
<1> DEFINE m == [id |-> id, tick |-> tick', era |-> era]
<1>2. m \in WorldStates
  BY <1>1 DEF WorldStates
<1>3. sync' \in Seq(WorldStates)
  <2>1. sync' = sync \/ sync' = Append(sync, m)
    BY DEF WorldState
  <2> HIDE DEF m
  <2>2. QED
    BY <1>2, <2>1 DEF QueuesTyped
<1>4. QED
  BY <1>1, <1>3 DEF QueuesTyped

-----------------------------------------------------------------------------
(* Steps of the client.                                                    *)

\* Reset: nothing of the old scene is left.
LEMMA LoadSceneStep ==
  ASSUME ClientTyped, LoadScene
  PROVE  ClientTyped' /\ UNCHANGED <<host, down, up, sync, unheard>>
<1>1. /\ next # NoScene /\ scene' = next /\ mode' = "loading" /\ next' = NoScene
      /\ adopted' = FALSE /\ loadedPending' = FALSE /\ change' = NoScene
      /\ replica' = [id \in IDs |-> 0] /\ index' = {} /\ buffered' = <<>>
      /\ owned' = {} /\ states' = [id \in IDs |-> NoState]
      /\ UNCHANGED <<local, stage, host, down, sync, up, unheard>>
  BY DEF LoadScene, Reset
<1>2. states' \in [IDs -> LastStates]
  BY <1>1, StateTypes
<1>3. FrameTyped'
  BY <1>1 DEF ClientTyped, FrameTyped
<1>4. EntitiesTyped' /\ Copies'
  BY <1>1, <1>2 DEF ClientTyped, EntitiesTyped, Copies
<1>5. QED
  BY <1>1, <1>3, <1>4 DEF ClientTyped

\* Spawns that were kept are carried out in a scene without entities, so each ID
\* comes to be there once however often it was kept.
LEMMA AdoptSceneStep ==
  ASSUME ClientTyped, QueuesTyped, AdoptScene
  PROVE  ClientTyped' /\ QueuesTyped' /\ UNCHANGED host
<1>1. /\ ~adopted /\ adopted' = TRUE /\ stage' = "update"
      /\ replica' = Spawned(ToSet(buffered)) /\ index' = ToSet(buffered)
      /\ buffered' = <<>> /\ states' = [id \in IDs |-> NoState]
      /\ loadedPending' = FALSE /\ up' = Append(up, scene)
      /\ UNCHANGED <<scene, mode, next, change, local, host, down, sync, unheard>>
      /\ owned' \subseteq owned \cup IDs
  BY DEF AdoptScene, StartPoll, OwnLocal
<1>2. ToSet(buffered) \subseteq IDs
  BY DEF ClientTyped, EntitiesTyped, ToSet
<1>3. \A id \in IDs : replica[id] = 0
  BY <1>1 DEF ClientTyped, Copies
<1>4. replica' = [id \in IDs |-> IF id \in ToSet(buffered) THEN 1 ELSE 0]
  BY <1>1, <1>3 DEF Spawned
<1>5. replica' \in [IDs -> Nat] /\ Copies'
  BY <1>1, <1>4 DEF Copies
<1>6. ClientTyped'
  <2>1. states' \in [IDs -> LastStates]
    BY <1>1, StateTypes
  <2>2. FrameTyped'
    BY <1>1 DEF ClientTyped, FrameTyped
  <2>3. EntitiesTyped'
    BY <1>1, <1>2, <1>5, <2>1 DEF ClientTyped, EntitiesTyped
  <2>4. QED
    BY <1>5, <2>2, <2>3 DEF ClientTyped
<1>7. QueuesTyped'
  BY <1>1 DEF QueuesTyped, ClientTyped, FrameTyped
<1>8. QED
  BY <1>1, <1>6, <1>7

LEMMA FrameSteps ==
  ASSUME ReplicaAssumption, ClientTyped, QueuesTyped,
         UpdateLoading \/ FinishLoading \/ PollScene \/ EndUpdate
  PROVE  ClientTyped' /\ QueuesTyped' /\ UNCHANGED host
<1> USE DEF ClientTyped
<1>1. CASE UpdateLoading \/ FinishLoading
  <2>1. /\ FrameTyped' /\ UNCHANGED <<host, down, sync, up, unheard>>
        /\ UNCHANGED <<adopted, replica, index, owned, local, buffered, states>>
    BY <1>1 DEF UpdateLoading, FinishLoading, FrameTyped
  <2>2. QED
    BY <2>1, EntitiesIdle DEF QueuesTyped
<1>2. CASE PollScene
  <2>1. /\ UNCHANGED <<host, down, sync, unheard>>
        /\ UNCHANGED <<scene, mode, next, change>>
        /\ UNCHANGED <<adopted, replica, index, local, buffered, states>>
        /\ owned' \subseteq owned \cup IDs
        /\ stage' = "update" /\ loadedPending' = FALSE
        /\ up' = up \/ up' = Append(up, scene)
    BY <1>2 DEF PollScene, StartPoll, OwnLocal
  <2>2. FrameTyped'
    BY <2>1 DEF FrameTyped
  <2>3. up' \in Seq(Scenes)
    <3>1. up \in Seq(Scenes) /\ scene \in Scenes
      BY DEF FrameTyped, QueuesTyped
    <3>2. Append(up, scene) \in Seq(Scenes)
      BY <3>1
    <3>3. QED
      BY <2>1, <3>1, <3>2
  <2>4. EntitiesTyped' /\ Copies'
    BY <2>1 DEF EntitiesTyped, Copies
  <2>5. QED
    BY <2>1, <2>2, <2>3, <2>4 DEF QueuesTyped
<1>3. CASE EndUpdate
  <2>1. /\ UNCHANGED <<host, down, sync, up, unheard>>
        /\ UNCHANGED <<scene, mode, adopted, replica, index, owned, local, buffered, states>>
        /\ FrameTyped'
    BY <1>3 DEF EndUpdate, FrameTyped
  <2>2. QED
    BY <2>1, EntitiesIdle DEF QueuesTyped
<1>4. QED
  BY <1>1, <1>2, <1>3

\* What is taken from the channel, whatever it is.
LEMMA Received ==
  ASSUME QueuesTyped, NEW kind \in {"Assign", "Spawn", "Destroy", "SceneChange"},
         Receive(kind)
  PROVE  /\ Head(down) \in Commands /\ Head(down).cmd = kind
         /\ down' \in Seq(Commands)
         /\ UNCHANGED <<scene, mode, stage, next, adopted, loadedPending>>
         /\ UNCHANGED <<host, sync, up>>
BY DEF Receive, QueuesTyped

\* An entity is entered into the lookup table only if there is one, and then it is
\* there already.
LEMMA AssignStep ==
  ASSUME ClientTyped, QueuesTyped, HandleAssign
  PROVE  ClientTyped' /\ QueuesTyped' /\ UNCHANGED host
<1> DEFINE id == Head(down).id
<1>1. /\ Head(down) \in Commands /\ Head(down).cmd = "Assign"
      /\ down' \in Seq(Commands)
      /\ UNCHANGED <<scene, mode, stage, next, adopted, loadedPending>>
      /\ UNCHANGED <<host, sync, up, change, replica, buffered, states, unheard>>
      /\ local' = id
  BY Received DEF HandleAssign
<1>2. id \in IDs
  BY <1>1, MessageParts
<1>3. \/ /\ adopted /\ replica[id] > 0
         /\ owned' = owned \cup {id} /\ index' = index \cup {id}
      \/ UNCHANGED <<owned, index>>
  BY DEF HandleAssign
<1> HIDE DEF id
<1>4. index' = index /\ owned' \subseteq owned \cup {id}
  BY <1>2, <1>3 DEF ClientTyped, Copies
<1>5. EntitiesTyped' /\ Copies'
  BY <1>1, <1>2, <1>4 DEF ClientTyped, EntitiesTyped, Copies
<1>6. QED
  BY <1>1, <1>5 DEF ClientTyped, FrameTyped, QueuesTyped

\* An entity is looked up by its ID before it is made.
LEMMA SpawnStep ==
  ASSUME ClientTyped, QueuesTyped, HandleSpawn
  PROVE  ClientTyped' /\ QueuesTyped' /\ UNCHANGED host
<1> DEFINE id == Head(down).id
<1>1. /\ Head(down) \in Commands /\ Head(down).cmd = "Spawn"
      /\ down' \in Seq(Commands)
      /\ UNCHANGED <<scene, mode, stage, next, adopted, loadedPending>>
      /\ UNCHANGED <<host, sync, up, local, change, states, unheard>>
      /\ owned' \in {owned, owned \cup {id}}
  BY Received DEF HandleSpawn
<1>2. id \in IDs
  BY <1>1, MessageParts
<1> HIDE DEF id
<1>3. CASE adopted
  <2>1. /\ replica' = IF id \in index THEN replica ELSE Spawned({id})
        /\ index' = index \cup {id} /\ UNCHANGED buffered
    BY <1>3 DEF HandleSpawn, id
  <2>2. CASE id \in index
    BY <1>1, <1>2, <1>3, <2>1, <2>2 DEF ClientTyped, FrameTyped, EntitiesTyped, QueuesTyped, Copies
  <2>3. CASE id \notin index
    <3>1. replica' = [i \in IDs |-> IF i = id THEN 1 ELSE replica[i]]
      BY <1>2, <2>1, <2>3 DEF Spawned, ClientTyped, EntitiesTyped, Copies
    <3>2. EntitiesTyped'
      <4>1. replica \in [IDs -> Nat] /\ index \subseteq IDs
        BY DEF ClientTyped, EntitiesTyped
      <4>2. replica' \in [IDs -> Nat]
        BY <3>1, <4>1
      <4>3. index' \subseteq IDs
        BY <1>2, <2>1, <4>1
      <4>4. owned' \subseteq IDs /\ local' \in IDs \cup {0}
        BY <1>1, <1>2 DEF ClientTyped, EntitiesTyped
      <4>5. QED
        BY <1>1, <2>1, <4>2, <4>3, <4>4 DEF ClientTyped, EntitiesTyped
    <3>3. Copies'
      <4>1. adopted'
        BY <1>1, <1>3
      <4>2. \A i \in IDs : replica'[i] = IF i \in index' THEN 1 ELSE 0
        BY <1>2, <1>3, <2>1, <3>1 DEF ClientTyped, Copies
      <4>3. QED
        BY <4>1, <4>2 DEF Copies
    <3>4. FrameTyped' /\ QueuesTyped'
      BY <1>1 DEF ClientTyped, FrameTyped, QueuesTyped
    <3>5. QED
      BY <1>1, <3>2, <3>3, <3>4 DEF ClientTyped
  <2>4. QED
    BY <2>2, <2>3
<1>4. CASE ~adopted
  <2>1. buffered' = Append(buffered, id) /\ UNCHANGED <<replica, index>>
    BY <1>4 DEF HandleSpawn, id
  <2>2. QED
    BY <1>1, <1>2, <1>4, <2>1 DEF ClientTyped, FrameTyped, EntitiesTyped, QueuesTyped, Copies
<1>5. QED
  BY <1>3, <1>4

\* The entity and its entry go together.
LEMMA DestroyStep ==
  ASSUME ClientTyped, QueuesTyped, HandleDestroy
  PROVE  ClientTyped' /\ QueuesTyped' /\ UNCHANGED host
<1> DEFINE id == Head(down).id
<1>1. /\ Head(down) \in Commands /\ Head(down).cmd = "Destroy"
      /\ down' \in Seq(Commands)
      /\ UNCHANGED <<scene, mode, stage, next, adopted, loadedPending>>
      /\ UNCHANGED <<host, sync, up, local, change, buffered>>
      /\ owned' \in {owned, owned \ {id}}
  BY Received DEF HandleDestroy
<1>2. id \in IDs
  BY <1>1, MessageParts
<1> HIDE DEF id
<1>3. CASE adopted
  <2>1. /\ replica' = [replica EXCEPT ![id] = 0] /\ index' = index \ {id}
        /\ states' = [states EXCEPT ![id] = NoState] /\ UNCHANGED unheard
    BY <1>3 DEF HandleDestroy, id
  <2>2. Copies'
    BY <1>1, <1>2, <1>3, <2>1 DEF ClientTyped, EntitiesTyped, Copies
  <2>3. states' \in [IDs -> LastStates]
    BY <1>2, <2>1, StateTypes DEF ClientTyped, EntitiesTyped
  <2>4. QED
    BY <1>1, <1>2, <2>1, <2>2, <2>3 DEF ClientTyped, FrameTyped, EntitiesTyped, QueuesTyped
<1>4. CASE ~adopted
  <2>1. unheard' = unheard \cup {id} /\ UNCHANGED <<replica, index, states>>
    BY <1>4 DEF HandleDestroy, id
  <2>2. QED
    BY <1>1, <1>2, <1>4, <2>1 DEF ClientTyped, FrameTyped, EntitiesTyped, QueuesTyped, Copies
<1>5. QED
  BY <1>3, <1>4

LEMMA SceneChangeStep ==
  ASSUME ClientTyped, QueuesTyped, HandleSceneChange
  PROVE  ClientTyped' /\ QueuesTyped' /\ UNCHANGED host
<1>1. /\ Head(down) \in Commands /\ Head(down).cmd = "SceneChange"
      /\ down' \in Seq(Commands) /\ change' = Head(down).scene
      /\ UNCHANGED <<scene, mode, stage, next, adopted, loadedPending>>
      /\ UNCHANGED <<host, sync, up, replica, index, owned, local, buffered, states,
                     unheard>>
  BY Received DEF HandleSceneChange
<1>2. change' \in Scenes
  BY <1>1, MessageParts
<1>3. QED
  BY <1>1, <1>2 DEF ClientTyped, FrameTyped, EntitiesTyped, QueuesTyped, Copies

LEMMA StateStep ==
  ASSUME ClientTyped, QueuesTyped, HandleState
  PROVE  ClientTyped' /\ QueuesTyped' /\ UNCHANGED host
<1> DEFINE m == Head(sync)
           last == [tick |-> m.tick, era |-> m.era]
<1>1. /\ sync # <<>> /\ sync' = Tail(sync)
      /\ UNCHANGED <<scene, mode, stage, next, change, adopted, replica, index,
                     owned, local, buffered, loadedPending, host, down, up, unheard>>
      /\ states' = states \/ states' = [states EXCEPT ![m.id] = last]
  BY DEF HandleState
<1>2. m \in WorldStates /\ sync' \in Seq(WorldStates)
  BY <1>1 DEF QueuesTyped
<1>3. m.id \in IDs /\ last \in LastStates
  BY <1>2, StateTypes
<1> HIDE DEF m, last
<1>4. states' \in [IDs -> LastStates]
  BY <1>1, <1>3 DEF ClientTyped, EntitiesTyped
<1>5. QED
  BY <1>1, <1>2, <1>4 DEF ClientTyped, FrameTyped, EntitiesTyped, QueuesTyped, Copies

-----------------------------------------------------------------------------
\* Every step.
LEMMA ReplicaStep ==
  ASSUME ReplicaAssumption, ReplicaInv, [Next]_vars
  PROVE  ReplicaInv'
<1>0. HostTyped /\ QueuesTyped /\ ClientTyped
  BY Parts
<1>1. CASE HostStep
  BY <1>0, <1>1, AvatarSteps, AnswerSteps, SceneSteps, ClientIdle, Whole
  DEF HostStep
<1>2. CASE Frame \/ FinishLoading
  <2>1. CASE LoadScene
    <3>1. QueuesTyped'
      BY <1>0, <2>1, LoadSceneStep DEF QueuesTyped
    <3>2. QED
      BY <1>0, <2>1, <3>1, LoadSceneStep, HostIdle, Whole
  <2>2. CASE AdoptScene
    BY <1>0, <2>2, AdoptSceneStep, HostIdle, Whole
  <2>3. CASE UpdateLoading \/ FinishLoading \/ PollScene \/ EndUpdate
    BY <1>0, <2>3, FrameSteps, HostIdle, Whole
  <2>4. QED
    BY <1>2, <2>1, <2>2, <2>3 DEF Frame
<1>3. CASE Handle \/ HandleState
  BY <1>0, <1>3, AssignStep, SpawnStep, DestroyStep, SceneChangeStep, StateStep, HostIdle, Whole
  DEF Handle
<1>4. ASSUME NEW id \in IDs, Join(id) \/ Leave(id) \/ WorldState(id)
      PROVE  ReplicaInv'
  BY <1>0, <1>4, AvatarSteps, WorldStateStep, ClientIdle, Whole
<1>5. CASE \E s \in Scenes : ChangeScene(s)
  BY <1>0, <1>5, SceneSteps, ClientIdle, Whole
<1>6. CASE UNCHANGED vars
  <2>1. UNCHANGED <<host, client>> /\ UNCHANGED <<down, sync, up, unheard>>
    BY <1>6 DEF vars
  <2>2. QueuesTyped'
    BY <1>0, <2>1 DEF QueuesTyped
  <2>3. QED
    BY <1>0, <2>1, <2>2, HostIdle, ClientIdle, Whole
<1>7. QED
  BY <1>1, <1>2, <1>3, <1>4, <1>5, <1>6 DEF Next

\* What the client finds in the channel.
LEMMA InitMessagesType ==
  ASSUME ReplicaAssumption, hScene \in Scenes, InitMessages
  PROVE  down \in Seq(Commands) /\ newcomers \subseteq Others
<1>1. \A id \in IDs : {Assign(id), Spawn(id), Destroy(id)} \subseteq Commands
  BY MessageTypes
<1>2. <<Assign(Me)>> \in Seq(Commands)
  BY <1>1 DEF IDs
<1>3. ASSUME NEW p \in Others, newcomers = Others \ {p},
             \/ down = <<Assign(p), Assign(Me)>>
             \/ \E n \in 1 .. 5 : down = SubSeq(Farewell(p), n, 5) \o <<Assign(Me)>>
      PROVE  down \in Seq(Commands) /\ newcomers \subseteq Others
  <2>1. p \in IDs /\ HostID \in IDs /\ Me \in IDs
    BY DEF IDs
  <2>2. CASE down = <<Assign(p), Assign(Me)>>
    BY <1>1, <1>3, <2>1, <2>2
  <2>3. ASSUME NEW n \in 1 .. 5, down = SubSeq(Farewell(p), n, 5) \o <<Assign(Me)>>
        PROVE  down \in Seq(Commands)
    <3>1. Farewell(p) \in Seq(Commands) /\ Len(Farewell(p)) = 5
      <4>1. /\ SceneChange(hScene) \in Commands /\ Assign(p) \in Commands
            /\ Spawn(HostID) \in Commands /\ Spawn(p) \in Commands
            /\ Destroy(p) \in Commands
        BY <1>1, <2>1, MessageTypes
      <4>2. QED
        BY <4>1, BatchTypes DEF Farewell
    <3>2. SubSeq(Farewell(p), n, 5) \in Seq(Commands)
      BY <3>1, RestType
    <3>3. QED
      BY <1>2, <2>3, <3>2
  <2>4. QED
    BY <1>3, <2>2, <2>3
<1>4. QED
  BY <1>2, <1>3 DEF InitMessages

\* The initial states.
LEMMA ReplicaInit ==
  ASSUME ReplicaAssumption, Init
  PROVE  ReplicaInv
<1>1. replica = [id \in IDs |-> 0] /\ states = [id \in IDs |-> NoState]
  BY DEF Init
<1>2. states \in [IDs -> [tick : Nat, era : Nat]]
  BY <1>1 DEF NoState
<1>3. replica \in [IDs -> Nat] /\ Copies
  BY <1>1 DEF Init, Copies
<1>4. /\ up = <<>> /\ sync = <<>> /\ buffered = <<>>
      /\ tick = 0 /\ era = 1 /\ adopted = FALSE /\ loadedPending = FALSE
      /\ deferred = NoScene /\ next = NoScene /\ change = NoScene /\ hNext = NoScene
      /\ hScene \in Scenes /\ scene \in Scenes
      /\ hMode = "running" /\ mode \in {"running", "loading"} /\ stage = "frame"
      /\ avatars \subseteq IDs /\ members \subseteq IDs /\ InitMessages
      /\ index = {} /\ unheard = {} /\ owned = {} /\ local = 0
  BY DEF Init, IDs, ReplicaAssumption
<1>5. /\ down \in Seq(Commands) /\ newcomers \subseteq Others
      /\ up \in Seq(Scenes) /\ buffered \in Seq(IDs)
      /\ sync \in Seq([id : IDs, tick : Nat, era : Nat])
  BY <1>4, InitMessagesType
<1>6. tick \in Nat /\ era \in Nat /\ adopted \in BOOLEAN /\ loadedPending \in BOOLEAN
  BY <1>4
<1>7. Leaving
  BY <1>4 DEF Leaving
<1>8. QED
  BY <1>2, <1>3, <1>4, <1>5, <1>6, <1>7, Zenon DEF ReplicaInv, TypeOK

-----------------------------------------------------------------------------
(* Theorems.                                                               *)

\* The client's tables and its scene stay in step.
THEOREM ReplicaInvariance == Spec => []ReplicaInv
<1>1. Init => ReplicaInv
  BY ReplicaAssumption, ReplicaInit
<1>2. ReplicaInv /\ [Next]_vars => ReplicaInv'
  BY ReplicaAssumption, ReplicaStep
<1>3. QED
  BY <1>1, <1>2, PTL DEF Spec

\* Every variable of the host and of the client keeps its type.
THEOREM TypeCorrect == Spec => []TypeOK
<1>1. ReplicaInv => TypeOK
  BY DEF ReplicaInv
<1>2. QED
  BY <1>1, ReplicaInvariance, PTL

\* However often a spawn arrives, before or after the scene is ready, the client
\* has the entity once and finds it by its ID.
THEOREM EachOnce == Spec => []OneCopyEach
<1>1. ReplicaInv => OneCopyEach
  BY DEF ReplicaInv, Copies, OneCopyEach
<1>2. QED
  BY <1>1, ReplicaInvariance, PTL

-----------------------------------------------------------------------------
(* Messages under way.                                                     *)

\* A message of B is in the channel s.
Has(s, B) == \E k \in 1 .. Len(s) : s[k] \in B

\* So is a, and nothing of B comes after it.
Final(s, a, B) ==
  \E k \in 1 .. Len(s) : s[k] = a /\ \A n \in k + 1 .. Len(s) : s[n] \notin B

\* Channels with no message and with one.
LEMMA HasNone ==
  ASSUME NEW B, NEW a
  PROVE  ~Has(<<>>, B) /\ ~Final(<<>>, a, B)
BY DEF Has, Final

LEMMA HasOne ==
  ASSUME NEW B, NEW m
  PROVE  (Has(<<m>>, B) <=> m \in B) /\ Final(<<m>>, m, B)
BY DEF Has, Final

\* What is sent follows what is under way.
LEMMA HasBoth ==
  ASSUME NEW S, NEW s \in Seq(S), NEW t \in Seq(S), NEW B
  PROVE  Has(s \o t, B) <=> Has(s, B) \/ Has(t, B)
<1> DEFINE u == s \o t
<1>1. /\ Len(u) = Len(s) + Len(t) /\ Len(s) \in Nat /\ Len(t) \in Nat
      /\ \A k \in 1 .. Len(s) : u[k] = s[k]
      /\ \A k \in 1 .. Len(t) : u[Len(s) + k] = t[k]
  BY Concatenated
<1> HIDE DEF u
<1>2. ASSUME Has(u, B)
      PROVE  Has(s, B) \/ Has(t, B)
  <2>1. PICK k \in 1 .. Len(u) : u[k] \in B
    BY <1>2 DEF Has
  <2>2. CASE k <= Len(s)
    <3>1. k \in 1 .. Len(s)
      BY <1>1, <2>2
    <3>2. s[k] \in B
      BY <1>1, <2>1, <3>1
    <3>3. QED
      BY <3>1, <3>2 DEF Has
  <2>3. CASE k > Len(s)
    <3>1. k - Len(s) \in 1 .. Len(t) /\ k = Len(s) + (k - Len(s))
      BY <1>1, <2>3
    <3>2. t[k - Len(s)] \in B
      BY <1>1, <2>1, <3>1
    <3>3. QED
      BY <3>1, <3>2 DEF Has
  <2>4. QED
    BY <1>1, <2>2, <2>3
<1>3. ASSUME NEW k \in 1 .. Len(s), s[k] \in B
      PROVE  Has(u, B)
  BY <1>1, <1>3 DEF Has
<1>4. ASSUME NEW k \in 1 .. Len(t), t[k] \in B
      PROVE  Has(u, B)
  <2>1. Len(s) + k \in 1 .. Len(u) /\ u[Len(s) + k] \in B
    BY <1>1, <1>4
  <2>2. QED
    BY <2>1 DEF Has
<1>5. Has(s, B) \/ Has(t, B) => Has(u, B)
  BY <1>3, <1>4 DEF Has
<1>6. QED
  BY <1>2, <1>5 DEF u

\* What is final stays so when nothing is sent that matters, and what is final among
\* what is sent is final.
LEMMA FinalStays ==
  ASSUME NEW S, NEW s \in Seq(S), NEW t \in Seq(S), NEW a, NEW B,
         Final(s, a, B), ~Has(t, B)
  PROVE  Final(s \o t, a, B)
<1>1. /\ Len(s \o t) = Len(s) + Len(t) /\ Len(s) \in Nat /\ Len(t) \in Nat
      /\ \A k \in 1 .. Len(s) : (s \o t)[k] = s[k]
      /\ \A k \in 1 .. Len(t) : (s \o t)[Len(s) + k] = t[k]
  BY Concatenated
<1>2. PICK k \in 1 .. Len(s) : s[k] = a /\ \A n \in k + 1 .. Len(s) : s[n] \notin B
  BY DEF Final
<1>3. ASSUME NEW n \in k + 1 .. Len(s \o t)
      PROVE  (s \o t)[n] \notin B
  <2>1. CASE n <= Len(s)
    BY <1>1, <1>2, <2>1
  <2>2. CASE n > Len(s)
    <3>1. n - Len(s) \in 1 .. Len(t) /\ n = Len(s) + (n - Len(s))
      BY <1>1, <2>2
    <3>2. QED
      BY <1>1, <3>1 DEF Has
  <2>3. QED
    BY <1>1, <2>1, <2>2
<1>4. k \in 1 .. Len(s \o t) /\ (s \o t)[k] = a
  BY <1>1, <1>2
<1>5. QED
  BY <1>3, <1>4 DEF Final

LEMMA FinalSent ==
  ASSUME NEW S, NEW s \in Seq(S), NEW t \in Seq(S), NEW a, NEW B, Final(t, a, B)
  PROVE  Final(s \o t, a, B)
<1>1. /\ Len(s \o t) = Len(s) + Len(t) /\ Len(s) \in Nat /\ Len(t) \in Nat
      /\ \A k \in 1 .. Len(t) : (s \o t)[Len(s) + k] = t[k]
  BY Concatenated
<1>2. PICK k \in 1 .. Len(t) : t[k] = a /\ \A n \in k + 1 .. Len(t) : t[n] \notin B
  BY DEF Final
<1>3. ASSUME NEW n \in Len(s) + k + 1 .. Len(s \o t)
      PROVE  (s \o t)[n] \notin B
  <2>1. /\ n - Len(s) \in k + 1 .. Len(t) /\ n - Len(s) \in 1 .. Len(t)
        /\ n = Len(s) + (n - Len(s))
    BY <1>1
  <2>2. QED
    BY <1>1, <1>2, <2>1
<1>4. Len(s) + k \in 1 .. Len(s \o t) /\ (s \o t)[Len(s) + k] = a
  BY <1>1, <1>2
<1>5. QED
  BY <1>3, <1>4 DEF Final

\* What arrives was the first of them.
LEMMA HasRest ==
  ASSUME NEW S, NEW s \in Seq(S), s # <<>>, NEW B
  PROVE  Has(s, B) <=> Head(s) \in B \/ Has(Tail(s), B)
<1> DEFINE h == <<Head(s)>>
           r == Tail(s)
<1>1. h \in Seq(S) /\ r \in Seq(S) /\ s = h \o r
  OBVIOUS
<1>2. Has(h, B) <=> Head(s) \in B
  BY HasOne
<1> HIDE DEF h, r
<1>3. Has(h \o r, B) <=> Has(h, B) \/ Has(r, B)
  BY <1>1, HasBoth
<1>4. QED
  BY <1>1, <1>2, <1>3 DEF r

LEMMA FinalRest ==
  ASSUME NEW S, NEW s \in Seq(S), s # <<>>, NEW a, NEW B, Final(s, a, B)
  PROVE  Final(Tail(s), a, B) \/ (Head(s) = a /\ ~Has(Tail(s), B))
<1>1. /\ Len(Tail(s)) = Len(s) - 1 /\ Len(s) \in Nat \ {0} /\ Head(s) = s[1]
      /\ \A k \in 1 .. Len(Tail(s)) : Tail(s)[k] = s[k + 1]
  OBVIOUS
<1>2. PICK k \in 1 .. Len(s) : s[k] = a /\ \A n \in k + 1 .. Len(s) : s[n] \notin B
  BY DEF Final
<1>3. CASE k = 1
  BY <1>1, <1>2, <1>3 DEF Has
<1>4. CASE k > 1
  <2>1. k - 1 \in 1 .. Len(Tail(s)) /\ Tail(s)[k - 1] = a
    BY <1>1, <1>2, <1>4
  <2>2. \A n \in k .. Len(Tail(s)) : n + 1 \in k + 1 .. Len(s) /\ n \in 1 .. Len(Tail(s))
    BY <1>1, <1>4
  <2>3. \A n \in (k - 1) + 1 .. Len(Tail(s)) : Tail(s)[n] \notin B
    BY <1>1, <1>2, <2>2
  <2>4. QED
    BY <2>1, <2>3 DEF Final
<1>5. QED
  BY <1>3, <1>4

\* A message that is in the channel is the final one when nothing there matters to it.
LEMMA FinalAlone ==
  ASSUME NEW S, NEW s \in Seq(S), NEW a, NEW B, Has(s, {a}), ~Has(s, B)
  PROVE  Final(s, a, B)
BY DEF Has, Final

\* What is final is there.
LEMMA FinalHas ==
  ASSUME NEW s, NEW a, NEW B, Final(s, a, B)
  PROVE  Has(s, {a})
BY DEF Has, Final

\* The last message is final.
LEMMA FinalLast ==
  ASSUME NEW S, NEW s \in Seq(S), s # <<>>, NEW B
  PROVE  Final(s, s[Len(s)], B)
BY DEF Final

-----------------------------------------------------------------------------
\* Messages are told apart by what they say and of whom.
LEMMA MessagesApart ==
  /\ \A a, b : /\ Assign(a) # Spawn(b) /\ Assign(a) # Destroy(b) /\ Spawn(a) # Destroy(b)
               /\ Assign(a) # SceneChange(b) /\ Spawn(a) # SceneChange(b)
               /\ Destroy(a) # SceneChange(b)
  /\ \A a, b : /\ Assign(a) = Assign(b) => a = b
               /\ Spawn(a) = Spawn(b) => a = b
               /\ Destroy(a) = Destroy(b) => a = b
               /\ SceneChange(a) = SceneChange(b) => a = b
<1>1. \A a : /\ Assign(a).cmd = "Assign" /\ Assign(a).id = a
             /\ Spawn(a).cmd = "Spawn" /\ Spawn(a).id = a
             /\ Destroy(a).cmd = "Destroy" /\ Destroy(a).id = a
             /\ SceneChange(a).cmd = "SceneChange" /\ SceneChange(a).scene = a
  BY DEF Assign, Spawn, Destroy, SceneChange
<1>2. QED
  BY <1>1

\* What a message in the channel is, from what its handler reads of it.
LEMMA MessageIs ==
  ASSUME NEW m \in Commands
  PROVE  /\ m.cmd = "Assign" => m = Assign(m.id)
         /\ m.cmd = "Spawn" => m = Spawn(m.id)
         /\ m.cmd = "Destroy" => m = Destroy(m.id)
         /\ m.cmd = "SceneChange" => m = SceneChange(m.scene)
BY DEF Commands, Assign, Spawn, Destroy, SceneChange

\* A resync has the spawn of each entity and nothing else.
LEMMA SpawnsHold ==
  ASSUME ReplicaAssumption, NEW ids \in SUBSET IDs, NEW B
  PROVE  Has(Spawns(ids), B) <=> \E id \in ids : Spawn(id) \in B
<1> DEFINE n == Cardinality(ids)
           f == SetToSeq(ids)
<1>1. IsFiniteSet(ids)
  BY IDsFinite, FS_Subset
<1>2. n \in Nat /\ f \in [1 .. n -> ids] /\ \A x \in ids : \E k \in 1 .. n : f[k] = x
  BY <1>1, SetListed
<1>3. Spawns(ids) = [k \in 1 .. n |-> Spawn(f[k])]
  BY DEF Spawns
<1> HIDE DEF n, f
<1>4. Len(Spawns(ids)) = n /\ \A k \in 1 .. n : Spawns(ids)[k] = Spawn(f[k])
  <2>1. Spawns(ids) \in Seq(Commands)
    BY SpawnsType
  <2>2. DOMAIN Spawns(ids) = 1 .. n
    BY <1>3
  <2>3. Len(Spawns(ids)) \in Nat /\ DOMAIN Spawns(ids) = 1 .. Len(Spawns(ids))
    BY <2>1
  <2>4. Len(Spawns(ids)) = n
    BY <1>2, <2>2, <2>3
  <2>5. QED
    BY <1>3, <2>4
<1>5. ASSUME NEW k \in 1 .. n, Spawns(ids)[k] \in B
      PROVE  \E id \in ids : Spawn(id) \in B
  <2>1. f[k] \in ids /\ Spawn(f[k]) \in B
    BY <1>2, <1>4, <1>5
  <2>2. QED
    BY <2>1
<1>6. ASSUME NEW id \in ids, Spawn(id) \in B
      PROVE  \E k \in 1 .. n : Spawns(ids)[k] \in B
  <2>1. PICK k \in 1 .. n : f[k] = id
    BY <1>2
  <2>2. QED
    BY <1>4, <1>6, <2>1
<1>7. QED
  BY <1>4, <1>5, <1>6 DEF Has

-----------------------------------------------------------------------------
(* What is under way belongs together.                                     *)

Changes == {SceneChange(s) : s \in Scenes}
Foreign == {Assign(id) : id \in IDs \ {Me}}

\* Where the client goes with what it has been sent.
Current == IF change # NoScene THEN change ELSE IF next # NoScene THEN next ELSE scene

GoesTo(s) ==
  \/ Final(down, SceneChange(s), Changes)
  \/ ~Has(down, Changes) /\ Current = s

HostGoesTo == IF hMode = "leaving" THEN hNext ELSE hScene

\* The client goes where the host goes.
SameScene == GoesTo(HostGoesTo)

\* How the steps of a frame of the client depend on each other.
FrameOrder ==
  /\ mode = "loading" => ~adopted
  /\ stage = "update" /\ mode = "running" => adopted
  /\ next # NoScene => stage = "frame" /\ change = NoScene
  /\ adopted => buffered = <<>>
  /\ adopted /\ up # <<>> => up[Len(up)] = scene
  /\ hMode = "loading" => avatars = {}

\* What the client has or will have of an entity that the host no longer has, it
\* is still to be told to remove, or it is in unheard.
GhostsKnown ==
  \A id \in IDs : id \in index \/ id \in ToSet(buffered) \/ Has(down, {Spawn(id)})
    => id \in avatars \cup unheard \/ Final(down, Destroy(id), {Spawn(id)})

\* The host has still to answer a SceneLoaded for its scene, or the client to send one.
Owed ==
  \/ Has(down, Changes) \/ change # NoScene \/ next # NoScene
  \/ ~adopted \/ loadedPending
  \/ up # <<>> /\ up[Len(up)] = hScene
  \/ up = <<>> /\ deferred = hScene

\* The client has the entity and will keep it, or it is still to be told of it.
Provided(id) ==
  \/ Final(down, Spawn(id), {Destroy(id)})
  \/ id \in index /\ ~Has(down, {Destroy(id)})

AllProvided ==
  hMode = "running" /\ Me \in avatars /\ ~Owed => \A id \in avatars : Provided(id)

\* The client's own assignment comes last.
KnowsItself ==
  \/ Final(down, Assign(Me), Foreign)
  \/ local = Me /\ ~Has(down, Foreign)

\* Who had the index before is gone for good.
Gone == Others \ (members \cup newcomers \cup avatars)

OwnersKnown ==
  /\ local \in {0, Me} \cup Gone
  /\ \A id \in IDs : Has(down, {Assign(id)}) => id \in {Me} \cup Gone
  /\ owned \subseteq index /\ owned \subseteq {Me} \cup Gone
  /\ local \in index => local \in owned
  /\ adopted \/ index = {}

MatchInv ==
  /\ ReplicaInv /\ FrameOrder /\ SameScene /\ GhostsKnown /\ AllProvided
  /\ KnowsItself /\ OwnersKnown


\* Two messages.
LEMMA HasTwo ==
  ASSUME NEW a, NEW b, NEW B
  PROVE  /\ Has(<<a, b>>, B) <=> a \in B \/ b \in B
         /\ b \notin B => Final(<<a, b>>, a, B)
<1>1. /\ Len(<<a, b>>) = 2 /\ <<a, b>>[1] = a /\ <<a, b>>[2] = b
      /\ \A k \in 1 .. 2 : k = 1 \/ k = 2
  OBVIOUS
<1>2. Has(<<a, b>>, B) <=> a \in B \/ b \in B
  BY <1>1 DEF Has
<1>3. b \notin B => Final(<<a, b>>, a, B)
  BY <1>1 DEF Final
<1>4. QED
  BY <1>2, <1>3

\* What a step of the host adds to the channel, and what it keeps of the rest.
Talk(t) ==
  /\ t \in Seq(Commands) /\ down' = down \o t
  /\ \A id \in IDs : Has(t, {Assign(id)}) => id = Me
  /\ \A id \in IDs : Has(t, {Spawn(id)}) => id \in avatars'
  /\ \A id \in avatars \cup unheard :
       id \in avatars' \cup unheard' \/ Final(t, Destroy(id), {Spawn(id)})
  /\ \/ Final(t, SceneChange(HostGoesTo'), Changes)
     \/ ~Has(t, Changes) /\ HostGoesTo' = HostGoesTo
  /\ hMode' = "running" /\ Me \in avatars' /\ ~Owed'
       => \A id \in avatars' : \/ Final(t, Spawn(id), {Destroy(id)})
                               \/ Provided(id) /\ ~Has(t, {Destroy(id)})
  /\ Gone \subseteq Gone'
  /\ UNCHANGED client

\* With that the host keeps its part of the invariant.
LEMMA TalkKeeps ==
  ASSUME QueuesTyped, HostTyped', NEW t, Talk(t),
         SameScene, GhostsKnown, AllProvided, KnowsItself, OwnersKnown
  PROVE  SameScene' /\ GhostsKnown' /\ AllProvided' /\ KnowsItself' /\ OwnersKnown'
<1>1. /\ down \in Seq(Commands) /\ t \in Seq(Commands) /\ down' = down \o t
      /\ UNCHANGED <<scene, next, change, adopted, index, owned, local, buffered>>
  BY DEF Talk, QueuesTyped, client
<1>2. \A B : Has(down', B) <=> Has(down, B) \/ Has(t, B)
  BY <1>1, HasBoth
<1>3. \A a, B : /\ Final(down, a, B) /\ ~Has(t, B) => Final(down', a, B)
                /\ Final(t, a, B) => Final(down', a, B)
  BY <1>1, FinalStays, FinalSent
<1>4. ~Has(t, Foreign)
  <2>1. SUFFICES ASSUME Has(t, Foreign) PROVE FALSE
    OBVIOUS
  <2>2. PICK id \in IDs \ {Me} : Has(t, {Assign(id)})
    BY <2>1 DEF Has, Foreign
  <2>3. QED
    BY <2>2 DEF Talk
<1>5. SameScene'
  <2>1. CASE Final(t, SceneChange(HostGoesTo'), Changes)
    <3>1. Final(down', SceneChange(HostGoesTo'), Changes)
      BY <1>3, <2>1
    <3>2. QED
      BY <3>1 DEF SameScene, GoesTo, Changes
  <2>2. CASE ~Has(t, Changes) /\ HostGoesTo' = HostGoesTo
    <3>1. Current' = Current
      BY <1>1 DEF Current
    <3>2. \/ Final(down', SceneChange(HostGoesTo'), Changes)
          \/ ~Has(down', Changes) /\ Current' = HostGoesTo'
      BY <1>2, <1>3, <2>2, <3>1 DEF SameScene, GoesTo
    <3>3. QED
      BY <3>2 DEF SameScene, GoesTo, Changes
  <2>3. QED
    BY <2>1, <2>2 DEF Talk
<1>6. GhostsKnown'
  <2>1. SUFFICES ASSUME NEW id \in IDs,
                        id \in index' \/ id \in ToSet(buffered') \/ Has(down', {Spawn(id)}),
                        id \notin avatars' \cup unheard'
                 PROVE  Final(down', Destroy(id), {Spawn(id)})
    BY DEF GhostsKnown, IDs
  <2>2. ~Has(t, {Spawn(id)})
    BY <2>1 DEF Talk
  <2>3. id \in avatars \cup unheard \/ Final(down, Destroy(id), {Spawn(id)})
    BY <1>1, <1>2, <2>1, <2>2 DEF GhostsKnown
  <2>4. CASE id \in avatars \cup unheard
    BY <1>3, <2>1, <2>4 DEF Talk
  <2>5. QED
    BY <1>3, <2>2, <2>3, <2>4
<1>7. AllProvided'
  <2>1. SUFFICES ASSUME hMode' = "running", Me \in avatars', ~Owed', NEW id \in avatars'
                 PROVE  Provided(id)'
    BY DEF AllProvided, IDs
  <2>2. \/ Final(t, Spawn(id), {Destroy(id)})
        \/ Provided(id) /\ ~Has(t, {Destroy(id)})
    BY <2>1 DEF Talk
  <2>3. \/ Final(down', Spawn(id), {Destroy(id)})
        \/ id \in index' /\ ~Has(down', {Destroy(id)})
    BY <1>1, <1>2, <1>3, <2>2 DEF Provided
  <2>4. QED
    BY <2>3 DEF Provided
<1>8. KnowsItself'
  <2>1. \/ Final(down', Assign(Me), Foreign)
        \/ local' = Me /\ ~Has(down', Foreign)
    BY <1>1, <1>2, <1>3, <1>4 DEF KnowsItself
  <2>2. QED
    BY <2>1 DEF KnowsItself, Foreign, IDs
<1>9. OwnersKnown'
  <2>1. Gone \subseteq Gone'
    BY DEF Talk
  <2>2. \A id \in IDs : Has(down', {Assign(id)}) => id \in {Me} \cup Gone'
    BY <1>2, <2>1 DEF OwnersKnown, Talk
  <2>3. QED
    BY <1>1, <2>1, <2>2 DEF OwnersKnown, IDs
<1>10. QED
  BY <1>5, <1>6, <1>7, <1>8, <1>9

\* A step of the host that sends nothing.
LEMMA SilentTalk ==
  ASSUME QueuesTyped, UNCHANGED <<down, client>>, AllProvided,
         avatars \cup unheard \subseteq avatars' \cup unheard',
         HostGoesTo' = HostGoesTo, Gone \subseteq Gone',
         hMode' = "running" /\ Me \in avatars' /\ ~Owed'
           => hMode = "running" /\ Me \in avatars /\ ~Owed /\ avatars' \subseteq avatars,
         avatars \subseteq IDs
  PROVE  Talk(<<>>)
<1>1. <<>> \in Seq(Commands) /\ down' = down \o <<>>
  BY DEF QueuesTyped
<1>2. \A B : ~Has(<<>>, B)
  BY HasNone
<1>3. hMode' = "running" /\ Me \in avatars' /\ ~Owed'
        => \A id \in avatars' : Provided(id)
  BY DEF AllProvided
<1>4. QED
  BY <1>1, <1>2, <1>3 DEF Talk

\* What the host owes the client depends on this much of the host.
LEMMA OwedAsBefore ==
  ASSUME UNCHANGED client, UNCHANGED <<up, deferred, hScene>>,
         Has(down, Changes) => Has(down', Changes)
  PROVE  Owed => Owed'
BY DEF Owed, client, Changes

\* Other clients come and go, and WorldState has a channel of its own.
LEMMA MembersTalk ==
  ASSUME ReplicaAssumption, HostTyped, QueuesTyped, AllProvided, NEW id \in IDs,
         Join(id) \/ Leave(id) \/ WorldState(id)
  PROVE  Talk(<<>>)
<1>1. /\ UNCHANGED <<hScene, hMode, hNext, avatars, deferred, down, up, client, unheard>>
      /\ members' \cup newcomers' \subseteq members \cup newcomers
  BY DEF Join, Leave, WorldState
<1>2. HostGoesTo' = HostGoesTo
  BY <1>1 DEF HostGoesTo
<1>3. Gone \subseteq Gone'
  BY <1>1 DEF Gone
<1>4. Owed => Owed'
  BY <1>1, OwedAsBefore
<1>5. QED
  BY <1>1, <1>2, <1>3, <1>4, SilentTalk DEF HostTyped

\* A resync tells the client of all the entities.
LEMMA ResyncHolds ==
  ASSUME ReplicaAssumption, NEW ids \in SUBSET IDs
  PROVE  LET r == <<Assign(Me)>> \o Spawns(ids)
         IN  /\ r \in Seq(Commands)
             /\ \A B : Has(r, B) <=> Assign(Me) \in B \/ \E id \in ids : Spawn(id) \in B
             /\ \A id \in ids : Final(r, Spawn(id), {Destroy(id)})
<1> DEFINE r == <<Assign(Me)>> \o Spawns(ids)
<1>1. <<Assign(Me)>> \in Seq(Commands) /\ Spawns(ids) \in Seq(Commands)
  BY MessageTypes, SpawnsType DEF IDs
<1>2. r \in Seq(Commands)
  BY <1>1, Concatenated
<1>3. ASSUME NEW B
      PROVE  Has(r, B) <=> Assign(Me) \in B \/ \E id \in ids : Spawn(id) \in B
  <2>1. Has(r, B) <=> Has(<<Assign(Me)>>, B) \/ Has(Spawns(ids), B)
    BY <1>1, HasBoth
  <2>2. Has(<<Assign(Me)>>, B) <=> Assign(Me) \in B
    BY HasOne
  <2>3. Has(Spawns(ids), B) <=> \E id \in ids : Spawn(id) \in B
    BY SpawnsHold
  <2> HIDE DEF r
  <2>4. QED
    BY <2>1, <2>2, <2>3
<1> HIDE DEF r
<1>4. ASSUME NEW id \in ids
      PROVE  Final(r, Spawn(id), {Destroy(id)})
  <2>1. Has(r, {Spawn(id)}) /\ ~Has(r, {Destroy(id)})
    BY <1>3, MessagesApart
  <2>2. QED
    BY <1>2, <2>1, FinalAlone
<1>5. QED
  BY <1>2, <1>3, <1>4 DEF r

\* After a resync nothing is owed, whatever was owed before.
LEMMA ResyncTalk ==
  ASSUME ReplicaAssumption, HostTyped, QueuesTyped, down' = down \o Resync,
         UNCHANGED <<hScene, hMode, hNext, avatars, members, newcomers, client, unheard>>
  PROVE  Talk(Resync)
<1>1. /\ Resync \in Seq(Commands)
      /\ \A B : Has(Resync, B) <=> Assign(Me) \in B \/ \E id \in avatars : Spawn(id) \in B
      /\ \A id \in avatars : Final(Resync, Spawn(id), {Destroy(id)})
  BY ResyncHolds DEF Resync, HostTyped
<1> HIDE DEF Resync
<1>2. ASSUME NEW id \in IDs
      PROVE  /\ Has(Resync, {Assign(id)}) => id = Me
             /\ Has(Resync, {Spawn(id)}) => id \in avatars'
  <2>1. Has(Resync, {Assign(id)}) => Assign(Me) = Assign(id)
    BY <1>1, MessagesApart
  <2>2. Has(Resync, {Spawn(id)}) => \E x \in avatars : Spawn(x) = Spawn(id)
    BY <1>1, MessagesApart
  <2>3. QED
    BY <2>1, <2>2, MessagesApart
<1>3. ~Has(Resync, Changes) /\ HostGoesTo' = HostGoesTo
  <2>1. Assign(Me) \notin Changes /\ \A x \in avatars : Spawn(x) \notin Changes
    BY MessagesApart DEF Changes
  <2>2. QED
    BY <1>1, <2>1 DEF HostGoesTo
<1>4. Gone \subseteq Gone'
  BY DEF Gone
<1>5. QED
  BY <1>1, <1>2, <1>3, <1>4 DEF Talk

\* The last of the messages under way stays the last one.
LEMMA RestLast ==
  ASSUME NEW S, NEW s \in Seq(S), s # <<>>
  PROVE  \/ Tail(s) = <<>> /\ s[Len(s)] = Head(s)
         \/ Tail(s) # <<>> /\ Tail(s)[Len(Tail(s))] = s[Len(s)]
<1> DEFINE r == Tail(s)
           n == Len(s)
<1>1. n \in Nat \ {0} /\ Head(s) = s[1] /\ r \in Seq(S) /\ Len(r) = n - 1
  OBVIOUS
<1>2. \A k \in 1 .. Len(r) : r[k] = s[k + 1]
  OBVIOUS
<1>3. r = <<>> <=> Len(r) = 0
  <2>1. r \in Seq(S)
    OBVIOUS
  <2> HIDE DEF r
  <2>2. QED
    BY <2>1
<1> HIDE DEF r, n
<1>4. n > 1 => n - 1 \in 1 .. Len(r) /\ (n - 1) + 1 = n
  BY <1>1
<1>5. n > 1 => r[n - 1] = s[n]
  BY <1>1, <1>2, <1>4
<1>6. \/ r = <<>> /\ s[n] = Head(s)
      \/ r # <<>> /\ r[Len(r)] = s[n]
  <2>1. CASE n = 1
    BY <1>1, <1>3, <2>1
  <2>2. CASE n > 1
    BY <1>1, <1>3, <1>5, <2>2
  <2>3. QED
    BY <1>1, <2>1, <2>2
<1>7. QED
  BY <1>6 DEF r, n

\* HandleLoaded keeps a SceneLoaded for another scene than its own; what it owes the
\* client is then as much as before.
LEMMA AnswerTalk ==
  ASSUME ReplicaAssumption, HostTyped, QueuesTyped, AllProvided,
         HandleLoaded \/ AnswerDeferred
  PROVE  \E t : Talk(t)
<1>1. CASE AnswerDeferred
  <2>1. Talk(Resync)
    BY <1>1, ResyncTalk DEF AnswerDeferred, MaySend
  <2>2. QED
    BY <2>1
<1>2. CASE HandleLoaded /\ hMode = "running" /\ Head(up) = hScene
  <2>1. Talk(Resync)
    BY <1>2, ResyncTalk DEF HandleLoaded, MaySend
  <2>2. QED
    BY <2>1
<1>3. CASE HandleLoaded /\ ~(hMode = "running" /\ Head(up) = hScene)
  <2>1. /\ up # <<>> /\ up' = Tail(up) /\ deferred' = Head(up)
        /\ UNCHANGED <<hScene, hMode, hNext, avatars, members, newcomers, down, client, unheard>>
    BY <1>3 DEF HandleLoaded, MaySend
  <2>2. HostGoesTo' = HostGoesTo /\ Gone \subseteq Gone'
    BY <2>1 DEF HostGoesTo, Gone
  <2>3. ASSUME hMode = "running", Owed
        PROVE  Owed'
    <3>1. up \in Seq(Scenes) /\ Head(up) # hScene
      BY <1>3, <2>3 DEF QueuesTyped
    <3>2. up[Len(up)] = hScene => up' # <<>> /\ up'[Len(up')] = hScene
      BY <2>1, <3>1, RestLast
    <3>3. UNCHANGED <<down, change, next, adopted, loadedPending, hScene>>
      BY <2>1 DEF client
    <3>4. QED
      BY <2>1, <2>3, <3>2, <3>3 DEF Owed, Changes
  <2>4. Talk(<<>>)
    BY <2>1, <2>2, <2>3, SilentTalk DEF HostTyped
  <2>5. QED
    BY <2>4
<1>4. QED
  BY <1>1, <1>2, <1>3

\* A new avatar.
LEMMA AddTalk ==
  ASSUME ReplicaAssumption, HostTyped, QueuesTyped, AllProvided, NEW id \in IDs, AddAvatar(id)
  PROVE  \E t : Talk(t)
<1>1. /\ hMode = "running" /\ id \in members \ avatars /\ avatars' = avatars \cup {id}
      /\ unheard' = unheard \ {id}
      /\ UNCHANGED <<hScene, hMode, hNext, members, newcomers, deferred, up, client>>
      /\ id = Me => down' = down \o (<<SceneChange(hScene), Assign(Me)>> \o Spawns(avatars \cup {Me}))
      /\ id # Me /\ Me \in avatars => down' = down \o <<Spawn(id)>>
      /\ id # Me /\ Me \notin avatars => down' = down \o <<>>
  BY DEF AddAvatar, MaySend
<1>2. HostGoesTo' = hScene /\ HostGoesTo = hScene
  BY <1>1 DEF HostGoesTo
<1>3. Gone \subseteq Gone' /\ avatars \cup unheard \subseteq avatars' \cup unheard'
  BY <1>1 DEF Gone
<1>4. CASE id = Me
  <2> DEFINE a == <<SceneChange(hScene), Assign(Me)>>
             t == a \o Spawns(avatars \cup {Me})
  <2>1. avatars \cup {Me} \in SUBSET IDs /\ avatars' = avatars \cup {Me}
    BY <1>1, <1>4 DEF HostTyped, IDs
  <2>2. a \in Seq(Commands) /\ Spawns(avatars \cup {Me}) \in Seq(Commands)
    <3>1. SceneChange(hScene) \in Commands /\ Assign(Me) \in Commands
      BY MessageTypes DEF HostTyped, IDs
    <3>2. QED
      BY <2>1, <3>1, BatchTypes, SpawnsType
  <2>3. ASSUME NEW B
        PROVE  Has(t, B) <=> \/ SceneChange(hScene) \in B \/ Assign(Me) \in B
                             \/ \E x \in avatars' : Spawn(x) \in B
    <3>1. Has(a, B) <=> SceneChange(hScene) \in B \/ Assign(Me) \in B
      BY HasTwo
    <3>2. Has(Spawns(avatars \cup {Me}), B) <=> \E x \in avatars' : Spawn(x) \in B
      BY <2>1, SpawnsHold
    <3>3. Has(t, B) <=> Has(a, B) \/ Has(Spawns(avatars \cup {Me}), B)
      BY <2>2, HasBoth
    <3> HIDE DEF t, a
    <3>4. QED
      BY <3>1, <3>2, <3>3
  <2>4. t \in Seq(Commands)
    BY <2>2, Concatenated
  <2>5. Final(t, SceneChange(hScene), Changes)
    <3>1. Assign(Me) \notin Changes /\ \A x : Spawn(x) \notin Changes
      BY MessagesApart DEF Changes
    <3>2. Final(a, SceneChange(hScene), Changes)
      BY <3>1, HasTwo
    <3>3. ~Has(Spawns(avatars \cup {Me}), Changes)
      BY <2>1, <3>1, SpawnsHold
    <3> HIDE DEF a
    <3>4. QED
      BY <2>2, <3>2, <3>3, FinalStays
  <2>6. down' = down \o t
    BY <1>1, <1>4
  <2> HIDE DEF t, a
  <2>7. ASSUME NEW x \in IDs
        PROVE  /\ Has(t, {Assign(x)}) => x = Me
               /\ Has(t, {Spawn(x)}) => x \in avatars'
    <3>1. Has(t, {Assign(x)}) => Assign(Me) = Assign(x)
      <4>1. Has(t, {Assign(x)}) <=> \/ SceneChange(hScene) \in {Assign(x)}
                                    \/ Assign(Me) \in {Assign(x)}
                                    \/ \E y \in avatars' : Spawn(y) \in {Assign(x)}
        BY <2>3
      <4>2. QED
        BY <4>1, MessagesApart
    <3>2. Has(t, {Spawn(x)}) => \E y \in avatars' : Spawn(y) = Spawn(x)
      <4>1. Has(t, {Spawn(x)}) <=> \/ SceneChange(hScene) \in {Spawn(x)}
                                   \/ Assign(Me) \in {Spawn(x)}
                                   \/ \E y \in avatars' : Spawn(y) \in {Spawn(x)}
        BY <2>3
      <4>2. QED
        BY <4>1, MessagesApart
    <3>3. QED
      BY <3>1, <3>2, MessagesApart
  <2>8. \A x \in avatars' : Final(t, Spawn(x), {Destroy(x)})
    <3>1. SUFFICES ASSUME NEW x \in avatars'
                   PROVE  Final(t, Spawn(x), {Destroy(x)})
      OBVIOUS
    <3>2. Has(t, {Spawn(x)})
      BY <2>3
    <3>3. ~Has(t, {Destroy(x)})
      <4>1. Has(t, {Destroy(x)}) <=> \/ SceneChange(hScene) \in {Destroy(x)}
                                     \/ Assign(Me) \in {Destroy(x)}
                                     \/ \E y \in avatars' : Spawn(y) \in {Destroy(x)}
        BY <2>3
      <4>2. QED
        BY <4>1, MessagesApart
    <3>4. QED
      BY <2>4, <3>2, <3>3, FinalAlone
  <2>9. QED
    BY <1>1, <1>2, <1>3, <2>4, <2>5, <2>6, <2>7, <2>8 DEF Talk
<1>5. CASE id # Me /\ Me \in avatars
  <2>1. Spawn(id) \in Commands
    BY MessageTypes
  <2>2. <<Spawn(id)>> \in Seq(Commands) /\ down' = down \o <<Spawn(id)>>
    BY <1>1, <1>5, <2>1
  <2>3. \A B : Has(<<Spawn(id)>>, B) <=> Spawn(id) \in B
    BY HasOne
  <2>4. \A x \in IDs : /\ Has(<<Spawn(id)>>, {Assign(x)}) => x = Me
                       /\ Has(<<Spawn(id)>>, {Spawn(x)}) => x \in avatars'
                       /\ ~Has(<<Spawn(id)>>, {Destroy(x)})
    BY <1>1, <2>3, MessagesApart
  <2>5. ~Has(<<Spawn(id)>>, Changes)
    BY <2>3, MessagesApart DEF Changes
  <2>6. ASSUME ~Owed', NEW x \in avatars'
        PROVE  \/ Final(<<Spawn(id)>>, Spawn(x), {Destroy(x)})
               \/ Provided(x) /\ ~Has(<<Spawn(id)>>, {Destroy(x)})
    <3>1. CASE x = id
      BY <3>1, HasOne
    <3>2. CASE x # id
      <4>1. x \in avatars /\ x \in IDs
        BY <1>1, <3>2 DEF HostTyped
      <4>2. Has(down, Changes) => Has(down', Changes)
        BY <2>2, HasBoth DEF QueuesTyped
      <4>3. ~Owed
        BY <1>1, <2>6, <4>2, OwedAsBefore
      <4>4. QED
        BY <1>1, <1>5, <2>4, <4>1, <4>3 DEF AllProvided
    <3>3. QED
      BY <3>1, <3>2
  <2>7. QED
    BY <1>1, <1>2, <1>3, <2>2, <2>4, <2>5, <2>6 DEF Talk
<1>6. CASE id # Me /\ Me \notin avatars
  <2>1. down' = down /\ Me \notin avatars'
    BY <1>1, <1>6 DEF QueuesTyped
  <2>2. QED
    BY <1>1, <1>2, <1>3, <2>1, SilentTalk DEF HostTyped
<1>7. QED
  BY <1>4, <1>5, <1>6

\* An avatar goes.
LEMMA RemoveTalk ==
  ASSUME ReplicaAssumption, HostTyped, QueuesTyped, AllProvided, NEW id \in IDs, RemoveAvatar(id)
  PROVE  \E t : Talk(t)
<1> DEFINE t == <<Destroy(id)>>
<1>1. /\ hMode = "running" /\ avatars' = avatars \ {id}
      /\ UNCHANGED <<hScene, hMode, hNext, members, newcomers, deferred, up, client, unheard>>
      /\ down' = Append(down, Destroy(id))
  BY DEF RemoveAvatar, MaySend
<1>2. Destroy(id) \in Commands
  BY MessageTypes
<1>3. t \in Seq(Commands) /\ down' = down \o t
  BY <1>1, <1>2 DEF QueuesTyped
<1>4. \A B : Has(t, B) <=> Destroy(id) \in B
  BY HasOne
<1>5. Final(t, Destroy(id), {Spawn(id)})
  BY HasOne
<1> HIDE DEF t
<1>6. \A x \in IDs : /\ ~Has(t, {Assign(x)}) /\ ~Has(t, {Spawn(x)})
                     /\ Has(t, {Destroy(x)}) => x = id
  BY <1>4, MessagesApart
<1>7. ~Has(t, Changes)
  BY <1>4, MessagesApart DEF Changes
<1>8. HostGoesTo' = HostGoesTo /\ Gone \subseteq Gone'
  BY <1>1 DEF HostGoesTo, Gone
<1>9. ASSUME ~Owed', Me \in avatars', NEW x \in avatars'
      PROVE  Provided(x) /\ ~Has(t, {Destroy(x)})
  <2>1. x \in avatars /\ x \in IDs /\ x # id /\ Me \in avatars
    BY <1>1, <1>9 DEF HostTyped
  <2>2. Has(down, Changes) => Has(down', Changes)
    BY <1>3, HasBoth DEF QueuesTyped
  <2>3. ~Owed
    BY <1>1, <1>9, <2>2, OwedAsBefore
  <2>4. QED
    BY <1>1, <1>6, <2>1, <2>3 DEF AllProvided
<1>10. QED
  BY <1>1, <1>3, <1>5, <1>6, <1>7, <1>8, <1>9 DEF Talk

\* The host's scene changes.  In the new scene the client has no avatar yet, so
\* nothing is owed to it.
LEMMA SceneTalk ==
  ASSUME ReplicaAssumption, HostTyped, QueuesTyped, FrameOrder, AllProvided,
         StopScene \/ StartScene \/ \E s \in Scenes : ChangeScene(s)
  PROVE  \E t : Talk(t)
<1>1. CASE StopScene
  <2>1. /\ hMode' # "running" /\ UNCHANGED <<down, client, members, newcomers>>
        /\ HostGoesTo' = HostGoesTo
        /\ avatars' = {} /\ unheard' = unheard \cup avatars
    BY <1>1 DEF StopScene, HostGoesTo
  <2>2. Gone \subseteq Gone'
    BY <2>1 DEF Gone
  <2>3. Talk(<<>>)
    BY <2>1, <2>2, SilentTalk DEF HostTyped
  <2>4. QED
    BY <2>3
<1>2. CASE StartScene
  <2>1. /\ UNCHANGED <<down, client, members, newcomers>> /\ avatars' = {HostID}
        /\ unheard' = unheard \ {HostID} /\ avatars = {}
        /\ HostGoesTo' = HostGoesTo
    BY <1>2 DEF StartScene, HostGoesTo, FrameOrder
  <2>2. Gone \subseteq Gone' /\ Me \notin avatars'
    BY <2>1 DEF Gone, ReplicaAssumption
  <2>3. Talk(<<>>)
    BY <2>1, <2>2, SilentTalk DEF HostTyped
  <2>4. QED
    BY <2>3
<1>3. ASSUME NEW s \in Scenes, ChangeScene(s)
      PROVE  \E t : Talk(t)
  <2> DEFINE t == <<SceneChange(s)>>
  <2>1. /\ hMode' = "leaving" /\ hNext' = s /\ down' = Append(down, SceneChange(s))
        /\ UNCHANGED <<avatars, members, newcomers, unheard, client>>
    BY <1>3 DEF ChangeScene, MaySend
  <2>2. SceneChange(s) \in Commands
    BY MessageTypes
  <2>3. t \in Seq(Commands) /\ down' = down \o t
    BY <2>1, <2>2 DEF QueuesTyped
  <2>4. \A B : Has(t, B) <=> SceneChange(s) \in B
    BY HasOne
  <2>5. Final(t, SceneChange(s), Changes)
    BY HasOne
  <2> HIDE DEF t
  <2>6. \A x \in IDs : ~Has(t, {Assign(x)}) /\ ~Has(t, {Spawn(x)})
    BY <2>4, MessagesApart
  <2>7. HostGoesTo' = s /\ Gone \subseteq Gone'
    BY <2>1 DEF HostGoesTo, Gone
  <2>8. QED
    BY <2>1, <2>3, <2>5, <2>6, <2>7 DEF Talk
<1>4. QED
  BY <1>1, <1>2, <1>3

\* The steps of the host keep the order of the client's frames.
LEMMA HostOrder ==
  ASSUME HostTyped, QueuesTyped, FrameOrder, UNCHANGED client,
         \/ UNCHANGED up
         \/ up # <<>> /\ up' = Tail(up),
         hMode' = "loading" => avatars' = {}
  PROVE  FrameOrder'
<1>1. UNCHANGED <<scene, mode, stage, next, change, adopted, buffered>>
  BY DEF client
<1>2. adopted /\ up' # <<>> => up'[Len(up')] = scene
  BY RestLast DEF FrameOrder, QueuesTyped
<1>3. QED
  BY <1>1, <1>2 DEF FrameOrder

\* Each of them.
LEMMA HostKeepsOrder ==
  ASSUME ReplicaAssumption, HostTyped, QueuesTyped, FrameOrder,
         \/ HostStep
         \/ \E id \in IDs : Join(id) \/ Leave(id) \/ WorldState(id)
         \/ \E s \in Scenes : ChangeScene(s)
  PROVE  FrameOrder'
<1>1. CASE HandleLoaded
  BY <1>1, HostOrder DEF HandleLoaded, MaySend, FrameOrder
<1>2. CASE AnswerDeferred \/ StopScene \/ StartScene
  BY <1>2, HostOrder DEF AnswerDeferred, MaySend, StopScene, StartScene
<1>3. ASSUME NEW id \in IDs, AddAvatar(id) \/ RemoveAvatar(id)
      PROVE  FrameOrder'
  BY <1>3, HostOrder DEF AddAvatar, RemoveAvatar, MaySend
<1>4. ASSUME NEW id \in IDs, Join(id) \/ Leave(id) \/ WorldState(id)
      PROVE  FrameOrder'
  BY <1>4, HostOrder DEF Join, Leave, WorldState, FrameOrder
<1>5. ASSUME NEW s \in Scenes, ChangeScene(s)
      PROVE  FrameOrder'
  BY <1>5, HostOrder DEF ChangeScene, MaySend
<1>6. QED
  BY <1>1, <1>2, <1>3, <1>4, <1>5 DEF HostStep

\* The steps of the host keep the whole invariant.
LEMMA HostKeepsMatch ==
  ASSUME ReplicaAssumption, MatchInv, ReplicaInv',
         \/ HostStep
         \/ \E id \in IDs : Join(id) \/ Leave(id) \/ WorldState(id)
         \/ \E s \in Scenes : ChangeScene(s)
  PROVE  MatchInv'
<1>1. HostTyped /\ QueuesTyped /\ HostTyped'
  BY Parts DEF MatchInv, ReplicaInv, TypeOK, HostTyped, Leaving
<1>2. \E t : Talk(t)
  BY <1>1, MembersTalk, AnswerTalk, AddTalk, RemoveTalk, SceneTalk DEF HostStep, MatchInv
<1>3. FrameOrder'
  BY <1>1, HostKeepsOrder DEF MatchInv
<1>4. SameScene' /\ GhostsKnown' /\ AllProvided' /\ KnowsItself' /\ OwnersKnown'
  BY <1>1, <1>2, TalkKeeps DEF MatchInv
<1>5. QED
  BY <1>3, <1>4 DEF MatchInv

-----------------------------------------------------------------------------
\* Steps that matter to none of this: the loading screen, and WorldState.
LEMMA QuietKeepsMatch ==
  ASSUME ReplicaAssumption, MatchInv, ReplicaInv', UpdateLoading \/ FinishLoading \/ HandleState
  PROVE  MatchInv'
<1>1. /\ UNCHANGED <<host, down, up, unheard, next, change, scene>>
      /\ UNCHANGED <<adopted, index, owned, local, buffered, loadedPending>>
      /\ next = NoScene
      /\ stage' = "update" /\ mode' = "running" => adopted
      /\ mode' = "loading" => mode = "loading"
  BY DEF UpdateLoading, FinishLoading, HandleState, MatchInv, FrameOrder
<1>2. UNCHANGED <<hScene, hMode, hNext, avatars, members, newcomers, deferred>>
  BY <1>1 DEF host
<1>3. FrameOrder'
  BY <1>1, <1>2 DEF MatchInv, FrameOrder
<1>4. SameScene'
  BY <1>1, <1>2 DEF MatchInv, SameScene, GoesTo, HostGoesTo, Current, Changes
<1>5. GhostsKnown'
  BY <1>1, <1>2 DEF MatchInv, GhostsKnown, IDs
<1>6. AllProvided'
  BY <1>1, <1>2 DEF MatchInv, AllProvided, Owed, Provided, Changes, IDs
<1>7. KnowsItself'
  BY <1>1, <1>2 DEF MatchInv, KnowsItself, Foreign, IDs
<1>8. OwnersKnown'
  BY <1>1, <1>2 DEF MatchInv, OwnersKnown, Gone, IDs
<1>9. QED
  BY <1>3, <1>4, <1>5, <1>6, <1>7, <1>8 DEF MatchInv

\* The scene that was asked for is the one the host goes to.
LEMMA LoadKeepsMatch ==
  ASSUME ReplicaAssumption, MatchInv, ReplicaInv', LoadScene
  PROVE  MatchInv'
<1>1. /\ UNCHANGED <<host, down, up, unheard, local, stage>>
      /\ next # NoScene /\ scene' = next /\ next' = NoScene /\ change' = NoScene
      /\ adopted' = FALSE /\ index' = {} /\ owned' = {} /\ buffered' = <<>>
      /\ stage = "frame"
  BY DEF LoadScene, Reset
<1>2. UNCHANGED <<hScene, hMode, hNext, avatars, members, newcomers, deferred>>
  BY <1>1 DEF host
<1>3. FrameOrder'
  BY <1>1, <1>2 DEF MatchInv, FrameOrder
<1>4. SameScene'
  <2>1. Current' = Current
    BY <1>1 DEF Current, MatchInv, FrameOrder
  <2>2. QED
    BY <1>1, <1>2, <2>1 DEF MatchInv, SameScene, GoesTo, HostGoesTo, Changes
<1>5. GhostsKnown'
  <2>1. ToSet(buffered') = {}
    BY <1>1 DEF ToSet
  <2>2. QED
    BY <1>1, <1>2, <2>1 DEF MatchInv, GhostsKnown, IDs
<1>6. AllProvided'
  BY <1>1, <1>2 DEF AllProvided, Owed
<1>7. KnowsItself'
  BY <1>1, <1>2 DEF MatchInv, KnowsItself, Foreign, IDs
<1>8. OwnersKnown'
  BY <1>1, <1>2 DEF MatchInv, OwnersKnown, Gone, IDs
<1>9. QED
  BY <1>3, <1>4, <1>5, <1>6, <1>7, <1>8 DEF MatchInv

\* A scene the client has come to, or that it was told of again, is the one it tells
\* the host of; with nothing under way it is the host's.
LEMMA ToldScene ==
  ASSUME HostTyped, QueuesTyped, FrameTyped, FrameOrder, SameScene, next = NoScene,
         UNCHANGED <<host, down, scene, next, change>>,
         up' = Append(up, scene), hMode = "running"
  PROVE  Owed'
<1>1. UNCHANGED <<hScene, hMode>>
  BY DEF host
<1>2. CASE Has(down, Changes) \/ change # NoScene
  BY <1>2 DEF Owed, Changes
<1>3. CASE ~Has(down, Changes) /\ change = NoScene
  <2>1. ~Final(down, SceneChange(hScene), Changes)
    <3>1. SceneChange(hScene) \in Changes
      BY DEF Changes, HostTyped
    <3>2. QED
      BY <1>3, <3>1, FinalHas DEF Has
  <2>2. scene = hScene
    BY <1>3, <2>1 DEF SameScene, GoesTo, HostGoesTo, Current
  <2>3. up' # <<>> /\ up'[Len(up')] = scene
    BY DEF QueuesTyped, FrameTyped
  <2>4. QED
    BY <1>1, <2>2, <2>3 DEF Owed
<1>4. QED
  BY <1>2, <1>3

\* PollNetwork in a scene that is new to it.
LEMMA AdoptKeepsMatch ==
  ASSUME ReplicaAssumption, MatchInv, ReplicaInv', AdoptScene
  PROVE  MatchInv'
<1>0. HostTyped /\ QueuesTyped /\ ClientTyped /\ FrameTyped
  BY Parts DEF MatchInv, ClientTyped
<1>1. /\ UNCHANGED <<host, down, unheard, local, scene, mode, next, change>>
      /\ next = NoScene /\ ~adopted /\ adopted' /\ stage' = "update" /\ mode = "running"
      /\ up' = Append(up, scene) /\ index' = ToSet(buffered) /\ buffered' = <<>>
      /\ owned' = owned \cup {id \in IDs : id = local /\ replica'[id] > 0}
  BY DEF AdoptScene, StartPoll, OwnLocal
<1>2. UNCHANGED <<hScene, hMode, hNext, avatars, members, newcomers, deferred>>
  BY <1>1 DEF host
<1>3. FrameOrder'
  <2>1. up' # <<>> /\ up'[Len(up')] = scene
    BY <1>0, <1>1 DEF QueuesTyped, FrameTyped
  <2>2. QED
    BY <1>1, <1>2, <2>1 DEF MatchInv, FrameOrder
<1>4. SameScene'
  BY <1>1, <1>2 DEF MatchInv, SameScene, GoesTo, HostGoesTo, Current, Changes
<1>5. GhostsKnown'
  <2>1. ToSet(buffered') = {}
    BY <1>1 DEF ToSet
  <2>2. QED
    BY <1>1, <1>2, <2>1 DEF MatchInv, GhostsKnown, IDs
<1>6. AllProvided'
  <2>1. hMode = "running" => Owed'
    BY <1>0, <1>1, ToldScene DEF MatchInv
  <2>2. QED
    BY <1>2, <2>1 DEF AllProvided
<1>7. KnowsItself'
  BY <1>1, <1>2 DEF MatchInv, KnowsItself, Foreign, IDs
<1>8. OwnersKnown'
  <2>1. \A id \in IDs : replica'[id] > 0 <=> id \in index'
    BY <1>1 DEF ReplicaInv, Copies
  <2>2. owned = {}
    BY <1>1 DEF MatchInv, OwnersKnown
  <2>3. owned' = {id \in IDs : id = local /\ id \in index'}
    BY <1>1, <2>1, <2>2
  <2>4. 0 \notin IDs /\ index' \subseteq IDs
    BY DEF ReplicaInv, TypeOK, ReplicaAssumption, IDs
  <2>5. owned' \subseteq index' /\ owned' \subseteq {Me} \cup Gone
        /\ (local' \in index' => local' \in owned')
    BY <1>1, <2>3, <2>4 DEF MatchInv, OwnersKnown
  <2>6. QED
    BY <1>1, <1>2, <2>5 DEF MatchInv, OwnersKnown, Gone, IDs
<1>9. QED
  BY <1>3, <1>4, <1>5, <1>6, <1>7, <1>8 DEF MatchInv

\* PollNetwork in the scene it knows, which may be one it was told of again.
LEMMA PollKeepsMatch ==
  ASSUME ReplicaAssumption, MatchInv, ReplicaInv', PollScene
  PROVE  MatchInv'
<1>0. HostTyped /\ QueuesTyped /\ ClientTyped /\ FrameTyped
  BY Parts DEF MatchInv, ClientTyped
<1>1. /\ UNCHANGED <<host, down, unheard, local, scene, mode, next, change>>
      /\ UNCHANGED <<adopted, replica, index, buffered>>
      /\ next = NoScene /\ adopted /\ stage' = "update" /\ mode = "running"
      /\ loadedPending' = FALSE
      /\ loadedPending => up' = Append(up, scene)
      /\ ~loadedPending => up' = up
      /\ owned' = owned \cup {id \in IDs : id = local /\ replica'[id] > 0}
  BY DEF PollScene, StartPoll, OwnLocal
<1>2. UNCHANGED <<hScene, hMode, hNext, avatars, members, newcomers, deferred>>
  BY <1>1 DEF host
<1>3. FrameOrder'
  <2>1. up' # <<>> => up'[Len(up')] = scene
    <3>1. Append(up, scene)[Len(Append(up, scene))] = scene
      BY <1>0 DEF QueuesTyped, FrameTyped
    <3>2. QED
      BY <1>1, <3>1 DEF MatchInv, FrameOrder
  <2>2. QED
    BY <1>1, <1>2, <2>1 DEF MatchInv, FrameOrder
<1>4. SameScene'
  BY <1>1, <1>2 DEF MatchInv, SameScene, GoesTo, HostGoesTo, Current, Changes
<1>5. GhostsKnown'
  BY <1>1, <1>2 DEF MatchInv, GhostsKnown, IDs
<1>6. AllProvided'
  <2>1. CASE loadedPending
    <3>1. hMode = "running" => Owed'
      BY <1>0, <1>1, <2>1, ToldScene DEF MatchInv
    <3>2. QED
      BY <1>2, <3>1 DEF AllProvided
  <2>2. CASE ~loadedPending
    BY <1>1, <1>2, <2>2 DEF MatchInv, AllProvided, Owed, Provided, Changes, IDs
  <2>3. QED
    BY <2>1, <2>2
<1>7. KnowsItself'
  BY <1>1, <1>2 DEF MatchInv, KnowsItself, Foreign, IDs
<1>8. OwnersKnown'
  <2>1. \A id \in IDs : replica'[id] > 0 <=> id \in index
    BY <1>1 DEF ReplicaInv, Copies
  <2>2. owned' = owned \cup {id \in IDs : id = local /\ id \in index}
    BY <1>1, <2>1
  <2>3. 0 \notin IDs
    BY DEF ReplicaAssumption
  <2>4. owned' \subseteq index' /\ owned' \subseteq {Me} \cup Gone
        /\ (local' \in index' => local' \in owned')
    BY <1>1, <2>2, <2>3 DEF MatchInv, OwnersKnown
  <2>5. QED
    BY <1>1, <1>2, <2>4 DEF MatchInv, OwnersKnown, Gone, IDs
<1>9. QED
  BY <1>3, <1>4, <1>5, <1>6, <1>7, <1>8 DEF MatchInv

\* CheckAndPropagateSceneChange hands a scene on, or has the one the client is in
\* announced again.
LEMMA EndKeepsMatch ==
  ASSUME ReplicaAssumption, MatchInv, ReplicaInv', EndUpdate
  PROVE  MatchInv'
<1>1. /\ UNCHANGED <<host, down, up, unheard, local, scene, mode>>
      /\ UNCHANGED <<adopted, index, owned, buffered>>
      /\ stage = "update" /\ stage' = "frame"
  BY DEF EndUpdate
<1>2. UNCHANGED <<hScene, hMode, hNext, avatars, members, newcomers, deferred>>
  BY <1>1 DEF host
<1>3. next = NoScene
  BY <1>1 DEF MatchInv, FrameOrder
<1>4. \/ /\ change # NoScene /\ change' = NoScene
         /\ next' = IF change = scene THEN NoScene ELSE change
         /\ loadedPending' = (change = scene)
      \/ UNCHANGED <<change, next, loadedPending>>
  BY DEF EndUpdate
<1>5. FrameOrder'
  BY <1>1, <1>2, <1>3, <1>4 DEF MatchInv, FrameOrder
<1>6. SameScene'
  <2>1. Current' = Current
    BY <1>1, <1>3, <1>4 DEF Current
  <2>2. QED
    BY <1>1, <1>2, <2>1 DEF MatchInv, SameScene, GoesTo, HostGoesTo, Changes
<1>7. GhostsKnown'
  BY <1>1, <1>2 DEF MatchInv, GhostsKnown, IDs
<1>8. AllProvided'
  <2>1. Owed => Owed'
    BY <1>1, <1>2, <1>3, <1>4 DEF Owed, Changes
  <2>2. QED
    BY <1>1, <1>2, <2>1 DEF MatchInv, AllProvided, Provided, IDs
<1>9. KnowsItself'
  BY <1>1, <1>2 DEF MatchInv, KnowsItself, Foreign, IDs
<1>10. OwnersKnown'
  BY <1>1, <1>2 DEF MatchInv, OwnersKnown, Gone, IDs
<1>11. QED
  BY <1>5, <1>6, <1>7, <1>8, <1>9, <1>10 DEF MatchInv

-----------------------------------------------------------------------------
\* What taking a message from the channel leaves of it.
LEMMA TakenKeeps ==
  ASSUME QueuesTyped, down # <<>>, down' = Tail(down)
  PROVE  /\ \A B : Has(down, B) <=> Head(down) \in B \/ Has(down', B)
         /\ \A a, B : Final(down, a, B) =>
              Final(down', a, B) \/ (Head(down) = a /\ ~Has(down', B))
BY HasRest, FinalRest DEF QueuesTyped

\* What every handler leaves alone.
LEMMA ReceiveKeeps ==
  ASSUME ReplicaAssumption, MatchInv, QueuesTyped,
         NEW kind \in {"Assign", "Spawn", "Destroy", "SceneChange"}, Receive(kind)
  PROVE  /\ \A B : Has(down, B) <=> Head(down) \in B \/ Has(down', B)
         /\ \A a, B : Final(down, a, B) =>
              Final(down', a, B) \/ (Head(down) = a /\ ~Has(down', B))
         /\ Head(down) \in Commands /\ Head(down).cmd = kind
         /\ next = NoScene /\ Gone' = Gone
         /\ UNCHANGED <<scene, mode, stage, next, adopted, loadedPending, up,
                        hScene, hMode, hNext, avatars, deferred>>
<1>1. /\ down # <<>> /\ down' = Tail(down) /\ stage = "update"
      /\ UNCHANGED <<scene, mode, stage, next, adopted, loadedPending, host, up>>
  BY DEF Receive
<1>2. next = NoScene
  BY <1>1 DEF MatchInv, FrameOrder
<1>3. /\ UNCHANGED <<hScene, hMode, hNext, avatars, members, newcomers, deferred>>
      /\ Gone' = Gone
  BY <1>1 DEF host, Gone
<1>4. Head(down) \in Commands /\ Head(down).cmd = kind
  BY Received
<1>5. QED
  BY <1>1, <1>2, <1>3, <1>4, TakenKeeps

\* Any handler but that of SceneChange: what matters for the scene.
LEMMA SceneKept ==
  ASSUME MatchInv, QueuesTyped, Head(down) \notin Changes,
         \A B : Has(down, B) <=> Head(down) \in B \/ Has(down', B),
         \A a, B : Final(down, a, B) =>
              Final(down', a, B) \/ (Head(down) = a /\ ~Has(down', B)),
         \A s : SceneChange(s) = Head(down) => s \notin Scenes,
         UNCHANGED <<scene, mode, stage, next, adopted, loadedPending, up, change,
                     hScene, hMode, hNext, avatars, deferred>>,
         adopted => buffered' = buffered, HostTyped
  PROVE  FrameOrder' /\ SameScene' /\ (Owed' <=> Owed)
<1>1. FrameOrder'
  BY DEF MatchInv, FrameOrder
<1>2. Has(down', Changes) <=> Has(down, Changes)
  OBVIOUS
<1>3. SameScene'
  <2>1. HostGoesTo' = HostGoesTo /\ Current' = Current /\ HostGoesTo \in Scenes
    BY DEF HostGoesTo, Current, HostTyped, Leaving
  <2>2. Final(down, SceneChange(HostGoesTo), Changes)
          => Final(down', SceneChange(HostGoesTo), Changes)
    BY <2>1
  <2>3. \/ Final(down', SceneChange(HostGoesTo'), Changes)
        \/ ~Has(down', Changes) /\ Current' = HostGoesTo'
    BY <1>2, <2>1, <2>2 DEF MatchInv, SameScene, GoesTo
  <2>4. QED
    BY <2>3 DEF SameScene, GoesTo, Changes
<1>4. Owed' <=> Owed
  BY <1>2 DEF Owed, Changes
<1>5. QED
  BY <1>1, <1>3, <1>4

\* An assignment to another client's ID is one to a client that is gone.
LEMMA AssignKeepsMatch ==
  ASSUME ReplicaAssumption, MatchInv, ReplicaInv', HandleAssign
  PROVE  MatchInv'
<1> DEFINE m == Head(down)
           id == m.id
<1>0. HostTyped /\ QueuesTyped /\ ClientTyped
  BY Parts DEF MatchInv
<1>1. /\ \A B : Has(down, B) <=> m \in B \/ Has(down', B)
      /\ \A a, B : Final(down, a, B) => Final(down', a, B) \/ (m = a /\ ~Has(down', B))
      /\ m \in Commands /\ m.cmd = "Assign"
      /\ next = NoScene /\ Gone' = Gone
      /\ UNCHANGED <<scene, mode, stage, next, adopted, loadedPending, up,
                     hScene, hMode, hNext, avatars, deferred>>
  BY <1>0, ReceiveKeeps DEF HandleAssign
<1>2. /\ UNCHANGED <<change, replica, buffered, unheard>> /\ local' = id
      /\ \/ /\ adopted /\ replica[id] > 0
            /\ owned' = owned \cup {id} /\ index' = index \cup {id}
         \/ /\ ~(adopted /\ replica[id] > 0)
            /\ UNCHANGED <<owned, index>>
  BY DEF HandleAssign
<1>3. m = Assign(id) /\ id \in IDs
  BY <1>1, MessageIs, MessageParts
<1> HIDE DEF m, id
<1>4. \A x : m # Spawn(x) /\ m # Destroy(x) /\ m # SceneChange(x)
  BY <1>3, MessagesApart
<1>5. index' = index /\ (adopted /\ id \in index => owned' = owned \cup {id})
  <2>1. replica[id] = IF adopted /\ id \in index THEN 1 ELSE 0
    BY <1>0, <1>3 DEF ClientTyped, Copies
  <2>2. replica[id] > 0 <=> adopted /\ id \in index
    BY <2>1
  <2>3. QED
    BY <1>2, <2>2
<1>6. FrameOrder' /\ SameScene' /\ (Owed' <=> Owed)
  <2>1. m \notin Changes
    BY <1>4 DEF Changes
  <2>2. QED
    BY <1>0, <1>1, <1>2, <1>4, <2>1, SceneKept DEF m
<1>7. GhostsKnown'
  <2>1. \A x \in IDs : (Has(down', {Spawn(x)}) <=> Has(down, {Spawn(x)}))
                       /\ (Final(down, Destroy(x), {Spawn(x)}) => Final(down', Destroy(x), {Spawn(x)}))
    BY <1>1, <1>4
  <2>2. QED
    BY <1>1, <1>2, <1>5, <2>1 DEF MatchInv, GhostsKnown, IDs
<1>8. AllProvided'
  <2>1. \A x \in IDs : (Has(down', {Destroy(x)}) <=> Has(down, {Destroy(x)}))
                       /\ (Final(down, Spawn(x), {Destroy(x)}) => Final(down', Spawn(x), {Destroy(x)}))
    BY <1>1, <1>4
  <2>2. \A x \in IDs : Provided(x) => Provided(x)'
    BY <1>5, <2>1 DEF Provided
  <2>3. QED
    BY <1>0, <1>1, <1>6, <2>2 DEF MatchInv, AllProvided, HostTyped, IDs
<1>9. KnowsItself'
  <2>1. \/ Final(down', Assign(Me), Foreign)
        \/ local' = Me /\ ~Has(down', Foreign)
    <3>1. CASE Final(down, Assign(Me), Foreign)
      BY <1>1, <1>2, <1>3, <3>1, MessagesApart
    <3>2. CASE local = Me /\ ~Has(down, Foreign)
      <4>1. m \notin Foreign /\ ~Has(down', Foreign)
        BY <1>1, <3>2
      <4>2. id = Me
        BY <1>3, <4>1 DEF Foreign
      <4>3. QED
        BY <1>2, <4>1, <4>2
    <3>3. QED
      BY <3>1, <3>2 DEF MatchInv, KnowsItself
  <2>2. QED
    BY <2>1 DEF KnowsItself, Foreign, IDs
<1>10. OwnersKnown'
  <2>1. id \in {Me} \cup Gone
    <3>1. Has(down, {Assign(id)})
      BY <1>1, <1>3
    <3>2. QED
      BY <1>3, <3>1 DEF MatchInv, OwnersKnown
  <2>2. \A x \in IDs : Has(down', {Assign(x)}) => x \in {Me} \cup Gone'
    BY <1>1 DEF MatchInv, OwnersKnown
  <2>3. id \in index => id \in owned' /\ adopted
    BY <1>5 DEF MatchInv, OwnersKnown
  <2>4. owned' \subseteq index' /\ owned' \subseteq {Me} \cup Gone'
    BY <1>1, <1>2, <1>5, <2>1 DEF MatchInv, OwnersKnown
  <2>5. QED
    BY <1>1, <1>2, <1>5, <2>1, <2>2, <2>3, <2>4 DEF MatchInv, OwnersKnown, IDs
<1>11. QED
  BY <1>6, <1>7, <1>8, <1>9, <1>10 DEF MatchInv

\* A spawn is carried out, or kept for the scene that loads.
LEMMA SpawnKeepsMatch ==
  ASSUME ReplicaAssumption, MatchInv, ReplicaInv', HandleSpawn
  PROVE  MatchInv'
<1> DEFINE m == Head(down)
           id == m.id
<1>0. HostTyped /\ QueuesTyped /\ ClientTyped
  BY Parts DEF MatchInv
<1>1. /\ \A B : Has(down, B) <=> m \in B \/ Has(down', B)
      /\ \A a, B : Final(down, a, B) => Final(down', a, B) \/ (m = a /\ ~Has(down', B))
      /\ m \in Commands /\ m.cmd = "Spawn"
      /\ next = NoScene /\ Gone' = Gone
      /\ UNCHANGED <<scene, mode, stage, next, adopted, loadedPending, up,
                     hScene, hMode, hNext, avatars, deferred>>
  BY <1>0, ReceiveKeeps DEF HandleSpawn
<1>2. /\ UNCHANGED <<local, change, unheard>>
      /\ \/ /\ adopted
            /\ replica' = IF id \in index THEN replica ELSE Spawned({id})
            /\ index' = index \cup {id}
            /\ owned' = IF id = local /\ replica'[id] > replica[id]
                        THEN owned \cup {id} ELSE owned
            /\ UNCHANGED buffered
         \/ /\ ~adopted /\ buffered' = Append(buffered, id)
            /\ UNCHANGED <<replica, index, owned>>
  BY DEF HandleSpawn
<1>3. m = Spawn(id) /\ id \in IDs
  BY <1>1, MessageIs, MessageParts
<1> HIDE DEF m, id
<1>4. \A x : m # Assign(x) /\ m # Destroy(x) /\ m # SceneChange(x)
  BY <1>3, MessagesApart
<1>5. FrameOrder' /\ SameScene' /\ (Owed' <=> Owed)
  <2>1. m \notin Changes
    BY <1>4 DEF Changes
  <2>2. QED
    BY <1>0, <1>1, <1>2, <1>4, <2>1, SceneKept DEF m
<1>6. index \subseteq index' /\ index' \subseteq index \cup {id} /\ (adopted => id \in index')
  BY <1>2
<1>7. ToSet(buffered') \subseteq ToSet(buffered) \cup {id}
  <2>1. buffered \in Seq(IDs)
    BY <1>0 DEF ClientTyped, EntitiesTyped
  <2>2. CASE buffered' = buffered
    BY <2>2
  <2>3. CASE buffered' = Append(buffered, id)
    <3>1. /\ Len(buffered') = Len(buffered) + 1 /\ Len(buffered) \in Nat
          /\ \A k \in 1 .. Len(buffered) + 1 :
               buffered'[k] = IF k <= Len(buffered) THEN buffered[k] ELSE id
      BY <1>3, <2>1, <2>3
    <3>2. QED
      BY <3>1 DEF ToSet
  <2>4. QED
    BY <1>2, <2>2, <2>3
<1>8. GhostsKnown'
  <2>1. SUFFICES ASSUME NEW x \in IDs,
                        x \in index' \/ x \in ToSet(buffered') \/ Has(down', {Spawn(x)})
                 PROVE  x \in avatars' \cup unheard' \/ Final(down', Destroy(x), {Spawn(x)})
    BY DEF GhostsKnown, IDs
  <2>2. x \in index \/ x \in ToSet(buffered) \/ Has(down, {Spawn(x)})
    <3>1. CASE x = id
      BY <1>1, <1>3, <3>1
    <3>2. CASE x # id
      BY <1>1, <1>6, <1>7, <2>1, <3>2
    <3>3. QED
      BY <3>1, <3>2
  <2>3. x \in avatars \cup unheard \/ Final(down, Destroy(x), {Spawn(x)})
    BY <2>2 DEF MatchInv, GhostsKnown
  <2>4. QED
    BY <1>1, <1>2, <1>4, <2>3
<1>9. AllProvided'
  <2>1. SUFFICES ASSUME hMode' = "running", Me \in avatars', ~Owed', NEW x \in avatars'
                 PROVE  \/ Final(down', Spawn(x), {Destroy(x)})
                        \/ x \in index' /\ ~Has(down', {Destroy(x)})
    BY DEF AllProvided, Provided, IDs
  <2>2. adopted /\ Provided(x)
    BY <1>1, <1>5, <2>1 DEF MatchInv, AllProvided, Owed
  <2>3. CASE Final(down, Spawn(x), {Destroy(x)})
    <3>1. Final(down', Spawn(x), {Destroy(x)}) \/ (m = Spawn(x) /\ ~Has(down', {Destroy(x)}))
      BY <1>1, <2>3
    <3>2. m = Spawn(x) => x \in index'
      BY <1>3, <1>6, <2>2, MessagesApart
    <3>3. QED
      BY <3>1, <3>2
  <2>4. CASE x \in index /\ ~Has(down, {Destroy(x)})
    BY <1>1, <1>6, <2>4
  <2>5. QED
    BY <2>2, <2>3, <2>4 DEF Provided
<1>10. KnowsItself'
  <2>1. \/ Final(down', Assign(Me), Foreign)
        \/ local' = Me /\ ~Has(down', Foreign)
    BY <1>1, <1>2, <1>4 DEF MatchInv, KnowsItself
  <2>2. QED
    BY <2>1 DEF KnowsItself, Foreign, IDs
<1>11. OwnersKnown'
  <2>1. \A x \in IDs : Has(down', {Assign(x)}) => x \in {Me} \cup Gone'
    BY <1>1 DEF MatchInv, OwnersKnown
  <2>2. CASE ~adopted
    BY <1>1, <1>2, <2>1, <2>2 DEF MatchInv, OwnersKnown, IDs
  <2>3. CASE adopted
    <3>1. /\ replica' = IF id \in index THEN replica ELSE Spawned({id})
          /\ index' = index \cup {id}
          /\ owned' = IF id = local /\ replica'[id] > replica[id]
                      THEN owned \cup {id} ELSE owned
      BY <1>2, <2>3
    <3>2. id \notin index => replica[id] = 0 /\ replica'[id] = 1
      BY <1>0, <1>3, <3>1 DEF ClientTyped, Copies, Spawned
    <3>3. local \in index' => local \in owned'
      BY <3>1, <3>2 DEF MatchInv, OwnersKnown
    <3>4. owned' \subseteq index' /\ owned' \subseteq {Me} \cup Gone'
      <4>1. id = local => id \in {Me} \cup Gone
        BY <1>3 DEF MatchInv, OwnersKnown, ReplicaAssumption
      <4>2. QED
        BY <1>1, <3>1, <4>1 DEF MatchInv, OwnersKnown
    <3>5. local' \in {0, Me} \cup Gone'
      BY <1>1, <1>2 DEF MatchInv, OwnersKnown
    <3>6. QED
      BY <1>1, <1>2, <2>1, <2>3, <3>3, <3>4, <3>5 DEF OwnersKnown, IDs
  <2>4. QED
    BY <2>2, <2>3
<1>12. QED
  BY <1>5, <1>8, <1>9, <1>10, <1>11 DEF MatchInv

\* A removal is carried out, or the client is never told of it.
LEMMA DestroyKeepsMatch ==
  ASSUME ReplicaAssumption, MatchInv, ReplicaInv', HandleDestroy
  PROVE  MatchInv'
<1> DEFINE m == Head(down)
           id == m.id
<1>0. HostTyped /\ QueuesTyped /\ ClientTyped
  BY Parts DEF MatchInv
<1>1. /\ \A B : Has(down, B) <=> m \in B \/ Has(down', B)
      /\ \A a, B : Final(down, a, B) => Final(down', a, B) \/ (m = a /\ ~Has(down', B))
      /\ m \in Commands /\ m.cmd = "Destroy"
      /\ next = NoScene /\ Gone' = Gone
      /\ UNCHANGED <<scene, mode, stage, next, adopted, loadedPending, up,
                     hScene, hMode, hNext, avatars, deferred>>
  BY <1>0, ReceiveKeeps DEF HandleDestroy
<1>2. /\ UNCHANGED <<local, change, buffered>>
      /\ \/ /\ adopted /\ index' = index \ {id} /\ owned' = owned \ {id}
            /\ UNCHANGED unheard
         \/ /\ ~adopted /\ unheard' = unheard \cup {id}
            /\ UNCHANGED <<index, owned>>
  BY DEF HandleDestroy
<1>3. m = Destroy(id) /\ id \in IDs
  BY <1>1, MessageIs, MessageParts
<1> HIDE DEF m, id
<1>4. \A x : m # Assign(x) /\ m # Spawn(x) /\ m # SceneChange(x)
  BY <1>3, MessagesApart
<1>5. FrameOrder' /\ SameScene' /\ (Owed' <=> Owed)
  <2>1. m \notin Changes
    BY <1>4 DEF Changes
  <2>2. QED
    BY <1>0, <1>1, <1>2, <1>4, <2>1, SceneKept DEF m
<1>6. GhostsKnown'
  <2>1. SUFFICES ASSUME NEW x \in IDs,
                        x \in index' \/ x \in ToSet(buffered') \/ Has(down', {Spawn(x)}),
                        x \notin avatars' \cup unheard'
                 PROVE  Final(down', Destroy(x), {Spawn(x)})
    BY DEF GhostsKnown, IDs
  <2>2. x \notin avatars \cup unheard
    BY <1>1, <1>2, <2>1
  <2>3. Final(down, Destroy(x), {Spawn(x)})
    BY <1>1, <1>2, <2>1, <2>2 DEF MatchInv, GhostsKnown
  <2>4. CASE m = Destroy(x)
    <3>1. x = id
      BY <1>3, <2>4, MessagesApart
    <3>2. adopted /\ x \notin index'
      BY <1>2, <2>1, <3>1
    <3>3. ToSet(buffered') = {}
      BY <1>2, <3>2 DEF MatchInv, FrameOrder, ToSet
    <3>4. Has(down', {Spawn(x)})
      BY <2>1, <3>2, <3>3
    <3>5. QED
      BY <1>1, <2>3, <3>4
  <2>5. CASE m # Destroy(x)
    BY <1>1, <2>3, <2>5
  <2>6. QED
    BY <2>4, <2>5
<1>7. AllProvided'
  <2>1. SUFFICES ASSUME hMode' = "running", Me \in avatars', ~Owed', NEW x \in avatars'
                 PROVE  \/ Final(down', Spawn(x), {Destroy(x)})
                        \/ x \in index' /\ ~Has(down', {Destroy(x)})
    BY DEF AllProvided, Provided, IDs
  <2>2. Provided(x)
    BY <1>1, <1>5, <2>1 DEF MatchInv, AllProvided
  <2>3. CASE Final(down, Spawn(x), {Destroy(x)})
    BY <1>1, <1>4, <2>3
  <2>4. CASE x \in index /\ ~Has(down, {Destroy(x)})
    <3>1. m # Destroy(x) /\ ~Has(down', {Destroy(x)})
      BY <1>1, <2>4
    <3>2. x # id
      BY <1>3, <3>1
    <3>3. QED
      BY <1>2, <2>4, <3>1, <3>2
  <2>5. QED
    BY <2>2, <2>3, <2>4 DEF Provided
<1>8. KnowsItself'
  <2>1. \/ Final(down', Assign(Me), Foreign)
        \/ local' = Me /\ ~Has(down', Foreign)
    BY <1>1, <1>2, <1>4 DEF MatchInv, KnowsItself
  <2>2. QED
    BY <2>1 DEF KnowsItself, Foreign, IDs
<1>9. OwnersKnown'
  <2>1. \A x \in IDs : Has(down', {Assign(x)}) => x \in {Me} \cup Gone'
    BY <1>1 DEF MatchInv, OwnersKnown
  <2>2. QED
    BY <1>1, <1>2, <2>1 DEF MatchInv, OwnersKnown, IDs
<1>10. QED
  BY <1>5, <1>6, <1>7, <1>8, <1>9 DEF MatchInv

\* The scene of a SceneChange counts until it is replaced by the next one.
LEMMA ChangeKeepsMatch ==
  ASSUME ReplicaAssumption, MatchInv, ReplicaInv', HandleSceneChange
  PROVE  MatchInv'
<1> DEFINE m == Head(down)
           s == m.scene
<1>0. HostTyped /\ QueuesTyped /\ ClientTyped
  BY Parts DEF MatchInv
<1>1. /\ \A B : Has(down, B) <=> m \in B \/ Has(down', B)
      /\ \A a, B : Final(down, a, B) => Final(down', a, B) \/ (m = a /\ ~Has(down', B))
      /\ m \in Commands /\ m.cmd = "SceneChange"
      /\ next = NoScene /\ Gone' = Gone
      /\ UNCHANGED <<scene, mode, stage, next, adopted, loadedPending, up,
                     hScene, hMode, hNext, avatars, deferred>>
  BY <1>0, ReceiveKeeps DEF HandleSceneChange
<1>2. /\ change' = s
      /\ UNCHANGED <<index, owned, local, buffered, unheard>>
  BY DEF HandleSceneChange
<1>3. m = SceneChange(s) /\ s \in Scenes /\ s # NoScene
  BY <1>1, MessageIs, MessageParts DEF ReplicaAssumption
<1> HIDE DEF m, s
<1>4. \A x : m # Assign(x) /\ m # Spawn(x) /\ m # Destroy(x)
  BY <1>3, MessagesApart
<1>5. FrameOrder'
  BY <1>1, <1>2 DEF MatchInv, FrameOrder
<1>6. SameScene'
  <2>1. HostGoesTo' = HostGoesTo /\ Current' = s
    BY <1>1, <1>2, <1>3 DEF HostGoesTo, Current
  <2>2. m \in Changes
    BY <1>3 DEF Changes
  <2>3. Final(down, SceneChange(HostGoesTo), Changes)
    BY <1>1, <2>2 DEF MatchInv, SameScene, GoesTo
  <2>4. \/ Final(down', SceneChange(HostGoesTo), Changes)
        \/ SceneChange(s) = SceneChange(HostGoesTo) /\ ~Has(down', Changes)
    BY <1>1, <1>3, <2>3
  <2>5. \/ Final(down', SceneChange(HostGoesTo'), Changes)
        \/ ~Has(down', Changes) /\ Current' = HostGoesTo'
    BY <2>1, <2>4, MessagesApart
  <2>6. QED
    BY <2>5 DEF SameScene, GoesTo, Changes
<1>7. GhostsKnown'
  <2>1. \A x \in IDs : (Has(down', {Spawn(x)}) <=> Has(down, {Spawn(x)}))
                       /\ (Final(down, Destroy(x), {Spawn(x)}) => Final(down', Destroy(x), {Spawn(x)}))
    BY <1>1, <1>4
  <2>2. QED
    BY <1>1, <1>2, <2>1 DEF MatchInv, GhostsKnown, IDs
<1>8. AllProvided'
  <2>1. Owed'
    BY <1>2, <1>3 DEF Owed
  <2>2. QED
    BY <2>1 DEF AllProvided
<1>9. KnowsItself'
  <2>1. \/ Final(down', Assign(Me), Foreign)
        \/ local' = Me /\ ~Has(down', Foreign)
    BY <1>1, <1>2, <1>4 DEF MatchInv, KnowsItself
  <2>2. QED
    BY <2>1 DEF KnowsItself, Foreign, IDs
<1>10. OwnersKnown'
  <2>1. \A x \in IDs : Has(down', {Assign(x)}) => x \in {Me} \cup Gone'
    BY <1>1 DEF MatchInv, OwnersKnown
  <2>2. QED
    BY <1>1, <1>2, <2>1 DEF MatchInv, OwnersKnown, IDs
<1>11. QED
  BY <1>5, <1>6, <1>7, <1>8, <1>9, <1>10 DEF MatchInv

-----------------------------------------------------------------------------
\* Every step.
LEMMA MatchStep ==
  ASSUME ReplicaAssumption, MatchInv, [Next]_vars
  PROVE  MatchInv'
<1>1. ReplicaInv'
  BY ReplicaStep DEF MatchInv
<1>2. CASE \/ HostStep
           \/ \E id \in IDs : Join(id) \/ Leave(id) \/ WorldState(id)
           \/ \E s \in Scenes : ChangeScene(s)
  BY <1>1, <1>2, HostKeepsMatch
<1>3. CASE Frame \/ FinishLoading \/ HandleState
  BY <1>1, <1>3, QuietKeepsMatch, LoadKeepsMatch, AdoptKeepsMatch, PollKeepsMatch, EndKeepsMatch
  DEF Frame
<1>4. CASE Handle
  BY <1>1, <1>4, AssignKeepsMatch, SpawnKeepsMatch, DestroyKeepsMatch, ChangeKeepsMatch
  DEF Handle
<1>5. CASE UNCHANGED vars
  <2>1. /\ UNCHANGED <<hScene, hMode, hNext, avatars, members, newcomers, deferred>>
        /\ UNCHANGED <<scene, mode, stage, next, change, adopted, index, owned, local,
                       buffered, loadedPending, down, up, unheard>>
    BY <1>5 DEF vars, host, client
  <2>2. FrameOrder'
    BY <2>1 DEF MatchInv, FrameOrder
  <2>3. SameScene'
    BY <2>1 DEF MatchInv, SameScene, GoesTo, HostGoesTo, Current, Changes
  <2>4. GhostsKnown'
    BY <2>1 DEF MatchInv, GhostsKnown, IDs
  <2>5. AllProvided'
    BY <2>1 DEF MatchInv, AllProvided, Owed, Provided, Changes, IDs
  <2>6. KnowsItself'
    BY <2>1 DEF MatchInv, KnowsItself, Foreign, IDs
  <2>7. OwnersKnown'
    BY <2>1 DEF MatchInv, OwnersKnown, Gone, IDs
  <2>8. QED
    BY <1>1, <2>2, <2>3, <2>4, <2>5, <2>6, <2>7 DEF MatchInv
<1>6. QED
  BY <1>2, <1>3, <1>4, <1>5 DEF Next

\* What the end of a farewell can contain: a removal comes last, a scene first.
LEMMA FarewellHolds ==
  ASSUME ReplicaAssumption, hScene \in Scenes, NEW p \in Others, NEW n \in 1 .. 5
  PROVE  LET f == SubSeq(Farewell(p), n, 5)
         IN  /\ f \in Seq(Commands)
             /\ \A id \in IDs : Has(f, {Assign(id)}) => id = p
             /\ \A id \in IDs : Has(f, {Spawn(id)}) => id = HostID \/ Final(f, Destroy(id), {Spawn(id)})
             /\ ~Has(f, Changes) \/ Final(f, SceneChange(hScene), Changes)
<1> DEFINE w == Farewell(p)
           f == SubSeq(w, n, 5)
<1>1. /\ w = <<SceneChange(hScene), Assign(p), Spawn(HostID), Spawn(p), Destroy(p)>>
      /\ w \in Seq(Commands) /\ Len(w) = 5
  <2>1. /\ SceneChange(hScene) \in Commands /\ Assign(p) \in Commands
        /\ Spawn(HostID) \in Commands /\ Spawn(p) \in Commands /\ Destroy(p) \in Commands
    BY MessageTypes DEF IDs
  <2>2. QED
    BY <2>1, BatchTypes DEF Farewell
<1>2. /\ w[1] = SceneChange(hScene) /\ w[2] = Assign(p) /\ w[3] = Spawn(HostID)
      /\ w[4] = Spawn(p) /\ w[5] = Destroy(p)
  BY <1>1
<1> HIDE DEF w
<1>3. f \in Seq(Commands)
  BY <1>1, RestType
<1>4. Len(f) = 6 - n /\ \A k \in 1 .. 6 - n : f[k] = w[k + n - 1]
  BY <1>1
<1> HIDE DEF f
<1>5. \A k \in 1 .. 6 - n : k + n - 1 \in {1, 2, 3, 4, 5} /\ (k + n - 1 = 1 => k = 1)
                           /\ (k + n - 1 = 5 => k = 6 - n)
  OBVIOUS
<1>6. \A k \in 1 .. Len(f) : f[k] \in {w[1], w[2], w[3], w[4], w[5]}
  BY <1>4, <1>5
<1>7. \A id \in IDs : Has(f, {Assign(id)}) => id = p
  BY <1>2, <1>6, MessagesApart DEF Has
<1>8. f[Len(f)] = Destroy(p) /\ f # <<>>
  BY <1>2, <1>3, <1>4
<1>9. ASSUME NEW id \in IDs, Has(f, {Spawn(id)})
      PROVE  id = HostID \/ Final(f, Destroy(id), {Spawn(id)})
  <2>1. id = HostID \/ id = p
    BY <1>2, <1>6, <1>9, MessagesApart DEF Has
  <2>2. Final(f, Destroy(p), {Spawn(p)})
    BY <1>3, <1>8, FinalLast
  <2>3. QED
    BY <2>1, <2>2
<1>10. ASSUME Has(f, Changes)
       PROVE  Final(f, SceneChange(hScene), Changes)
  <2>1. w[2] \notin Changes /\ w[3] \notin Changes /\ w[4] \notin Changes /\ w[5] \notin Changes
    BY <1>2, MessagesApart DEF Changes
  <2>2. \A k \in 1 .. Len(f) : f[k] \in Changes => k + n - 1 = 1
    BY <1>4, <1>5, <2>1
  <2>3. n = 1 /\ \A k \in 1 .. Len(f) : f[k] \in Changes => k = 1
    BY <1>4, <1>10, <2>2 DEF Has
  <2>4. f[1] = SceneChange(hScene) /\ 1 \in 1 .. Len(f)
    BY <1>2, <1>4, <2>3
  <2>5. \A k \in 2 .. Len(f) : f[k] \notin Changes
    BY <1>4, <2>3
  <2>6. QED
    BY <2>4, <2>5 DEF Final
<1>11. QED
  BY <1>3, <1>7, <1>9, <1>10 DEF f, w

\* The initial states: whatever the client finds in the channel of one that had its
\* index, its own assignment follows.
LEMMA MatchInit ==
  ASSUME ReplicaAssumption, Init
  PROVE  MatchInv
<1>1. ReplicaInv
  BY ReplicaInit
<1>2. /\ hMode = "running" /\ hNext = NoScene /\ avatars = {HostID} /\ members = {Me}
      /\ deferred = NoScene /\ up = <<>> /\ scene = hScene /\ hScene \in Scenes
      /\ stage = "frame" /\ next = NoScene /\ change = NoScene /\ adopted = FALSE
      /\ index = {} /\ buffered = <<>> /\ owned = {} /\ local = 0 /\ unheard = {}
      /\ InitMessages
  BY DEF Init, ReplicaAssumption
<1> DEFINE Before(f) ==
      /\ f \in Seq(Commands) /\ down = f \o <<Assign(Me)>>
      /\ \A id \in IDs : Has(f, {Assign(id)}) => id \in Others /\ newcomers = Others \ {id}
      /\ \A id \in IDs : Has(f, {Spawn(id)}) => id = HostID \/ Final(f, Destroy(id), {Spawn(id)})
      /\ ~Has(f, Changes) \/ Final(f, SceneChange(hScene), Changes)
<1>3. \E f : Before(f)
  <2>1. Assign(Me) \in Commands /\ \A p \in Others : Assign(p) \in Commands
    BY MessageTypes DEF IDs
  <2>2. CASE down = <<Assign(Me)>>
    <3>1. <<>> \in Seq(Commands) /\ down = <<>> \o <<Assign(Me)>>
      BY <2>1, <2>2
    <3>2. \A B : ~Has(<<>>, B)
      BY HasNone
    <3>3. Before(<<>>)
      BY <3>1, <3>2
    <3>4. QED
      BY <3>3
  <2>3. ASSUME NEW p \in Others, newcomers = Others \ {p}, down = <<Assign(p), Assign(Me)>>
        PROVE  \E f : Before(f)
    <3>1. <<Assign(p)>> \in Seq(Commands) /\ down = <<Assign(p)>> \o <<Assign(Me)>>
      BY <2>1, <2>3
    <3>2. \A B : Has(<<Assign(p)>>, B) <=> Assign(p) \in B
      BY HasOne
    <3>3. \A id \in IDs : /\ Has(<<Assign(p)>>, {Assign(id)}) => id = p
                          /\ ~Has(<<Assign(p)>>, {Spawn(id)})
      BY <3>2, MessagesApart
    <3>4. ~Has(<<Assign(p)>>, Changes)
      BY <3>2, MessagesApart DEF Changes
    <3>5. Before(<<Assign(p)>>)
      BY <2>3, <3>1, <3>3, <3>4
    <3>6. QED
      BY <3>5
  <2>4. ASSUME NEW p \in Others, newcomers = Others \ {p}, NEW n \in 1 .. 5,
               down = SubSeq(Farewell(p), n, 5) \o <<Assign(Me)>>
        PROVE  \E f : Before(f)
    <3> DEFINE f == SubSeq(Farewell(p), n, 5)
    <3>1. /\ f \in Seq(Commands)
          /\ \A id \in IDs : Has(f, {Assign(id)}) => id = p
          /\ \A id \in IDs : Has(f, {Spawn(id)}) => id = HostID \/ Final(f, Destroy(id), {Spawn(id)})
          /\ ~Has(f, Changes) \/ Final(f, SceneChange(hScene), Changes)
      BY <1>2, FarewellHolds
    <3>2. down = f \o <<Assign(Me)>>
      BY <2>4
    <3> HIDE DEF f
    <3>3. Before(f)
      BY <2>4, <3>1, <3>2
    <3>4. QED
      BY <3>3
  <2>5. QED
    BY <1>2, <2>2, <2>3, <2>4 DEF InitMessages
<1>4. PICK f : Before(f)
  BY <1>3
<1>5. <<Assign(Me)>> \in Seq(Commands)
  BY MessageTypes DEF IDs
<1>6. \A B : Has(down, B) <=> Has(f, B) \/ Assign(Me) \in B
  BY <1>4, <1>5, HasBoth, HasOne
<1>7. \A a, B : Final(f, a, B) /\ Assign(Me) \notin B => Final(down, a, B)
  BY <1>4, <1>5, FinalStays, HasOne
<1>8. FrameOrder
  BY <1>2 DEF FrameOrder
<1>9. SameScene
  <2>1. Assign(Me) \notin Changes
    BY MessagesApart DEF Changes
  <2>2. \/ Final(down, SceneChange(hScene), Changes)
        \/ ~Has(down, Changes)
    BY <1>4, <1>6, <1>7, <2>1
  <2>3. HostGoesTo = hScene /\ Current = hScene
    BY <1>2 DEF HostGoesTo, Current
  <2>4. QED
    BY <2>2, <2>3 DEF SameScene, GoesTo
<1>10. GhostsKnown
  <2>1. SUFFICES ASSUME NEW id \in IDs,
                        id \in index \/ id \in ToSet(buffered) \/ Has(down, {Spawn(id)})
                 PROVE  id \in avatars \cup unheard \/ Final(down, Destroy(id), {Spawn(id)})
    BY DEF GhostsKnown
  <2>2. ToSet(buffered) = {}
    BY <1>2 DEF ToSet
  <2>3. Assign(Me) \notin {Spawn(id)}
    BY MessagesApart
  <2>4. Has(f, {Spawn(id)})
    BY <1>2, <1>6, <2>1, <2>2, <2>3
  <2>5. QED
    BY <1>2, <1>4, <1>7, <2>3, <2>4
<1>11. AllProvided
  BY <1>2 DEF AllProvided, ReplicaAssumption
<1>12. KnowsItself
  <2>1. Final(<<Assign(Me)>>, Assign(Me), Foreign)
    BY HasOne
  <2>2. QED
    BY <1>4, <1>5, <2>1, FinalSent DEF KnowsItself
<1>13. OwnersKnown
  <2>1. ASSUME NEW id \in IDs, Has(down, {Assign(id)})
        PROVE  id \in {Me} \cup Gone
    <3>1. Has(f, {Assign(id)}) \/ Assign(Me) = Assign(id)
      BY <1>6, <2>1
    <3>2. CASE Has(f, {Assign(id)})
      BY <1>2, <1>4, <3>2 DEF Gone, ReplicaAssumption
    <3>3. QED
      BY <3>1, <3>2, MessagesApart
  <2>2. QED
    BY <1>2, <2>1 DEF OwnersKnown
<1>14. QED
  BY <1>1, <1>8, <1>9, <1>10, <1>11, <1>12, <1>13 DEF MatchInv

-----------------------------------------------------------------------------
\* What is under way, and what the client has of it, always fits the host's scene.
THEOREM MatchInvariance == Spec => []MatchInv
<1>1. Init => MatchInv
  BY ReplicaAssumption, MatchInit
<1>2. MatchInv /\ [Next]_vars => MatchInv'
  BY ReplicaAssumption, MatchStep
<1>3. QED
  BY <1>1, <1>2, PTL DEF Spec

\* With nothing under way: the client has what the host has, and knows which is its
\* own.
LEMMA SettledMatch ==
  ASSUME ReplicaAssumption, MatchInv, Settled
  PROVE  /\ avatars \subseteq index /\ index \subseteq avatars \cup unheard
         /\ Held = index /\ local = Me
<1>1. \A a, B : ~Has(down, B) /\ ~Final(down, a, B)
  BY HasNone DEF Settled
<1>2. ~Owed
  BY <1>1 DEF Settled, Owed
<1>3. \A id \in avatars : Provided(id)
  BY <1>2 DEF Settled, MatchInv, AllProvided
<1>4. avatars \subseteq index
  BY <1>1, <1>3 DEF Provided
<1>5. index \subseteq avatars \cup unheard
  BY <1>1 DEF MatchInv, GhostsKnown, ReplicaInv, TypeOK
<1>6. Held = index
  <2>1. adopted /\ index \subseteq IDs /\ Copies
    BY DEF Settled, MatchInv, ReplicaInv, TypeOK
  <2>2. \A id \in IDs : replica[id] > 0 <=> id \in index
    BY <2>1 DEF Copies
  <2>3. QED
    BY <2>1, <2>2 DEF Held
<1>7. local = Me
  BY <1>1 DEF MatchInv, KnowsItself
<1>8. QED
  BY <1>4, <1>5, <1>6, <1>7

\* Whatever was sent to an old scene, buffered or deferred while either side was
\* loading, the client ends up with the avatars of the host's scene.
THEOREM Matches == Spec => []ReplicaMatches
<1>1. MatchInv => ReplicaMatches
  BY ReplicaAssumption, SettledMatch DEF ReplicaMatches
<1>2. QED
  BY <1>1, MatchInvariance, PTL

\* Whoever had the client's index before, the client ends up with its own avatar to
\* control and with no other one that it was told the removal of.
THEOREM OwnsOne == Spec => []OwnsItsAvatar
<1>1. ASSUME MatchInv, Settled
      PROVE  Me \in owned /\ owned \subseteq {Me} \cup unheard
  <2>1. /\ avatars \subseteq index /\ index \subseteq avatars \cup unheard
        /\ local = Me /\ Me \in avatars
    BY <1>1, ReplicaAssumption, SettledMatch DEF Settled
  <2>2. Me \in owned
    BY <1>1, <2>1 DEF MatchInv, OwnersKnown
  <2>3. owned \subseteq index /\ owned \subseteq {Me} \cup Gone /\ Gone \cap avatars = {}
    BY <1>1 DEF MatchInv, OwnersKnown, Gone
  <2>4. QED
    BY <2>1, <2>2, <2>3
<1>2. MatchInv => OwnsItsAvatar
  BY <1>1 DEF OwnsItsAvatar
<1>3. QED
  BY <1>2, MatchInvariance, PTL
=============================================================================
