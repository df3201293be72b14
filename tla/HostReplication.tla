-------------------------- MODULE HostReplication ---------------------------
(***************************************************************************)
(* The host's half of NetworkSystem on top of PeerSession: which avatar    *)
(* each client drives, and which network ID and entities it is told of.    *)
(*                                                                         *)
(* A frame of a running scene is PollNetwork: it answers deferred          *)
(* SceneLoaded messages, visits the client indices once to give each       *)
(* connected player an avatar, once more to remove the avatars of those    *)
(* who left, and then runs Network::Update.  While a scene is loading only *)
(* Network::Update runs.  The tables of NetworkSystem are keyed by client  *)
(* index; IsClientConnected reads m_PeerMap, which the network thread      *)
(* changes between any two of these steps.                                 *)
(*                                                                         *)
(* The scene is a gameplay scene with a valid player prefab, clients load  *)
(* the scene the host is on, and the host's own avatar is left implicit.   *)
(***************************************************************************)
EXTENDS PeerSession

CONSTANT
  PacketKinds   \* the bound on what is sent: the packets of each client index

Packets == {"Input", "SceneLoaded"}

ASSUME ReplicationAssumption == PacketKinds \in [Indices -> SUBSET Packets]

VARIABLES
  playing,    \* the scene runs, as opposed to being loaded
  stage,      \* where the game thread is in PollNetwork, before Network::Update
  cursor,     \* the index PollNetwork visits next
  avatar,     \* m_PeerToAvatar: the network ID of the avatar, 0 for no entry
  peerID,     \* m_PeerToNetworkID, 0 for no entry
  entities,   \* the network IDs carried by avatars in the scene
  deferred,   \* m_DeferredSceneLoaded
  installed,  \* the transport's packet callback is set
  cbRole      \* m_CallbackRole

scene == <<playing, stage, cursor>>
tables == <<avatar, peerID, entities, deferred>>
callback == <<installed, cbRole>>
rvars == <<vars, scene, tables, callback>>

Spawn(i, id) == [cmd |-> "EntitySpawn", peer |-> i, id |-> id]
Destroy(id) == [cmd |-> "EntityDestroy", id |-> id]

NoTables ==
  /\ avatar' = NoIDs /\ peerID' = NoIDs
  /\ entities' = {} /\ deferred' = {}

RInit ==
  /\ Init
  /\ playing \in BOOLEAN /\ stage = "start" /\ cursor = 0
  /\ avatar = NoIDs /\ peerID = NoIDs /\ entities = {} /\ deferred = {}
  /\ installed = FALSE /\ cbRole = "Offline"

-----------------------------------------------------------------------------
(* The network thread.                                                     *)

\* What clients make of EntitySpawn and EntityDestroy is not modelled here.
TransmitEntity ==
  /\ sending # <<>> /\ Head(sending).cmd \in {"EntitySpawn", "EntityDestroy"}
  /\ sending' = Tail(sending)
  /\ UNCHANGED <<role, peers, fresh, outbound, inbound, phase, batch, activity,
                 roster, client, bounds, scene, tables, callback>>

-----------------------------------------------------------------------------
(* ResyncClientEntities.                                                   *)

KnownID(i) == IF peerID[i] # 0 THEN peerID[i] ELSE ids[i]

\* PlayerAssign first, then every entity of the scene and the player list.
Resync(i) ==
  IF KnownID(i) = 0 THEN <<>>
  ELSE <<Assign(i, KnownID(i)), Spawn(i, HostID)>>
         \o SetToSeq({Spawn(i, e) : e \in entities})
         \o <<PlayerList(list)>>

-----------------------------------------------------------------------------
(* PollNetwork.                                                            *)

InPoll(s) ==
  /\ phase = "frame" /\ role = "Host" /\ playing
  /\ stage = s
  /\ UNCHANGED <<role, peers, fresh, sending, inbound, phase, batch, activity,
                 roster, client, bounds, playing>>

\* InstallPacketCallback compares the role with that of its last call.
InstallPacketCallback ==
  IF cbRole = role THEN UNCHANGED callback
  ELSE installed' = TRUE /\ cbRole' = role

\* The packet callback is installed, and the deferred SceneLoaded messages are
\* answered, except those of clients that have no ID yet.
StartPoll ==
  /\ InPoll("start")
  /\ Len(outbound) + Len(sending) <= MaxBacklog
  /\ InstallPacketCallback
  /\ deferred' = {i \in deferred : KnownID(i) = 0}
  /\ outbound' = outbound \o FlattenSeq([n \in 1..Cardinality(deferred) |->
                                           Resync(SetToSeq(deferred)[n])])
  /\ stage' = "join" /\ cursor' = 0
  /\ UNCHANGED <<avatar, peerID, entities>>

\* Slip: the loop runs to MaxClients inclusive.
Advance_Inclusive(next) ==
  IF cursor < MaxClients
  THEN cursor' = cursor + 1 /\ UNCHANGED stage
  ELSE cursor' = 0 /\ stage' = next

Advance(next) ==
  IF cursor + 1 < MaxClients
  THEN cursor' = cursor + 1 /\ UNCHANGED stage
  ELSE cursor' = 0 /\ stage' = next

\* The messages that introduce the avatar of client i, an avatar of each other
\* client to i, and the avatar of i to each other client.  The SceneChange that goes
\* ahead is left to ClientReplica: here a client reports the scene when it likes.
Introduce(i) ==
  LET others == SetToSeq({e \in Indices \ {i} : avatar[e] # 0})
  IN <<Assign(i, ids[i])>>
       \o FlattenSeq([n \in DOMAIN others |->
            <<Spawn(i, peerID[others[n]]), Spawn(others[n], ids[i])>>])
       \o <<Spawn(i, HostID), Spawn(i, ids[i])>>

\* Slip: an ID already registered for the index is kept.
VisitJoin_KeepID ==
  /\ InPoll("join") /\ Advance("reap")
  /\ IF cursor \in Connected /\ avatar[cursor] = 0 /\ ids[cursor] # 0
     THEN /\ avatar' = [avatar EXCEPT ![cursor] = ids[cursor]]
          /\ peerID' = [peerID EXCEPT ![cursor] = KnownID(cursor)]
          /\ entities' = entities \cup {ids[cursor]}
          /\ outbound' = outbound \o Introduce(cursor)
     ELSE UNCHANGED <<avatar, peerID, entities, outbound>>
  /\ UNCHANGED <<deferred, callback>>

\* SyncPeerAvatars, first loop: a connected player without avatar gets one.
VisitJoin ==
  /\ InPoll("join") /\ Advance("reap")
  /\ IF cursor \in Connected /\ avatar[cursor] = 0 /\ ids[cursor] # 0
     THEN /\ avatar' = [avatar EXCEPT ![cursor] = ids[cursor]]
          /\ peerID' = [peerID EXCEPT ![cursor] = ids[cursor]]
          /\ entities' = entities \cup {ids[cursor]}
          /\ outbound' = outbound \o Introduce(cursor)
     ELSE UNCHANGED <<avatar, peerID, entities, outbound>>
  /\ UNCHANGED <<deferred, callback>>

\* Slip: the index is unregistered before the ID to announce is looked up.
VisitReap_Unannounced ==
  /\ InPoll("reap") /\ Advance("update")
  /\ IF cursor \notin Connected
     THEN /\ avatar' = [avatar EXCEPT ![cursor] = 0]
          /\ peerID' = [peerID EXCEPT ![cursor] = 0]
          /\ entities' = entities \ {avatar[cursor], peerID[cursor]}
     ELSE UNCHANGED <<avatar, peerID, entities>>
  /\ UNCHANGED <<outbound, deferred, callback>>

\* Slip: only a client that still is a player is reaped.
VisitReap_PlayersOnly ==
  /\ InPoll("reap") /\ Advance("update")
  /\ IF cursor \notin Connected /\ ids[cursor] # 0
     THEN /\ avatar' = [avatar EXCEPT ![cursor] = 0]
          /\ peerID' = [peerID EXCEPT ![cursor] = 0]
          /\ entities' = entities \ {avatar[cursor], peerID[cursor]}
          /\ outbound' = IF peerID[cursor] = 0 THEN outbound
                         ELSE Append(outbound, Destroy(peerID[cursor]))
     ELSE UNCHANGED <<avatar, peerID, entities, outbound>>
  /\ UNCHANGED <<deferred, callback>>

\* SyncPeerAvatars, second loop: the avatar of an index nobody holds is removed.
VisitReap ==
  /\ InPoll("reap") /\ Advance("update")
  /\ IF cursor \notin Connected
     THEN /\ avatar' = [avatar EXCEPT ![cursor] = 0]
          /\ peerID' = [peerID EXCEPT ![cursor] = 0]
          /\ entities' = entities \ {avatar[cursor], peerID[cursor]}
          /\ outbound' = IF peerID[cursor] = 0 THEN outbound
                         ELSE Append(outbound, Destroy(peerID[cursor]))
     ELSE UNCHANGED <<avatar, peerID, entities, outbound>>
  /\ UNCHANGED <<deferred, callback>>

-----------------------------------------------------------------------------
(* Network::Update, with the packet callback of NetworkSystem.             *)

StartUpdate ==
  /\ Poll
  /\ playing => stage = "update"
  /\ stage' = "start"
  /\ UNCHANGED <<playing, cursor, tables, callback>>

\* ProcessInputStateMessage: the ID an index is known by is looked up once.
HandleInput(i) ==
  /\ HandlePacket("Input", i, <<>>)
  /\ peerID' = IF installed THEN [peerID EXCEPT ![i] = KnownID(i)] ELSE peerID
  /\ UNCHANGED <<scene, avatar, entities, deferred, callback>>

\* SceneLoaded: answered at once, or deferred while the host is loading or the
\* client has no ID.
HandleLoaded(i) ==
  LET answered == installed /\ playing /\ KnownID(i) # 0
  IN /\ HandlePacket("SceneLoaded", i, IF answered THEN Resync(i) ELSE <<>>)
     /\ deferred' = IF installed /\ ~answered THEN deferred \cup {i} ELSE deferred
     /\ UNCHANGED <<scene, avatar, peerID, entities, callback>>

-----------------------------------------------------------------------------
(* Between two frames.                                                     *)

BetweenFrames == phase = "frame" /\ stage = "start"

\* Scene::OnRuntimeStop calls NetworkSystem::Reset, and the next scene loads.
StopScene ==
  /\ BetweenFrames /\ playing
  /\ playing' = FALSE
  /\ NoTables
  /\ cbRole' = "Offline"
  /\ UNCHANGED <<vars, stage, cursor, installed>>

StartScene ==
  /\ BetweenFrames /\ ~playing
  /\ playing' = TRUE
  /\ UNCHANGED <<vars, stage, cursor, tables, callback>>

\* Network::Disconnect also clears the transport's packet callback.
DisconnectAll ==
  /\ BetweenFrames
  /\ Disconnect
  /\ installed' = FALSE
  /\ UNCHANGED <<scene, tables, cbRole>>

-----------------------------------------------------------------------------
Session(A) == A /\ UNCHANGED <<scene, tables, callback>>

NetworkStep == Session(Drain) \/ Session(TransmitSession) \/ TransmitEntity

PollStep == StartPoll \/ VisitJoin \/ VisitReap

UpdateStep ==
  \/ StartUpdate
  \/ \E i \in Indices : \/ Session(HandleConnected(i))
                        \/ Session(HandleDisconnected(i))
                        \/ Session(Expire(i))
                        \/ HandleInput(i) \/ HandleLoaded(i)

Remote ==
  \/ \E c \in Conns : Session(Connect(c))
  \/ \E i \in Indices : \/ Session(Lose(i))
                        \/ \E p \in PacketKinds[i] : Session(Receive(i, p))

Caller ==
  \/ StopScene \/ StartScene \/ DisconnectAll
  \/ BetweenFrames /\ Session(HostGame \/ HostGameRefused)

RNext ==
  \/ NetworkStep \/ PollStep \/ UpdateStep \/ Remote \/ Caller
  \/ \E dt \in Ticks : Session(Age(dt))

RSpec == RInit /\ [][RNext]_rvars

\* Both threads run, and time passes: dt is positive in every frame, so the
\* timers complete a tick again and again.
RFairness ==
  /\ WF_rvars(NetworkStep) /\ WF_rvars(PollStep \/ UpdateStep)
  /\ WF_rvars(\E dt \in Ticks : Session(Age(dt)))
  /\ SF_rvars(\E dt \in Ticks \ {0} : Session(Age(dt)))

RFairSpec == RSpec /\ RFairness
-----------------------------------------------------------------------------
RKinds == {"Connected", "Disconnected"} \cup Packets
REvents == [type : RKinds, peer : Indices]
RCommands ==
  Commands \cup [cmd : {"EntitySpawn"}, peer : Indices, id : Nat]
           \cup [cmd : {"EntityDestroy"}, id : Nat]

RTypeOK ==
  /\ playing \in BOOLEAN /\ installed \in BOOLEAN
  /\ stage \in {"start", "join", "reap", "update"} /\ cursor \in Indices
  /\ avatar \in [Indices -> Nat] /\ peerID \in [Indices -> Nat]
  /\ entities \subseteq Nat /\ deferred \subseteq Indices
  /\ cbRole \in {"Offline", "Host"}
  /\ inbound \in Seq(REvents) /\ batch \in Seq(REvents)
  /\ outbound \in Seq(RCommands) /\ sending \in Seq(RCommands)

\* The three places that know an avatar agree: every avatar of the scene belongs
\* to exactly one client index, and the ID it carries is the one its index is
\* registered under, so inputs and the despawn find it.  The first part is about
\* the first session: the tables outlive Network::Disconnect, and who hosts again
\* in the same scene hands out the same IDs again.
AvatarsRegistered ==
  /\ sessions <= 1 =>
       /\ \A i, j \in Indices : avatar[i] = avatar[j] /\ avatar[i] # 0 => i = j
       /\ entities = Range(avatar) \ {0}
  /\ \A i \in Indices : avatar[i] # 0 => peerID[i] = avatar[i]

\* An avatar taken out of a running scene is announced to the clients.
RemovalIsAnnounced ==
  [][playing' => \A id \in entities \ entities' :
                   Destroy(id) \in Range(outbound')]_rvars

\* The avatar of a client that is gone is removed, unless its index is taken
\* over or the session ends.
AvatarsAreRemoved ==
  \A i \in Indices :
    avatar[i] # 0 /\ peers[i] = NoConn
      ~> avatar[i] = 0 \/ peers[i] # NoConn \/ role = "Offline"

\* "Host-side: spawn/despawn an avatar per connected peer": the avatar of a
\* client index comes to be that of the player who holds the index.
AvatarPerPeer ==
  \A i \in Indices, c \in Conns :
    peers[i] = c /\ ids[i] # 0 /\ playing
      ~> avatar[i] = ids[i] \/ peers[i] # c \/ ~playing
=============================================================================
