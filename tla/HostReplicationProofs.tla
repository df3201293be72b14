------------------------ MODULE HostReplicationProofs -------------------------
(***************************************************************************)
(* Proofs about the tables of HostReplication for every number of clients, *)
(* connections and sessions, and whatever the clients send.                *)
(***************************************************************************)
EXTENDS HostReplication, PeerSessionProofs

-----------------------------------------------------------------------------
(* The inductive invariant.                                                *)

RegistryTypeOK ==
  /\ role \in {"Offline", "Host"} /\ phase \in Phases
  /\ sessions \in Nat /\ cursor \in Indices
  /\ ids \in [Indices -> Nat] /\ nextID \in Nat /\ FirstID =< nextID
  /\ avatar \in [Indices -> Nat] /\ peerID \in [Indices -> Nat]

\* Nobody is a player while nothing is hosted, and before the first session the
\* tables are empty.
OfflineIdle ==
  /\ role = "Offline" => phase = "frame" /\ ids = NoIDs
  /\ sessions = 0 => role = "Offline" /\ avatar = NoIDs /\ peerID = NoIDs

\* The IDs an index is known by: as a player, as an avatar, as registered.
Known(i) == {ids[i], avatar[i], peerID[i]} \ {0}

\* An ID was handed out before it is known, and is known of one index only.
KnownOnce ==
  sessions <= 1 =>
    /\ \A i, j \in Indices : i # j => Known(i) \cap Known(j) = {}
    /\ role = "Host" => \A i \in Indices : \A id \in Known(i) : id < nextID

\* The entities of the scene are those of the avatars.
EntitiesKnown == sessions <= 1 => entities = Range(avatar) \ {0}

RegisteredAs == \A i \in Indices : avatar[i] # 0 => peerID[i] = avatar[i]

RegistryInv ==
  RegistryTypeOK /\ OfflineIdle /\ KnownOnce /\ EntitiesKnown /\ RegisteredAs

-----------------------------------------------------------------------------
(* Steps.                                                                  *)

\* A step that hands nothing out and registers nothing.
LEMMA RegistryQuiet ==
  ASSUME RegistryInv,
         UNCHANGED <<role, sessions, ids, nextID, avatar, peerID, entities>>,
         phase' \in Phases, cursor' \in Indices,
         role = "Offline" => phase' = "frame"
  PROVE  RegistryInv'
<1>1. RegistryTypeOK' /\ OfflineIdle'
  BY DEF RegistryInv, RegistryTypeOK, OfflineIdle
<1>2. KnownOnce' /\ EntitiesKnown' /\ RegisteredAs'
  BY DEF RegistryInv, KnownOnce, EntitiesKnown, RegisteredAs, Known, Range
<1>3. QED
  BY <1>1, <1>2 DEF RegistryInv

\* A step of the session that only lets players go.
LEMMA RegistryLeaves ==
  ASSUME RegistryInv, role = "Host", NEW i \in Indices, RemovePlayer(i),
         UNCHANGED <<role, sessions, avatar, peerID, entities, cursor>>,
         phase' \in Phases
  PROVE  RegistryInv'
<1>1. ids' \in [Indices -> Nat] /\ nextID' = nextID
      /\ \A j \in Indices : ids'[j] \in {ids[j], 0}
  BY DEF RegistryInv, RegistryTypeOK, RemovePlayer
<1>2. RegistryTypeOK' /\ OfflineIdle'
  BY <1>1 DEF RegistryInv, RegistryTypeOK, OfflineIdle
<1>3. \A j \in Indices : Known(j)' \subseteq Known(j)
  BY <1>1 DEF Known
<1>4. KnownOnce' /\ EntitiesKnown' /\ RegisteredAs'
  BY <1>1, <1>3 DEF RegistryInv, KnownOnce, EntitiesKnown, RegisteredAs, Range
<1>5. QED
  BY <1>2, <1>4 DEF RegistryInv

\* A player gets the next ID, which no index is known by.
LEMMA RegistryJoins ==
  ASSUME RegistryInv, role = "Host", NEW i \in Indices, AddPlayer(i),
         UNCHANGED <<role, phase, sessions, avatar, peerID, entities, cursor>>
  PROVE  RegistryInv'
<1>1. CASE ids[i] # 0
  BY <1>1, RegistryQuiet DEF AddPlayer, roster, RegistryInv, RegistryTypeOK, OfflineIdle
<1>2. CASE ids[i] = 0
  <2>1. /\ ids' = [ids EXCEPT ![i] = nextID] /\ nextID' = nextID + 1
    BY <1>2 DEF AddPlayer
  <2>2. RegistryTypeOK' /\ OfflineIdle'
    BY <2>1 DEF RegistryInv, RegistryTypeOK, OfflineIdle, FirstID
  <2>3. /\ Known(i)' \subseteq Known(i) \cup {nextID}
        /\ \A j \in Indices \ {i} : Known(j)' = Known(j)
    BY <2>1 DEF Known, RegistryInv, RegistryTypeOK
  <2>4. KnownOnce'
    <3>1. SUFFICES ASSUME sessions <= 1 PROVE KnownOnce'
      BY DEF KnownOnce
    <3>2. /\ \A j \in Indices : Known(j) \subseteq Nat
          /\ \A j \in Indices : \A id \in Known(j) : id < nextID
          /\ \A j, k \in Indices : j # k => Known(j) \cap Known(k) = {}
      BY <3>1 DEF RegistryInv, KnownOnce, RegistryTypeOK, Known
    <3>3. \A j \in Indices : nextID \notin Known(j)
      BY <3>2 DEF RegistryInv, RegistryTypeOK
    <3>4. \A j, k \in Indices : j # k => Known(j)' \cap Known(k)' = {}
      <4>1. SUFFICES ASSUME NEW j \in Indices, NEW k \in Indices, j # k
                     PROVE  Known(j)' \cap Known(k)' = {}
        OBVIOUS
      <4>2. CASE j # i /\ k # i
        BY <2>3, <3>2, <4>1, <4>2
      <4>3. CASE j = i
        BY <2>3, <3>2, <3>3, <4>1, <4>3
      <4>4. CASE k = i
        BY <2>3, <3>2, <3>3, <4>1, <4>4
      <4>5. QED
        BY <4>2, <4>3, <4>4
    <3>5. \A j \in Indices : \A id \in Known(j)' : id < nextID'
      BY <2>1, <2>3, <3>2 DEF RegistryInv, RegistryTypeOK
    <3>6. QED
      BY <3>4, <3>5 DEF KnownOnce
  <2>5. EntitiesKnown' /\ RegisteredAs'
    BY DEF RegistryInv, EntitiesKnown, RegisteredAs, Range
  <2>6. QED
    BY <2>2, <2>4, <2>5 DEF RegistryInv
<1>3. QED
  BY <1>1, <1>2

\* The tables are dropped with the scene.
LEMMA TablesDropped ==
  ASSUME RegistryInv, NoTables,
         UNCHANGED <<role, phase, sessions, ids, nextID, cursor>>
  PROVE  RegistryInv'
<1>1. avatar' = NoIDs /\ peerID' = NoIDs /\ entities' = {}
  BY DEF NoTables
<1>2. RegistryTypeOK' /\ OfflineIdle'
  BY <1>1 DEF RegistryInv, RegistryTypeOK, OfflineIdle, NoIDs
<1>3. \A j \in Indices : Known(j)' \subseteq Known(j)
  BY <1>1 DEF Known, NoIDs
<1>4. KnownOnce'
  BY <1>3 DEF RegistryInv, KnownOnce
<1>5. EntitiesKnown' /\ RegisteredAs'
  BY <1>1 DEF EntitiesKnown, RegisteredAs, NoIDs, Range
<1>6. QED
  BY <1>2, <1>4, <1>5 DEF RegistryInv

\* SyncPeerAvatars, first loop: what is registered for the index is the ID of the
\* player who holds it.
LEMMA JoinStep ==
  ASSUME ReplicationAssumption, SessionAssumption, RegistryInv, VisitJoin
  PROVE  RegistryInv'
<1> DEFINE i == cursor
<1>1. i \in Indices /\ cursor' \in Indices /\ phase' = phase
      /\ role = "Host" /\ UNCHANGED <<role, sessions, ids, nextID>>
  <2>1. /\ phase' = phase /\ role = "Host"
        /\ UNCHANGED <<role, sessions, ids, nextID>>
    BY DEF VisitJoin, InPoll, roster, bounds
  <2>2. i \in Indices /\ MaxClients \in Nat \ {0}
    BY DEF RegistryInv, RegistryTypeOK, SessionAssumption
  <2>3. Advance("reap")
    BY DEF VisitJoin
  <2>4. cursor' \in Indices
    BY <2>2, <2>3 DEF Advance, Indices
  <2>5. QED
    BY <2>1, <2>2, <2>4
<1>2. CASE i \in Connected /\ avatar[i] = 0 /\ ids[i] # 0
  <2>1. /\ avatar' = [avatar EXCEPT ![i] = ids[i]]
        /\ peerID' = [peerID EXCEPT ![i] = ids[i]]
        /\ entities' = entities \cup {ids[i]}
    BY <1>2 DEF VisitJoin
  <2>2. sessions # 0
    BY <1>1 DEF RegistryInv, OfflineIdle
  <2>3. RegistryTypeOK' /\ OfflineIdle'
    BY <1>1, <2>1, <2>2 DEF RegistryInv, RegistryTypeOK, OfflineIdle
  <2>4. \A j \in Indices : Known(j)' \subseteq Known(j)
    BY <1>1, <2>1 DEF RegistryInv, RegistryTypeOK, Known
  <2>5. KnownOnce'
    BY <1>1, <2>4 DEF RegistryInv, KnownOnce
  <2>6. RegisteredAs'
    BY <1>1, <2>1 DEF RegistryInv, RegistryTypeOK, RegisteredAs
  <2>7. Range(avatar') \ {0} = (Range(avatar) \ {0}) \cup {ids[i]}
    BY <1>1, <1>2, <2>1 DEF RegistryInv, RegistryTypeOK, Range
  <2>8. EntitiesKnown'
    BY <1>1, <2>1, <2>7 DEF RegistryInv, EntitiesKnown
  <2>9. QED
    BY <2>3, <2>5, <2>6, <2>8 DEF RegistryInv
<1>3. CASE ~(i \in Connected /\ avatar[i] = 0 /\ ids[i] # 0)
  <2>1. UNCHANGED <<avatar, peerID, entities>>
    BY <1>3 DEF VisitJoin
  <2>2. QED
    BY <1>1, <2>1, RegistryQuiet DEF RegistryInv, RegistryTypeOK
<1>4. QED
  BY <1>2, <1>3

\* SyncPeerAvatars, second loop: nobody else's entity goes with the avatar.
LEMMA ReapStep ==
  ASSUME ReplicationAssumption, SessionAssumption, RegistryInv, VisitReap
  PROVE  RegistryInv'
<1> DEFINE i == cursor
<1>1. i \in Indices /\ cursor' \in Indices /\ phase' = phase
      /\ role = "Host" /\ UNCHANGED <<role, sessions, ids, nextID>>
  <2>1. /\ phase' = phase /\ role = "Host"
        /\ UNCHANGED <<role, sessions, ids, nextID>>
    BY DEF VisitReap, InPoll, roster, bounds
  <2>2. i \in Indices /\ MaxClients \in Nat \ {0}
    BY DEF RegistryInv, RegistryTypeOK, SessionAssumption
  <2>3. Advance("update")
    BY DEF VisitReap
  <2>4. cursor' \in Indices
    BY <2>2, <2>3 DEF Advance, Indices
  <2>5. QED
    BY <2>1, <2>2, <2>4
<1>2. CASE i \notin Connected
  <2>1. /\ avatar' = [avatar EXCEPT ![i] = 0]
        /\ peerID' = [peerID EXCEPT ![i] = 0]
        /\ entities' = entities \ {avatar[i], peerID[i]}
    BY <1>2 DEF VisitReap
  <2>2. sessions # 0
    BY <1>1 DEF RegistryInv, OfflineIdle
  <2>3. RegistryTypeOK' /\ OfflineIdle'
    BY <1>1, <2>1, <2>2 DEF RegistryInv, RegistryTypeOK, OfflineIdle
  <2>4. \A j \in Indices : Known(j)' \subseteq Known(j)
    BY <1>1, <2>1 DEF RegistryInv, RegistryTypeOK, Known
  <2>5. KnownOnce'
    BY <1>1, <2>4 DEF RegistryInv, KnownOnce
  <2>6. RegisteredAs'
    BY <1>1, <2>1 DEF RegistryInv, RegistryTypeOK, RegisteredAs
  <2>7. ASSUME sessions <= 1
        PROVE  Range(avatar') \ {0} = (Range(avatar) \ {0}) \ {avatar[i], peerID[i]}
    <3>1. \A j \in Indices \ {i} : avatar[j] # 0 =>
            avatar[j] # avatar[i] /\ avatar[j] # peerID[i]
      BY <1>1, <2>7 DEF RegistryInv, KnownOnce, Known
    <3>2. /\ DOMAIN avatar = Indices /\ DOMAIN avatar' = Indices
          /\ \A j \in Indices : avatar'[j] = IF j = i THEN 0 ELSE avatar[j]
      BY <1>1, <2>1 DEF RegistryInv, RegistryTypeOK
    <3>3. QED
      BY <1>1, <3>1, <3>2 DEF Range
  <2>8. EntitiesKnown'
    BY <1>1, <2>1, <2>7 DEF RegistryInv, EntitiesKnown
  <2>9. QED
    BY <2>3, <2>5, <2>6, <2>8 DEF RegistryInv
<1>3. CASE i \in Connected
  <2>1. UNCHANGED <<avatar, peerID, entities>>
    BY <1>3 DEF VisitReap
  <2>2. QED
    BY <1>1, <2>1, RegistryQuiet DEF RegistryInv, RegistryTypeOK
<1>4. QED
  BY <1>2, <1>3

\* An input registers the ID of the player who holds the index, if any.
LEMMA InputStep ==
  ASSUME RegistryInv, NEW i \in Indices, HandleInput(i)
  PROVE  RegistryInv'
<1>1. /\ UNCHANGED <<role, phase, sessions, ids, nextID, cursor, avatar, entities>>
      /\ phase = "handle"
      /\ peerID' = IF installed THEN [peerID EXCEPT ![i] = KnownID(i)] ELSE peerID
  BY DEF HandleInput, HandlePacket, Handling, scene, roster, bounds
<1>2. role = "Host" /\ sessions # 0
  BY <1>1 DEF RegistryInv, RegistryTypeOK, OfflineIdle
<1>3. /\ peerID' \in [Indices -> Nat]
      /\ \A j \in Indices :
           \/ peerID'[j] = peerID[j]
           \/ j = i /\ peerID[i] = 0 /\ peerID'[i] = ids[i]
  BY <1>1 DEF RegistryInv, RegistryTypeOK, KnownID
<1>4. RegistryTypeOK' /\ OfflineIdle'
  BY <1>1, <1>2, <1>3 DEF RegistryInv, RegistryTypeOK, OfflineIdle
<1>5. \A j \in Indices : Known(j)' \subseteq Known(j)
  BY <1>1, <1>3 DEF Known
<1>6. KnownOnce'
  BY <1>1, <1>5 DEF RegistryInv, KnownOnce
<1>7. EntitiesKnown' /\ RegisteredAs'
  BY <1>1, <1>3 DEF RegistryInv, RegistryTypeOK, EntitiesKnown, RegisteredAs, Range
<1>8. QED
  BY <1>4, <1>6, <1>7 DEF RegistryInv

\* A session starts: in the first one the tables are empty, in a later one nothing
\* is claimed of them.
LEMMA HostStep ==
  ASSUME RegistryInv, HostGame, UNCHANGED <<scene, tables, callback>>
  PROVE  RegistryInv'
<1>1. /\ role' = "Host" /\ sessions' = sessions + 1 /\ ids' = NoIDs
      /\ nextID' = FirstID /\ phase' = phase
      /\ UNCHANGED <<cursor, avatar, peerID, entities>>
  BY DEF HostGame, scene, tables
<1>2. RegistryTypeOK' /\ OfflineIdle'
  BY <1>1 DEF RegistryInv, RegistryTypeOK, OfflineIdle, NoIDs, FirstID
<1>3. ASSUME sessions' <= 1 PROVE \A j \in Indices : Known(j)' = {}
  <2>1. sessions = 0
    BY <1>1, <1>3 DEF RegistryInv, RegistryTypeOK
  <2>2. QED
    BY <1>1, <2>1 DEF RegistryInv, OfflineIdle, Known, NoIDs
<1>4. KnownOnce'
  BY <1>3 DEF KnownOnce
<1>5. EntitiesKnown' /\ RegisteredAs'
  BY <1>1 DEF RegistryInv, RegistryTypeOK, EntitiesKnown, RegisteredAs, Range
<1>6. QED
  BY <1>2, <1>4, <1>5 DEF RegistryInv

\* A session ends; the tables stay.
LEMMA DisconnectStep ==
  ASSUME RegistryInv, DisconnectAll
  PROVE  RegistryInv'
<1>1. /\ role' = "Offline" /\ phase = "frame" /\ ids' = NoIDs /\ nextID' = FirstID
      /\ role = "Host" /\ phase' = phase
      /\ UNCHANGED <<sessions, cursor, avatar, peerID, entities>>
  BY DEF DisconnectAll, Disconnect, scene, tables, bounds
<1>2. RegistryTypeOK' /\ OfflineIdle'
  BY <1>1 DEF RegistryInv, RegistryTypeOK, OfflineIdle, NoIDs, FirstID
<1>3. \A j \in Indices : Known(j)' \subseteq Known(j)
  BY <1>1 DEF Known, NoIDs
<1>4. KnownOnce'
  BY <1>1, <1>3 DEF RegistryInv, KnownOnce
<1>5. EntitiesKnown' /\ RegisteredAs'
  BY <1>1 DEF RegistryInv, EntitiesKnown, RegisteredAs, Range
<1>6. QED
  BY <1>2, <1>4, <1>5 DEF RegistryInv

\* Every step.
LEMMA RegistryStep ==
  ASSUME ReplicationAssumption, SessionAssumption, RegistryInv, [RNext]_rvars
  PROVE  RegistryInv'
<1> USE DEF Phases
<1> DEFINE Kept == UNCHANGED <<role, sessions, ids, nextID, avatar, peerID, entities>>
<1>a. cursor \in Indices /\ phase \in Phases /\ (role = "Offline" => phase = "frame")
  BY DEF RegistryInv, RegistryTypeOK, OfflineIdle
<1>0. ASSUME Kept, UNCHANGED <<phase, cursor>> PROVE RegistryInv'
  BY <1>0, <1>a, RegistryQuiet
<1> HIDE DEF Phases
<1>1. CASE NetworkStep
  <2>1. Kept /\ UNCHANGED <<phase, cursor>>
    BY <1>1 DEF NetworkStep, Session, Drain, TransmitSession, TransmitEntity,
                scene, tables, roster, bounds
  <2>2. QED
    BY <1>0, <2>1
<1>2. CASE StartPoll
  <2>1. Kept /\ UNCHANGED phase /\ cursor' = 0
    BY <1>2 DEF StartPoll, InPoll, roster, bounds
  <2>2. 0 \in Indices
    BY DEF SessionAssumption, Indices
  <2>3. QED
    BY <1>a, <2>1, <2>2, RegistryQuiet
<1>3. CASE VisitJoin
  BY <1>3, JoinStep
<1>4. CASE VisitReap
  BY <1>4, ReapStep
<1>5. CASE StartUpdate
  <2>1. Kept /\ UNCHANGED cursor /\ role = "Host" /\ phase' \in Phases
    BY <1>5 DEF StartUpdate, Poll, tables, roster, bounds, Phases
  <2>2. QED
    BY <1>a, <2>1, RegistryQuiet
<1>6. ASSUME NEW i \in Indices,
             \/ Session(HandleConnected(i)) \/ Session(HandleDisconnected(i))
             \/ Session(Expire(i)) \/ HandleInput(i) \/ HandleLoaded(i)
      PROVE  RegistryInv'
  <2>1. CASE Session(HandleConnected(i))
    <3>1. /\ AddPlayer(i) /\ phase = "handle"
          /\ UNCHANGED <<role, phase, sessions, avatar, peerID, entities, cursor>>
      BY <2>1 DEF Session, HandleConnected, Handling, scene, tables, bounds
    <3>2. role = "Host"
      BY <1>a, <3>1 DEF RegistryInv, RegistryTypeOK
    <3>3. QED
      BY <3>1, <3>2, RegistryJoins
  <2>2. CASE Session(HandleDisconnected(i))
    <3>1. /\ RemovePlayer(i) /\ phase = "handle" /\ phase' \in Phases
          /\ UNCHANGED <<role, sessions, avatar, peerID, entities, cursor>>
      BY <2>2 DEF Session, HandleDisconnected, Handling, scene, tables, bounds, Phases
    <3>2. role = "Host"
      BY <1>a, <3>1 DEF RegistryInv, RegistryTypeOK
    <3>3. QED
      BY <3>1, <3>2, RegistryLeaves
  <2>3. CASE Session(Expire(i))
    <3>1. /\ RemovePlayer(i) /\ phase = "expire" /\ phase' \in Phases
          /\ UNCHANGED <<role, sessions, avatar, peerID, entities, cursor>>
      BY <2>3 DEF Session, Expire, scene, tables, bounds, Phases
    <3>2. role = "Host"
      BY <1>a, <3>1 DEF RegistryInv, RegistryTypeOK
    <3>3. QED
      BY <3>1, <3>2, RegistryLeaves
  <2>4. CASE HandleInput(i)
    BY <2>4, InputStep
  <2>5. CASE HandleLoaded(i)
    <3>1. Kept /\ UNCHANGED <<phase, cursor>>
      BY <2>5 DEF HandleLoaded, HandlePacket, Handling, scene, roster, bounds
    <3>2. QED
      BY <1>0, <3>1
  <2>6. QED
    BY <1>6, <2>1, <2>2, <2>3, <2>4, <2>5
<1>7. CASE Remote
  <2>1. Kept /\ UNCHANGED <<phase, cursor>>
    BY <1>7 DEF Remote, Session, Connect, Lose, Receive, scene, tables, roster, bounds
  <2>2. QED
    BY <1>0, <2>1
<1>8. CASE StopScene
  <2>1. /\ NoTables /\ UNCHANGED <<role, phase, sessions, ids, nextID, cursor>>
    BY <1>8 DEF StopScene, vars, roster, bounds
  <2>2. QED
    BY <2>1, TablesDropped
<1>9. CASE StartScene
  <2>1. Kept /\ UNCHANGED <<phase, cursor>>
    BY <1>9 DEF StartScene, vars, tables, roster, bounds
  <2>2. QED
    BY <1>0, <2>1
<1>10. CASE DisconnectAll
  BY <1>10, DisconnectStep
<1>11. CASE BetweenFrames /\ Session(HostGame \/ HostGameRefused)
  <2>1. CASE HostGame
    BY <1>11, <2>1, HostStep DEF Session
  <2>2. CASE HostGameRefused
    <3>1. Kept /\ UNCHANGED <<phase, cursor>>
      BY <1>11, <2>2 DEF Session, HostGameRefused, scene, tables, roster
    <3>2. QED
      BY <1>0, <3>1
  <2>3. QED
    BY <1>11, <2>1, <2>2 DEF Session
<1>12. ASSUME NEW dt \in Ticks, Session(Age(dt)) PROVE RegistryInv'
  <2>1. Kept /\ UNCHANGED cursor /\ phase = "handle" /\ phase' \in Phases
    BY <1>12 DEF Session, Age, scene, tables, roster, bounds, Phases
  <2>2. QED
    BY <1>a, <2>1, RegistryQuiet
<1>13. CASE UNCHANGED rvars
  <2>1. Kept /\ UNCHANGED <<phase, cursor>>
    BY <1>13 DEF rvars, vars, scene, tables, roster, bounds
  <2>2. QED
    BY <1>0, <2>1
<1>14. QED
  BY <1>1, <1>2, <1>3, <1>4, <1>5, <1>6, <1>7, <1>8, <1>9, <1>10, <1>11, <1>12,
     <1>13 DEF RNext, PollStep, UpdateStep, Caller

\* The initial states.
LEMMA RegistryInit ==
  ASSUME SessionAssumption, RInit
  PROVE  RegistryInv
<1>1. /\ role = "Offline" /\ phase = "frame" /\ sessions = 0 /\ cursor = 0
      /\ ids = NoIDs /\ nextID = FirstID
      /\ avatar = NoIDs /\ peerID = NoIDs /\ entities = {}
  BY DEF RInit, Init
<1>2. RegistryTypeOK /\ OfflineIdle
  BY <1>1 DEF RegistryTypeOK, OfflineIdle, NoIDs, FirstID, Phases, Indices,
              SessionAssumption
<1>3. KnownOnce /\ EntitiesKnown /\ RegisteredAs
  BY <1>1 DEF KnownOnce, EntitiesKnown, RegisteredAs, Known, NoIDs, Range
<1>4. QED
  BY <1>2, <1>3 DEF RegistryInv

-----------------------------------------------------------------------------
(* The queues, and the messages the host composes from its tables.         *)

\* What the session and the tables leave open.  An entity of the scene has an ID,
\* and there are finitely many: SetToSeq lists them in a resynchronisation.
QueuesTypeOK ==
  /\ playing \in BOOLEAN /\ installed \in BOOLEAN
  /\ stage \in {"start", "join", "reap", "update"}
  /\ cbRole \in {"Offline", "Host"}
  /\ entities \subseteq Nat \ {0} /\ IsFiniteSet(entities)
  /\ deferred \subseteq Indices
  /\ list \in Seq(Nat)
  /\ inbound \in Seq(REvents) /\ batch \in Seq(REvents)
  /\ outbound \in Seq(RCommands) /\ sending \in Seq(RCommands)

ReplicationInv == RegistryInv /\ QueuesTypeOK

\* The commands and events of the queues.
LEMMA CommandTypes ==
  /\ \A i \in Indices, id \in Nat :
       Assign(i, id) \in RCommands /\ Spawn(i, id) \in RCommands
  /\ \A id \in Nat : Destroy(id) \in RCommands
  /\ \A i \in Indices : Kick(i) \in RCommands
  /\ \A l \in Seq(Nat) : PlayerList(l) \in RCommands
  /\ \A i \in Indices, t \in RKinds : Event(t, i) \in REvents
<1>1. \A l \in Seq(Nat) : Listed(l) \subseteq Nat
  BY DEF Listed
<1>2. QED
  BY <1>1 DEF Assign, Spawn, Destroy, Kick, PlayerList, Event, RCommands, Commands,
              REvents

\* What NetworkSystem may send: a client is told only an ID its index is known by.
Backed ==
  {m \in RCommands : m.cmd = "PlayerAssign" => m.id \in Known(m.peer) \cup {0}}

\* The commands NetworkSystem makes.
LEMMA BackedCommands ==
  ASSUME ReplicationInv
  PROVE  /\ \A i \in Indices : /\ Assign(i, ids[i]) \in Backed
                              /\ Assign(i, KnownID(i)) \in Backed
         /\ \A i \in Indices, id \in Nat : Spawn(i, id) \in Backed
         /\ PlayerList(list) \in Backed
         /\ \A s \in Seq(Backed) : s \in Seq(RCommands)
<1>1. /\ ids \in [Indices -> Nat] /\ peerID \in [Indices -> Nat] /\ list \in Seq(Nat)
  BY DEF ReplicationInv, RegistryInv, RegistryTypeOK, QueuesTypeOK
<1>2. ASSUME NEW i \in Indices
      PROVE  /\ Assign(i, ids[i]) \in RCommands /\ ids[i] \in Known(i) \cup {0}
             /\ Assign(i, KnownID(i)) \in RCommands
             /\ KnownID(i) \in Known(i) \cup {0}
  BY <1>1, CommandTypes DEF Known, KnownID
<1>3. \A s \in Seq(Backed) : s \in Seq(RCommands)
  <2>1. Backed \subseteq RCommands
    BY DEF Backed
  <2>2. QED
    BY <2>1
<1>4. \A i \in Indices : Assign(i, ids[i]) \in Backed /\ Assign(i, KnownID(i)) \in Backed
  <2>1. \A i \in Indices, id \in Nat :
          Assign(i, id).id = id /\ Assign(i, id).peer = i
    BY DEF Assign
  <2>2. \A i \in Indices : ids[i] \in Nat /\ KnownID(i) \in Nat
    BY <1>1 DEF KnownID
  <2>3. QED
    BY <1>2, <2>1, <2>2 DEF Backed
<1>5. \A i \in Indices, id \in Nat : Spawn(i, id) \in Backed
  <2>1. \A i \in Indices, id \in Nat : Spawn(i, id).cmd # "PlayerAssign"
    BY DEF Spawn
  <2>2. QED
    BY <2>1, CommandTypes DEF Backed
<1>6. PlayerList(list) \in Backed
  <2>1. PlayerList(list).cmd # "PlayerAssign"
    BY DEF PlayerList
  <2>2. QED
    BY <1>1, <2>1, CommandTypes DEF Backed
<1>7. QED
  BY <1>3, <1>4, <1>5, <1>6

\* A set of client indices is finite.
LEMMA IndicesFinite ==
  ASSUME SessionAssumption, NEW E, E \subseteq Indices
  PROVE  IsFiniteSet(E)
<1>1. 0 \in Int /\ MaxClients - 1 \in Int
  BY DEF SessionAssumption
<1>2. IsFiniteSet(Indices)
  BY <1>1, FS_Interval DEF Indices
<1>3. QED
  BY <1>2, FS_Subset

\* A function on 1 .. n is a sequence.
LEMMA Listing ==
  ASSUME NEW S, NEW n \in Nat, NEW f \in [1 .. n -> S]
  PROVE  f \in Seq(S)
OBVIOUS

\* The messages one client is told all entities of the scene with.
LEMMA ResyncType ==
  ASSUME ReplicationInv, NEW i \in Indices
  PROVE  Resync(i) \in Seq(Backed)
<1> DEFINE C == Backed
           sp == [e \in entities |-> Spawn(i, e)]
           S == {Spawn(i, e) : e \in entities}
           head == <<Assign(i, KnownID(i)), Spawn(i, HostID)>>
           tail == <<PlayerList(list)>>
<1>1. KnownID(i) \in Nat /\ entities \subseteq Nat /\ list \in Seq(Nat)
      /\ IsFiniteSet(entities)
  BY DEF ReplicationInv, RegistryInv, RegistryTypeOK, QueuesTypeOK, KnownID
<1>2. S \subseteq C /\ head \in Seq(C) /\ tail \in Seq(C)
  <2>1. /\ Assign(i, KnownID(i)) \in C /\ Spawn(i, HostID) \in C
        /\ PlayerList(list) \in C /\ S \subseteq C
    BY <1>1, BackedCommands DEF HostID
  <2> HIDE DEF C, S
  <2>2. QED
    BY <2>1
<1>3. IsFiniteSet(S)
  <2>1. sp \in Surjection(entities, S)
    BY DEF Surjection
  <2> HIDE DEF sp, S
  <2>2. QED
    BY <1>1, <2>1, FS_Surjection
<1>4. SetToSeq(S) \in Seq(C)
  <2> HIDE DEF S, C
  <2>1. Cardinality(S) \in Nat /\ SetToSeq(S) \in [1 .. Cardinality(S) -> S]
    BY <1>3, SetListed
  <2>2. SetToSeq(S) \in Seq(S)
    BY <2>1, Listing
  <2>3. QED
    BY <1>2, <2>2
<1>5. Resync(i) = IF KnownID(i) = 0 THEN <<>> ELSE head \o SetToSeq(S) \o tail
  BY DEF Resync
<1> HIDE DEF head, tail, S, C
<1>6. head \o SetToSeq(S) \o tail \in Seq(C)
  BY <1>2, <1>4
<1>7. QED
  BY <1>5, <1>6 DEF C

\* The messages that introduce an avatar.
LEMMA IntroduceType ==
  ASSUME SessionAssumption, ReplicationInv, NEW i \in Indices
  PROVE  Introduce(i) \in Seq(Backed)
<1> DEFINE C == Backed
           E == {e \in Indices \ {i} : avatar[e] # 0}
           others == SetToSeq(E)
           n == Cardinality(E)
           Pair(e) == <<Spawn(i, peerID[e]), Spawn(e, ids[i])>>
           pairs == [k \in DOMAIN others |-> Pair(others[k])]
           head == <<Assign(i, ids[i])>>
           tail == <<Spawn(i, HostID), Spawn(i, ids[i])>>
<1>1. ids[i] \in Nat /\ \A e \in Indices : peerID[e] \in Nat
  BY DEF ReplicationInv, RegistryInv, RegistryTypeOK
<1>2. E \subseteq Indices /\ IsFiniteSet(E)
  BY IndicesFinite
<1>3. n \in Nat /\ others \in [1 .. n -> E]
  <2> HIDE DEF E
  <2>1. QED
    BY <1>2, SetListed
<1>4. \A e \in E : Pair(e) \in Seq(C)
  <2>1. \A e \in Indices : Spawn(i, peerID[e]) \in C /\ Spawn(e, ids[i]) \in C
    BY <1>1, BackedCommands
  <2> HIDE DEF C
  <2>2. QED
    BY <1>2, <2>1
<1>5. head \in Seq(C) /\ tail \in Seq(C)
  <2>1. Assign(i, ids[i]) \in C /\ Spawn(i, HostID) \in C /\ Spawn(i, ids[i]) \in C
    BY <1>1, BackedCommands DEF HostID
  <2> HIDE DEF C
  <2>2. QED
    BY <2>1
<1>6. FlattenSeq(pairs) \in Seq(C)
  <2> HIDE DEF C, E, n, Pair, others
  <2>1. pairs \in [1 .. n -> Seq(C)]
    BY <1>3, <1>4
  <2>2. pairs \in Seq(Seq(C))
    <3> HIDE DEF pairs
    <3>1. QED
      BY <1>3, <2>1, Listing
  <2>3. QED
    BY <2>2, Flattened
<1>7. Introduce(i) = head \o FlattenSeq(pairs) \o tail
  BY DEF Introduce
<1> HIDE DEF head, tail, pairs, C
<1>8. QED
  BY <1>5, <1>6, <1>7 DEF C

\* The answers to all deferred SceneLoaded messages.
LEMMA AnswersType ==
  ASSUME SessionAssumption, ReplicationInv
  PROVE  FlattenSeq([k \in 1 .. Cardinality(deferred) |->
                       Resync(SetToSeq(deferred)[k])]) \in Seq(Backed)
<1> DEFINE n == Cardinality(deferred)
           answers == [k \in 1 .. n |-> Resync(SetToSeq(deferred)[k])]
<1>1. deferred \subseteq Indices /\ IsFiniteSet(deferred)
  BY IndicesFinite DEF ReplicationInv, QueuesTypeOK
<1>2. n \in Nat /\ SetToSeq(deferred) \in [1 .. n -> deferred]
  BY <1>1, SetListed
<1>3. \A i \in deferred : Resync(i) \in Seq(Backed)
  BY <1>1, ResyncType
<1> HIDE DEF n
<1>4. answers \in [1 .. n -> Seq(Backed)]
  BY <1>2, <1>3
<1> HIDE DEF answers
<1>5. answers \in Seq(Seq(Backed))
  BY <1>2, <1>4, Listing
<1>6. QED
  BY <1>5, Flattened DEF answers, n

\* The list of players stays one, and is announced as one.
LEMMA RosterTypes ==
  ASSUME ReplicationInv, NEW i \in Indices, AddPlayer(i) \/ RemovePlayer(i)
  PROVE  list' \in Seq(Nat) /\ PlayerList(list') \in RCommands
<1>1. list \in Seq(Nat) /\ nextID \in Nat
  BY DEF ReplicationInv, RegistryInv, RegistryTypeOK, QueuesTypeOK
<1>2. list' \in Seq(Nat)
  <2>1. Append(list, nextID) \in Seq(Nat)
    BY <1>1
  <2>2. RemoveFirst(list, ids[i]) \in Seq(Nat)
    BY <1>1, RemoveFirstType
  <2>3. QED
    BY <1>1, <2>1, <2>2 DEF AddPlayer, RemovePlayer, roster
<1>3. QED
  BY <1>2, CommandTypes

\* Every step leaves the queues, the scene and the callback what they are.
LEMMA QueuesStep ==
  ASSUME ReplicationAssumption, SessionAssumption, ReplicationInv,
         [RNext]_rvars
  PROVE  QueuesTypeOK'
<1>0. /\ role \in {"Offline", "Host"} /\ nextID \in Nat
      /\ ids \in [Indices -> Nat] /\ cursor \in Indices
  BY DEF ReplicationInv, RegistryInv, RegistryTypeOK
<1>q. QueuesTypeOK
  BY DEF ReplicationInv
<1>r. RegistryTypeOK'
  BY RegistryStep DEF ReplicationInv, RegistryInv
<1>1. CASE Session(Drain) \/ StartUpdate \/ StartScene \/ UNCHANGED rvars
  <2>1. <<>> \in Seq(RCommands) /\ <<>> \in Seq(REvents)
    OBVIOUS
  <2>2. CASE Session(Drain)
    BY <1>q, <2>1, <2>2 DEF Session, Drain, QueuesTypeOK, scene, tables, callback, roster
  <2>3. CASE StartUpdate
    BY <1>q, <2>1, <2>3 DEF StartUpdate, Poll, QueuesTypeOK, tables, callback, roster
  <2>4. CASE StartScene
    BY <1>q, <2>4 DEF StartScene, QueuesTypeOK, vars, queues, tables, callback, roster
  <2>5. CASE UNCHANGED rvars
    BY <1>q, <2>5 DEF rvars, QueuesTypeOK, vars, queues, scene, tables, callback, roster
  <2>6. QED
    BY <1>1, <2>2, <2>3, <2>4, <2>5
<1>2. CASE Session(TransmitSession) \/ TransmitEntity
  <2>1. /\ sending # <<>> /\ sending' = Tail(sending)
        /\ UNCHANGED <<outbound, inbound, batch, list, scene, tables, callback>>
    BY <1>2 DEF Session, TransmitSession, TransmitEntity, roster
  <2>2. sending' \in Seq(RCommands)
    BY <1>q, <2>1, TailSet DEF QueuesTypeOK
  <2>3. QED
    BY <1>q, <2>1, <2>2 DEF QueuesTypeOK, scene, tables, callback
<1>3. CASE StartPoll
  <2>1. /\ role = "Host" /\ stage' = "join" /\ entities' = entities
        /\ deferred' \subseteq deferred
        /\ UNCHANGED <<inbound, batch, sending, list, playing>>
    BY <1>3 DEF StartPoll, InPoll, roster
  <2>2. installed' \in BOOLEAN /\ cbRole' \in {"Offline", "Host"}
    BY <1>3, <1>q, <2>1
    DEF StartPoll, InstallPacketCallback, callback, QueuesTypeOK
  <2> DEFINE answers == FlattenSeq([k \in 1 .. Cardinality(deferred) |->
                                      Resync(SetToSeq(deferred)[k])])
  <2>3. answers \in Seq(RCommands) /\ outbound' = outbound \o answers
    BY <1>3, AnswersType, BackedCommands DEF StartPoll
  <2> HIDE DEF answers
  <2>4. outbound' \in Seq(RCommands)
    BY <1>q, <2>3, Concatenated DEF QueuesTypeOK
  <2>5. QED
    BY <1>q, <2>1, <2>2, <2>4 DEF QueuesTypeOK
<1>4. CASE VisitJoin
  <2>1. /\ stage' \in {stage, "reap"}
        /\ UNCHANGED <<inbound, batch, sending, list, playing, deferred, callback>>
    BY <1>4 DEF VisitJoin, InPoll, Advance, roster
  <2>2. CASE UNCHANGED <<entities, outbound>>
    BY <1>q, <2>1, <2>2 DEF QueuesTypeOK, callback
  <2>3. CASE /\ ids[cursor] # 0 /\ entities' = entities \cup {ids[cursor]}
             /\ outbound' = outbound \o Introduce(cursor)
    <3>1. outbound' \in Seq(RCommands)
      <4>1. Introduce(cursor) \in Seq(RCommands)
        BY <1>0, IntroduceType, BackedCommands
      <4>2. outbound \in Seq(RCommands)
        BY <1>q DEF QueuesTypeOK
      <4>3. outbound \o Introduce(cursor) \in Seq(RCommands)
        BY <4>1, <4>2, Concatenated
      <4>4. QED
        BY <2>3, <4>3
    <3>2. entities' \subseteq Nat \ {0} /\ IsFiniteSet(entities')
      <4>1. entities \subseteq Nat \ {0} /\ IsFiniteSet(entities)
        BY <1>q DEF QueuesTypeOK
      <4>2. ids[cursor] \in Nat \ {0} /\ IsFiniteSet(entities \cup {ids[cursor]})
        BY <1>0, <2>3, <4>1, FS_AddElement
      <4>3. QED
        BY <2>3, <4>1, <4>2
    <3>3. QED
      BY <1>q, <2>1, <3>1, <3>2 DEF QueuesTypeOK, callback
  <2>4. QED
    BY <1>4, <2>2, <2>3 DEF VisitJoin
<1>5. CASE VisitReap
  <2>1. /\ stage' \in {stage, "update"}
        /\ UNCHANGED <<inbound, batch, sending, list, playing, deferred, callback>>
        /\ entities' \subseteq entities
    BY <1>5 DEF VisitReap, InPoll, Advance, roster
  <2>2. outbound' = outbound \/ outbound' = Append(outbound, Destroy(peerID[cursor]))
    BY <1>5 DEF VisitReap
  <2>3. Destroy(peerID[cursor]) \in RCommands
    BY <1>0, CommandTypes DEF ReplicationInv, RegistryInv, RegistryTypeOK
  <2>4. outbound' \in Seq(RCommands)
    <3> DEFINE last == Destroy(peerID[cursor])
    <3>1. outbound \in Seq(RCommands) /\ last \in RCommands
      BY <1>q, <2>3 DEF QueuesTypeOK
    <3> HIDE DEF last
    <3>2. Append(outbound, last) \in Seq(RCommands)
      BY <3>1, AppendSet
    <3>3. QED
      BY <2>2, <3>1, <3>2 DEF last
  <2>5. IsFiniteSet(entities')
    BY <1>q, <2>1, FS_Subset DEF QueuesTypeOK
  <2>6. QED
    BY <1>q, <2>1, <2>4, <2>5 DEF QueuesTypeOK, callback
<1>6. ASSUME NEW i \in Indices,
             \/ Session(HandleConnected(i)) \/ Session(HandleDisconnected(i))
             \/ Session(Expire(i))
      PROVE  QueuesTypeOK'
  <2> DEFINE pl == PlayerList(list')
  <2>1. /\ UNCHANGED <<sending, inbound, scene, tables, callback>>
        /\ AddPlayer(i) \/ RemovePlayer(i)
        /\ \/ batch' = batch
           \/ batch # <<>> /\ batch' = Tail(batch)
        /\ \/ outbound' = Append(outbound, pl)
           \/ outbound' = outbound \o <<Assign(i, ids'[i]), pl>>
           \/ outbound' = outbound \o <<Kick(i), pl>>
    BY <1>6 DEF Session, HandleConnected, HandleDisconnected, Expire, Handling
  <2>2. list' \in Seq(Nat) /\ pl \in RCommands
    BY <2>1, RosterTypes
  <2>3. Assign(i, ids'[i]) \in RCommands /\ Kick(i) \in RCommands
    BY <1>r, CommandTypes DEF RegistryTypeOK
  <2>4. batch' \in Seq(REvents)
    <3>1. batch \in Seq(REvents)
      BY <1>q DEF QueuesTypeOK
    <3>2. batch # <<>> => Tail(batch) \in Seq(REvents)
      BY <3>1, TailSet
    <3>3. QED
      BY <2>1, <3>1, <3>2
  <2> HIDE DEF pl
  <2>5. outbound' \in Seq(RCommands)
    <3>1. outbound \in Seq(RCommands)
      BY <1>q DEF QueuesTypeOK
    <3>2. CASE outbound' = Append(outbound, pl)
      BY <2>2, <3>1, <3>2, AppendSet
    <3>3. CASE outbound' = outbound \o <<Assign(i, ids'[i]), pl>>
      BY <2>2, <2>3, <3>1, <3>3, PairSet
    <3>4. CASE outbound' = outbound \o <<Kick(i), pl>>
      BY <2>2, <2>3, <3>1, <3>4, PairSet
    <3>5. QED
      BY <2>1, <3>2, <3>3, <3>4
  <2>6. QED
    BY <1>q, <2>1, <2>2, <2>4, <2>5 DEF QueuesTypeOK, scene, tables, callback
<1>7. ASSUME NEW i \in Indices, HandleInput(i) \/ HandleLoaded(i)
      PROVE  QueuesTypeOK'
  <2>1. /\ UNCHANGED <<sending, inbound, list, scene, entities, callback>>
        /\ batch # <<>> /\ batch' = Tail(batch)
        /\ deferred' \subseteq deferred \cup {i}
    BY <1>7 DEF HandleInput, HandleLoaded, HandlePacket, Handling, roster
  <2>2. \/ outbound' = outbound \o <<>>
        \/ outbound' = outbound \o Resync(i)
    BY <1>7 DEF HandleInput, HandleLoaded, HandlePacket
  <2>3. outbound' \in Seq(RCommands)
    <3>1. outbound \in Seq(RCommands) /\ <<>> \in Seq(RCommands)
      BY <1>q DEF QueuesTypeOK
    <3>2. Resync(i) \in Seq(RCommands)
      BY ResyncType, BackedCommands
    <3>3. QED
      BY <2>2, <3>1, <3>2, Concatenated
  <2>4. batch' \in Seq(REvents)
    BY <1>q, <2>1, TailSet DEF QueuesTypeOK
  <2>5. QED
    BY <1>q, <2>1, <2>3, <2>4 DEF QueuesTypeOK, scene, callback
<1>8. CASE Remote
  <2>1. /\ UNCHANGED <<outbound, sending, batch, list, scene, tables, callback>>
        /\ \E i \in Indices, t \in RKinds : inbound' = Append(inbound, Event(t, i))
    <3>1. ASSUME NEW c \in Conns, Session(Connect(c))
          PROVE  \E i \in Indices : inbound' = Append(inbound, Event("Connected", i))
      <4> DEFINE Free == Indices \ Connected
      <4>1. Free # {} /\ inbound' = Append(inbound, Event("Connected", Min(Free)))
        BY <3>1 DEF Session, Connect, Connected
      <4>2. Free \subseteq Nat
        BY SessionAssumption DEF Indices
      <4>3. Min(Free) \in Indices
        BY <4>1, <4>2, MinOfSet
      <4> HIDE DEF Free
      <4>4. QED
        BY <4>1, <4>3
    <3>2. \A i \in Indices : PacketKinds[i] \subseteq RKinds
      BY ReplicationAssumption DEF RKinds
    <3>3. /\ "Connected" \in RKinds /\ "Disconnected" \in RKinds
          /\ UNCHANGED <<outbound, sending, batch, list, scene, tables, callback>>
      BY <1>8 DEF Remote, Session, Connect, Lose, Receive, roster, RKinds
    <3>4. QED
      BY <1>8, <3>1, <3>2, <3>3 DEF Remote, Session, Lose, Receive
  <2>2. inbound' \in Seq(REvents)
    BY <1>q, <2>1, CommandTypes, AppendSet DEF QueuesTypeOK
  <2>3. QED
    BY <1>q, <2>1, <2>2 DEF QueuesTypeOK, scene, tables, callback
<1>9. CASE StopScene
  <2>1. IsFiniteSet({})
    BY FS_EmptySet
  <2>2. QED
    BY <1>q, <1>9, <2>1
    DEF StopScene, NoTables, QueuesTypeOK, vars, queues, roster
<1>10. CASE DisconnectAll
  <2>1. <<>> \in Seq(RCommands) /\ <<>> \in Seq(REvents) /\ <<>> \in Seq(Nat)
    OBVIOUS
  <2>2. QED
    BY <1>q, <1>10, <2>1 DEF DisconnectAll, Disconnect, QueuesTypeOK, scene, tables
<1>11. CASE Session(HostGame \/ HostGameRefused)
  <2>1. <<HostID>> \in Seq(Nat)
    BY DEF HostID
  <2>2. QED
    BY <1>q, <1>11, <2>1
    DEF Session, HostGame, HostGameRefused, QueuesTypeOK, queues, scene, tables,
        callback, roster
<1>12. ASSUME NEW dt \in Ticks, Session(Age(dt)) PROVE QueuesTypeOK'
  BY <1>q, <1>12
  DEF Session, Age, QueuesTypeOK, queues, scene, tables, callback, roster
<1>13. QED
  BY <1>1, <1>2, <1>3, <1>4, <1>5, <1>6, <1>7, <1>8, <1>9, <1>10, <1>11, <1>12
  DEF RNext, NetworkStep, PollStep, UpdateStep, Caller

-----------------------------------------------------------------------------
(* Which client an ID belongs to, with NetworkSystem telling the clients.  *)

\* An index claims an ID that it is known by, that was sent to it, or that its
\* client was told.
Claims(id, i) == id \in Known(i) \/ Assign(i, id) \in Commanded \/ Told(id, i)

\* In the first session an ID has one claimant, and was handed out.  In a later one
\* in the same scene the IDs begin again, and the stale tables break both.
OneClaim ==
  sessions <= 1 =>
    /\ \A id \in Nat \ {0}, i, j \in Indices : Claims(id, i) /\ Claims(id, j) => i = j
    /\ role = "Host" => \A id \in Nat \ {0}, i \in Indices : Claims(id, i) => id < nextID

\* Nobody is connected, and nothing is under way, while nothing is hosted.
LinkIdle ==
  role = "Offline" => peers = NoPeers /\ outbound = <<>> /\ sending = <<>>

ClaimInv == LinkTypes /\ PeersDistinct /\ LinkIdle /\ OneClaim

\* A step that makes no claim.
LEMMA ClaimsKept ==
  ASSUME OneClaim, sessions' = sessions,
         role' = "Host" => role = "Host" /\ nextID' = nextID,
         \A j \in Indices : Known(j)' \subseteq Known(j),
         \A id \in Nat \ {0}, j \in Indices :
           Assign(j, id) \in Commanded' \/ Told(id, j)' => Claims(id, j)
  PROVE  OneClaim'
<1>1. ASSUME NEW id \in Nat \ {0}, NEW j \in Indices, Claims(id, j)'
      PROVE  Claims(id, j)
  <2>1. id \in Known(j)' \/ Assign(j, id) \in Commanded' \/ Told(id, j)'
    BY <1>1 DEF Claims, Assign
  <2>2. QED
    BY <2>1 DEF Claims
<1>2. QED
  BY <1>1 DEF OneClaim

\* A step in which index k comes to claim the next ID.
LEMMA ClaimsGrow ==
  ASSUME OneClaim, nextID \in Nat, NEW k \in Indices, sessions' = sessions,
         role = "Host", nextID' = nextID + 1,
         \A id \in Nat \ {0}, j \in Indices :
           Claims(id, j)' => Claims(id, j) \/ (id = nextID /\ j = k)
  PROVE  OneClaim'
<1>1. SUFFICES ASSUME sessions <= 1 PROVE OneClaim'
  BY DEF OneClaim
<1>2. \A id \in Nat \ {0}, j \in Indices : Claims(id, j) => id < nextID
  BY <1>1 DEF OneClaim
<1>3. \A id \in Nat \ {0}, j \in Indices : Claims(id, j)' => id < nextID'
  BY <1>2
<1>4. ASSUME NEW id \in Nat \ {0}, NEW i \in Indices, NEW j \in Indices,
             Claims(id, i)', Claims(id, j)'
      PROVE  i = j
  <2>1. CASE id = nextID
    BY <1>2, <1>4, <2>1
  <2>2. CASE id # nextID
    BY <1>1, <1>4, <2>2 DEF OneClaim
  <2>3. QED
    BY <2>1, <2>2
<1>5. QED
  BY <1>3, <1>4 DEF OneClaim

\* What NetworkSystem sends makes no claim: the tables make it already.
LEMMA BackedSent ==
  ASSUME ReplicationInv, NEW s \in Seq(Backed), outbound' = outbound \o s,
         sending' = sending, NEW id \in Nat \ {0}, NEW j \in Indices,
         Assign(j, id) \in Commanded'
  PROVE  Claims(id, j)
<1> DEFINE m == Assign(j, id)
<1>1. outbound \in Seq(RCommands) /\ s \in Seq(RCommands)
  BY BackedCommands DEF ReplicationInv, QueuesTypeOK
<1>2. /\ Len(outbound) \in Nat /\ Len(s) \in Nat
      /\ Len(outbound') = Len(outbound) + Len(s)
      /\ outbound' \in Seq(RCommands)
      /\ \A k \in 1 .. Len(outbound) : outbound'[k] = outbound[k]
      /\ \A k \in 1 .. Len(s) : outbound'[Len(outbound) + k] = s[k]
  BY <1>1, Concatenated
<1> HIDE DEF m
<1>3. CASE m \in ToSet(sending)
  BY <1>3 DEF Claims, Commanded, m
<1>4. CASE m \in ToSet(outbound')
  <2>1. PICK k \in 1 .. Len(outbound) + Len(s) : outbound'[k] = m
    BY <1>2, <1>4 DEF ToSet
  <2>2. CASE k \in 1 .. Len(outbound)
    <3>1. m \in ToSet(outbound)
      BY <1>1, <1>2, <2>1, <2>2 DEF ToSet
    <3>2. QED
      BY <3>1 DEF Claims, Commanded, m
  <2>3. CASE k \notin 1 .. Len(outbound)
    <3>1. /\ k - Len(outbound) \in 1 .. Len(s)
          /\ k = Len(outbound) + (k - Len(outbound))
      BY <1>2, <2>1, <2>3
    <3>2. m \in Backed
      BY <1>2, <2>1, <3>1
    <3>3. m.cmd = "PlayerAssign" /\ m.id = id /\ m.peer = j
      BY DEF m, Assign
    <3>4. QED
      BY <3>2, <3>3 DEF Backed, Claims
  <2>4. QED
    BY <2>2, <2>3
<1>5. QED
  BY <1>3, <1>4 DEF Commanded, m, Assign

\* Every step.
LEMMA ClaimStep ==
  ASSUME ReplicationAssumption, SessionAssumption, ReplicationInv, ClaimInv,
         [RNext]_rvars
  PROVE  ClaimInv'
<1>a. /\ role \in {"Offline", "Host"} /\ ids \in [Indices -> Nat]
      /\ avatar \in [Indices -> Nat] /\ peerID \in [Indices -> Nat]
      /\ nextID \in Nat /\ nextID # 0 /\ sessions \in Nat /\ cursor \in Indices
      /\ outbound \in Seq(RCommands) /\ sending \in Seq(RCommands)
      /\ role = "Offline" => phase = "frame"
  BY DEF ReplicationInv, RegistryInv, RegistryTypeOK, OfflineIdle, QueuesTypeOK, FirstID
<1>c. LinkTypes /\ PeersDistinct /\ LinkIdle /\ OneClaim
  BY DEF ClaimInv
<1>d. \A id \in Nat \ {0}, j \in Indices :
        Assign(j, id) \in Commanded \/ Told(id, j) => Claims(id, j)
  BY DEF Claims
\* The connections stay; the host may send what claims nothing new.
<1>1. ASSUME role = "Host", UNCHANGED <<role, sessions, nextID, peers, fresh, told>>,
             \A j \in Indices : Known(j)' \subseteq Known(j),
             \A id \in Nat \ {0}, j \in Indices :
               Assign(j, id) \in Commanded' => Claims(id, j)
      PROVE  ClaimInv'
  <2>1. LinkTypes' /\ PeersDistinct' /\ LinkIdle'
    BY <1>c, <1>1 DEF LinkTypes, PeersDistinct, LinkIdle, Connected
  <2>2. \A id \in Nat \ {0}, j \in Indices : Told(id, j)' => Claims(id, j)
    BY <1>1, <1>d DEF Told, Connected
  <2>3. OneClaim'
    BY <1>c, <1>1, <2>2, ClaimsKept
  <2>4. QED
    BY <2>1, <2>3 DEF ClaimInv
\* The tables stay as well, and nothing new is sent.
<1>2. ASSUME UNCHANGED <<role, sessions, nextID, peers, fresh, told, ids, avatar, peerID>>,
             Commanded' \subseteq Commanded, LinkIdle'
      PROVE  ClaimInv'
  <2>1. LinkTypes' /\ PeersDistinct'
    BY <1>c, <1>2 DEF LinkTypes, PeersDistinct, Connected
  <2>2. \A j \in Indices : Known(j)' \subseteq Known(j)
    BY <1>2 DEF Known
  <2>3. \A id \in Nat \ {0}, j \in Indices :
          Assign(j, id) \in Commanded' \/ Told(id, j)' => Claims(id, j)
    BY <1>2, <1>d DEF Told, Connected
  <2>4. OneClaim'
    BY <1>c, <1>2, <2>2, <2>3, ClaimsKept
  <2>5. QED
    BY <1>2, <2>1, <2>4 DEF ClaimInv
\* The connections change, and the tables do not.
<1>3. ASSUME LinkTypes', PeersDistinct', LinkIdle', Commanded' \subseteq Commanded,
             UNCHANGED <<role, sessions, nextID, ids, avatar, peerID>>,
             \A id \in Nat \ {0}, j \in Indices : Told(id, j)' => Claims(id, j)
      PROVE  ClaimInv'
  <2>1. \A j \in Indices : Known(j)' \subseteq Known(j)
    BY <1>3 DEF Known
  <2>2. \A id \in Nat \ {0}, j \in Indices :
          Assign(j, id) \in Commanded' \/ Told(id, j)' => Claims(id, j)
    BY <1>3, <1>d
  <2>3. OneClaim'
    BY <1>c, <1>3, <2>1, <2>2, ClaimsKept
  <2>4. QED
    BY <1>3, <2>3 DEF ClaimInv
<1>4. CASE Session(Drain)
  <2>1. /\ UNCHANGED <<role, sessions, nextID, peers, fresh, told, ids, avatar, peerID>>
        /\ sending' = outbound /\ outbound' = <<>> /\ outbound # <<>>
    BY <1>4 DEF Session, Drain, roster, client, bounds, tables
  <2>2. ToSet(<<>>) = {}
    BY DEF ToSet
  <2>3. Commanded' \subseteq Commanded /\ LinkIdle'
    BY <1>c, <2>1, <2>2 DEF Commanded, LinkIdle
  <2>4. QED
    BY <1>2, <2>1, <2>3
<1>5. CASE Session(TransmitSession) \/ TransmitEntity
  <2> DEFINE m == Head(sending)
  <2>1. /\ sending # <<>> /\ sending' = Tail(sending) /\ outbound' = outbound
        /\ UNCHANGED <<role, sessions, nextID, fresh, ids, avatar, peerID>>
    BY <1>5 DEF Session, TransmitSession, TransmitEntity, roster, bounds, tables
  <2>2. m \in RCommands /\ m \in Commanded /\ Commanded' \subseteq Commanded
    BY <1>a, <2>1, TailSet DEF Commanded
  <2>3. LinkIdle'
    BY <1>c, <2>1 DEF LinkIdle
  <2>4. CASE TransmitEntity
    <3>1. UNCHANGED <<peers, told>>
      BY <2>4 DEF TransmitEntity, client
    <3>2. QED
      BY <1>2, <2>1, <2>2, <2>3, <3>1
  <2>5. CASE TransmitSession
    <3>1. /\ m.cmd = "DisconnectPeer" => m.peer \in Indices
          /\ m.cmd = "PlayerAssign" => /\ m.peer \in Indices /\ m.id \in Nat
                                       /\ m = Assign(m.peer, m.id)
      BY <2>2 DEF RCommands, Commands, Assign
    <3>2. /\ LinkTypes' /\ PeersDistinct'
          /\ \A id \in Nat \ {0}, j \in Indices :
               Told(id, j)' => Told(id, j) \/ m = Assign(j, id)
      BY <1>c, <2>5, <3>1, TransmitTold
    <3> HIDE DEF m
    <3>3. QED
      BY <1>3, <2>1, <2>2, <2>3, <3>2 DEF Claims
  <2>6. QED
    BY <1>5, <2>4, <2>5 DEF Session
<1>6. CASE StartPoll
  <2> DEFINE answers == FlattenSeq([k \in 1 .. Cardinality(deferred) |->
                                      Resync(SetToSeq(deferred)[k])])
  <2>1. answers \in Seq(Backed) /\ outbound' = outbound \o answers
    BY <1>6, AnswersType DEF StartPoll
  <2> HIDE DEF answers
  <2>2. /\ role = "Host" /\ sending' = sending
        /\ UNCHANGED <<role, sessions, nextID, peers, fresh, told, ids, avatar, peerID>>
    BY <1>6 DEF StartPoll, InPoll, roster, client, bounds
  <2>3. \A id \in Nat \ {0}, j \in Indices : Assign(j, id) \in Commanded' => Claims(id, j)
    BY <2>1, <2>2, BackedSent
  <2>4. \A j \in Indices : Known(j)' \subseteq Known(j)
    BY <2>2 DEF Known
  <2>5. QED
    BY <1>1, <2>2, <2>3, <2>4
<1>7. CASE VisitJoin
  <2>1. /\ role = "Host" /\ sending' = sending
        /\ UNCHANGED <<role, sessions, nextID, peers, fresh, told, ids>>
    BY <1>7 DEF VisitJoin, InPoll, roster, client, bounds
  <2>2. CASE UNCHANGED <<avatar, peerID, outbound>>
    <3>1. LinkIdle' /\ Commanded' \subseteq Commanded
      BY <2>1, <2>2 DEF LinkIdle, Commanded
    <3>2. QED
      BY <1>2, <2>1, <2>2, <3>1
  <2>3. CASE /\ avatar' = [avatar EXCEPT ![cursor] = ids[cursor]]
             /\ peerID' = [peerID EXCEPT ![cursor] = ids[cursor]]
             /\ outbound' = outbound \o Introduce(cursor)
    <3>1. Introduce(cursor) \in Seq(Backed)
      BY <1>a, IntroduceType
    <3>2. \A id \in Nat \ {0}, j \in Indices :
            Assign(j, id) \in Commanded' => Claims(id, j)
      BY <2>1, <2>3, <3>1, BackedSent
    <3>3. \A j \in Indices : Known(j)' \subseteq Known(j)
      BY <1>a, <2>1, <2>3 DEF Known
    <3>4. QED
      BY <1>1, <2>1, <3>2, <3>3
  <2>4. QED
    BY <1>7, <2>2, <2>3 DEF VisitJoin
<1>8. CASE VisitReap
  <2> DEFINE last == Destroy(peerID[cursor])
  <2>1. /\ role = "Host" /\ sending' = sending
        /\ UNCHANGED <<role, sessions, nextID, peers, fresh, told, ids>>
    BY <1>8 DEF VisitReap, InPoll, roster, client, bounds
  <2>2. outbound' = outbound \/ outbound' = Append(outbound, last)
    BY <1>8 DEF VisitReap
  <2>3. last \in RCommands /\ last.cmd # "PlayerAssign"
    BY <1>a, CommandTypes DEF Destroy
  <2> HIDE DEF last
  <2>4. \A id \in Nat \ {0}, j \in Indices :
          Assign(j, id) \in Commanded' => Assign(j, id) \in Commanded
    <3>1. ToSet(outbound') \subseteq ToSet(outbound) \cup {last}
      BY <1>a, <2>2, <2>3, AppendSet
    <3>2. QED
      BY <2>1, <2>3, <3>1 DEF Commanded, Assign
  <2>5. \A j \in Indices : Known(j)' \subseteq Known(j)
    BY <1>8, <1>a, <2>1 DEF VisitReap, Known
  <2>6. QED
    BY <1>1, <1>d, <2>1, <2>4, <2>5
<1>9. CASE StartUpdate \/ StartScene
  <2>1. /\ UNCHANGED <<role, sessions, nextID, peers, fresh, told, ids, avatar, peerID>>
        /\ UNCHANGED <<outbound, sending>>
    BY <1>9 DEF StartUpdate, StartScene, Poll, vars, queues, roster, client, bounds,
                tables
  <2>2. LinkIdle' /\ Commanded' \subseteq Commanded
    BY <1>c, <2>1 DEF LinkIdle, Commanded
  <2>3. QED
    BY <1>2, <2>1, <2>2
<1>10. ASSUME NEW i \in Indices, Session(HandleConnected(i)) PROVE ClaimInv'
  <2> DEFINE pl == PlayerList(list')
             m == Assign(i, ids'[i])
  <2>1. /\ AddPlayer(i) /\ phase = "handle" /\ outbound' = outbound \o <<m, pl>>
        /\ sending' = sending
        /\ UNCHANGED <<role, sessions, peers, fresh, told, avatar, peerID>>
    BY <1>10 DEF Session, HandleConnected, Handling, client, bounds, tables
  <2>2. role = "Host"
    BY <1>a, <2>1
  <2>3. \/ UNCHANGED <<ids, nextID>> /\ ids[i] # 0
        \/ /\ ids' = [ids EXCEPT ![i] = nextID] /\ ids[i] = 0
           /\ nextID' = nextID + 1
    BY <2>1 DEF AddPlayer, roster
  <2>4. ids'[i] \in Nat /\ ids'[i] # 0
    BY <1>a, <2>3
  <2>5. pl \in RCommands /\ m \in RCommands /\ pl.cmd # "PlayerAssign"
    BY <2>1, <2>4, RosterTypes, CommandTypes DEF PlayerList
  <2>6. \A id \in Nat \ {0}, j \in Indices :
          Assign(j, id) \in Commanded' =>
            Assign(j, id) \in Commanded \/ (j = i /\ id = ids'[i])
    <3> HIDE DEF m, pl
    <3>1. ToSet(outbound') = ToSet(outbound) \cup {m, pl}
      BY <1>a, <2>1, <2>5, PairSet
    <3>2. \A id \in Nat \ {0}, j \in Indices :
            Assign(j, id) # pl /\ (Assign(j, id) = m => j = i /\ id = ids'[i])
      BY <2>5 DEF Assign, m
    <3>3. Commanded' = Commanded \cup {m, pl}
      BY <2>1, <3>1 DEF Commanded
    <3>4. QED
      BY <3>2, <3>3
  <2> HIDE DEF m, pl
  <2>7. CASE UNCHANGED <<ids, nextID>> /\ ids[i] # 0
    <3>1. \A j \in Indices : Known(j)' \subseteq Known(j)
      BY <2>1, <2>7 DEF Known
    <3>2. ids[i] \in Known(i)
      BY <1>a, <2>7 DEF Known
    <3>3. \A id \in Nat \ {0}, j \in Indices :
            Assign(j, id) \in Commanded' => Claims(id, j)
      BY <1>d, <2>6, <2>7, <3>2 DEF Claims
    <3>4. QED
      BY <1>1, <2>1, <2>2, <2>7, <3>1, <3>3
  <2>8. CASE /\ ids' = [ids EXCEPT ![i] = nextID] /\ ids[i] = 0
             /\ nextID' = nextID + 1
    <3>1. ids'[i] = nextID
      BY <1>a, <2>8
    <3>2. \A id \in Nat \ {0}, j \in Indices :
            id \in Known(j)' => id \in Known(j) \/ (id = nextID /\ j = i)
      BY <1>a, <2>1, <2>8 DEF Known
    <3>3. \A id \in Nat \ {0}, j \in Indices : Told(id, j)' => Told(id, j)
      BY <2>1 DEF Told, Connected
    <3>4. ASSUME NEW id \in Nat \ {0}, NEW j \in Indices, Claims(id, j)'
          PROVE  Claims(id, j) \/ (id = nextID /\ j = i)
      <4>1. id \in Known(j)' \/ Assign(j, id) \in Commanded' \/ Told(id, j)'
        BY <3>4 DEF Claims, Assign
      <4>2. QED
        BY <2>6, <3>1, <3>2, <3>3, <4>1 DEF Claims
    <3>5. OneClaim'
      BY <1>a, <1>c, <2>1, <2>2, <2>8, <3>4, ClaimsGrow
    <3>6. LinkTypes' /\ PeersDistinct' /\ LinkIdle'
      BY <1>c, <2>1, <2>2 DEF LinkTypes, PeersDistinct, LinkIdle, Connected
    <3>7. QED
      BY <3>5, <3>6 DEF ClaimInv
  <2>9. QED
    BY <2>3, <2>7, <2>8
<1>11. ASSUME NEW i \in Indices, Session(HandleDisconnected(i)) \/ Session(Expire(i))
       PROVE  ClaimInv'
  <2> DEFINE pl == PlayerList(list')
  <2>1. /\ RemovePlayer(i) /\ phase # "frame" /\ sending' = sending
        /\ outbound' = Append(outbound, pl) \/ outbound' = outbound \o <<Kick(i), pl>>
        /\ UNCHANGED <<role, sessions, peers, fresh, told, avatar, peerID>>
    BY <1>11 DEF Session, HandleDisconnected, Handling, Expire, client, bounds, tables
  <2>2. role = "Host"
    BY <1>a, <2>1
  <2>3. nextID' = nextID /\ \A j \in Indices : Known(j)' \subseteq Known(j)
    BY <1>a, <2>1 DEF RemovePlayer, Known
  <2>4. /\ pl \in RCommands /\ pl.cmd # "PlayerAssign"
        /\ Kick(i) \in RCommands /\ Kick(i).cmd # "PlayerAssign"
    BY <2>1, RosterTypes, CommandTypes DEF PlayerList, Kick
  <2> HIDE DEF pl
  <2>5. ToSet(outbound') \subseteq ToSet(outbound) \cup {Kick(i), pl}
    <3>1. ToSet(Append(outbound, pl)) = ToSet(outbound) \cup {pl}
      BY <1>a, <2>4, AppendSet
    <3>2. ToSet(outbound \o <<Kick(i), pl>>) = ToSet(outbound) \cup {Kick(i), pl}
      BY <1>a, <2>4, PairSet
    <3>3. QED
      BY <2>1, <3>1, <3>2
  <2>6. \A id \in Nat \ {0}, j \in Indices :
          Assign(j, id) \in Commanded' => Assign(j, id) \in Commanded
    BY <2>1, <2>4, <2>5 DEF Commanded, Assign
  <2>7. QED
    BY <1>1, <1>d, <2>1, <2>2, <2>3, <2>6
<1>12. ASSUME NEW i \in Indices, HandleInput(i) \/ HandleLoaded(i)
       PROVE  ClaimInv'
  <2>1. /\ phase = "handle" /\ sending' = sending
        /\ UNCHANGED <<role, sessions, nextID, peers, fresh, told, ids, avatar>>
    BY <1>12 DEF HandleInput, HandleLoaded, HandlePacket, Handling, client, bounds,
                 roster
  <2>2. role = "Host"
    BY <1>a, <2>1
  <2>3. peerID' = peerID \/ peerID' = [peerID EXCEPT ![i] = KnownID(i)]
    BY <1>12 DEF HandleInput, HandleLoaded
  <2>4. \A j \in Indices : Known(j)' \subseteq Known(j)
    BY <1>a, <2>1, <2>3 DEF Known, KnownID
  <2>5. \E s \in Seq(Backed) : outbound' = outbound \o s
    <3>1. <<>> \in Seq(Backed) /\ Resync(i) \in Seq(Backed)
      BY ResyncType
    <3>2. outbound' = outbound \o <<>> \/ outbound' = outbound \o Resync(i)
      BY <1>12 DEF HandleInput, HandleLoaded, HandlePacket
    <3>3. QED
      BY <3>1, <3>2
  <2>6. \A id \in Nat \ {0}, j \in Indices : Assign(j, id) \in Commanded' => Claims(id, j)
    BY <2>1, <2>5, BackedSent
  <2>7. QED
    BY <1>1, <2>1, <2>2, <2>4, <2>6
<1>13. CASE Remote
  <2>1. /\ UNCHANGED <<role, outbound, sending, sessions, nextID, ids, avatar, peerID>>
        /\ Commanded' \subseteq Commanded
    BY <1>13 DEF Remote, Session, Connect, Lose, Receive, roster, bounds, tables,
                 Commanded
  <2>2. ASSUME NEW c \in Conns, Connect(c)
        PROVE  /\ LinkTypes' /\ PeersDistinct' /\ LinkIdle'
               /\ \A id \in Nat \ {0}, j \in Indices : Told(id, j)' => Told(id, j)
    <3>1. LinkIdle'
      BY <2>1, <2>2 DEF Connect, LinkIdle
    <3>2. QED
      BY <1>c, <2>2, <3>1, ConnectTold
  <2>3. ASSUME NEW i \in Indices, Lose(i)
        PROVE  /\ LinkTypes' /\ PeersDistinct' /\ LinkIdle'
               /\ \A id \in Nat \ {0}, j \in Indices : Told(id, j)' => Told(id, j)
    <3>1. peers' = [peers EXCEPT ![i] = NoConn] /\ UNCHANGED <<fresh, told>>
      BY <2>3 DEF Lose, client
    <3>2. LinkIdle'
      BY <1>a, <1>c, <2>1, <2>3 DEF Lose, LinkIdle, Connected, NoPeers
    <3>3. QED
      BY <1>c, <3>1, <3>2, CutTold
  <2>4. ASSUME NEW i \in Indices, NEW p \in PacketKinds[i], Receive(i, p)
        PROVE  /\ LinkTypes' /\ PeersDistinct' /\ LinkIdle'
               /\ \A id \in Nat \ {0}, j \in Indices : Told(id, j)' => Told(id, j)
    BY <1>c, <2>1, <2>4
    DEF Receive, client, LinkTypes, PeersDistinct, LinkIdle, Told, Connected
  <2>5. /\ LinkTypes' /\ PeersDistinct' /\ LinkIdle'
        /\ \A id \in Nat \ {0}, j \in Indices : Told(id, j)' => Told(id, j)
    BY <1>13, <2>2, <2>3, <2>4 DEF Remote, Session
  <2>6. QED
    BY <1>3, <1>d, <2>1, <2>5
<1>14. CASE StopScene
  <2>1. /\ UNCHANGED <<role, sessions, nextID, peers, fresh, told, outbound, sending>>
        /\ ids' = ids /\ avatar' = NoIDs /\ peerID' = NoIDs
    BY <1>14 DEF StopScene, NoTables, vars, queues, roster, client, bounds
  <2>2. \A j \in Indices : Known(j)' \subseteq Known(j)
    BY <2>1 DEF Known, NoIDs
  <2>3. \A id \in Nat \ {0}, j \in Indices :
          Assign(j, id) \in Commanded' \/ Told(id, j)' => Claims(id, j)
    BY <1>d, <2>1 DEF Commanded, Told, Connected
  <2>4. OneClaim'
    BY <1>c, <2>1, <2>2, <2>3, ClaimsKept
  <2>5. LinkTypes' /\ PeersDistinct' /\ LinkIdle'
    BY <1>c, <2>1 DEF LinkTypes, PeersDistinct, LinkIdle, Connected
  <2>6. QED
    BY <2>4, <2>5 DEF ClaimInv
<1>15. CASE DisconnectAll
  <2>1. /\ role' = "Offline" /\ peers' = NoPeers /\ ids' = NoIDs
        /\ outbound' = <<>> /\ sending' = <<>>
        /\ UNCHANGED <<fresh, told, sessions, avatar, peerID>>
    BY <1>15 DEF DisconnectAll, Disconnect, client, bounds, tables
  <2>2. Connected' = {} /\ Commanded' = {}
    BY <2>1 DEF Connected, NoPeers, Commanded, ToSet
  <2>3. \A j \in Indices : Known(j)' \subseteq Known(j)
    BY <2>1 DEF Known, NoIDs
  <2>4. OneClaim'
    <3>1. \A id \in Nat \ {0}, j \in Indices :
            ~ Assign(j, id) \in Commanded' /\ ~ Told(id, j)'
      BY <2>2 DEF Told
    <3>2. QED
      BY <1>c, <2>1, <2>3, <3>1, ClaimsKept
  <2>5. LinkTypes' /\ PeersDistinct' /\ LinkIdle'
    BY <1>c, <2>1, <2>2 DEF LinkTypes, PeersDistinct, LinkIdle, NoPeers
  <2>6. QED
    BY <2>4, <2>5 DEF ClaimInv
<1>16. CASE Session(HostGame)
  <2>1. /\ role = "Offline" /\ role' = "Host" /\ sessions' = sessions + 1
        /\ ids' = NoIDs /\ UNCHANGED <<peers, fresh, told, avatar, peerID>>
        /\ UNCHANGED <<outbound, sending>>
    BY <1>16 DEF Session, HostGame, queues, client, tables
  <2>2. Connected' = {} /\ Commanded' = {}
    BY <1>c, <2>1 DEF LinkIdle, Connected, NoPeers, Commanded, ToSet
  <2>3. LinkTypes' /\ PeersDistinct' /\ LinkIdle'
    BY <1>c, <2>1, <2>2 DEF LinkTypes, PeersDistinct, LinkIdle
  <2>4. OneClaim'
    <3>1. SUFFICES ASSUME sessions' <= 1 PROVE OneClaim'
      BY DEF OneClaim
    <3>2. sessions = 0
      BY <1>a, <2>1, <3>1
    <3>3. avatar = NoIDs /\ peerID = NoIDs
      BY <3>2 DEF ReplicationInv, RegistryInv, OfflineIdle
    <3>4. \A j \in Indices : Known(j)' = {}
      BY <2>1, <3>3 DEF Known, NoIDs
    <3>5. \A id \in Nat \ {0}, j \in Indices : ~Claims(id, j)'
      BY <2>2, <3>4 DEF Claims, Told
    <3>6. QED
      BY <3>5 DEF OneClaim
  <2>5. QED
    BY <2>3, <2>4 DEF ClaimInv
<1>17. ASSUME \/ Session(HostGameRefused) \/ UNCHANGED rvars
              \/ \E dt \in Ticks : Session(Age(dt))
       PROVE  ClaimInv'
  <2>1. /\ UNCHANGED <<role, sessions, nextID, peers, fresh, told, ids, avatar, peerID>>
        /\ UNCHANGED <<outbound, sending>>
    BY <1>17 DEF Session, HostGameRefused, Age, rvars, vars, queues, roster, client,
                 bounds, tables
  <2>2. LinkIdle' /\ Commanded' \subseteq Commanded
    BY <1>c, <2>1 DEF LinkIdle, Commanded
  <2>3. QED
    BY <1>2, <2>1, <2>2
<1>18. Session(HostGame \/ HostGameRefused)
         => Session(HostGame) \/ Session(HostGameRefused)
  BY DEF Session
<1>19. QED
  BY <1>4, <1>5, <1>6, <1>7, <1>8, <1>9, <1>10, <1>11, <1>12, <1>13, <1>14, <1>15,
     <1>16, <1>17, <1>18
  DEF RNext, NetworkStep, PollStep, UpdateStep, Caller

-----------------------------------------------------------------------------
(* Theorems.                                                               *)

\* The tables of NetworkSystem and those of the session stay in step.
THEOREM RegistryInvariance == RSpec => []RegistryInv
<1>1. RInit => RegistryInv
  BY SessionAssumption, RegistryInit
<1>2. RegistryInv /\ [RNext]_rvars => RegistryInv'
  BY SessionAssumption, ReplicationAssumption, RegistryStep
<1>3. QED
  BY <1>1, <1>2, PTL DEF RSpec

\* m_PeerToAvatar, m_PeerToNetworkID and the entities of the scene agree, however
\* clients come, go and take each other's indices over.
THEOREM AvatarsStayRegistered == RSpec => []AvatarsRegistered
<1>1. RegistryInv => AvatarsRegistered
  <2>1. SUFFICES ASSUME RegistryInv PROVE AvatarsRegistered
    OBVIOUS
  <2>2. ASSUME sessions <= 1, NEW i \in Indices, NEW j \in Indices,
               avatar[i] = avatar[j], avatar[i] # 0
        PROVE  i = j
    BY <2>1, <2>2 DEF RegistryInv, KnownOnce, Known
  <2>3. QED
    BY <2>1, <2>2 DEF RegistryInv, EntitiesKnown, RegisteredAs, AvatarsRegistered
<1>2. QED
  BY <1>1, RegistryInvariance, PTL

\* The initial states, with empty queues.
LEMMA ReplicationInit ==
  ASSUME SessionAssumption, RInit
  PROVE  ReplicationInv
<1>1. IsFiniteSet({})
  BY FS_EmptySet
<1>2. <<>> \in Seq(RCommands) /\ <<>> \in Seq(REvents) /\ <<>> \in Seq(Nat)
  OBVIOUS
<1>3. QueuesTypeOK
  BY <1>1, <1>2 DEF RInit, Init, QueuesTypeOK
<1>4. QED
  BY <1>3, RegistryInit DEF ReplicationInv

\* With the queues: every message is one the clients know, to an index they can
\* have, and about an ID.
THEOREM ReplicationInvariance == RSpec => []ReplicationInv
<1>1. RInit => ReplicationInv
  BY SessionAssumption, ReplicationInit
<1>2. ReplicationInv /\ [RNext]_rvars => ReplicationInv'
  BY SessionAssumption, ReplicationAssumption, RegistryStep, QueuesStep
  DEF ReplicationInv
<1>3. QED
  BY <1>1, <1>2, PTL DEF RSpec

\* The variables keep their types, whatever the number of clients.
THEOREM TypesKept == RSpec => []RTypeOK
<1>1. ReplicationInv => RTypeOK
  BY DEF ReplicationInv, RegistryInv, RegistryTypeOK, QueuesTypeOK, RTypeOK
<1>2. QED
  BY <1>1, ReplicationInvariance, PTL

\* While a scene runs, only SyncPeerAvatars takes an avatar out of it, and the ID
\* it announces is that of the entity it removes.
THEOREM RemovalAnnounced == RSpec => RemovalIsAnnounced
<1>1. ASSUME ReplicationInv, [RNext]_rvars, playing',
             NEW id \in entities \ entities'
      PROVE  Destroy(id) \in Range(outbound')
  <2>1. CASE VisitReap
    <3> DEFINE i == cursor
               last == Destroy(peerID[i])
    <3>1. /\ i \in Indices /\ id # 0 /\ id \in {avatar[i], peerID[i]}
          /\ avatar[i] # 0 => peerID[i] = avatar[i]
          /\ outbound \in Seq(RCommands)
      BY <1>1, <2>1
      DEF VisitReap, ReplicationInv, RegistryInv, RegistryTypeOK, RegisteredAs,
          QueuesTypeOK
    <3>2. id = peerID[i] /\ peerID[i] # 0
      BY <3>1
    <3>3. i \notin Connected
      BY <1>1, <2>1 DEF VisitReap
    <3>4. outbound' = Append(outbound, last)
      BY <2>1, <3>2, <3>3 DEF VisitReap
    <3>5. Destroy(id) = last
      BY <3>2
    <3> HIDE DEF last
    <3>6. /\ Len(outbound) + 1 \in DOMAIN Append(outbound, last)
          /\ Append(outbound, last)[Len(outbound) + 1] = last
      BY <3>1
    <3>7. QED
      BY <3>4, <3>5, <3>6 DEF Range
  <2>2. CASE VisitJoin
    BY <1>1, <2>2 DEF VisitJoin
  <2>3. CASE StopScene
    BY <1>1, <2>3 DEF StopScene
  <2>4. CASE ~ (VisitReap \/ VisitJoin \/ StopScene)
    <3>1. entities' = entities
      BY <1>1, <2>4
      DEF RNext, NetworkStep, PollStep, UpdateStep, Remote, Caller, Session,
          TransmitEntity, StartPoll, StartUpdate, HandleInput, HandleLoaded,
          StartScene, DisconnectAll, tables, rvars
    <3>2. QED
      BY <1>1, <3>1
  <2>5. QED
    BY <2>1, <2>2, <2>3, <2>4
<1>2. ReplicationInv /\ [RNext]_rvars
        => [playing' => \A id \in entities \ entities' :
                          Destroy(id) \in Range(outbound')]_rvars
  BY <1>1
<1>3. QED
  BY <1>2, ReplicationInvariance, PTL DEF RSpec, RemovalIsAnnounced

\* In the first session no two clients are told the same network ID, although now
\* avatars and resynchronisation tell IDs too, from tables that lag behind m_PeerMap.
THEOREM IDsStillNotShared == RSpec => [](sessions <= 1 => NoSharedID)
<1>1. RInit => ReplicationInv /\ ClaimInv
  <2>1. SUFFICES ASSUME RInit PROVE ReplicationInv /\ ClaimInv
    OBVIOUS
  <2>2. /\ role = "Offline" /\ peers = NoPeers /\ outbound = <<>> /\ sending = <<>>
        /\ fresh = Conns /\ told = [c \in Conns |-> 0]
        /\ ids = NoIDs /\ avatar = NoIDs /\ peerID = NoIDs
    BY <2>1 DEF RInit, Init
  <2>3. Connected = {} /\ Commanded = {}
    BY <2>2 DEF Connected, NoPeers, Commanded, ToSet
  <2>4. LinkTypes /\ PeersDistinct /\ LinkIdle
    BY <2>2, <2>3 DEF LinkTypes, PeersDistinct, LinkIdle, NoPeers
  <2>5. OneClaim
    <3>1. \A id \in Nat \ {0}, j \in Indices : ~Claims(id, j)
      BY <2>2, <2>3 DEF Claims, Told, Known, NoIDs
    <3>2. QED
      BY <3>1 DEF OneClaim
  <2>6. QED
    BY <2>1, <2>4, <2>5, ReplicationInit, SessionAssumption DEF ClaimInv
<1>2. ReplicationInv /\ ClaimInv /\ [RNext]_rvars => ReplicationInv' /\ ClaimInv'
  BY SessionAssumption, ReplicationAssumption, RegistryStep, QueuesStep, ClaimStep
  DEF ReplicationInv
<1>3. ReplicationInv /\ ClaimInv => (sessions <= 1 => NoSharedID)
  <2>1. SUFFICES ASSUME ClaimInv, sessions <= 1, NEW i \in Connected,
                        NEW j \in Connected, told[peers[i]] = told[peers[j]],
                        told[peers[i]] # 0
                 PROVE  i = j
    BY DEF NoSharedID
  <2>2. i \in Indices /\ j \in Indices /\ told[peers[i]] \in Nat
    BY <2>1 DEF ClaimInv, LinkTypes, Connected
  <2>3. Claims(told[peers[i]], i) /\ Claims(told[peers[i]], j)
    BY <2>1 DEF Claims, Told
  <2>4. QED
    BY <2>1, <2>2, <2>3 DEF ClaimInv, OneClaim
<1>4. QED
  BY <1>1, <1>2, <1>3, PTL DEF RSpec

-----------------------------------------------------------------------------
(* The session under the replication.                                      *)

\* What NetworkSystem does touches none of the tables of the session.
LEMMA ReplicatedRosterMove ==
  ASSUME RegistryInv, [RNext]_rvars
  PROVE  RosterMove
<1>1. /\ role \in {"Offline", "Host"}
      /\ role = "Offline" => phase = "frame"
  BY DEF RegistryInv, RegistryTypeOK, OfflineIdle
<1>2. ASSUME NEW i \in Indices,
             \/ Session(HandleConnected(i)) \/ Session(HandleDisconnected(i))
             \/ Session(Expire(i))
      PROVE  RosterMove
  <2>1. /\ AddPlayer(i) \/ RemovePlayer(i)
        /\ phase \in {"handle", "expire"}
        /\ role' = role
    BY <1>2 DEF Session, HandleConnected, HandleDisconnected, Expire, Handling
  <2>2. QED
    BY <1>1, <2>1 DEF RosterMove
<1>3. ASSUME DisconnectAll \/ Session(HostGame)
      PROVE  RosterMove
  BY <1>3 DEF DisconnectAll, Disconnect, Session, HostGame, RosterMove
<1>4. ASSUME \/ NetworkStep \/ PollStep \/ StartUpdate \/ Remote
             \/ \E i \in Indices : HandleInput(i) \/ HandleLoaded(i)
             \/ StopScene \/ StartScene \/ Session(HostGameRefused)
             \/ \E dt \in Ticks : Session(Age(dt))
             \/ UNCHANGED rvars
      PROVE  UNCHANGED <<role, roster>>
  BY <1>4
  DEF NetworkStep, PollStep, Remote, Session, Drain, TransmitSession, TransmitEntity,
      StartPoll, VisitJoin, VisitReap, InPoll, StartUpdate, Poll, Connect, Lose,
      Receive, HandleInput, HandleLoaded, HandlePacket, Handling, StopScene,
      StartScene, HostGameRefused, Age, rvars, vars
<1>5. Session(HostGame \/ HostGameRefused)
        => Session(HostGame) \/ Session(HostGameRefused)
  BY DEF Session
<1>6. QED
  BY <1>2, <1>3, <1>4, <1>5 DEF RNext, UpdateStep, Caller, RosterMove

\* m_PlayerList and m_ClientIndexToNetworkID agree with avatars, deferred messages and
\* resynchronisation running over them.
THEOREM TablesStillAgree == RSpec => []TablesAgree
<1>1. RInit => RosterInv
  <2>1. SUFFICES ASSUME RInit PROVE RosterInv
    OBVIOUS
  <2>2. ids = NoIDs /\ list = <<>> /\ nextID = FirstID /\ role = "Offline"
    BY <2>1 DEF RInit, Init
  <2>3. QED
    BY <2>2 DEF RosterInv, RosterOK, MappedOnce, ListMatches, NoIDs, FirstID,
                Distinct, ToSet
<1>2. RegistryInv /\ RosterInv /\ [RNext]_rvars => RosterInv'
  BY ReplicatedRosterMove, RosterMoves
<1>3. RosterInv => TablesAgree
  BY DEF RosterInv, MappedOnce, ListMatches, RosterOK, Distinct, TablesAgree
<1>4. QED
  BY <1>1, <1>2, <1>3, RegistryInvariance, PTL DEF RSpec

\* The host that replicates still implements Roster.
THEOREM RosterStillImplemented == RSpec => ImplementsRoster
<1>1. RInit => RosterInv /\ Abstract!Init
  <2>1. SUFFICES ASSUME RInit PROVE RosterInv /\ Abstract!Init
    OBVIOUS
  <2>2. ids = NoIDs /\ list = <<>> /\ nextID = FirstID /\ role = "Offline"
    BY <2>1 DEF RInit, Init
  <2>3. RosterInv
    BY <2>2 DEF RosterInv, RosterOK, MappedOnce, ListMatches, NoIDs, FirstID,
                Distinct, ToSet
  <2>4. Abstract!Init
    BY <2>2 DEF Abstract!Init, Players, Range, NoIDs, FirstID, Abstract!FirstID
  <2>5. QED
    BY <2>3, <2>4
<1>2. RegistryInv /\ RosterInv /\ [RNext]_rvars
        => RosterInv' /\ [Abstract!Next]_<<role = "Host", Players, nextID>>
  BY ReplicatedRosterMove, RosterMoves
<1>3. QED
  BY <1>1, <1>2, RegistryInvariance, PTL DEF RSpec, ImplementsRoster, Abstract!Spec
=============================================================================
