---------------------------- MODULE PeerSession -----------------------------
(***************************************************************************)
(* The host's side of a multiplayer session: ENetThreadedDriver (host      *)
(* role), NetworkSession, NetworkPlayerManager and the connection          *)
(* callbacks of Network.                                                   *)
(*                                                                         *)
(* Two threads share m_PeerMap, the outbound and the inbound queue.  The   *)
(* network thread gives each connection the lowest free client index and   *)
(* carries out the commands of the game thread, which addresses clients by *)
(* index only.  The game thread learns of arrivals and departures when it  *)
(* polls the inbound queue, once per frame, so an index can have changed   *)
(* hands between the moment a command is queued and the moment it is sent. *)
(*                                                                         *)
(* Connections are numbered as they are opened.  What a client has         *)
(* received on the reliable, ordered SYSTEM channel is kept only as far as *)
(* its last PlayerAssign (told) and its last PlayerList (seen).            *)
(***************************************************************************)
EXTENDS Naturals, FiniteSets, SequencesExt

CONSTANTS
  Conns,        \* the connections remote players open
  NoConn,       \* no entry in m_PeerMap
  MaxClients,   \* maxClients of HostGame
  Timeout,      \* kClientTimeoutSeconds, in ticks of the session timers
  Ticks,        \* what one frame may add to the session timers
  MaxListed,    \* the entries of a PlayerListMessage, 64
  MaxBacklog,   \* bound: commands the network thread may be behind when a frame starts
  MaxSessions,  \* bound: successful HostGame calls
  MaxRefused    \* bound: HostGame calls refused with AlreadyConnected

ASSUME SessionAssumption ==
  /\ Conns \subseteq Nat /\ IsFiniteSet(Conns) /\ NoConn \notin Conns
  /\ MaxClients \in Nat \ {0} /\ Timeout \in Nat \ {0}
  /\ Ticks \subseteq Nat /\ Ticks # {} /\ MaxListed \in Nat \ {0}
  /\ MaxBacklog \in Nat /\ MaxSessions \in Nat /\ MaxRefused \in Nat

Indices == 0 .. MaxClients - 1
HostID == 1     \* kHostNetworkID
FirstID == 2    \* m_NextNetworkID after Reset

VARIABLES
  role,       \* m_Role: "Offline" or "Host"
  peers,      \* m_PeerMap
  fresh,      \* connections that have not been opened yet
  outbound,   \* m_OutboundQueue
  sending,    \* pendingOutbound of the network thread
  inbound,    \* m_InboundQueue
  phase,      \* where the game thread is in Network::Update
  batch,      \* polledEvents not yet handled
  activity,   \* m_PeerLastActivityTime
  ids,        \* m_ClientIndexToNetworkID, 0 for an index without entry
  list,       \* the network IDs of m_PlayerList
  nextID,     \* m_NextNetworkID
  told,       \* the last PlayerAssign each connection received, 0 for none
  seen,       \* the IDs in the last PlayerList each connection received
  sessions, refused   \* calls counted against the bounds

queues == <<outbound, sending, inbound>>
roster == <<ids, list, nextID>>
client == <<told, seen>>
bounds == <<sessions, refused>>
vars == <<role, peers, fresh, queues, phase, batch, activity, roster, client,
          bounds>>

Phases == {"frame", "handle", "expire"}

NoPeers == [i \in Indices |-> NoConn]
NoIDs == [i \in Indices |-> 0]
NoTimers == [i \in {} |-> 0]

Event(type, i) == [type |-> type, peer |-> i]
Kick(i) == [cmd |-> "DisconnectPeer", peer |-> i]
Assign(i, id) == [cmd |-> "PlayerAssign", peer |-> i, id |-> id]

\* The entries of m_PlayerList that fit into the message.
Listed(l) == {l[n] : n \in {k \in DOMAIN l : k <= MaxListed}}
PlayerList(l) == [cmd |-> "PlayerList", ids |-> Listed(l)]

Init ==
  /\ role = "Offline" /\ peers = NoPeers /\ fresh = Conns
  /\ outbound = <<>> /\ sending = <<>> /\ inbound = <<>>
  /\ phase = "frame" /\ batch = <<>>
  /\ activity = NoTimers
  /\ ids = NoIDs /\ list = <<>> /\ nextID = FirstID
  /\ told = [c \in Conns |-> 0] /\ seen = [c \in Conns |-> {}]
  /\ sessions = 0 /\ refused = 0

-----------------------------------------------------------------------------
(* The network thread.  It carries out everything it drained before it     *)
(* services the next ENet event.                                           *)

Connected == {i \in Indices : peers[i] # NoConn}

\* ENET_EVENT_TYPE_CONNECT.  ENet was created with MaxClients peers.
Connect(c) ==
  /\ role = "Host" /\ sending = <<>>
  /\ fresh # {} /\ c = Min(fresh) /\ Connected # Indices
  /\ LET i == Min(Indices \ Connected)
     IN /\ peers' = [peers EXCEPT ![i] = c]
        /\ inbound' = Append(inbound, Event("Connected", i))
  /\ fresh' = fresh \ {c}
  /\ UNCHANGED <<role, outbound, sending, phase, batch, activity, roster,
                 client, bounds>>

\* ENET_EVENT_TYPE_DISCONNECT and ..._TIMEOUT.
Lose(i) ==
  /\ sending = <<>>
  /\ i \in Connected
  /\ peers' = [peers EXCEPT ![i] = NoConn]
  /\ inbound' = Append(inbound, Event("Disconnected", i))
  /\ UNCHANGED <<role, fresh, outbound, sending, phase, batch, activity,
                 roster, client, bounds>>

\* ENET_EVENT_TYPE_RECEIVE.  One unread packet per client is enough: a second
\* one is handled like the first.
Receive(i, type) ==
  /\ sending = <<>>
  /\ i \in Connected
  /\ Event(type, i) \notin ToSet(inbound)
  /\ inbound' = Append(inbound, Event(type, i))
  /\ UNCHANGED <<role, peers, fresh, outbound, sending, phase, batch,
                 activity, roster, client, bounds>>

Drain ==
  /\ sending = <<>> /\ outbound # <<>>
  /\ sending' = outbound
  /\ outbound' = <<>>
  /\ UNCHANGED <<role, peers, fresh, inbound, phase, batch, activity, roster,
                 client, bounds>>

\* One queued command.  A peer index is looked up when the command is carried
\* out; enet_peer_disconnect_now reports nothing to the game thread.
TransmitSession ==
  /\ sending # <<>>
  /\ LET m == Head(sending) IN
       \/ /\ m.cmd = "DisconnectPeer"
          /\ peers' = [peers EXCEPT ![m.peer] = NoConn]
          /\ UNCHANGED client
       \/ /\ m.cmd = "PlayerAssign"
          /\ told' = [c \in Conns |->
                        IF c = peers[m.peer] THEN m.id ELSE told[c]]
          /\ UNCHANGED <<peers, seen>>
       \/ /\ m.cmd = "PlayerList"
          /\ seen' = [c \in Conns |->
                        IF c \in Range(peers) THEN m.ids ELSE seen[c]]
          /\ UNCHANGED <<peers, told>>
  /\ sending' = Tail(sending)
  /\ UNCHANGED <<role, fresh, outbound, inbound, phase, batch, activity,
                 roster, bounds>>

-----------------------------------------------------------------------------
(* The game thread: NetworkPlayerManager.                                  *)

\* Slip: the ID is taken from the length of the player list.
AddPlayer_FromLength(i) ==
  IF ids[i] # 0 THEN UNCHANGED roster
  ELSE /\ ids' = [ids EXCEPT ![i] = Len(list) + 1]
       /\ list' = Append(list, Len(list) + 1)
       /\ nextID' = nextID + 1

\* OnClientConnected: nothing is done when the index is already mapped.
AddPlayer(i) ==
  IF ids[i] # 0 THEN UNCHANGED roster
  ELSE /\ ids' = [ids EXCEPT ![i] = nextID]
       /\ list' = Append(list, nextID)
       /\ nextID' = nextID + 1

\* Slip: the player keeps its entry in m_PlayerList.
RemovePlayer_KeepEntry(i) ==
  /\ ids' = [ids EXCEPT ![i] = 0]
  /\ UNCHANGED <<list, nextID>>

\* Slip: the ID of a player that leaves is given back.
RemovePlayer_GiveBack(i) ==
  /\ ids' = [ids EXCEPT ![i] = 0]
  /\ list' = RemoveFirst(list, ids[i])
  /\ nextID' = IF ids[i] = 0 THEN nextID ELSE nextID - 1

\* OnClientDisconnected.
RemovePlayer(i) ==
  /\ ids' = [ids EXCEPT ![i] = 0]
  /\ list' = RemoveFirst(list, ids[i])
  /\ UNCHANGED nextID

-----------------------------------------------------------------------------
(* The game thread: Network::Update, one frame.                            *)

\* RecordPeerActivity.
Touch(i) == [j \in DOMAIN activity \cup {i} |-> IF j = i THEN 0 ELSE activity[j]]

Untimed(i) == [j \in DOMAIN activity \ {i} |-> activity[j]]

\* NetworkSession::Update swaps the inbound queue.
Poll ==
  /\ phase = "frame" /\ role = "Host"
  /\ Len(outbound) + Len(sending) <= MaxBacklog
  /\ batch' = inbound /\ inbound' = <<>>
  /\ phase' = "handle"
  /\ UNCHANGED <<role, peers, fresh, outbound, sending, activity, roster,
                 client, bounds>>

\* The next event of the batch is of the given type and about index i.
Handling(type, i) ==
  /\ phase = "handle" /\ batch # <<>>
  /\ Head(batch) = Event(type, i)
  /\ batch' = Tail(batch)
  /\ UNCHANGED <<role, peers, fresh, sending, inbound, phase, client, bounds>>

\* Slip: the player list is broadcast, the client is not told its ID.
HandleConnected_NoAssign(i) ==
  /\ Handling("Connected", i)
  /\ activity' = Touch(i)
  /\ AddPlayer(i)
  /\ outbound' = Append(outbound, PlayerList(list'))

\* Slip: the timer of the new player is left for its first packet to start.
HandleConnected_NoTimer(i) ==
  /\ Handling("Connected", i)
  /\ activity' = activity
  /\ AddPlayer(i)
  /\ outbound' = outbound \o <<Assign(i, ids'[i]), PlayerList(list')>>

\* OnClientConnectedInternal.
HandleConnected(i) ==
  /\ Handling("Connected", i)
  /\ activity' = Touch(i)
  /\ AddPlayer(i)
  /\ outbound' = outbound \o <<Assign(i, ids'[i]), PlayerList(list')>>

\* Slip: the others are not told that a player left.
HandleDisconnected_Silent(i) ==
  /\ Handling("Disconnected", i)
  /\ activity' = Untimed(i)
  /\ RemovePlayer(i)
  /\ outbound' = outbound

\* OnClientDisconnectedInternal.
HandleDisconnected(i) ==
  /\ Handling("Disconnected", i)
  /\ activity' = Untimed(i)
  /\ RemovePlayer(i)
  /\ outbound' = Append(outbound, PlayerList(list'))

\* A packet: the session notes the activity, the packet callback answers.
HandlePacket(type, i, answer) ==
  /\ Handling(type, i)
  /\ activity' = Touch(i)
  /\ outbound' = outbound \o answer
  /\ UNCHANGED roster

TimedOut(timers) == {i \in DOMAIN timers : timers[i] >= Timeout}

\* Slip: timers are advanced and never compared.
Age_Uncompared(dt) ==
  /\ phase = "handle" /\ batch = <<>>
  /\ activity' = [i \in DOMAIN activity |-> activity[i] + dt]
  /\ phase' = "frame"
  /\ UNCHANGED <<role, peers, fresh, queues, batch, roster, client, bounds>>

\* CheckPeerTimeouts, first loop: dt is some part of a tick, or a whole one.
Age(dt) ==
  /\ phase = "handle" /\ batch = <<>>
  /\ activity' = [i \in DOMAIN activity |-> activity[i] + dt]
  /\ phase' = IF TimedOut(activity') = {} THEN "frame" ELSE "expire"
  /\ UNCHANGED <<role, peers, fresh, queues, batch, roster, client, bounds>>

\* CheckPeerTimeouts, second loop, in the order of a hash map.
Expire(i) ==
  /\ phase = "expire" /\ i \in TimedOut(activity)
  /\ activity' = Untimed(i)
  /\ RemovePlayer(i)
  /\ outbound' = outbound \o <<Kick(i), PlayerList(list')>>
  /\ phase' = IF TimedOut(activity') = {} THEN "frame" ELSE "expire"
  /\ UNCHANGED <<role, peers, fresh, sending, inbound, batch, client, bounds>>

-----------------------------------------------------------------------------
(* The game thread: calls between two frames.                              *)

\* The driver is offline: it starts hosting, and AddHostSelf opens the list.
HostGame ==
  /\ phase = "frame" /\ role = "Offline" /\ sessions < MaxSessions
  /\ role' = "Host" /\ sessions' = sessions + 1
  /\ activity' = NoTimers
  /\ ids' = NoIDs /\ list' = <<HostID>> /\ nextID' = FirstID
  /\ UNCHANGED <<peers, fresh, queues, phase, batch, client, refused>>

\* The driver is active and answers AlreadyConnected.  The session has cleared
\* its activity table by then; Network returns before it resets the players.
HostGameRefused ==
  /\ phase = "frame" /\ role = "Host" /\ refused < MaxRefused
  /\ refused' = refused + 1
  /\ activity' = NoTimers
  /\ UNCHANGED <<role, peers, fresh, queues, phase, batch, roster, client,
                 sessions>>

\* The network thread is joined before anything is cleared.
Disconnect ==
  /\ phase = "frame" /\ role = "Host"
  /\ role' = "Offline" /\ peers' = NoPeers
  /\ outbound' = <<>> /\ sending' = <<>> /\ inbound' = <<>>
  /\ activity' = NoTimers
  /\ ids' = NoIDs /\ list' = <<>> /\ nextID' = FirstID
  /\ UNCHANGED <<fresh, phase, batch, client, bounds>>

-----------------------------------------------------------------------------
NetworkThread == Drain \/ TransmitSession

Frame ==
  \/ Poll
  \/ \E i \in Indices : \/ HandleConnected(i) \/ HandleDisconnected(i)
                        \/ HandlePacket("Packet", i, <<>>) \/ Expire(i)

Environment ==
  \/ \E c \in Conns : Connect(c)
  \/ \E i \in Indices : Lose(i) \/ Receive(i, "Packet")
  \/ HostGame \/ HostGameRefused \/ Disconnect

Next ==
  \/ NetworkThread \/ Frame \/ Environment
  \/ \E dt \in Ticks : Age(dt)

Spec == Init /\ [][Next]_vars
-----------------------------------------------------------------------------
Kinds == {"Connected", "Disconnected", "Packet"}
Events == [type : Kinds, peer : Indices]
Commands ==
  [cmd : {"DisconnectPeer"}, peer : Indices]
    \cup [cmd : {"PlayerAssign"}, peer : Indices, id : Nat]
    \cup [cmd : {"PlayerList"}, ids : SUBSET Nat]

TypeOK ==
  /\ role \in {"Offline", "Host"} /\ phase \in Phases
  /\ peers \in [Indices -> Conns \cup {NoConn}]
  /\ fresh \subseteq Conns
  /\ outbound \in Seq(Commands) /\ sending \in Seq(Commands)
  /\ inbound \in Seq(Events) /\ batch \in Seq(Events)
  /\ DOMAIN activity \subseteq Indices
  /\ \A i \in DOMAIN activity :
       activity[i] \in Nat /\ (phase # "expire" => activity[i] < Timeout)
  /\ ids \in [Indices -> Nat] /\ list \in Seq(Nat) /\ nextID \in Nat
  /\ told \in [Conns -> Nat] /\ seen \in [Conns -> SUBSET Nat]
  /\ sessions \in 0..MaxSessions /\ refused \in 0..MaxRefused

Players == Range(ids) \ {0}

\* The two tables of NetworkPlayerManager agree: while hosting, m_PlayerList is
\* the host and every mapped client, each once, and no network ID is mapped to
\* two client indices.
TablesAgree ==
  /\ \A i, j \in Indices : ids[i] = ids[j] /\ ids[i] # 0 => i = j
  /\ \A i, j \in DOMAIN list : list[i] = list[j] => i = j
  /\ role = "Host" => ToSet(list) = {HostID} \cup Players

\* Two clients never hold the same network ID, although an ID can be sent to an
\* index that has changed hands since the command was queued.
NoSharedID ==
  \A i, j \in Connected :
    told[peers[i]] = told[peers[j]] /\ told[peers[i]] # 0 => i = j

Quiet == inbound = <<>> /\ batch = <<>> /\ outbound = <<>> /\ sending = <<>>

\* When every queue is drained, each connected client is a player, knows its own
\* network ID and has as much of the host's current player list as a message
\* holds, whatever index it holds and whoever held that index before.
Converged ==
  Quiet => \A i \in Connected :
             /\ ids[i] # 0 /\ told[peers[i]] = ids[i]
             /\ seen[peers[i]] = Listed(list)

\* A connected client becomes a player that knows its ID, or is gone.
ClientsBecomePlayers ==
  \A i \in Indices, c \in Conns :
    peers[i] = c ~> (ids[i] # 0 /\ told[c] = ids[i]) \/ peers[i] # c

\* A player without a connection is removed or its index is taken over.  Such
\* players exist: a disconnect command can hit a client that took the index
\* over and whose arrival is still queued, and no event reports that.
GhostsExpire ==
  \A i \in Indices :
    ids[i] # 0 /\ peers[i] = NoConn ~> ids[i] = 0 \/ peers[i] # NoConn

\* The session implements Roster: IDs are never handed out twice in a session.
Abstract == INSTANCE Roster WITH
  open <- role = "Host", members <- Players, next <- nextID

ImplementsRoster == Abstract!Spec
=============================================================================
