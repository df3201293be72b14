--------------------------- MODULE PeerSessionProofs ---------------------------
(***************************************************************************)
(* Proofs about PeerSession for every number of clients, connections and   *)
(* sessions, every time-out and every backlog of the network thread.       *)
(***************************************************************************)
EXTENDS PeerSession, SequenceTheorems, SequenceLemmas

-----------------------------------------------------------------------------
(* The player list.                                                        *)

Distinct(s) == \A m, n \in DOMAIN s : s[m] = s[n] => m = n

\* A list without repetitions loses exactly the element that is removed.
LEMMA RemoveFirstSet ==
  ASSUME NEW s \in Seq(Nat), Distinct(s), NEW e \in Nat
  PROVE  /\ RemoveFirst(s, e) \in Seq(Nat)
         /\ Distinct(RemoveFirst(s, e))
         /\ ToSet(RemoveFirst(s, e)) = ToSet(s) \ {e}
<1>1. CASE ~ \E i \in 1..Len(s) : s[i] = e
  BY <1>1 DEF RemoveFirst, ToSet
<1>2. CASE \E i \in 1..Len(s) : s[i] = e
  <2> DEFINE I == {i \in 1..Len(s) : s[i] = e}
             k == Min(I)
             left == SubSeq(s, 1, k - 1)
             right == SubSeq(s, k + 1, Len(s))
  <2>1. k \in 1..Len(s) /\ s[k] = e
    <3>1. I \subseteq Nat /\ I # {}
      BY <1>2
    <3>2. k \in I
      BY <3>1, MinOfSet
    <3>3. QED
      BY <3>2
  <2>2. RemoveFirst(s, e) = left \o right
    <3>1. SelectInSeq(s, LAMBDA v : v = e) = k
      BY <1>2 DEF SelectInSeq
    <3>2. QED
      BY <1>2, <3>1 DEF RemoveFirst, RemoveAt
  <2> HIDE DEF k
  <2>3. /\ left \in Seq(Nat) /\ Len(left) = k - 1
        /\ \A n \in 1 .. k - 1 : left[n] = s[n]
    BY <2>1
  <2>4. /\ right \in Seq(Nat) /\ Len(right) = Len(s) - k
        /\ \A n \in 1 .. Len(s) - k : right[n] = s[n + k]
    BY <2>1
  <2> DEFINE t == left \o right
  <2> HIDE DEF left, right
  <2>5. /\ t \in Seq(Nat) /\ Len(t) = Len(s) - 1
        /\ \A n \in 1 .. Len(s) - 1 : t[n] = IF n < k THEN s[n] ELSE s[n + 1]
    <3>1. /\ t \in Seq(Nat) /\ Len(t) = Len(left) + Len(right)
          /\ \A n \in 1 .. Len(left) + Len(right) :
               t[n] = IF n <= Len(left) THEN left[n] ELSE right[n - Len(left)]
      BY <2>3, <2>4, ConcatProperties, Zenon
    <3> HIDE DEF t
    <3>2. ASSUME NEW n \in 1 .. Len(s) - 1
          PROVE  t[n] = IF n < k THEN s[n] ELSE s[n + 1]
      <4>1. CASE n < k
        <5>1. /\ n \in 1 .. Len(left) + Len(right) /\ n <= Len(left)
              /\ n \in 1 .. k - 1
          BY <2>1, <2>3, <2>4, <4>1
        <5>2. t[n] = left[n]
          BY <3>1, <5>1, Zenon
        <5>3. QED
          BY <2>3, <4>1, <5>1, <5>2, Zenon
      <4>2. CASE ~(n < k)
        <5>1. n - (k - 1) \in 1 .. Len(s) - k
          BY <2>1, <4>2
        <5>2. t[n] = right[n - (k - 1)]
          <6>1. /\ n \in 1 .. Len(left) + Len(right) /\ ~(n <= Len(left))
                /\ n - Len(left) = n - (k - 1)
            BY <2>1, <2>3, <2>4, <4>2
          <6>2. QED
            BY <3>1, <6>1, Zenon
        <5>3. QED
          BY <2>1, <2>4, <4>2, <5>1, <5>2
      <4>3. QED
        BY <4>1, <4>2
    <3>3. QED
      BY <2>1, <2>3, <2>4, <3>1, <3>2
  <2> HIDE DEF t
  <2> DEFINE old(n) == IF n < k THEN n ELSE n + 1
  <2>0. /\ \A n \in 1 .. Len(t) : old(n) \in 1 .. Len(s) /\ old(n) # k
                                 /\ t[n] = s[old(n)]
        /\ \A m, n \in 1 .. Len(t) : old(m) = old(n) => m = n
        /\ DOMAIN t = 1 .. Len(t) /\ DOMAIN s = 1 .. Len(s)
    <3>1. Len(s) \in Nat /\ k \in 1 .. Len(s)
      BY <2>1
    <3>2. \A n \in 1 .. Len(t) : old(n) \in 1 .. Len(s) /\ old(n) # k
      BY <2>5, <3>1
    <3>3. \A n \in 1 .. Len(t) : t[n] = s[old(n)]
      BY <2>5
    <3>4. \A m, n \in 1 .. Len(t) : old(m) = old(n) => m = n
      BY <2>5, <3>1
    <3>5. DOMAIN t = 1 .. Len(t) /\ DOMAIN s = 1 .. Len(s)
      BY <2>5
    <3> HIDE DEF old
    <3>6. QED
      BY <3>2, <3>3, <3>4, <3>5, Zenon
  <2> HIDE DEF old
  <2>6. Distinct(t)
    BY <2>0 DEF Distinct
  <2>7. ToSet(t) = ToSet(s) \ {e}
    <3>1. ASSUME NEW x \in ToSet(t) PROVE x \in ToSet(s) /\ x # e
      BY <2>0, <2>1 DEF ToSet, Distinct
    <3>2. ASSUME NEW x \in ToSet(s), x # e PROVE x \in ToSet(t)
      <4>1. PICK n \in 1..Len(s) : s[n] = x
        BY DEF ToSet
      <4>2. CASE n < k
        <5>1. n \in 1 .. Len(t) /\ t[n] = x
          BY <2>1, <2>5, <4>1, <4>2
        <5>2. QED
          BY <2>0, <5>1 DEF ToSet
      <4>3. CASE n > k
        <5>1. n - 1 \in 1 .. Len(t) /\ t[n - 1] = x
          BY <2>1, <2>5, <4>1, <4>3
        <5>2. QED
          BY <2>0, <5>1 DEF ToSet
      <4>4. QED
        BY <2>1, <3>2, <4>1, <4>2, <4>3
    <3>3. QED
      BY <3>1, <3>2
  <2>8. QED
    BY <2>2, <2>5, <2>6, <2>7 DEF t
<1>3. QED
  BY <1>1, <1>2

-----------------------------------------------------------------------------
(* Types.                                                                  *)

\* The commands and the events the code makes.
LEMMA MessageTypes ==
  /\ \A i \in Indices : Kick(i) \in Commands
  /\ \A i \in Indices, id \in Nat : Assign(i, id) \in Commands
  /\ \A l \in Seq(Nat) : PlayerList(l) \in Commands
  /\ \A type \in Kinds, i \in Indices : Event(type, i) \in Events
<1>1. \A l \in Seq(Nat) : PlayerList(l) \in Commands
  <2>1. ASSUME NEW l \in Seq(Nat) PROVE Listed(l) \in SUBSET Nat
    BY DEF Listed
  <2>2. QED
    BY <2>1 DEF Commands, PlayerList
<1>2. QED
  BY <1>1 DEF Commands, Events, Kinds, Kick, Assign, Event

\* The two tables of NetworkPlayerManager and its counter, as far as their types
\* and the list go: the list repeats nothing and has been handed out.
RosterOK ==
  /\ ids \in [Indices -> Nat] /\ list \in Seq(Nat) /\ nextID \in Nat
  /\ Distinct(list) /\ FirstID =< nextID
  /\ \A id \in ToSet(list) : id < nextID
  /\ \A i \in Indices : ids[i] = 0 \/ FirstID =< ids[i]

\* OnClientConnected.
LEMMA AddPlayerStep ==
  ASSUME RosterOK, NEW i \in Indices, AddPlayer(i)
  PROVE  /\ RosterOK' /\ nextID =< nextID'
         /\ \A j \in Indices \ {i} : ids'[j] = ids[j]
         /\ \/ ids'[i] = ids[i] /\ ids[i] # 0 /\ UNCHANGED roster
            \/ /\ ids[i] = 0 /\ ids'[i] = nextID /\ nextID' = nextID + 1
               /\ ToSet(list') = ToSet(list) \cup {nextID}
<1>1. CASE ids[i] # 0
  BY <1>1 DEF AddPlayer, roster, RosterOK
<1>2. CASE ids[i] = 0
  <2>1. /\ ids' = [ids EXCEPT ![i] = nextID]
        /\ list' = Append(list, nextID) /\ nextID' = nextID + 1
    BY <1>2 DEF AddPlayer
  <2>2. /\ list' \in Seq(Nat) /\ ToSet(list') = ToSet(list) \cup {nextID}
    BY <2>1, AppendSet DEF RosterOK
  <2>3. Distinct(list')
    <3>1. /\ Len(list') = Len(list) + 1 /\ list'[Len(list) + 1] = nextID
          /\ \A n \in 1 .. Len(list) : list'[n] = list[n]
          /\ DOMAIN list' = 1 .. Len(list) + 1 /\ DOMAIN list = 1 .. Len(list)
      BY <2>1 DEF RosterOK
    <3>2. ASSUME NEW n \in 1 .. Len(list) PROVE list[n] # nextID
      <4>1. list[n] \in ToSet(list) /\ list[n] \in Nat
        BY <3>1 DEF RosterOK, ToSet
      <4>2. QED
        BY <4>1 DEF RosterOK
    <3>3. QED
      BY <3>1, <3>2 DEF RosterOK, Distinct
  <2>4. /\ nextID' \in Nat /\ FirstID =< nextID' /\ nextID =< nextID'
        /\ ids' \in [Indices -> Nat] /\ ids'[i] = nextID
        /\ \A j \in Indices \ {i} : ids'[j] = ids[j]
    BY <2>1 DEF RosterOK, FirstID
  <2>5. \A id \in ToSet(list') : id < nextID'
    <3>1. ToSet(list) \subseteq Nat
      BY DEF RosterOK, ToSet
    <3>2. QED
      BY <2>1, <2>2, <3>1 DEF RosterOK
  <2>6. \A j \in Indices : ids'[j] = 0 \/ FirstID =< ids'[j]
    BY <2>4 DEF RosterOK
  <2>7. QED
    BY <1>2, <2>1, <2>2, <2>3, <2>4, <2>5, <2>6 DEF RosterOK
<1>3. QED
  BY <1>1, <1>2 DEF RosterOK

\* OnClientDisconnected.
LEMMA RemovePlayerStep ==
  ASSUME RosterOK, NEW i \in Indices, RemovePlayer(i)
  PROVE  /\ RosterOK' /\ nextID' = nextID /\ ids'[i] = 0
         /\ \A j \in Indices \ {i} : ids'[j] = ids[j]
         /\ ToSet(list') = ToSet(list) \ {ids[i]}
<1>1. /\ list' \in Seq(Nat) /\ Distinct(list')
      /\ ToSet(list') = ToSet(list) \ {ids[i]}
  BY RemoveFirstSet DEF RemovePlayer, RosterOK
<1>2. QED
  BY <1>1 DEF RemovePlayer, RosterOK

\* The list is the host and the mapped players.
ListMatches == role = "Host" => ToSet(list) = {HostID} \cup Players

MappedOnce == \A i, j \in Indices : ids[i] = ids[j] /\ ids[i] # 0 => i = j

\* The tables agree, whatever else the host does: nothing here is about queues or
\* connections, so that it holds of everything built on the session as well.
RosterInv ==
  /\ RosterOK /\ MappedOnce /\ ListMatches
  /\ role = "Offline" => ids = NoIDs

\* What a step may do to the tables.
RosterMove ==
  \/ UNCHANGED <<role, roster>>
  \/ /\ role = "Host" /\ role' = "Host"
     /\ \E i \in Indices : AddPlayer(i) \/ RemovePlayer(i)
  \/ /\ role = "Offline" /\ role' = "Host"
     /\ ids' = NoIDs /\ list' = <<HostID>> /\ nextID' = FirstID
  \/ /\ role = "Host" /\ role' = "Offline"
     /\ ids' = NoIDs /\ list' = <<>> /\ nextID' = FirstID

\* The mapped players after one has joined.
LEMMA PlayerJoins ==
  ASSUME RosterOK, RosterOK', NEW i \in Indices, ids[i] = 0, ids'[i] = nextID,
         \A j \in Indices \ {i} : ids'[j] = ids[j]
  PROVE  Players' = Players \cup {nextID}
<1>1. /\ Players = {ids[j] : j \in Indices} \ {0}
      /\ Players' = {ids'[j] : j \in Indices} \ {0}
  BY DEF RosterOK, Players, Range
<1>2. nextID # 0
  BY DEF RosterOK, FirstID
<1>3. QED
  BY <1>1, <1>2

\* The mapped players after one has left: no other index has its ID.
LEMMA PlayerLeaves ==
  ASSUME RosterOK, MappedOnce, RosterOK', NEW i \in Indices, ids'[i] = 0,
         \A j \in Indices \ {i} : ids'[j] = ids[j]
  PROVE  Players' = Players \ {ids[i]}
<1>1. /\ Players = {ids[j] : j \in Indices} \ {0}
      /\ Players' = {ids'[j] : j \in Indices} \ {0}
  BY DEF RosterOK, Players, Range
<1>2. QED
  BY <1>1 DEF MappedOnce

\* The tables still agree after a player has joined or left, the host has opened a
\* session or closed one, and it is a step of Roster: an ID is handed out in
\* order, never twice, and kept.
LEMMA RosterMoves ==
  ASSUME RosterInv, RosterMove
  PROVE  RosterInv' /\ [Abstract!Next]_<<role = "Host", Players, nextID>>
<1> USE DEF Abstract!Next
<1> DEFINE Kept == UNCHANGED <<role = "Host", Players, nextID>>
<1>0. RosterOK /\ MappedOnce /\ ListMatches
  BY DEF RosterInv
<1>1. CASE UNCHANGED <<role, roster>>
  <2>1. Kept /\ Players' = Players
    BY <1>1 DEF roster, Players
  <2>2. RosterInv'
    BY <1>1, <2>1
    DEF RosterInv, RosterOK, MappedOnce, ListMatches, roster, Distinct, ToSet
  <2>3. QED
    BY <2>1, <2>2
<1>2. ASSUME NEW i \in Indices, AddPlayer(i), role = "Host", role' = "Host"
      PROVE  RosterInv' /\ (Abstract!Join \/ Kept)
  <2>1. CASE UNCHANGED roster
    BY <1>1, <1>2, <2>1 DEF Abstract!Open, Abstract!Leave, Abstract!Close,
                            Abstract!Join, RosterInv, RosterOK, MappedOnce,
                            ListMatches, roster, Distinct, ToSet, Players
  <2>2. CASE /\ ids[i] = 0 /\ ids'[i] = nextID /\ nextID' = nextID + 1
             /\ ToSet(list') = ToSet(list) \cup {nextID}
    <3>1. RosterOK' /\ \A j \in Indices \ {i} : ids'[j] = ids[j]
      BY <1>0, <1>2, AddPlayerStep
    <3>2. Players' = Players \cup {nextID}
      BY <1>0, <2>2, <3>1, PlayerJoins
    <3>3. ToSet(list) = {HostID} \cup Players
      BY <1>0, <1>2 DEF ListMatches
    <3>4. ListMatches'
      BY <2>2, <3>2, <3>3 DEF ListMatches
    <3>5. \A j \in Indices : ids[j] # nextID
      <4>1. ASSUME NEW j \in Indices, ids[j] # 0 PROVE ids[j] # nextID
        <5>1. ids[j] \in ToSet(list) /\ ids[j] \in Nat
          BY <1>0, <3>3, <4>1 DEF Players, Range, RosterOK
        <5>2. QED
          BY <1>0, <5>1 DEF RosterOK
      <4>2. QED
        BY <1>0, <4>1 DEF RosterOK, FirstID
    <3>6. MappedOnce'
      BY <1>0, <2>2, <3>1, <3>5 DEF MappedOnce
    <3>7. QED
      BY <1>2, <2>2, <3>1, <3>2, <3>4, <3>6 DEF RosterInv, Abstract!Join
  <2>3. QED
    BY <1>0, <1>2, <2>1, <2>2, AddPlayerStep
<1>3. ASSUME NEW i \in Indices, RemovePlayer(i), role = "Host", role' = "Host"
      PROVE  RosterInv' /\ (Abstract!Leave \/ Kept)
  <2>1. /\ RosterOK' /\ nextID' = nextID /\ ids'[i] = 0
        /\ \A j \in Indices \ {i} : ids'[j] = ids[j]
        /\ ToSet(list') = ToSet(list) \ {ids[i]}
    BY <1>0, <1>3, RemovePlayerStep
  <2>2. Players' = Players \ {ids[i]}
    BY <1>0, <2>1, PlayerLeaves
  <2>3. ids[i] # HostID
    BY <1>0 DEF RosterOK, FirstID, HostID
  <2>4. ListMatches'
    BY <1>0, <1>3, <2>1, <2>2, <2>3 DEF ListMatches
  <2>5. MappedOnce'
    BY <1>0, <2>1 DEF MappedOnce
  <2>6. RosterInv'
    BY <1>3, <2>1, <2>4, <2>5 DEF RosterInv
  <2>7. CASE ids[i] \in Players
    BY <1>3, <2>1, <2>2, <2>6, <2>7 DEF Abstract!Leave
  <2>8. CASE ids[i] \notin Players
    BY <1>3, <2>1, <2>2, <2>6, <2>8
  <2>9. QED
    BY <2>7, <2>8
<1>4. ASSUME ids' = NoIDs, nextID' = FirstID, list' \in {<<>>, <<HostID>>},
             role' = "Host" => list' = <<HostID>>
      PROVE  RosterInv' /\ Players' = {}
  <2>1. Players' = {} /\ MappedOnce'
    BY <1>4 DEF Players, Range, NoIDs, MappedOnce
  <2>2. /\ list' \in Seq(Nat) /\ Distinct(list')
        /\ ToSet(list') \subseteq {HostID}
        /\ list' = <<HostID>> => ToSet(list') = {HostID}
    <3>1. CASE list' = <<>>
      BY <3>1 DEF Distinct, ToSet
    <3>2. CASE list' = <<HostID>>
      BY <3>2 DEF Distinct, ToSet, HostID
    <3>3. QED
      BY <1>4, <3>1, <3>2
  <2>3. RosterOK'
    BY <1>4, <2>2 DEF RosterOK, NoIDs, FirstID, HostID
  <2>4. ListMatches'
    BY <1>4, <2>1, <2>2 DEF ListMatches
  <2>5. QED
    BY <1>4, <2>1, <2>3, <2>4 DEF RosterInv
<1>5. CASE /\ role = "Offline" /\ role' = "Host"
           /\ ids' = NoIDs /\ list' = <<HostID>> /\ nextID' = FirstID
  BY <1>4, <1>5 DEF Abstract!Open, FirstID, Abstract!FirstID
<1>6. CASE /\ role = "Host" /\ role' = "Offline"
           /\ ids' = NoIDs /\ list' = <<>> /\ nextID' = FirstID
  BY <1>4, <1>6 DEF Abstract!Close, FirstID, Abstract!FirstID
<1>7. QED
  BY <1>1, <1>2, <1>3, <1>5, <1>6 DEF RosterMove

SessionTypeOK == TypeOK /\ RosterOK

\* A step that changes neither the timers nor the tables.
LEMMA TypeStep ==
  ASSUME SessionTypeOK, [Next]_vars
  PROVE  SessionTypeOK'
<1> USE DEF SessionTypeOK, Phases
<1> DEFINE Rest == /\ peers' \in [Indices -> Conns \cup {NoConn}]
                   /\ fresh' \subseteq Conns
                   /\ inbound' \in Seq(Events) /\ batch' \in Seq(Events)
                   /\ told' \in [Conns -> Nat] /\ seen' \in [Conns -> SUBSET Nat]
                   /\ sessions' \in 0..MaxSessions /\ refused' \in 0..MaxRefused
           Timed == /\ phase' \in Phases /\ DOMAIN activity' \subseteq Indices
                    /\ \A j \in DOMAIN activity' :
                         /\ activity'[j] \in Nat
                         /\ phase' # "expire" => activity'[j] < Timeout
<1>1. ASSUME UNCHANGED <<role, phase, activity, roster>>, Rest,
             outbound' \in Seq(Commands), sending' \in Seq(Commands)
      PROVE  SessionTypeOK'
  BY <1>1 DEF TypeOK, RosterOK, roster
<1>2. ASSUME NEW c \in Conns, Connect(c) PROVE SessionTypeOK'
  <2>1. Min(Indices \ Connected) \in Indices
    <3>1. Indices \ Connected # {} /\ Indices \ Connected \subseteq Nat
      BY <1>2, SessionAssumption DEF Connect, Indices, Connected
    <3>2. Min(Indices \ Connected) \in Indices \ Connected
      BY <3>1, MinOfSet
    <3>3. QED
      BY <3>2
  <2>2. Event("Connected", Min(Indices \ Connected)) \in Events
    BY <2>1, MessageTypes DEF Kinds
  <2>3. inbound' \in Seq(Events)
    BY <1>2, <2>2, AppendSet DEF Connect, TypeOK
  <2>4. QED
    BY <1>1, <1>2, <2>1, <2>3 DEF Connect, TypeOK, roster, client, bounds
<1>3. ASSUME NEW i \in Indices, Lose(i) PROVE SessionTypeOK'
  <2>1. inbound' \in Seq(Events)
    BY <1>3, AppendSet, MessageTypes DEF Lose, TypeOK, Kinds
  <2>2. QED
    BY <1>1, <1>3, <2>1 DEF Lose, TypeOK, roster, client, bounds
<1>4. ASSUME NEW i \in Indices, Receive(i, "Packet") PROVE SessionTypeOK'
  <2>1. inbound' \in Seq(Events)
    BY <1>4, AppendSet, MessageTypes DEF Receive, TypeOK, Kinds
  <2>2. QED
    BY <1>1, <1>4, <2>1 DEF Receive, TypeOK, roster, client, bounds
<1>5. CASE Drain
  BY <1>1, <1>5 DEF Drain, TypeOK, roster, client, bounds
<1>6. CASE TransmitSession
  <2>1. Head(sending) \in Commands /\ Tail(sending) \in Seq(Commands)
    BY <1>6, TailSet DEF TransmitSession, TypeOK
  <2>2. peers' \in [Indices -> Conns \cup {NoConn}]
    BY <1>6 DEF TransmitSession, TypeOK
  <2>3. told' \in [Conns -> Nat]
    BY <1>6, <2>1 DEF TransmitSession, TypeOK, Commands, client
  <2>4. seen' \in [Conns -> SUBSET Nat]
    BY <1>6, <2>1 DEF TransmitSession, TypeOK, Commands, client
  <2>5. QED
    BY <1>1, <1>6, <2>1, <2>2, <2>3, <2>4 DEF TransmitSession, TypeOK, bounds
<1>7. CASE Poll
  BY <1>7 DEF Poll, TypeOK, RosterOK, roster, client, bounds
<1>8. ASSUME NEW i \in Indices, NEW type \in Kinds, Handling(type, i),
             activity' = Touch(i) \/ activity' = Untimed(i), RosterOK',
             outbound' \in Seq(Commands)
      PROVE  SessionTypeOK'
  <2>1. batch' \in Seq(Events)
    BY <1>8, TailSet DEF Handling, TypeOK
  <2>2. Timed
    <3>1. phase' = "handle" /\ phase = "handle"
      BY <1>8 DEF Handling
    <3>2. CASE activity' = Touch(i)
      <4>1. /\ DOMAIN activity' = DOMAIN activity \cup {i}
            /\ \A j \in DOMAIN activity' :
                 activity'[j] = IF j = i THEN 0 ELSE activity[j]
        BY <3>2 DEF Touch
      <4>2. QED
        BY <3>1, <4>1, SessionAssumption DEF TypeOK
    <3>3. CASE activity' = Untimed(i)
      <4>1. /\ DOMAIN activity' = DOMAIN activity \ {i}
            /\ \A j \in DOMAIN activity' : activity'[j] = activity[j]
        BY <3>3 DEF Untimed
      <4>2. QED
        BY <3>1, <4>1 DEF TypeOK
    <3>4. QED
      BY <1>8, <3>2, <3>3
  <2>3. QED
    BY <1>8, <2>1, <2>2 DEF Handling, TypeOK, RosterOK, client, bounds
<1>9. ASSUME NEW i \in Indices, HandleConnected(i) PROVE SessionTypeOK'
  <2>1. RosterOK'
    BY <1>9, AddPlayerStep DEF HandleConnected
  <2>2. Assign(i, ids'[i]) \in Commands /\ PlayerList(list') \in Commands
    BY <2>1, MessageTypes DEF RosterOK
  <2>3. outbound' \in Seq(Commands)
    BY <1>9, <2>2, PairSet DEF HandleConnected, TypeOK
  <2>4. QED
    BY <1>8, <1>9, <2>1, <2>3 DEF HandleConnected, Kinds
<1>10. ASSUME NEW i \in Indices, HandleDisconnected(i) PROVE SessionTypeOK'
  <2>1. RosterOK'
    BY <1>10, RemovePlayerStep DEF HandleDisconnected
  <2>2. outbound' \in Seq(Commands)
    BY <1>10, <2>1, AppendSet, MessageTypes DEF HandleDisconnected, TypeOK, RosterOK
  <2>3. QED
    BY <1>8, <1>10, <2>1, <2>2 DEF HandleDisconnected, Kinds
<1>11. ASSUME NEW i \in Indices, HandlePacket("Packet", i, <<>>) PROVE SessionTypeOK'
  <2>1. outbound' = outbound
    BY <1>11 DEF HandlePacket, TypeOK
  <2>2. RosterOK'
    BY <1>11 DEF HandlePacket, roster, RosterOK
  <2>3. QED
    BY <1>8, <1>11, <2>1, <2>2 DEF HandlePacket, Kinds, TypeOK
<1>12. ASSUME NEW i \in Indices, Expire(i) PROVE SessionTypeOK'
  <2>1. RosterOK'
    BY <1>12, RemovePlayerStep DEF Expire
  <2>2. outbound' \in Seq(Commands)
    BY <1>12, <2>1, PairSet, MessageTypes DEF Expire, TypeOK, RosterOK
  <2>3. Timed
    <3>1. /\ DOMAIN activity' = DOMAIN activity \ {i}
          /\ \A j \in DOMAIN activity' : activity'[j] = activity[j]
      BY <1>12 DEF Expire, Untimed
    <3>2. /\ phase' \in {"frame", "expire"}
          /\ phase' = "frame" => \A j \in DOMAIN activity' : ~(activity'[j] >= Timeout)
      BY <1>12 DEF Expire, TimedOut
    <3>3. QED
      BY <3>1, <3>2, SessionAssumption DEF TypeOK
  <2>4. QED
    BY <1>12, <2>1, <2>2, <2>3 DEF Expire, TypeOK, RosterOK, client, bounds
<1>13. ASSUME NEW dt \in Ticks, Age(dt) PROVE SessionTypeOK'
  <2>1. dt \in Nat
    BY SessionAssumption
  <2>2. Timed
    <3>1. /\ DOMAIN activity' = DOMAIN activity
          /\ \A j \in DOMAIN activity' : activity'[j] = activity[j] + dt
      BY <1>13 DEF Age
    <3>2. /\ phase' \in {"frame", "expire"}
          /\ phase' = "frame" => \A j \in DOMAIN activity' : ~(activity'[j] >= Timeout)
      BY <1>13 DEF Age, TimedOut
    <3>3. QED
      BY <2>1, <3>1, <3>2, SessionAssumption DEF TypeOK
  <2>3. QED
    BY <1>13, <2>2 DEF Age, TypeOK, RosterOK, queues, roster, client, bounds
<1>14. ASSUME activity' = NoTimers, phase' = phase, Rest, RosterOK',
              role' \in {"Offline", "Host"},
              outbound' \in Seq(Commands), sending' \in Seq(Commands)
       PROVE  SessionTypeOK'
  BY <1>14 DEF TypeOK, RosterOK, NoTimers
<1>15. ASSUME ids' = NoIDs, nextID' = FirstID, list' = <<HostID>> \/ list' = <<>>
       PROVE  RosterOK'
  <2>1. CASE list' = <<HostID>>
    BY <1>15, <2>1 DEF RosterOK, NoIDs, FirstID, HostID, Distinct, ToSet
  <2>2. CASE list' = <<>>
    BY <1>15, <2>2 DEF RosterOK, NoIDs, FirstID, HostID, Distinct, ToSet
  <2>3. QED
    BY <1>15, <2>1, <2>2
<1>16. CASE HostGame
  BY <1>14, <1>15, <1>16, SessionAssumption DEF HostGame, TypeOK, queues, client
<1>17. CASE HostGameRefused
  <2>1. RosterOK'
    BY <1>17 DEF HostGameRefused, roster, RosterOK
  <2>2. QED
    BY <1>14, <1>17, <2>1, SessionAssumption DEF HostGameRefused, TypeOK, queues, client
<1>18. CASE Disconnect
  <2>1. peers' \in [Indices -> Conns \cup {NoConn}]
    BY <1>18 DEF Disconnect, NoPeers
  <2>2. QED
    BY <1>14, <1>15, <1>18, <2>1 DEF Disconnect, TypeOK, client, bounds
<1>19. CASE UNCHANGED vars
  BY <1>1, <1>19 DEF vars, TypeOK, queues, client, bounds
<1>20. QED
  BY <1>2, <1>3, <1>4, <1>5, <1>6, <1>7, <1>9, <1>10, <1>11, <1>12, <1>13, <1>16,
     <1>17, <1>18, <1>19
  DEF Next, NetworkThread, Frame, Environment

-----------------------------------------------------------------------------
(* The inductive invariant of the session.                                 *)

\* Nothing of a session outlives it, and only the handling of events finds some.
OfflineEmpty ==
  /\ phase # "handle" => batch = <<>>
  /\ role = "Offline" => /\ phase = "frame" /\ peers = NoPeers /\ ids = NoIDs
                         /\ outbound = <<>> /\ sending = <<>>

\* A connection holds one index, and hears nothing before it is opened.
PeersDistinct ==
  /\ \A i, j \in Connected : peers[i] = peers[j] => i = j
  /\ \A i \in Connected : peers[i] \notin fresh
  /\ \A c \in fresh : told[c] = 0

Commanded == ToSet(outbound) \cup ToSet(sending)

\* The client at index i was told of the ID.
Told(id, i) == i \in Connected /\ told[peers[i]] = id

\* Index i has an ID, will be told of it, or the client there was told of it.
Holds(id, i) == ids[i] = id \/ Assign(i, id) \in Commanded \/ Told(id, i)

\* An ID belongs to one client index for as long as the session lasts, even when
\* the index changes hands while the assignment is under way: that is why the
\* assignment that goes to the wrong client makes no second holder.
OneHolder ==
  /\ \A id \in Nat \ {0}, i \in Indices : Holds(id, i) => id < nextID
  /\ \A id \in Nat \ {0}, i, j \in Indices : Holds(id, i) /\ Holds(id, j) => i = j

SessionInv ==
  SessionTypeOK /\ OfflineEmpty /\ PeersDistinct /\ OneHolder /\ ListMatches

\* An index that has an ID holds it.
LEMMA SessionRoster ==
  ASSUME SessionInv
  PROVE  RosterInv
<1>1. RosterOK /\ ListMatches /\ (role = "Offline" => ids = NoIDs)
  BY DEF SessionInv, SessionTypeOK, OfflineEmpty
<1>2. MappedOnce
  <2>1. ids \in [Indices -> Nat]
    BY <1>1 DEF RosterOK
  <2>2. \A j \in Indices : Holds(ids[j], j)
    BY DEF Holds
  <2>3. QED
    BY <2>1, <2>2 DEF SessionInv, OneHolder, MappedOnce
<1>3. QED
  BY <1>1, <1>2 DEF RosterInv

\* A step after which nothing holds an ID that did not hold it before.
LEMMA HoldersShrink ==
  ASSUME SessionInv, nextID' = nextID,
         \A id \in Nat \ {0}, i \in Indices : Holds(id, i)' => Holds(id, i)
  PROVE  OneHolder'
BY DEF SessionInv, OneHolder

\* A step after which one index may hold a fresh ID.
LEMMA HoldersGrow ==
  ASSUME SessionInv, NEW k \in Indices, nextID' = nextID + 1,
         \A id \in Nat \ {0}, i \in Indices :
           Holds(id, i)' => Holds(id, i) \/ (id = nextID /\ i = k)
  PROVE  OneHolder'
<1>1. nextID \in Nat
  BY DEF SessionInv, SessionTypeOK, RosterOK
<1>2. \A id \in Nat \ {0}, i \in Indices : Holds(id, i)' => id < nextID'
  BY <1>1 DEF SessionInv, OneHolder
<1>3. ASSUME NEW id \in Nat \ {0}, NEW i \in Indices, NEW j \in Indices,
             Holds(id, i)', Holds(id, j)'
      PROVE  i = j
  <2>1. CASE id = nextID
    <3>1. ~Holds(id, i) /\ ~Holds(id, j)
      BY <1>1, <2>1 DEF SessionInv, OneHolder
    <3>2. QED
      BY <1>3, <3>1
  <2>2. CASE id # nextID
    BY <1>3, <2>2 DEF SessionInv, OneHolder
  <2>3. QED
    BY <2>1, <2>2
<1>4. QED
  BY <1>2, <1>3 DEF OneHolder

\* A step that leaves the tables and the connections alone and sends nothing.
LEMMA QuietStep ==
  ASSUME SessionInv, SessionTypeOK', OfflineEmpty',
         UNCHANGED <<role, peers, fresh, roster, told>>,
         ToSet(outbound') \cup ToSet(sending') \subseteq Commanded
  PROVE  SessionInv'
<1>1. PeersDistinct'
  BY DEF SessionInv, PeersDistinct, Connected
<1>2. ListMatches'
  BY DEF SessionInv, ListMatches, Players, roster
<1>3. OneHolder'
  <2>1. ASSUME NEW id \in Nat \ {0}, NEW i \in Indices, Holds(id, i)'
        PROVE  Holds(id, i)
    BY <2>1 DEF Holds, Told, Connected, Commanded, Assign, roster
  <2>2. QED
    BY <2>1, HoldersShrink DEF roster
<1>4. QED
  BY <1>1, <1>2, <1>3 DEF SessionInv

-----------------------------------------------------------------------------
(* The network thread: what the clients are told.                          *)

\* What the network thread keeps of its connections.
LinkTypes ==
  /\ peers \in [Indices -> Conns \cup {NoConn}]
  /\ fresh \subseteq Conns /\ told \in [Conns -> Nat]

\* A connection lost or cut takes away what its client was told.
LEMMA CutTold ==
  ASSUME SessionAssumption, LinkTypes, PeersDistinct, NEW k \in Indices,
         peers' = [peers EXCEPT ![k] = NoConn], UNCHANGED <<fresh, told>>
  PROVE  /\ LinkTypes' /\ PeersDistinct'
         /\ \A id \in Nat \ {0}, j \in Indices : Told(id, j)' => Told(id, j)
<1>1. Connected' = Connected \ {k} /\ \A j \in Connected' : peers'[j] = peers[j]
  BY DEF Connected, LinkTypes
<1>2. LinkTypes'
  BY DEF LinkTypes
<1>3. QED
  BY <1>1, <1>2 DEF PeersDistinct, Told

\* A client that connects was told nothing, whoever held its index before.
LEMMA ConnectTold ==
  ASSUME SessionAssumption, LinkTypes, PeersDistinct, NEW c \in Conns, Connect(c)
  PROVE  /\ LinkTypes' /\ PeersDistinct'
         /\ \A id \in Nat \ {0}, j \in Indices : Told(id, j)' => Told(id, j)
<1> DEFINE i == Min(Indices \ Connected)
<1>1. i \in Indices /\ i \notin Connected
  <2>1. Indices \ Connected # {} /\ Indices \ Connected \subseteq Nat
    BY DEF Connect, Indices, Connected, SessionAssumption
  <2>2. QED
    BY <2>1, MinOfSet
<1>2. /\ peers' = [peers EXCEPT ![i] = c] /\ fresh' = fresh \ {c}
      /\ told' = told
  BY DEF Connect, client
<1> HIDE DEF i
<1>3. c \in fresh
  <2>1. fresh \subseteq Nat
    BY DEF LinkTypes, SessionAssumption
  <2>2. QED
    BY <2>1, MinOfSet DEF Connect
<1>4. Connected' = Connected \cup {i}
  BY <1>1, <1>2 DEF Connected, LinkTypes, SessionAssumption
<1>5. LinkTypes'
  BY <1>2 DEF LinkTypes
<1>6. PeersDistinct'
  BY <1>1, <1>2, <1>3, <1>4 DEF PeersDistinct, LinkTypes
<1>7. told[c] = 0
  BY <1>3 DEF PeersDistinct
<1>8. ASSUME NEW id \in Nat \ {0}, NEW j \in Indices, Told(id, j)'
      PROVE  Told(id, j)
  BY <1>1, <1>2, <1>4, <1>7, <1>8 DEF Told, LinkTypes
<1>9. QED
  BY <1>5, <1>6, <1>8

\* A command tells at most the client that holds its index now.
LEMMA TransmitTold ==
  ASSUME SessionAssumption, LinkTypes, PeersDistinct, TransmitSession,
         NEW m, m = Head(sending),
         m.cmd = "DisconnectPeer" => m.peer \in Indices,
         m.cmd = "PlayerAssign" => /\ m.peer \in Indices /\ m.id \in Nat
                                   /\ m = Assign(m.peer, m.id)
  PROVE  /\ LinkTypes' /\ PeersDistinct'
         /\ \A id \in Nat \ {0}, j \in Indices :
              Told(id, j)' => Told(id, j) \/ m = Assign(j, id)
<1>0. fresh' = fresh
  BY DEF TransmitSession
<1>1. CASE m.cmd = "DisconnectPeer"
  <2>1. peers' = [peers EXCEPT ![m.peer] = NoConn] /\ UNCHANGED told
    BY <1>1 DEF TransmitSession, client
  <2>2. QED
    BY <1>0, <1>1, <2>1, CutTold
<1>2. CASE m.cmd = "PlayerList"
  <2>1. UNCHANGED <<peers, told>>
    BY <1>2 DEF TransmitSession
  <2>2. QED
    BY <1>0, <2>1 DEF LinkTypes, PeersDistinct, Connected, Told
<1>3. CASE m.cmd = "PlayerAssign"
  <2>1. /\ UNCHANGED peers
        /\ told' = [c \in Conns |-> IF c = peers[m.peer] THEN m.id ELSE told[c]]
    BY <1>3 DEF TransmitSession
  <2>2. m.peer \in Indices /\ m.id \in Nat /\ m = Assign(m.peer, m.id)
    BY <1>3
  <2>3. LinkTypes'
    BY <1>0, <2>1, <2>2 DEF LinkTypes
  <2>4. PeersDistinct'
    <3>1. ASSUME NEW c \in fresh PROVE told'[c] = 0
      <4>1. c # peers[m.peer] /\ c \in Conns
        BY <2>2 DEF PeersDistinct, Connected, LinkTypes, SessionAssumption
      <4>2. QED
        BY <2>1, <4>1 DEF PeersDistinct
    <3>2. QED
      BY <1>0, <2>1, <3>1 DEF PeersDistinct, Connected
  <2>5. ASSUME NEW id \in Nat \ {0}, NEW j \in Indices, Told(id, j)'
        PROVE  Told(id, j) \/ m = Assign(j, id)
    <3>1. j \in Connected /\ told'[peers[j]] = id /\ peers[j] \in Conns
      BY <2>1, <2>5 DEF Told, Connected, LinkTypes
    <3>2. CASE peers[j] = peers[m.peer]
      <4>1. m.peer \in Connected
        BY <2>2, <3>1, <3>2 DEF Connected
      <4>2. j = m.peer /\ m.id = id
        BY <2>1, <3>1, <3>2, <4>1 DEF PeersDistinct
      <4>3. QED
        BY <2>2, <4>2
    <3>3. CASE peers[j] # peers[m.peer]
      BY <2>1, <3>1, <3>3 DEF Told
    <3>4. QED
      BY <3>2, <3>3
  <2>6. QED
    BY <2>3, <2>4, <2>5
<1>4. QED
  BY <1>1, <1>2, <1>3 DEF TransmitSession

\* No step of the two threads or of the environment breaks the invariant.
LEMMA SessionStep ==
  ASSUME SessionInv, [Next]_vars
  PROVE  SessionInv'
<1> USE DEF FirstID
<1>1. SessionTypeOK'
  BY TypeStep DEF SessionInv
<1>2. TypeOK /\ OfflineEmpty /\ PeersDistinct /\ RosterOK
  BY DEF SessionInv, SessionTypeOK
<1>l. LinkTypes
  BY <1>2 DEF TypeOK, LinkTypes
<1>m. ASSUME OfflineEmpty', PeersDistinct', UNCHANGED roster,
             role' = "Host" => role = "Host", Commanded' \subseteq Commanded,
             \A id \in Nat \ {0}, j \in Indices : Told(id, j)' => Holds(id, j)
      PROVE  SessionInv'
  <2>1. ASSUME NEW id \in Nat \ {0}, NEW j \in Indices, Holds(id, j)'
        PROVE  Holds(id, j)
    BY <1>m, <2>1 DEF Holds, Assign, roster
  <2>2. OneHolder'
    BY <1>m, <2>1, HoldersShrink DEF roster
  <2>3. ListMatches'
    BY <1>m DEF SessionInv, ListMatches, Players, roster
  <2>4. QED
    BY <1>1, <1>m, <2>2, <2>3 DEF SessionInv
<1>3. ASSUME NEW c \in Conns, Connect(c) PROVE SessionInv'
  <2>1. /\ role = "Host" /\ Commanded' = Commanded
        /\ UNCHANGED <<role, outbound, sending, phase, batch, roster>>
    BY <1>3 DEF Connect, Commanded
  <2>2. OfflineEmpty'
    BY <1>2, <2>1 DEF OfflineEmpty
  <2>3. QED
    BY <1>2, <1>3, <1>l, <1>m, <2>1, <2>2, ConnectTold, SessionAssumption DEF Holds
<1>4. ASSUME NEW k \in Indices, peers' = [peers EXCEPT ![k] = NoConn],
             OfflineEmpty', UNCHANGED <<role, fresh, roster, told>>,
             Commanded' \subseteq Commanded
      PROVE  SessionInv'
  BY <1>2, <1>4, <1>l, <1>m, CutTold, SessionAssumption DEF Holds
<1>5. ASSUME NEW i \in Indices, Lose(i) PROVE SessionInv'
  <2>1. OfflineEmpty'
    BY <1>2, <1>5 DEF OfflineEmpty, Lose, Connected, NoPeers, roster
  <2>2. QED
    BY <1>4, <1>5, <2>1 DEF Lose, client, Commanded
<1>6. ASSUME NEW i \in Indices, Receive(i, "Packet") PROVE SessionInv'
  <2>1. OfflineEmpty'
    BY <1>2, <1>6 DEF OfflineEmpty, Receive, roster
  <2>2. QED
    BY <1>1, <1>6, <2>1, QuietStep DEF Receive, client, Commanded
<1>7. CASE Drain
  <2>1. OfflineEmpty'
    BY <1>2, <1>7 DEF OfflineEmpty, Drain, roster
  <2>2. ToSet(<<>>) = {}
    BY DEF ToSet
  <2>3. QED
    BY <1>1, <1>7, <2>1, <2>2, QuietStep DEF Drain, client, Commanded
<1>8. CASE TransmitSession
  <2> DEFINE m == Head(sending)
  <2>1. m \in Commands /\ m \in Commanded /\ Commanded' \subseteq Commanded
    BY <1>2, <1>8, TailSet DEF TransmitSession, TypeOK, Commanded
  <2>2. UNCHANGED <<role, roster>> /\ OfflineEmpty'
    BY <1>2, <1>8 DEF TransmitSession, OfflineEmpty, roster
  <2>3. /\ m.cmd = "DisconnectPeer" => m.peer \in Indices
        /\ m.cmd = "PlayerAssign" => /\ m.peer \in Indices /\ m.id \in Nat
                                     /\ m = Assign(m.peer, m.id)
    BY <2>1 DEF Commands, Assign
  <2>4. /\ PeersDistinct'
        /\ \A id \in Nat \ {0}, j \in Indices :
             Told(id, j)' => Told(id, j) \/ m = Assign(j, id)
    BY <1>2, <1>8, <1>l, <2>3, TransmitTold, SessionAssumption
  <2> HIDE DEF m
  <2>5. QED
    BY <1>m, <2>1, <2>2, <2>4 DEF Holds
<1>9. CASE Poll
  <2>1. OfflineEmpty'
    BY <1>2, <1>9 DEF OfflineEmpty, Poll, roster
  <2>2. QED
    BY <1>1, <1>9, <2>1, QuietStep DEF Poll, client, Commanded
<1>10. ASSUME NEW i \in Indices, NEW type \in Kinds, Handling(type, i)
       PROVE  /\ OfflineEmpty' /\ PeersDistinct' /\ role = "Host" /\ role' = "Host"
              /\ Connected' = Connected
              /\ UNCHANGED <<peers, told, sending>>
  <2>1. UNCHANGED <<role, phase, peers, fresh, sending, told>> /\ phase = "handle"
    BY <1>10 DEF Handling, client
  <2>2. role = "Host"
    BY <1>2, <2>1 DEF OfflineEmpty, TypeOK
  <2>3. OfflineEmpty'
    BY <2>1, <2>2 DEF OfflineEmpty
  <2>4. PeersDistinct' /\ Connected' = Connected
    BY <1>2, <2>1 DEF PeersDistinct, Connected
  <2>5. QED
    BY <2>1, <2>2, <2>3, <2>4
<1>11. ASSUME NEW i \in Indices, HandleConnected(i) PROVE SessionInv'
  <2>1. Handling("Connected", i) /\ AddPlayer(i)
    BY <1>11 DEF HandleConnected
  <2>2. /\ OfflineEmpty' /\ PeersDistinct' /\ role = "Host" /\ role' = "Host"
        /\ Connected' = Connected /\ UNCHANGED <<peers, told, sending>>
    BY <1>10, <2>1 DEF Kinds
  <2>3. Commanded' = Commanded \cup {Assign(i, ids'[i]), PlayerList(list')}
    <3>1. Assign(i, ids'[i]) \in Commands /\ PlayerList(list') \in Commands
      BY <1>1, MessageTypes DEF SessionTypeOK, RosterOK
    <3>2. ToSet(outbound') = ToSet(outbound) \cup {Assign(i, ids'[i]), PlayerList(list')}
      BY <1>2, <1>11, <3>1, PairSet DEF HandleConnected, TypeOK
    <3>3. QED
      BY <2>2, <3>2 DEF Commanded
  <2>4. \A id \in Nat, j \in Indices :
           Assign(j, id) \in Commanded' =>
             Assign(j, id) \in Commanded \/ (j = i /\ id = ids'[i])
    BY <2>3 DEF Assign, PlayerList
  <2>5. OneHolder'
    <3>1. CASE ids'[i] = ids[i] /\ UNCHANGED roster
      <4>1. ASSUME NEW id \in Nat \ {0}, NEW j \in Indices, Holds(id, j)'
            PROVE  Holds(id, j)
        BY <2>2, <2>4, <3>1, <4>1 DEF Holds, Told, Assign, roster
      <4>2. QED
        BY <3>1, <4>1, HoldersShrink DEF roster
    <3>2. CASE ids'[i] = nextID /\ nextID' = nextID + 1
      <4>1. \A j \in Indices \ {i} : ids'[j] = ids[j]
        BY <1>2, <2>1, AddPlayerStep
      <4>2. ASSUME NEW id \in Nat \ {0}, NEW j \in Indices, Holds(id, j)'
            PROVE  Holds(id, j) \/ (id = nextID /\ j = i)
        BY <2>2, <2>4, <3>2, <4>1, <4>2 DEF Holds, Told, Assign
      <4>3. QED
        BY <3>2, <4>2, HoldersGrow
    <3>3. QED
      BY <1>2, <2>1, <3>1, <3>2, AddPlayerStep
  <2>6. ListMatches'
    BY <2>1, <2>2, SessionRoster, RosterMoves DEF RosterMove, RosterInv
  <2>7. QED
    BY <1>1, <2>2, <2>5, <2>6 DEF SessionInv
<1>12. ASSUME NEW i \in Indices, RemovePlayer(i), role = "Host", role' = "Host",
              OfflineEmpty', PeersDistinct', Connected' = Connected,
              UNCHANGED <<peers, told, sending>>,
              \A id \in Nat, j \in Indices :
                Assign(j, id) \in ToSet(outbound') => Assign(j, id) \in ToSet(outbound)
       PROVE  SessionInv'
  <2>1. /\ nextID' = nextID /\ ids'[i] = 0
        /\ \A j \in Indices \ {i} : ids'[j] = ids[j]
        /\ ToSet(list') = ToSet(list) \ {ids[i]}
    BY <1>2, <1>12, RemovePlayerStep
  <2>2. ASSUME NEW id \in Nat \ {0}, NEW j \in Indices, Holds(id, j)'
        PROVE  Holds(id, j)
    BY <1>12, <2>1, <2>2 DEF Holds, Told, Commanded, Assign
  <2>3. OneHolder'
    BY <2>1, <2>2, HoldersShrink
  <2>4. ListMatches'
    BY <1>12, SessionRoster, RosterMoves DEF RosterMove, RosterInv
  <2>5. QED
    BY <1>1, <1>12, <2>3, <2>4 DEF SessionInv
<1>13. PlayerList(list') \in Commands
  BY <1>1, MessageTypes DEF SessionTypeOK, RosterOK
<1>14. ASSUME NEW i \in Indices, HandleDisconnected(i) PROVE SessionInv'
  <2>1. ToSet(outbound') = ToSet(outbound) \cup {PlayerList(list')}
    BY <1>2, <1>13, <1>14, AppendSet DEF HandleDisconnected, TypeOK
  <2>2. \A id \in Nat, j \in Indices :
          Assign(j, id) \in ToSet(outbound') => Assign(j, id) \in ToSet(outbound)
    BY <2>1 DEF Assign, PlayerList
  <2>3. Handling("Disconnected", i) /\ RemovePlayer(i)
    BY <1>14 DEF HandleDisconnected
  <2>4. QED
    BY <1>10, <1>12, <2>2, <2>3 DEF Kinds
<1>15. ASSUME NEW i \in Indices, HandlePacket("Packet", i, <<>>) PROVE SessionInv'
  <2>1. Handling("Packet", i) /\ UNCHANGED roster /\ outbound' = outbound
    BY <1>2, <1>15 DEF HandlePacket, TypeOK
  <2>2. fresh' = fresh
    BY <2>1 DEF Handling
  <2>3. QED
    BY <1>1, <1>10, <2>1, <2>2, QuietStep DEF Kinds, Commanded
<1>16. ASSUME NEW i \in Indices, Expire(i) PROVE SessionInv'
  <2>1. ToSet(outbound') = ToSet(outbound) \cup {Kick(i), PlayerList(list')}
    BY <1>2, <1>13, <1>16, PairSet, MessageTypes DEF Expire, TypeOK
  <2>2. \A id \in Nat, j \in Indices :
          Assign(j, id) \in ToSet(outbound') => Assign(j, id) \in ToSet(outbound)
    BY <2>1 DEF Assign, PlayerList, Kick
  <2>3. /\ UNCHANGED <<role, peers, fresh, sending, batch, told>>
        /\ phase = "expire" /\ RemovePlayer(i)
    BY <1>16 DEF Expire, client
  <2>4. role = "Host"
    BY <1>2, <2>3 DEF OfflineEmpty, TypeOK
  <2>5. OfflineEmpty'
    BY <1>2, <1>16, <2>3, <2>4 DEF OfflineEmpty, Expire
  <2>6. PeersDistinct' /\ Connected' = Connected
    BY <1>2, <2>3 DEF PeersDistinct, Connected
  <2>7. QED
    BY <1>12, <2>2, <2>3, <2>4, <2>5, <2>6
<1>17. ASSUME NEW dt \in Ticks, Age(dt) PROVE SessionInv'
  <2>1. OfflineEmpty'
    BY <1>2, <1>17 DEF OfflineEmpty, Age, queues, roster
  <2>2. QED
    BY <1>1, <1>17, <2>1, QuietStep DEF Age, queues, client, Commanded
<1>18. CASE HostGameRefused
  <2>1. OfflineEmpty'
    BY <1>2, <1>18 DEF OfflineEmpty, HostGameRefused, queues, roster
  <2>2. QED
    BY <1>1, <1>18, <2>1, QuietStep DEF HostGameRefused, queues, client, Commanded
<1>19. ASSUME phase' = phase, phase = "frame", batch' = batch, fresh' = fresh,
              told' = told, peers' = NoPeers, ids' = NoIDs,
              outbound' = <<>>, sending' = <<>>, ListMatches'
       PROVE  SessionInv'
  <2>1. Connected' = {} /\ Commanded' = {}
    BY <1>19 DEF Connected, NoPeers, Commanded, ToSet
  <2>2. PeersDistinct'
    BY <1>2, <1>19, <2>1 DEF PeersDistinct
  <2>3. OneHolder'
    <3>1. \A id \in Nat \ {0}, i \in Indices : ~Holds(id, i)'
      BY <1>19, <2>1 DEF Holds, Told, NoIDs
    <3>2. QED
      BY <3>1 DEF OneHolder
  <2>4. OfflineEmpty'
    BY <1>2, <1>19 DEF OfflineEmpty
  <2>5. QED
    BY <1>1, <1>19, <2>2, <2>3, <2>4 DEF SessionInv
<1>20. CASE HostGame
  <2>1. ToSet(list') = {HostID} \cup Players'
    <3>1. list' = <<HostID>> /\ ids' = NoIDs
      BY <1>20 DEF HostGame
    <3>2. ToSet(list') = {HostID}
      BY <3>1 DEF ToSet
    <3>3. Players' = {}
      BY <3>1 DEF Players, Range, NoIDs
    <3>4. QED
      BY <3>2, <3>3
  <2>2. QED
    BY <1>2, <1>19, <1>20, <2>1
    DEF HostGame, OfflineEmpty, ListMatches, queues, client
<1>21. CASE Disconnect
  BY <1>19, <1>21 DEF Disconnect, ListMatches, client
<1>22. CASE UNCHANGED vars
  <2>1. OfflineEmpty'
    BY <1>2, <1>22 DEF OfflineEmpty, vars, queues, roster
  <2>2. QED
    BY <1>1, <1>22, <2>1, QuietStep DEF vars, queues, client, Commanded
<1>23. QED
  BY <1>3, <1>5, <1>6, <1>7, <1>8, <1>9, <1>11, <1>14, <1>15, <1>16, <1>17, <1>18,
     <1>20, <1>21, <1>22
  DEF Next, NetworkThread, Frame, Environment

\* Before the first session there is nothing to break.
LEMMA SessionInit == Init => SessionInv
<1>1. SUFFICES ASSUME Init PROVE SessionInv
  OBVIOUS
<1>2. TypeOK
  BY <1>1, SessionAssumption
  DEF Init, TypeOK, NoPeers, NoIDs, NoTimers, Phases, FirstID
<1>3. RosterOK
  BY <1>1 DEF Init, RosterOK, NoIDs, FirstID, Distinct, ToSet
<1>4. Connected = {} /\ Commanded = {}
  BY <1>1 DEF Init, Connected, NoPeers, Commanded, ToSet
<1>5. OfflineEmpty /\ PeersDistinct /\ ListMatches
  BY <1>1, <1>4 DEF Init, OfflineEmpty, PeersDistinct, ListMatches
<1>6. OneHolder
  <2>1. \A id \in Nat \ {0}, i \in Indices : ~Holds(id, i)
    BY <1>1, <1>4 DEF Init, Holds, Told, NoIDs
  <2>2. QED
    BY <2>1 DEF OneHolder
<1>7. QED
  BY <1>2, <1>3, <1>5, <1>6 DEF SessionInv, SessionTypeOK

\* The session's invariant holds in every state.
THEOREM SessionInvariance == Spec => []SessionInv
<1>1. SessionInv /\ [Next]_vars => SessionInv'
  BY SessionStep
<1>2. QED
  BY <1>1, SessionInit, PTL DEF Spec

\* The host's variables keep their types; in particular no timer reaches the
\* time-out outside of CheckPeerTimeouts.
THEOREM TypeCorrect == Spec => []TypeOK
<1>1. SessionInv => TypeOK
  BY DEF SessionInv, SessionTypeOK
<1>2. QED
  BY <1>1, SessionInvariance, PTL

\* m_PlayerList is the host and every mapped client, each once.
THEOREM TablesAlwaysAgree == Spec => []TablesAgree
<1>1. SessionInv => TablesAgree
  <2>1. SUFFICES ASSUME SessionInv PROVE TablesAgree
    OBVIOUS
  <2>2. ids \in [Indices -> Nat] /\ Distinct(list) /\ ListMatches
    BY <2>1 DEF SessionInv, SessionTypeOK, RosterOK
  <2>3. \A i, j \in Indices : ids[i] = ids[j] /\ ids[i] # 0 => i = j
    <3>1. \A i \in Indices : Holds(ids[i], i)
      BY DEF Holds
    <3>2. QED
      BY <2>1, <2>2, <3>1 DEF SessionInv, OneHolder
  <2>4. QED
    BY <2>2, <2>3 DEF TablesAgree, Distinct, ListMatches
<1>2. QED
  BY <1>1, SessionInvariance, PTL

\* However far the network thread is behind the game thread, and whatever
\* connections take over an index, no two clients are told the same network ID.
THEOREM IDsAreNotShared == Spec => []NoSharedID
<1>1. SessionInv => NoSharedID
  <2>1. SUFFICES ASSUME SessionInv PROVE NoSharedID
    OBVIOUS
  <2>2. SUFFICES ASSUME NEW i \in Connected, NEW j \in Connected,
                        told[peers[i]] = told[peers[j]], told[peers[i]] # 0
                 PROVE  i = j
    BY DEF NoSharedID
  <2>3. i \in Indices /\ j \in Indices /\ told[peers[i]] \in Nat
    BY <2>1 DEF SessionInv, SessionTypeOK, TypeOK, Connected
  <2>4. Holds(told[peers[i]], i) /\ Holds(told[peers[i]], j)
    BY <2>2 DEF Holds, Told
  <2>5. QED
    BY <2>1, <2>2, <2>3, <2>4 DEF SessionInv, OneHolder
<1>2. QED
  BY <1>1, SessionInvariance, PTL

-----------------------------------------------------------------------------
(* The session implements Roster.                                          *)

\* Players join and leave one at a time, and only while hosting.
LEMMA RosterStep ==
  ASSUME SessionInv, [Next]_vars
  PROVE  [Abstract!Next]_<<role = "Host", Players, nextID>>
<1>1. OfflineEmpty /\ role \in {"Offline", "Host"}
  BY DEF SessionInv, SessionTypeOK, TypeOK
<1>2. ASSUME NEW i \in Indices, NEW type \in Kinds, Handling(type, i)
      PROVE  role' = "Host" /\ role = "Host"
  <2>1. role' = role /\ phase = "handle"
    BY <1>2 DEF Handling
  <2>2. QED
    BY <1>1, <2>1 DEF OfflineEmpty
<1>3. ASSUME NEW i \in Indices, HandleConnected(i) \/ HandleDisconnected(i)
      PROVE  RosterMove
  BY <1>2, <1>3 DEF HandleConnected, HandleDisconnected, Kinds, RosterMove
<1>4. ASSUME NEW i \in Indices, Expire(i)
      PROVE  RosterMove
  BY <1>1, <1>4 DEF Expire, OfflineEmpty, RosterMove
<1>5. ASSUME HostGame \/ Disconnect
      PROVE  RosterMove
  BY <1>5 DEF HostGame, Disconnect, RosterMove
<1>6. ASSUME \/ \E c \in Conns : Connect(c)
             \/ \E i \in Indices : \/ Lose(i) \/ Receive(i, "Packet")
                                   \/ HandlePacket("Packet", i, <<>>)
             \/ Drain \/ TransmitSession \/ Poll \/ HostGameRefused
             \/ \E dt \in Ticks : Age(dt)
             \/ UNCHANGED vars
      PROVE  RosterMove
  BY <1>6 DEF RosterMove, Connect, Lose, Receive, HandlePacket, Handling, Drain,
     TransmitSession, Poll, HostGameRefused, Age, vars
<1>7. RosterMove
  BY <1>3, <1>4, <1>5, <1>6 DEF Next, NetworkThread, Frame, Environment
<1>8. QED
  BY <1>7, SessionRoster, RosterMoves

\* The host keeps the promise about network IDs: a session hands them out in
\* increasing order and never twice, and a player keeps its ID until it leaves.
THEOREM RosterImplemented == Spec => ImplementsRoster
<1>1. Init => Abstract!Init
  BY DEF Init, Abstract!Init, Players, Range, NoIDs, FirstID, Abstract!FirstID
<1>2. SessionInv /\ [Next]_vars => [Abstract!Next]_<<role = "Host", Players, nextID>>
  BY RosterStep
<1>3. QED
  BY <1>1, <1>2, SessionInvariance, PTL DEF Spec, ImplementsRoster, Abstract!Spec

-----------------------------------------------------------------------------
(* Queues that end well.                                                   *)

\* No element of the queue is in C.
Lacks(s, C) == \A n \in DOMAIN s : s[n] \notin C

\* The element e is in the queue, and no element of C comes after it.
Ends(s, e, C) ==
  \E n \in DOMAIN s : s[n] = e /\ \A m \in DOMAIN s : m > n => s[m] \notin C

\* Appending to a queue.
LEMMA ConcatEnds ==
  ASSUME NEW S, NEW s \in Seq(S), NEW u \in Seq(S), NEW e, NEW C
  PROVE  /\ Lacks(s, C) /\ Lacks(u, C) => Lacks(s \o u, C)
         /\ Ends(s, e, C) /\ Lacks(u, C) => Ends(s \o u, e, C)
         /\ Ends(u, e, C) => Ends(s \o u, e, C)
<1> DEFINE t == s \o u
<1>1. /\ t \in Seq(S) /\ Len(t) = Len(s) + Len(u)
      /\ \A n \in 1 .. Len(s) + Len(u) :
           t[n] = IF n <= Len(s) THEN s[n] ELSE u[n - Len(s)]
  BY ConcatProperties, Zenon
<1> HIDE DEF t
<1>2. /\ DOMAIN s = 1 .. Len(s) /\ DOMAIN u = 1 .. Len(u)
      /\ DOMAIN t = 1 .. Len(s) + Len(u)
      /\ Len(s) \in Nat /\ Len(u) \in Nat
  BY <1>1
<1>3. \A n \in DOMAIN s : n \in DOMAIN t /\ t[n] = s[n]
  BY <1>1, <1>2
<1>4. ASSUME NEW n \in DOMAIN u PROVE n + Len(s) \in DOMAIN t /\ t[n + Len(s)] = u[n]
  <2>1. n + Len(s) \in 1 .. Len(s) + Len(u) /\ ~(n + Len(s) <= Len(s))
    BY <1>2
  <2>2. t[n + Len(s)] = u[(n + Len(s)) - Len(s)]
    BY <1>1, <2>1, Zenon
  <2>3. (n + Len(s)) - Len(s) = n
    BY <1>2
  <2>4. QED
    BY <1>2, <2>1, <2>2, <2>3
<1>5. ASSUME NEW n \in DOMAIN t
      PROVE  n \in DOMAIN s \/ (n > Len(s) /\ n - Len(s) \in DOMAIN u /\ t[n] = u[n - Len(s)])
  <2>1. CASE n <= Len(s)
    BY <1>2, <2>1
  <2>2. CASE ~(n <= Len(s))
    <3>1. t[n] = u[n - Len(s)]
      BY <1>1, <1>2, <2>2, Zenon
    <3>2. QED
      BY <1>2, <2>2, <3>1
  <2>3. QED
    BY <2>1, <2>2
<1>6. Lacks(s, C) /\ Lacks(u, C) => Lacks(t, C)
  BY <1>3, <1>5 DEF Lacks
<1>7. ASSUME Ends(s, e, C), Lacks(u, C) PROVE Ends(t, e, C)
  <2>1. PICK n \in DOMAIN s : s[n] = e /\ \A m \in DOMAIN s : m > n => s[m] \notin C
    BY <1>7 DEF Ends
  <2>2. \A m \in DOMAIN t : m > n => t[m] \notin C
    BY <1>3, <1>5, <1>7, <2>1 DEF Lacks
  <2>3. QED
    BY <1>3, <2>1, <2>2 DEF Ends
<1>8. ASSUME Ends(u, e, C) PROVE Ends(t, e, C)
  <2>1. PICK n \in DOMAIN u : u[n] = e /\ \A m \in DOMAIN u : m > n => u[m] \notin C
    BY <1>8 DEF Ends
  <2>2. ASSUME NEW m \in DOMAIN t, m > n + Len(s) PROVE t[m] \notin C
    <3>1. m \notin DOMAIN s
      BY <1>2, <2>2
    <3>2. m - Len(s) \in DOMAIN u /\ t[m] = u[m - Len(s)]
      BY <1>5, <3>1
    <3>3. m - Len(s) > n
      BY <1>2, <2>2
    <3>4. QED
      BY <2>1, <3>2, <3>3
  <2>3. n + Len(s) \in DOMAIN t /\ t[n + Len(s)] = e
    BY <1>4, <2>1
  <2>4. QED
    BY <2>2, <2>3 DEF Ends
<1>9. QED
  BY <1>6, <1>7, <1>8 DEF t

\* Taking the head of the first of two queues.
LEMMA TailEnds ==
  ASSUME NEW S, NEW s \in Seq(S), NEW u \in Seq(S), s # <<>>, NEW e, NEW C
  PROVE  /\ Lacks(s \o u, C) => Head(s) \notin C /\ Lacks(Tail(s) \o u, C)
         /\ Ends(s \o u, e, C) =>
              \/ Ends(Tail(s) \o u, e, C)
              \/ Head(s) = e /\ Lacks(Tail(s) \o u, C)
<1> DEFINE t == s \o u
           v == Tail(s) \o u
<1>1. /\ t \in Seq(S) /\ Len(t) = Len(s) + Len(u) /\ t[1] = Head(s)
      /\ v \in Seq(S) /\ Len(v) = Len(t) - 1 /\ Len(s) > 0
      /\ \A n \in 1 .. Len(t) - 1 : v[n] = t[n + 1]
  OBVIOUS
<1> HIDE DEF t, v
<1>2. DOMAIN t = 1 .. Len(t) /\ DOMAIN v = 1 .. Len(t) - 1 /\ Len(t) \in Nat
  BY <1>1
<1>3. ASSUME NEW n \in DOMAIN v
      PROVE  n \in Nat /\ n + 1 \in DOMAIN t /\ v[n] = t[n + 1] /\ n + 1 > 1
  BY <1>1, <1>2
<1>4. Lacks(t, C) => Head(s) \notin C /\ Lacks(v, C)
  BY <1>1, <1>2, <1>3 DEF Lacks
<1>5. ASSUME Ends(t, e, C) PROVE Ends(v, e, C) \/ (Head(s) = e /\ Lacks(v, C))
  <2>1. PICK n \in DOMAIN t : t[n] = e /\ \A m \in DOMAIN t : m > n => t[m] \notin C
    BY <1>5 DEF Ends
  <2>2. CASE n = 1
    <3>1. \A m \in DOMAIN v : v[m] \notin C
      BY <1>3, <2>1, <2>2
    <3>2. QED
      BY <1>1, <2>1, <2>2, <3>1 DEF Lacks
  <2>3. CASE n # 1
    <3>1. n - 1 \in DOMAIN v /\ v[n - 1] = e
      BY <1>1, <1>2, <2>1, <2>3
    <3>2. ASSUME NEW m \in DOMAIN v, m > n - 1 PROVE v[m] \notin C
      <4>1. m + 1 > n
        BY <1>2, <1>3, <3>2
      <4>2. QED
        BY <1>3, <2>1, <4>1
    <3>3. QED
      BY <3>1, <3>2 DEF Ends
  <2>4. QED
    BY <2>2, <2>3
<1>6. QED
  BY <1>4, <1>5 DEF t, v

\* The head of a queue is in it.
LEMMA HeadLacked ==
  ASSUME NEW S, NEW s \in Seq(S), NEW u \in Seq(S), s # <<>>, NEW C,
         Lacks(s \o u, C)
  PROVE  Head(s) \notin C
<1>1. 1 \in DOMAIN (s \o u) /\ (s \o u)[1] = Head(s)
  OBVIOUS
<1>2. QED
  BY <1>1 DEF Lacks

-----------------------------------------------------------------------------
(* The inductive invariant behind Converged.                               *)

Coming == batch \o inbound
Going == sending \o outbound

Gone(i) == {Event("Disconnected", i)}
Turns(i) == {Event("Connected", i), Event("Disconnected", i)}
AssignsTo(i) == {Assign(i, id) : id \in Nat}
Lists == [cmd : {"PlayerList"}, ids : SUBSET Nat]

\* The arrival of the client at index i is still to be handled.
WillJoin(i) == Ends(Coming, Event("Connected", i), Gone(i))

\* The client at index i will be disconnected, if only by mistake.
WillBeKicked(i) == Ends(Going, Kick(i), {})

\* The client at index i is a player, and knows it or will be told.
IDSettled(i) ==
  \/ Ends(Going, Assign(i, ids[i]), AssignsTo(i))
  \/ Lacks(Going, AssignsTo(i)) /\ told[peers[i]] = ids[i]

ListSettled(i) ==
  \/ Ends(Going, PlayerList(list), Lists)
  \/ Lacks(Going, Lists) /\ seen[peers[i]] = Listed(list)

Settled(i) ==
  Lacks(Coming, Turns(i)) /\ ids[i] # 0 /\ IDSettled(i) /\ ListSettled(i)

Converging(i) == WillJoin(i) \/ WillBeKicked(i) \/ Settled(i)

ConvergeInv == \A i \in Connected : Converging(i)

\* A client that is neither concerned by an event nor by a command converges as
\* before, if a list that changes is sent.
LEMMA KeepConverging ==
  ASSUME NEW j \in Indices, Converging(j),
         WillJoin(j) => WillJoin(j)',
         Lacks(Coming, Turns(j)) => Lacks(Coming', Turns(j)),
         Going \in Seq(Commands), NEW u \in Seq(Commands), Going' = Going \o u,
         Lacks(u, AssignsTo(j)),
         (list' = list /\ Lacks(u, Lists)) \/ Ends(u, PlayerList(list'), Lists),
         ids'[j] = ids[j], peers'[j] = peers[j],
         told' = told, seen' = seen
  PROVE  Converging(j)'
<1>1. CASE WillJoin(j)
  BY <1>1 DEF Converging
<1>2. CASE WillBeKicked(j)
  <2>1. Lacks(u, {})
    BY DEF Lacks
  <2>2. Ends(Going', Kick(j), {})
    BY <1>2, <2>1, ConcatEnds DEF WillBeKicked
  <2>3. QED
    BY <2>2 DEF Converging, WillBeKicked, Kick
<1>3. CASE Settled(j)
  <2>1. Lacks(Coming', Turns(j)) /\ ids'[j] # 0
    BY <1>3 DEF Settled
  <2>2. IDSettled(j)'
    <3>1. CASE Ends(Going, Assign(j, ids[j]), AssignsTo(j))
      <4>1. Ends(Going', Assign(j, ids[j]), AssignsTo(j))
        BY <3>1, ConcatEnds
      <4>2. QED
        BY <4>1 DEF IDSettled, Assign, AssignsTo
    <3>2. CASE Lacks(Going, AssignsTo(j)) /\ told[peers[j]] = ids[j]
      <4>1. Lacks(Going', AssignsTo(j))
        BY <3>2, ConcatEnds
      <4>2. QED
        BY <3>2, <4>1 DEF IDSettled, AssignsTo, Assign
    <3>3. QED
      BY <1>3, <3>1, <3>2 DEF Settled, IDSettled
  <2>3. ListSettled(j)'
    <3>1. CASE Ends(u, PlayerList(list'), Lists)
      <4>1. Ends(Going', PlayerList(list'), Lists)
        BY <3>1, ConcatEnds
      <4>2. QED
        BY <4>1 DEF ListSettled, PlayerList, Lists
    <3>2. CASE list' = list /\ Lacks(u, Lists)
      <4>1. \/ Ends(Going', PlayerList(list), Lists)
            \/ Lacks(Going', Lists) /\ seen[peers[j]] = Listed(list)
        BY <1>3, <3>2, ConcatEnds DEF Settled, ListSettled
      <4>2. QED
        BY <3>2, <4>1 DEF ListSettled, PlayerList, Lists
    <3>3. QED
      BY <3>1, <3>2
  <2>4. QED
    BY <2>1, <2>2, <2>3 DEF Converging, Settled, Turns, Event
<1>4. QED
  BY <1>1, <1>2, <1>3 DEF Converging

\* Events that are queued after all others.
LEMMA ComingGrows ==
  ASSUME NEW j, Coming \in Seq(Events), NEW v \in Seq(Events), Coming' = Coming \o v,
         Lacks(v, Turns(j))
  PROVE  /\ WillJoin(j) => WillJoin(j)'
         /\ Lacks(Coming, Turns(j)) => Lacks(Coming', Turns(j))
<1>1. Lacks(v, Gone(j))
  BY DEF Lacks, Gone, Turns
<1>2. WillJoin(j) => Ends(Coming', Event("Connected", j), Gone(j))
  BY <1>1, ConcatEnds DEF WillJoin
<1>3. Lacks(Coming, Turns(j)) => Lacks(Coming', Turns(j))
  BY ConcatEnds
<1>4. QED
  BY <1>2, <1>3 DEF WillJoin, Event, Gone

\* The handling of an event that is not the arrival of the client at index j.
LEMMA ComingShrinks ==
  ASSUME NEW j, batch \in Seq(Events), inbound \in Seq(Events), batch # <<>>,
         Coming' = Tail(batch) \o inbound, Head(batch) # Event("Connected", j)
  PROVE  /\ WillJoin(j) => WillJoin(j)'
         /\ Lacks(Coming, Turns(j)) => Lacks(Coming', Turns(j))
<1>1. WillJoin(j) => Ends(Coming', Event("Connected", j), Gone(j))
  BY TailEnds DEF WillJoin, Coming
<1>2. Lacks(Coming, Turns(j)) => Lacks(Coming', Turns(j))
  BY TailEnds DEF Coming
<1>3. QED
  BY <1>1, <1>2 DEF WillJoin, Event, Gone

\* What the short queues of one handler contain.
LEMMA ShortQueues ==
  ASSUME NEW i \in Indices, NEW l \in Seq(Nat), NEW id \in Nat
  PROVE  /\ \A C : Lacks(<<>>, C)
         /\ \A j : j # i => Lacks(<<Assign(i, id), PlayerList(l)>>, AssignsTo(j))
         /\ \A j : Lacks(<<PlayerList(l)>>, AssignsTo(j))
         /\ \A j : Lacks(<<Kick(i), PlayerList(l)>>, AssignsTo(j))
         /\ Ends(<<Assign(i, id), PlayerList(l)>>, Assign(i, id), AssignsTo(i))
         /\ Ends(<<Assign(i, id), PlayerList(l)>>, PlayerList(l), Lists)
         /\ Ends(<<PlayerList(l)>>, PlayerList(l), Lists)
         /\ Ends(<<Kick(i), PlayerList(l)>>, PlayerList(l), Lists)
         /\ Ends(<<Kick(i), PlayerList(l)>>, Kick(i), {})
<1> DEFINE a == Assign(i, id)
           p == PlayerList(l)
           k == Kick(i)
<1>1. /\ \A j : p \notin AssignsTo(j) /\ k \notin AssignsTo(j)
      /\ \A j : j # i => a \notin AssignsTo(j)
      /\ a \notin Lists /\ k \notin Lists
  BY DEF Assign, PlayerList, Kick, AssignsTo, Lists
<1> HIDE DEF a, p, k
<1>2. /\ \A C : Lacks(<<>>, C)
      /\ \A j : j # i => Lacks(<<a, p>>, AssignsTo(j))
      /\ \A j : Lacks(<<p>>, AssignsTo(j))
      /\ \A j : Lacks(<<k, p>>, AssignsTo(j))
  BY <1>1 DEF Lacks
<1>3. /\ Ends(<<a, p>>, a, AssignsTo(i))
      /\ Ends(<<a, p>>, p, Lists)
      /\ Ends(<<p>>, p, Lists)
      /\ Ends(<<k, p>>, p, Lists)
      /\ Ends(<<k, p>>, k, {})
  BY <1>1 DEF Ends
<1>4. QED
  BY <1>2, <1>3 DEF a, p, k

\* The network thread carries out one command.
LEMMA TransmitConverges ==
  ASSUME SessionInv, ConvergeInv, TransmitSession
  PROVE  ConvergeInv'
<1> DEFINE m == Head(sending)
<1>1. SUFFICES ASSUME NEW j \in Connected' PROVE Converging(j)'
  BY DEF ConvergeInv
<1>2. /\ sending \in Seq(Commands) /\ outbound \in Seq(Commands) /\ sending # <<>>
      /\ peers \in [Indices -> Conns \cup {NoConn}]
  BY DEF SessionInv, SessionTypeOK, TypeOK, TransmitSession
<1>3. /\ Coming' = Coming /\ Going' = Tail(sending) \o outbound
      /\ UNCHANGED roster
  BY DEF TransmitSession, Coming, Going
<1>4. m \in Commands
  BY <1>2
<1>5. j \in Connected /\ peers'[j] = peers[j] /\ j \in Indices /\ m # Kick(j)
  <2>1. CASE m.cmd = "DisconnectPeer"
    <3>1. m.peer \in Indices /\ peers' = [peers EXCEPT ![m.peer] = NoConn]
      BY <1>4, <2>1 DEF TransmitSession, Commands
    <3>2. j \in Indices /\ peers'[j] # NoConn
      BY DEF Connected
    <3>3. j # m.peer /\ peers'[j] = peers[j]
      BY <1>2, <3>1, <3>2
    <3>4. QED
      BY <3>2, <3>3 DEF Connected, Kick
  <2>2. CASE m.cmd # "DisconnectPeer"
    <3>1. peers' = peers
      BY <1>4, <2>2 DEF TransmitSession, Commands
    <3>2. QED
      BY <2>2, <3>1 DEF Connected, Kick
  <2>3. QED
    BY <2>1, <2>2
<1>6. peers[j] \in Conns
  BY <1>2, <1>5 DEF Connected
<1>7. CASE WillJoin(j)
  BY <1>3, <1>7 DEF Converging, WillJoin, Event, Gone
<1>8. CASE WillBeKicked(j)
  <2>1. Ends(Going', Kick(j), {})
    BY <1>2, <1>3, <1>5, <1>8, TailEnds DEF WillBeKicked, Going
  <2>2. QED
    BY <2>1 DEF Converging, WillBeKicked, Kick
<1>9. CASE Settled(j)
  <2>1. IDSettled(j)'
    <3>1. CASE m.cmd = "PlayerAssign"
      <4>1. m.peer \in Indices /\ m.id \in Nat /\ m = Assign(m.peer, m.id)
        BY <1>4, <3>1 DEF Commands, Assign
      <4>2. told' = [c \in Conns |-> IF c = peers[m.peer] THEN m.id ELSE told[c]]
        BY <3>1 DEF TransmitSession
      <4> HIDE DEF m
      <4>3. CASE m = Assign(j, ids[j]) /\ Lacks(Going', AssignsTo(j))
        <5>1. m.peer = j /\ m.id = ids[j]
          BY <4>3 DEF Assign
        <5>2. told'[peers'[j]] = ids'[j]
          BY <1>3, <1>5, <1>6, <4>2, <5>1 DEF roster
        <5>3. QED
          BY <4>3, <5>2 DEF IDSettled, AssignsTo, Assign
      <4>4. CASE Ends(Going', Assign(j, ids[j]), AssignsTo(j))
        BY <1>3, <4>4 DEF IDSettled, AssignsTo, Assign, roster
      <4>5. CASE /\ Lacks(Going', AssignsTo(j)) /\ m \notin AssignsTo(j)
                 /\ told[peers[j]] = ids[j]
        <5>1. m.peer # j
          BY <4>1, <4>5 DEF AssignsTo
        <5>2. peers[m.peer] # peers[j]
          <6>1. CASE m.peer \in Connected
            BY <1>5, <5>1, <6>1 DEF SessionInv, PeersDistinct
          <6>2. CASE m.peer \notin Connected
            BY <1>5, <4>1, <6>2 DEF Connected
          <6>3. QED
            BY <6>1, <6>2
        <5>3. told'[peers'[j]] = ids'[j]
          BY <1>3, <1>5, <1>6, <4>2, <4>5, <5>2 DEF roster
        <5>4. QED
          BY <4>5, <5>3 DEF IDSettled, AssignsTo, Assign
      <4>6. QED
        BY <1>2, <1>3, <1>9, <4>3, <4>4, <4>5, TailEnds DEF Settled, IDSettled, Going, m
    <3>2. CASE m.cmd # "PlayerAssign"
      <4>1. told' = told /\ m # Assign(j, ids[j])
        BY <1>4, <3>2 DEF TransmitSession, Commands, client, Assign
      <4>2. \/ Ends(Going', Assign(j, ids[j]), AssignsTo(j))
            \/ Lacks(Going', AssignsTo(j)) /\ told[peers[j]] = ids[j]
        BY <1>2, <1>3, <1>9, <4>1, TailEnds DEF Settled, IDSettled, Going
      <4>3. QED
        BY <1>3, <1>5, <4>1, <4>2 DEF IDSettled, AssignsTo, Assign, roster
    <3>3. QED
      BY <3>1, <3>2
  <2>2. ListSettled(j)'
    <3>1. CASE m.cmd = "PlayerList"
      <4>1. /\ m \in Lists
            /\ seen' = [c \in Conns |-> IF c \in Range(peers) THEN m.ids ELSE seen[c]]
        BY <1>4, <3>1 DEF TransmitSession, Commands, Lists
      <4>2. peers[j] \in Range(peers)
        BY <1>2, <1>5 DEF Range
      <4> HIDE DEF m
      <4>3. CASE m = PlayerList(list) /\ Lacks(Going', Lists)
        <5>1. m.ids = Listed(list)
          BY <4>3 DEF PlayerList
        <5>2. seen'[peers'[j]] = Listed(list)
          BY <1>5, <1>6, <4>1, <4>2, <5>1
        <5>3. QED
          BY <1>3, <4>3, <5>2 DEF ListSettled, Lists, roster
      <4>4. CASE Ends(Going', PlayerList(list), Lists)
        BY <1>3, <4>4 DEF ListSettled, PlayerList, Lists, roster
      <4>5. QED
        BY <1>2, <1>3, <1>9, <4>1, <4>3, <4>4, TailEnds
        DEF Settled, ListSettled, Going, m
    <3>2. CASE m.cmd # "PlayerList"
      <4>1. seen' = seen /\ m # PlayerList(list)
        BY <1>4, <3>2 DEF TransmitSession, Commands, client, PlayerList
      <4>2. \/ Ends(Going', PlayerList(list), Lists)
            \/ Lacks(Going', Lists) /\ seen[peers[j]] = Listed(list)
        BY <1>2, <1>3, <1>9, <4>1, TailEnds DEF Settled, ListSettled, Going
      <4>3. QED
        BY <1>3, <1>5, <4>1, <4>2 DEF ListSettled, PlayerList, Lists, roster
    <3>3. QED
      BY <3>1, <3>2
  <2>3. Lacks(Coming', Turns(j)) /\ ids'[j] # 0
    BY <1>3, <1>9 DEF Settled, roster
  <2>4. QED
    BY <2>1, <2>2, <2>3 DEF Converging, Settled, Turns, Event
<1>10. QED
  BY <1>5, <1>7, <1>8, <1>9 DEF ConvergeInv, Converging

\* OnClientConnectedInternal.
LEMMA ArrivalConverges ==
  ASSUME SessionInv, ConvergeInv, NEW i \in Indices, HandleConnected(i)
  PROVE  ConvergeInv'
<1> DEFINE u == <<Assign(i, ids'[i]), PlayerList(list')>>
<1>1. /\ batch \in Seq(Events) /\ inbound \in Seq(Events) /\ batch # <<>>
      /\ Head(batch) = Event("Connected", i) /\ Coming' = Tail(batch) \o inbound
  BY DEF SessionInv, SessionTypeOK, TypeOK, HandleConnected, Handling, Coming
<1>2. /\ UNCHANGED <<peers, told, seen, sending>> /\ outbound' = outbound \o u
      /\ Connected' = Connected
  BY DEF HandleConnected, Handling, client, Connected
<1>3. RosterOK' /\ (\A j \in Indices \ {i} : ids'[j] = ids[j]) /\ ids'[i] # 0
  <2>1. RosterOK /\ AddPlayer(i)
    BY DEF SessionInv, SessionTypeOK, HandleConnected
  <2>2. QED
    BY <2>1, AddPlayerStep DEF RosterOK, FirstID
<1>4. u \in Seq(Commands) /\ ids'[i] \in Nat /\ list' \in Seq(Nat)
  BY <1>3, MessageTypes DEF RosterOK
<1>5. Going \in Seq(Commands) /\ Going' = Going \o u
  <2>1. sending \in Seq(Commands) /\ outbound \in Seq(Commands)
    BY DEF SessionInv, SessionTypeOK, TypeOK
  <2> HIDE DEF u
  <2>2. QED
    BY <1>2, <1>4, <2>1, ConcatAssociative, ConcatProperties DEF Going
<1>6. SUFFICES ASSUME NEW j \in Connected PROVE Converging(j)'
  BY <1>2 DEF ConvergeInv
<1>7. j \in Indices /\ Converging(j)
  BY DEF ConvergeInv, Connected
<1>8. CASE j # i
  <2>1. Head(batch) # Event("Connected", j)
    BY <1>1, <1>8 DEF Event
  <2>2. /\ WillJoin(j) => WillJoin(j)'
        /\ Lacks(Coming, Turns(j)) => Lacks(Coming', Turns(j))
    BY <1>1, <2>1, ComingShrinks
  <2>3. Lacks(u, AssignsTo(j)) /\ Ends(u, PlayerList(list'), Lists)
    BY <1>4, <1>8, ShortQueues
  <2>4. ids'[j] = ids[j] /\ peers'[j] = peers[j] /\ told' = told /\ seen' = seen
    BY <1>2, <1>3, <1>7, <1>8
  <2> HIDE DEF u
  <2>5. QED
    BY <1>4, <1>5, <1>7, <2>2, <2>3, <2>4, KeepConverging
<1>9. CASE j = i
  <2>1. CASE WillBeKicked(i)
    <3>1. Lacks(u, {})
      BY DEF Lacks
    <3> HIDE DEF u
    <3>2. Ends(Going', Kick(i), {})
      BY <1>4, <1>5, <2>1, <3>1, ConcatEnds DEF WillBeKicked
    <3>3. QED
      BY <1>9, <3>2 DEF Converging, WillBeKicked, Kick
  <2>2. CASE ~WillBeKicked(i)
    <3>1. Event("Connected", i) \in Turns(i)
      BY DEF Turns
    <3>2. ~Settled(i)
      BY <1>1, <3>1, HeadLacked DEF Settled, Coming
    <3>3. WillJoin(i)
      BY <1>7, <1>9, <2>2, <3>2 DEF Converging
    <3>4. \/ Ends(Coming', Event("Connected", i), Gone(i))
          \/ Lacks(Coming', Gone(i))
      BY <1>1, <3>3, TailEnds DEF WillJoin, Coming
    <3>5. Ends(Coming', Event("Connected", i), Gone(i)) \/ Lacks(Coming', Turns(i))
      BY <3>4 DEF Ends, Lacks, Gone, Turns
    <3>6. IDSettled(i)' /\ ListSettled(i)'
      <4>1. /\ Ends(u, Assign(i, ids'[i]), AssignsTo(i))
            /\ Ends(u, PlayerList(list'), Lists)
        BY <1>4, ShortQueues
      <4> HIDE DEF u
      <4>2. /\ Ends(Going', Assign(i, ids'[i]), AssignsTo(i))
            /\ Ends(Going', PlayerList(list'), Lists)
        BY <1>4, <1>5, <4>1, ConcatEnds
      <4>3. QED
        BY <4>2 DEF IDSettled, ListSettled, AssignsTo, Assign, PlayerList, Lists
    <3>7. QED
      BY <1>3, <1>9, <3>5, <3>6 DEF Converging, WillJoin, Settled, Turns, Gone, Event
  <2>3. QED
    BY <2>1, <2>2
<1>10. QED
  BY <1>8, <1>9

\* OnClientDisconnectedInternal.
LEMMA DepartureConverges ==
  ASSUME SessionInv, ConvergeInv, NEW i \in Indices, HandleDisconnected(i)
  PROVE  ConvergeInv'
<1> DEFINE u == <<PlayerList(list')>>
<1>1. /\ batch \in Seq(Events) /\ inbound \in Seq(Events) /\ batch # <<>>
      /\ Head(batch) = Event("Disconnected", i) /\ Coming' = Tail(batch) \o inbound
  BY DEF SessionInv, SessionTypeOK, TypeOK, HandleDisconnected, Handling, Coming
<1>2. /\ UNCHANGED <<peers, told, seen, sending>>
      /\ outbound' = Append(outbound, PlayerList(list')) /\ Connected' = Connected
  BY DEF HandleDisconnected, Handling, client, Connected
<1>3. RosterOK' /\ \A j \in Indices \ {i} : ids'[j] = ids[j]
  BY RemovePlayerStep DEF SessionInv, SessionTypeOK, HandleDisconnected
<1>4. u \in Seq(Commands) /\ list' \in Seq(Nat) /\ PlayerList(list') \in Commands
  BY <1>3, MessageTypes DEF RosterOK
<1>5. Going \in Seq(Commands) /\ Going' = Going \o u
  <2>1. sending \in Seq(Commands) /\ outbound \in Seq(Commands)
    BY DEF SessionInv, SessionTypeOK, TypeOK
  <2>2. outbound' = outbound \o u
    BY <1>2, <1>4, <2>1, AppendIsConcat
  <2> HIDE DEF u
  <2>3. QED
    BY <1>2, <1>4, <2>1, <2>2, ConcatAssociative, ConcatProperties DEF Going
<1>6. SUFFICES ASSUME NEW j \in Connected PROVE Converging(j)'
  BY <1>2 DEF ConvergeInv
<1>7. j \in Indices /\ Converging(j)
  BY DEF ConvergeInv, Connected
<1>8. /\ WillJoin(j) => WillJoin(j)'
      /\ Lacks(Coming, Turns(j)) => Lacks(Coming', Turns(j))
  <2>1. Head(batch) # Event("Connected", j)
    BY <1>1 DEF Event
  <2>2. QED
    BY <1>1, <2>1, ComingShrinks
<1>9. CASE j # i
  <2>1. Lacks(u, AssignsTo(j)) /\ Ends(u, PlayerList(list'), Lists)
    BY <1>3, <1>4, ShortQueues
  <2>2. ids'[j] = ids[j] /\ peers'[j] = peers[j] /\ told' = told /\ seen' = seen
    BY <1>2, <1>3, <1>7, <1>9
  <2> HIDE DEF u
  <2>3. QED
    BY <1>4, <1>5, <1>7, <1>8, <2>1, <2>2, KeepConverging
<1>10. CASE j = i
  <2>1. CASE WillBeKicked(i)
    <3>1. Lacks(u, {})
      BY DEF Lacks
    <3> HIDE DEF u
    <3>2. Ends(Going', Kick(i), {})
      BY <1>4, <1>5, <2>1, <3>1, ConcatEnds DEF WillBeKicked
    <3>3. QED
      BY <1>10, <3>2 DEF Converging, WillBeKicked, Kick
  <2>2. CASE ~WillBeKicked(i)
    <3>1. Event("Disconnected", i) \in Turns(i)
      BY DEF Turns
    <3>2. ~Settled(i)
      BY <1>1, <3>1, HeadLacked DEF Settled, Coming
    <3>3. QED
      BY <1>7, <1>8, <1>10, <2>2, <3>2 DEF Converging
  <2>3. QED
    BY <2>1, <2>2
<1>11. QED
  BY <1>9, <1>10

\* CheckPeerTimeouts, for one client.
LEMMA ExpiryConverges ==
  ASSUME SessionInv, ConvergeInv, NEW i \in Indices, Expire(i)
  PROVE  ConvergeInv'
<1> DEFINE u == <<Kick(i), PlayerList(list')>>
<1>1. /\ UNCHANGED <<peers, told, seen, sending>> /\ outbound' = outbound \o u
      /\ Connected' = Connected /\ Coming' = Coming
  BY DEF Expire, client, Connected, Coming
<1>2. RosterOK' /\ \A j \in Indices \ {i} : ids'[j] = ids[j]
  BY RemovePlayerStep DEF SessionInv, SessionTypeOK, Expire
<1>3. u \in Seq(Commands) /\ list' \in Seq(Nat)
  BY <1>2, MessageTypes DEF RosterOK
<1>4. Going \in Seq(Commands) /\ Going' = Going \o u
  <2>1. sending \in Seq(Commands) /\ outbound \in Seq(Commands)
    BY DEF SessionInv, SessionTypeOK, TypeOK
  <2> HIDE DEF u
  <2>2. QED
    BY <1>1, <1>3, <2>1, ConcatAssociative, ConcatProperties DEF Going
<1>5. SUFFICES ASSUME NEW j \in Connected PROVE Converging(j)'
  BY <1>1 DEF ConvergeInv
<1>6. j \in Indices /\ Converging(j)
  BY DEF ConvergeInv, Connected
<1>7. CASE j # i
  <2>1. Lacks(u, AssignsTo(j)) /\ Ends(u, PlayerList(list'), Lists)
    BY <1>3, ShortQueues
  <2>2. ids'[j] = ids[j] /\ peers'[j] = peers[j] /\ told' = told /\ seen' = seen
    BY <1>1, <1>2, <1>6, <1>7
  <2>3. /\ WillJoin(j) => WillJoin(j)'
        /\ Lacks(Coming, Turns(j)) => Lacks(Coming', Turns(j))
    BY <1>1 DEF WillJoin, Event, Gone
  <2> HIDE DEF u
  <2>4. QED
    BY <1>3, <1>4, <1>6, <2>1, <2>2, <2>3, KeepConverging
<1>8. CASE j = i
  <2>1. Ends(u, Kick(i), {})
    BY <1>3, ShortQueues
  <2> HIDE DEF u
  <2>2. Ends(Going', Kick(i), {})
    BY <1>3, <1>4, <2>1, ConcatEnds
  <2>3. QED
    BY <1>8, <2>2 DEF Converging, WillBeKicked, Kick
<1>9. QED
  BY <1>7, <1>8

\* Every step keeps every client on its way to be settled.
LEMMA ConvergeStep ==
  ASSUME SessionInv, ConvergeInv, [Next]_vars
  PROVE  ConvergeInv'
<1>1. /\ sending \in Seq(Commands) /\ outbound \in Seq(Commands)
      /\ batch \in Seq(Events) /\ inbound \in Seq(Events)
      /\ peers \in [Indices -> Conns \cup {NoConn}] /\ OfflineEmpty
  BY DEF SessionInv, SessionTypeOK, TypeOK
<1>2. /\ Coming \in Seq(Events) /\ Going \in Seq(Commands)
      /\ Going \o <<>> = Going /\ Coming \o <<>> = Coming
  BY <1>1, ConcatProperties, ConcatEmptySeq DEF Coming, Going
<1>3. ASSUME NEW j \in Connected, peers'[j] = peers[j], UNCHANGED <<roster, told, seen>>,
             Going' = Going, NEW v \in Seq(Events), Coming' = Coming \o v,
             Lacks(v, Turns(j))
      PROVE  Converging(j)'
  <2>1. j \in Indices /\ Converging(j)
    BY DEF ConvergeInv, Connected
  <2>2. /\ WillJoin(j) => WillJoin(j)'
        /\ Lacks(Coming, Turns(j)) => Lacks(Coming', Turns(j))
    BY <1>2, <1>3, ComingGrows
  <2>3. <<>> \in Seq(Commands) /\ Going' = Going \o <<>>
    BY <1>2, <1>3
  <2>4. Lacks(<<>>, AssignsTo(j)) /\ Lacks(<<>>, Lists)
    BY DEF Lacks
  <2>5. QED
    BY <1>2, <1>3, <2>1, <2>2, <2>3, <2>4, KeepConverging DEF roster
<1>4. ASSUME UNCHANGED <<peers, roster, told, seen>>, Going' = Going, Coming' = Coming
      PROVE  ConvergeInv'
  <2>1. Connected' = Connected
    BY <1>4 DEF Connected
  <2>2. <<>> \in Seq(Events) /\ Coming' = Coming \o <<>>
    BY <1>2, <1>4
  <2>3. \A j : Lacks(<<>>, Turns(j))
    BY DEF Lacks
  <2>4. QED
    BY <1>3, <1>4, <2>1, <2>2, <2>3 DEF ConvergeInv
<1>5. ASSUME Connected' = {} PROVE ConvergeInv'
  BY <1>5 DEF ConvergeInv
<1>6. ASSUME NEW e \in Events, inbound' = Append(inbound, e), batch' = batch
      PROVE  <<e>> \in Seq(Events) /\ Coming' = Coming \o <<e>>
  <2>1. inbound' = inbound \o <<e>>
    BY <1>1, <1>6, AppendIsConcat
  <2>2. QED
    BY <1>1, <1>6, <2>1, ConcatAssociative DEF Coming
<1>7. ASSUME NEW c \in Conns, Connect(c) PROVE ConvergeInv'
  <2> DEFINE i == Min(Indices \ Connected)
             e == Event("Connected", i)
  <2>1. i \in Indices /\ i \notin Connected
    <3>1. Indices \ Connected # {} /\ Indices \ Connected \subseteq Nat
      BY <1>7, SessionAssumption DEF Connect, Indices, Connected
    <3>2. QED
      BY <3>1, MinOfSet
  <2>2. e \in Events
    BY <2>1, MessageTypes DEF Kinds
  <2>3. /\ peers' = [peers EXCEPT ![i] = c] /\ inbound' = Append(inbound, e)
        /\ UNCHANGED <<batch, roster, told, seen, outbound, sending>>
    BY <1>7 DEF Connect, client
  <2> HIDE DEF i
  <2>4. <<e>> \in Seq(Events) /\ Coming' = Coming \o <<e>> /\ Going' = Going
    BY <1>6, <2>2, <2>3 DEF Going
  <2>5. SUFFICES ASSUME NEW j \in Connected' PROVE Converging(j)'
    BY DEF ConvergeInv
  <2>6. CASE j = i
    <3>1. Ends(<<e>>, e, Gone(i))
      BY DEF Ends
    <3> HIDE DEF e
    <3>2. Ends(Coming', e, Gone(i))
      BY <1>2, <2>4, <3>1, ConcatEnds
    <3>3. QED
      BY <2>6, <3>2 DEF Converging, WillJoin, e, Event, Gone
  <2>7. CASE j # i
    <3>1. j \in Connected /\ peers'[j] = peers[j]
      BY <1>1, <2>3, <2>7 DEF Connected
    <3>2. e \notin Turns(j)
      BY <2>7 DEF Turns, Event
    <3> HIDE DEF e
    <3>3. Lacks(<<e>>, Turns(j))
      BY <3>2 DEF Lacks
    <3>4. QED
      BY <1>3, <2>3, <2>4, <3>1, <3>3
  <2>8. QED
    BY <2>6, <2>7
<1>8. ASSUME NEW i \in Indices, Lose(i) PROVE ConvergeInv'
  <2> DEFINE e == Event("Disconnected", i)
  <2>1. e \in Events
    BY MessageTypes DEF Kinds
  <2>2. /\ peers' = [peers EXCEPT ![i] = NoConn] /\ inbound' = Append(inbound, e)
        /\ UNCHANGED <<batch, roster, told, seen, outbound, sending>>
    BY <1>8 DEF Lose, client
  <2>3. <<e>> \in Seq(Events) /\ Coming' = Coming \o <<e>> /\ Going' = Going
    BY <1>6, <2>1, <2>2 DEF Going
  <2>4. SUFFICES ASSUME NEW j \in Connected' PROVE Converging(j)'
    BY DEF ConvergeInv
  <2>5. j # i /\ j \in Connected /\ peers'[j] = peers[j]
    BY <1>1, <2>2 DEF Connected
  <2>6. e \notin Turns(j)
    BY <2>5 DEF Turns, Event
  <2> HIDE DEF e
  <2>7. Lacks(<<e>>, Turns(j))
    BY <2>6 DEF Lacks
  <2>8. QED
    BY <1>3, <2>2, <2>3, <2>5, <2>7
<1>9. ASSUME NEW i \in Indices, Receive(i, "Packet") PROVE ConvergeInv'
  <2> DEFINE e == Event("Packet", i)
  <2>1. e \in Events
    BY MessageTypes DEF Kinds
  <2>2. /\ inbound' = Append(inbound, e)
        /\ UNCHANGED <<peers, batch, roster, told, seen, outbound, sending>>
    BY <1>9 DEF Receive, client
  <2>3. <<e>> \in Seq(Events) /\ Coming' = Coming \o <<e>> /\ Going' = Going
    BY <1>6, <2>1, <2>2 DEF Going
  <2>4. \A j : e \notin Turns(j)
    BY DEF Turns, Event
  <2> HIDE DEF e
  <2>5. \A j : Lacks(<<e>>, Turns(j))
    BY <2>4 DEF Lacks
  <2>6. QED
    BY <1>3, <2>2, <2>3, <2>5 DEF ConvergeInv, Connected
<1>10. CASE Drain
  <2>1. Going' = outbound \o <<>> /\ Going = <<>> \o outbound
    BY <1>10 DEF Drain, Going
  <2>2. Going' = Going
    BY <1>1, <2>1, ConcatEmptySeq
  <2>3. QED
    BY <1>4, <1>10, <2>2 DEF Drain, Coming, client
<1>11. CASE Poll
  <2>1. batch = <<>>
    BY <1>1, <1>11 DEF Poll, OfflineEmpty
  <2>2. Coming' = inbound \o <<>> /\ Coming = <<>> \o inbound
    BY <1>11, <2>1 DEF Poll, Coming
  <2>3. Coming' = Coming
    BY <1>1, <2>2, ConcatEmptySeq
  <2>4. QED
    BY <1>4, <1>11, <2>3 DEF Poll, Going, client
<1>12. ASSUME NEW i \in Indices, HandlePacket("Packet", i, <<>>) PROVE ConvergeInv'
  <2>1. /\ UNCHANGED <<peers, roster, told, seen, sending>> /\ outbound' = outbound
        /\ batch # <<>> /\ Head(batch) = Event("Packet", i)
        /\ Coming' = Tail(batch) \o inbound
    BY <1>1, <1>12 DEF HandlePacket, Handling, client, Coming
  <2>2. Going' = Going \o <<>>
    BY <1>2, <2>1 DEF Going
  <2>3. ASSUME NEW j \in Connected PROVE Converging(j)'
    <3>1. j \in Indices /\ Converging(j) /\ peers'[j] = peers[j]
      BY <2>1 DEF ConvergeInv, Connected
    <3>2. Head(batch) # Event("Connected", j)
      BY <2>1 DEF Event
    <3>3. /\ WillJoin(j) => WillJoin(j)'
          /\ Lacks(Coming, Turns(j)) => Lacks(Coming', Turns(j))
      BY <1>1, <2>1, <3>2, ComingShrinks
    <3>4. <<>> \in Seq(Commands) /\ Lacks(<<>>, AssignsTo(j)) /\ Lacks(<<>>, Lists)
      BY DEF Lacks
    <3>5. QED
      BY <1>2, <2>1, <2>2, <3>1, <3>3, <3>4, KeepConverging DEF roster
  <2>4. QED
    BY <2>1, <2>3 DEF ConvergeInv, Connected
<1>13. ASSUME NEW dt \in Ticks, Age(dt) PROVE ConvergeInv'
  BY <1>4, <1>13 DEF Age, queues, client, Coming, Going
<1>14. CASE HostGameRefused
  BY <1>4, <1>14 DEF HostGameRefused, queues, client, Coming, Going
<1>15. CASE HostGame
  BY <1>1, <1>5, <1>15 DEF HostGame, OfflineEmpty, Connected, NoPeers
<1>16. CASE Disconnect
  BY <1>5, <1>16 DEF Disconnect, Connected, NoPeers
<1>17. CASE UNCHANGED vars
  BY <1>4, <1>17 DEF vars, queues, client, Coming, Going
<1>18. QED
  BY <1>7, <1>8, <1>9, <1>10, <1>11, <1>12, <1>13, <1>14, <1>15, <1>16, <1>17,
     TransmitConverges, ArrivalConverges, DepartureConverges, ExpiryConverges
  DEF Next, NetworkThread, Frame, Environment

\* Whatever was queued, overtaken, kicked or taken over before: when every queue
\* is drained, each connected client is a player, knows its own ID and has the
\* host's player list.
THEOREM AlwaysConverges == Spec => []Converged
<1>1. Init => SessionInv /\ ConvergeInv
  BY SessionInit DEF Init, ConvergeInv, Connected, NoPeers
<1>2. SessionInv /\ ConvergeInv /\ [Next]_vars => (SessionInv /\ ConvergeInv)'
  BY SessionStep, ConvergeStep
<1>3. SessionInv /\ ConvergeInv => Converged
  <2>1. SUFFICES ASSUME SessionInv, ConvergeInv, Quiet, NEW i \in Connected
                 PROVE  /\ ids[i] # 0 /\ told[peers[i]] = ids[i]
                        /\ seen[peers[i]] = Listed(list)
    BY DEF Converged
  <2>2. Coming = <<>> /\ Going = <<>>
    BY <2>1 DEF Quiet, Coming, Going
  <2>3. \A e, C : ~Ends(<<>>, e, C)
    BY DEF Ends
  <2>4. Settled(i)
    BY <2>1, <2>2, <2>3 DEF ConvergeInv, Converging, WillJoin, WillBeKicked
  <2>5. QED
    BY <2>2, <2>3, <2>4 DEF Settled, IDSettled, ListSettled
<1>4. QED
  BY <1>1, <1>2, <1>3, PTL DEF Spec
=============================================================================
