----------------------------- MODULE ClientLink -----------------------------
(***************************************************************************)
(* A client's connection to its server: ENetThreadedDriver in the client   *)
(* role, NetworkSession and the reconnect logic of Network::Update.        *)
(*                                                                         *)
(* When ENet reports that the server is gone, the network thread stores    *)
(* m_FullyConnected, then m_Role, then queues the event; the game thread   *)
(* can read between any two of these.  The game thread reaches             *)
(* Network::Update from the loading screen in every frame, and from a      *)
(* running scene only if PollNetwork finds the role not Offline.           *)
(***************************************************************************)
EXTENDS Naturals

CONSTANTS
  Modes,        \* what the application may be doing: "loading", "running"
  MaxAttempts,  \* kMaxReconnectAttempts
  MaxCalls      \* bound: calls of ConnectTo, Disconnect and HostGame

ASSUME LinkAssumption ==
  /\ Modes \subseteq {"loading", "running"} /\ Modes # {}
  /\ MaxAttempts \in Nat /\ MaxCalls \in Nat

VARIABLES
  role,      \* m_Role
  fully,     \* m_FullyConnected
  link,      \* what the network thread has seen of the connection
  inbound,   \* m_InboundQueue: the types of the events in it, all the client's
             \* handlers tell apart
  handle,    \* m_ServerConnection is not kInvalidPeerHandle
  was,       \* m_WasClientConnected
  pending,   \* m_ReconnectPending
  attempts,  \* m_ReconnectAttempts
  timer,     \* m_ReconnectTimer, in seconds
  target,    \* m_ReconnectIP is not empty
  mode,      \* what the application is doing
  phase,     \* where the game thread is in Network::Update
  wanted,    \* history: the user asked for a connection and not to end it
  tried,     \* history: automatic attempts since the link was last up
  calls      \* calls counted against the bound

driver == <<role, fully, link, inbound>>
reconnect == <<was, pending, attempts, timer, target>>
history == <<wanted, tried>>
vars == <<driver, handle, reconnect, mode, phase, history, calls>>

\* "lost" and "leaving" are the two points inside the handling of a disconnect;
\* "dead" is a network thread that goes on with no server peer.
Links == {"none", "connecting", "up", "lost", "leaving", "dead"}

Init ==
  /\ role = "Offline" /\ fully = FALSE /\ link = "none" /\ inbound = {}
  /\ handle = FALSE
  /\ was = FALSE /\ pending = FALSE /\ attempts = 0 /\ timer = 0
  /\ target = FALSE
  /\ mode \in Modes /\ phase = "frame"
  /\ wanted = FALSE /\ tried = 0
  /\ calls = 0

-----------------------------------------------------------------------------
(* The network thread.                                                     *)

Confirm ==
  /\ link = "connecting"
  /\ link' = "up" /\ fully' = TRUE
  /\ inbound' = inbound \cup {"Connected"}
  /\ tried' = 0
  /\ UNCHANGED <<role, handle, reconnect, mode, phase, wanted, calls>>

\* Slip: the flag is left to the handler of the queued event.
DropFully_KeepFlag ==
  /\ link \in {"connecting", "up"}
  /\ link' = "lost"
  /\ UNCHANGED <<role, fully, inbound, handle, reconnect, mode, phase, history,
                 calls>>

\* The server is gone, or never answered.
DropFully ==
  /\ link \in {"connecting", "up"}
  /\ link' = "lost" /\ fully' = FALSE
  /\ UNCHANGED <<role, inbound, handle, reconnect, mode, phase, history, calls>>

DropRole ==
  /\ link = "lost"
  /\ link' = "leaving" /\ role' = "Offline"
  /\ UNCHANGED <<fully, inbound, handle, reconnect, mode, phase, history, calls>>

DropReport ==
  /\ link = "leaving"
  /\ link' = "dead"
  /\ inbound' = inbound \cup {"Disconnected"}
  /\ UNCHANGED <<role, fully, handle, reconnect, mode, phase, history, calls>>

-----------------------------------------------------------------------------
(* ENetThreadedDriver::Connect and Network::ConnectTo.                     *)

\* Slip: Connect does not look at the role.
Refused_Never == FALSE

Refused == role # "Offline"

\* StopWorker joins the network thread, which first finishes the event it is in.
\* What the last connection left in the inbound queue stays there.
Joined ==
  inbound' = IF link = "leaving" THEN inbound \cup {"Disconnected"} ELSE inbound

\* AlreadyConnected, or the host or its address could not be had.
ConnectFails ==
  \/ Refused /\ UNCHANGED driver
  \/ ~Refused /\ Joined /\ link' = "none" /\ UNCHANGED <<role, fully>>

ConnectStarts ==
  /\ ~Refused /\ Joined
  /\ link' = "connecting" /\ role' = "Client" /\ fully' = FALSE

\* NetworkSession has set m_ServerConnection before the driver answers.
ConnectTo(failed) ==
  /\ handle' = TRUE
  /\ \/ ConnectFails /\ failed
     \/ /\ ConnectStarts
        /\ target' = TRUE /\ attempts' = 0 /\ pending' = FALSE /\ timer' = 0

-----------------------------------------------------------------------------
(* Calls between two frames.                                               *)

Call ==
  /\ phase = "frame" /\ calls < MaxCalls
  /\ calls' = calls + 1
  /\ UNCHANGED <<mode, phase, was>>

UserConnect ==
  /\ Call
  /\ ConnectTo(UNCHANGED <<target, attempts, pending, timer>>)
  /\ wanted' = (wanted \/ role' = "Client")
  /\ tried' = 0

\* Slip: the address to reconnect to is kept.
UserDisconnect_KeepTarget ==
  /\ Call
  /\ role' = "Offline" /\ fully' = FALSE /\ link' = "none" /\ inbound' = {}
  /\ handle' = FALSE
  /\ attempts' = 0 /\ pending' = FALSE /\ timer' = 0
  /\ wanted' = FALSE /\ tried' = 0
  /\ UNCHANGED target

UserDisconnect ==
  /\ Call
  /\ role' = "Offline" /\ fully' = FALSE /\ link' = "none" /\ inbound' = {}
  /\ handle' = FALSE
  /\ target' = FALSE /\ attempts' = 0 /\ pending' = FALSE /\ timer' = 0
  /\ wanted' = FALSE /\ tried' = 0

HostGame ==
  /\ Call
  /\ role = "Offline"
  /\ Joined /\ role' = "Host" /\ fully' = TRUE /\ link' = "none"
  /\ UNCHANGED <<handle, target, attempts, pending, timer, history>>

ChangeMode ==
  /\ phase = "frame"
  /\ mode' \in Modes \ {mode}
  /\ UNCHANGED <<driver, handle, reconnect, phase, history, calls>>

-----------------------------------------------------------------------------
(* Network::Update, one frame.                                             *)

\* PollNetwork returns at once when the role is Offline.
StartFrame ==
  /\ phase = "frame"
  /\ mode = "running" => role # "Offline"
  /\ phase' = "session"
  /\ UNCHANGED <<driver, handle, reconnect, mode, history, calls>>

NowConnected == role = "Client" /\ fully

\* ENetThreadedDriver::IsConnected: a client that still connects is not.
IsConnected == role = "Host" \/ NowConnected

\* NetworkSession::Update leaves the queue alone while the driver is not
\* connected: what an earlier connection left there waits for this one.
SessionUpdate ==
  /\ phase = "session"
  /\ phase' = IF IsConnected THEN "poll" ELSE "detect"
  /\ UNCHANGED <<driver, handle, reconnect, mode, history, calls>>

\* The connection can be lost between the test and the poll.
PollEvents ==
  /\ phase = "poll"
  /\ inbound' = {}
  /\ handle' = (handle /\ (role = "Host" \/ "Disconnected" \notin inbound))
  /\ phase' = "detect"
  /\ UNCHANGED <<role, fully, link, reconnect, mode, history, calls>>

\* Slip: m_WasClientConnected is updated before it is tested.
DetectLoss_UpdateFirst ==
  /\ phase = "detect"
  /\ was' = NowConnected
  /\ phase' = "reconnect"
  /\ UNCHANGED <<driver, handle, pending, attempts, timer, target, mode,
                 history, calls>>

DetectLoss ==
  /\ phase = "detect"
  /\ IF was /\ ~NowConnected /\ ~pending /\ target /\ attempts < MaxAttempts
     THEN pending' = TRUE /\ timer' = 0
     ELSE UNCHANGED <<pending, timer>>
  /\ was' = NowConnected
  /\ phase' = "reconnect"
  /\ UNCHANGED <<driver, handle, attempts, target, mode, history, calls>>

\* 1 << m_ReconnectAttempts, in seconds.
Backoff[n \in 0 .. MaxAttempts] == IF n = 0 THEN 1 ELSE 2 * Backoff[n - 1]

Waiting == pending /\ attempts < MaxAttempts

\* Slip: dt is counted twice, and the time-out is tested for equality.
KeepWaiting_Overrun(dt) ==
  /\ phase = "reconnect"
  /\ Waiting => timer + dt # Backoff[attempts]
  /\ timer' = IF Waiting THEN timer + 2 * dt ELSE timer
  /\ phase' = "frame"
  /\ UNCHANGED <<driver, handle, was, pending, attempts, target, mode, history,
                 calls>>

\* No reconnect is pending, or its time has not come.
KeepWaiting(dt) ==
  /\ phase = "reconnect"
  /\ Waiting => timer + dt < Backoff[attempts]
  /\ timer' = IF Waiting THEN timer + dt ELSE timer
  /\ phase' = "frame"
  /\ UNCHANGED <<driver, handle, was, pending, attempts, target, mode, history,
                 calls>>

\* m_ReconnectAttempts is incremented and m_ReconnectPending cleared before
\* ConnectTo, which on success sets both once more.
Attempt(dt) ==
  /\ phase = "reconnect"
  /\ Waiting /\ timer + dt >= Backoff[attempts]
  /\ ConnectTo(/\ attempts' = attempts + 1 /\ pending' = FALSE /\ timer' = 0
               /\ UNCHANGED target)
  /\ phase' = "frame"
  /\ tried' = IF tried < MaxAttempts THEN tried + 1 ELSE tried
  /\ UNCHANGED <<was, mode, wanted, calls>>

-----------------------------------------------------------------------------
NetworkThread == DropRole \/ DropReport

Frame ==
  \/ StartFrame \/ SessionUpdate \/ PollEvents \/ DetectLoss
  \/ \E dt \in 0..1 : KeepWaiting(dt) \/ Attempt(dt)

User == UserConnect \/ UserDisconnect \/ HostGame \/ ChangeMode

Next == Confirm \/ DropFully \/ NetworkThread \/ Frame \/ User

Spec == Init /\ [][Next]_vars

\* Both threads run; ENet's own timeout ends every attempt one way or the other;
\* dt is positive, so a second passes again and again.
Fairness ==
  /\ WF_vars(NetworkThread) /\ WF_vars(Confirm \/ (link = "connecting" /\ DropFully))
  /\ WF_vars(Frame)
  /\ SF_vars(KeepWaiting(1) \/ Attempt(1))

FairSpec == Spec /\ Fairness

-----------------------------------------------------------------------------
TypeOK ==
  /\ role \in {"Offline", "Client", "Host"} /\ link \in Links
  /\ fully \in BOOLEAN /\ handle \in BOOLEAN
  /\ inbound \subseteq {"Connected", "Disconnected"}
  /\ was \in BOOLEAN /\ pending \in BOOLEAN /\ target \in BOOLEAN
  /\ attempts \in 0..MaxAttempts /\ timer \in 0..Backoff[MaxAttempts]
  /\ mode \in Modes /\ phase \in {"frame", "session", "poll", "detect", "reconnect"}
  /\ wanted \in BOOLEAN /\ tried \in 0..MaxAttempts /\ calls \in 0..MaxCalls

\* The role and the flag the game thread reads without a lock are never ahead of
\* the connection: it takes the client for connected only while the link is up.
ConnectedMeansUp == NowConnected => link = "up"

\* After Disconnect nothing connects again until the user asks for it, although
\* m_WasClientConnected outlives the call and a loss may be being handled.
StaysDisconnected == [][role # "Client" /\ role' = "Client" => wanted']_vars

\* An automatic attempt never takes a live connection down: one can fall due
\* while the user's own connection is already being made or is up.
LiveLinkSurvives ==
  [][phase = "reconnect" /\ phase' = "frame" /\ link \in {"connecting", "up"}
       => UNCHANGED driver]_vars

\* A link that the game had seen and that is lost is retried, as long as the
\* application keeps calling Network::Update.
LossIsRetried ==
  was /\ role = "Offline" /\ target /\ mode = "loading"
    ~> tried > 0 \/ role # "Offline" \/ ~target \/ mode = "running"

\* "Client reconnect logic: if we were connected but now disconnected, attempt
\* automatic reconnect": the game had seen the connection, and it is gone.
LostLinkIsRetried ==
  was /\ role = "Offline" /\ target ~> tried > 0 \/ role # "Offline" \/ ~target
=============================================================================
