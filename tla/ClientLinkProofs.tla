--------------------------- MODULE ClientLinkProofs ---------------------------
(***************************************************************************)
(* Proofs about ClientLink for every number of attempts and calls.         *)
(***************************************************************************)
EXTENDS ClientLink, SequenceLemmas

-----------------------------------------------------------------------------
(* The inductive invariant.                                                *)

\* The role and the flag are stored one after the other, and before the event is
\* queued: at each of these points they say at most what the link is.
DriverInv ==
  /\ link \in Links /\ role \in {"Offline", "Client", "Host"}
  /\ role = "Client" <=> link \in {"connecting", "up", "lost"}
  /\ role = "Client" /\ fully => link = "up"

\* What may make the game connect by itself goes back to a request of the user
\* that still stands.
RequestStands ==
  /\ pending \in BOOLEAN /\ target \in BOOLEAN /\ wanted \in BOOLEAN
  /\ pending => target
  /\ target => wanted

LinkInv == DriverInv /\ RequestStands

\* ConnectTo leaves a driver that has a role alone.
LEMMA ConnectStep ==
  ASSUME LinkInv, NEW failed, ConnectTo(failed)
  PROVE  /\ DriverInv'
         /\ role # "Offline" => UNCHANGED driver
         /\ \/ failed /\ role' = role
            \/ role' = "Client" /\ target' = TRUE /\ pending' = FALSE
<1> USE DEF LinkInv, DriverInv, Links, driver
<1>1. CASE ConnectFails /\ failed
  BY <1>1 DEF ConnectFails, Refused
<1>2. CASE ConnectStarts /\ target' = TRUE /\ pending' = FALSE
  BY <1>2 DEF ConnectStarts, Refused
<1>3. QED
  BY <1>1, <1>2 DEF ConnectTo

\* No step of the network thread, of a frame or of the user breaks the invariant,
\* and none makes the driver a client unless the user wants that.
LEMMA LinkStep ==
  ASSUME LinkInv, [Next]_vars
  PROVE  LinkInv' /\ (role # "Client" /\ role' = "Client" => wanted')
<1> DEFINE Goal == LinkInv' /\ (role # "Client" /\ role' = "Client" => wanted')
<1>1. ASSUME UNCHANGED <<role, fully, link>>, UNCHANGED <<pending, target, wanted>>
      PROVE  Goal
  BY <1>1 DEF LinkInv, DriverInv, RequestStands
<1>2. CASE Confirm
  BY <1>2 DEF Confirm, LinkInv, DriverInv, RequestStands, Links, reconnect
<1>3. CASE DropFully
  BY <1>3 DEF DropFully, LinkInv, DriverInv, RequestStands, Links, reconnect, history
<1>4. CASE DropRole
  BY <1>4 DEF DropRole, LinkInv, DriverInv, RequestStands, Links, reconnect, history
<1>5. CASE DropReport
  BY <1>5 DEF DropReport, LinkInv, DriverInv, RequestStands, Links, reconnect, history
<1>6. CASE StartFrame \/ SessionUpdate \/ PollEvents \/ ChangeMode
  BY <1>1, <1>6 DEF StartFrame, SessionUpdate, PollEvents, ChangeMode, driver, reconnect,
                    history
<1>7. CASE DetectLoss
  <2>1. UNCHANGED <<role, fully, link, target, wanted>>
    BY <1>7 DEF DetectLoss, driver, history
  <2>2. \/ pending' = pending
        \/ target /\ pending' = TRUE
    BY <1>7 DEF DetectLoss
  <2>3. DriverInv'
    BY <2>1 DEF LinkInv, DriverInv
  <2>4. CASE pending' = pending
    BY <2>1, <2>3, <2>4 DEF LinkInv, RequestStands
  <2>5. CASE target /\ pending' = TRUE
    BY <2>1, <2>3, <2>5 DEF LinkInv, RequestStands
  <2>6. QED
    BY <2>2, <2>4, <2>5
<1>8. ASSUME NEW dt \in 0..1, KeepWaiting(dt) PROVE Goal
  BY <1>1, <1>8 DEF KeepWaiting, driver, history
<1>9. ASSUME NEW dt \in 0..1, Attempt(dt) PROVE Goal
  <2> DEFINE failed == /\ attempts' = attempts + 1 /\ pending' = FALSE /\ timer' = 0
                       /\ UNCHANGED target
  <2>1. ConnectTo(failed) /\ pending /\ wanted' = wanted
    BY <1>9, Zenon DEF Attempt, Waiting
  <2>2. failed => pending' = FALSE /\ target' = target
    OBVIOUS
  <2> HIDE DEF failed
  <2>3. /\ DriverInv'
        /\ \/ failed /\ role' = role
           \/ role' = "Client" /\ target' = TRUE /\ pending' = FALSE
    BY <2>1, ConnectStep, Zenon
  <2>4. QED
    BY <2>1, <2>2, <2>3 DEF LinkInv, RequestStands
<1>10. CASE UserConnect
  <2> DEFINE failed == UNCHANGED <<target, attempts, pending, timer>>
  <2>1. ConnectTo(failed) /\ wanted' = (wanted \/ role' = "Client")
    BY <1>10, Zenon DEF UserConnect
  <2>2. failed => pending' = pending /\ target' = target
    OBVIOUS
  <2> HIDE DEF failed
  <2>3. /\ DriverInv'
        /\ \/ failed /\ role' = role
           \/ role' = "Client" /\ target' = TRUE /\ pending' = FALSE
    BY <2>1, ConnectStep, Zenon
  <2>4. wanted' \in BOOLEAN /\ (wanted \/ role' = "Client" => wanted')
    BY <2>1, Zenon DEF LinkInv, RequestStands
  <2>5. CASE pending' = pending /\ target' = target /\ role' = role
    BY <2>3, <2>4, <2>5 DEF LinkInv, RequestStands
  <2>6. CASE role' = "Client" /\ target' = TRUE /\ pending' = FALSE
    BY <2>3, <2>4, <2>6 DEF LinkInv, RequestStands
  <2>7. QED
    BY <2>2, <2>3, <2>5, <2>6
<1>11. CASE UserDisconnect
  BY <1>11 DEF UserDisconnect, LinkInv, DriverInv, RequestStands, Links
<1>12. CASE HostGame
  BY <1>12 DEF HostGame, LinkInv, DriverInv, RequestStands, Links, history
<1>13. CASE UNCHANGED vars
  BY <1>1, <1>13 DEF vars, driver, reconnect, history
<1>14. QED
  BY <1>2, <1>3, <1>4, <1>5, <1>6, <1>7, <1>8, <1>9, <1>10, <1>11, <1>12, <1>13
  DEF Next, NetworkThread, Frame, User

\* The invariant holds in every state.
THEOREM LinkInvariance == Spec => []LinkInv
<1>1. Init => LinkInv
  BY DEF Init, LinkInv, DriverInv, RequestStands, Links
<1>2. LinkInv /\ [Next]_vars => LinkInv'
  BY LinkStep
<1>3. QED
  BY <1>1, <1>2, PTL DEF Spec

\* Wherever the network thread is between its two stores, the game thread takes
\* the client for connected only while the link is up.
THEOREM ConnectedIsUp == Spec => []ConnectedMeansUp
<1>1. LinkInv => ConnectedMeansUp
  BY DEF LinkInv, DriverInv, ConnectedMeansUp, NowConnected
<1>2. QED
  BY <1>1, LinkInvariance, PTL

\* No reconnect, however late it falls due, undoes a call of Disconnect.
THEOREM DisconnectLasts == Spec => StaysDisconnected
<1>1. LinkInv /\ [Next]_vars => [role # "Client" /\ role' = "Client" => wanted']_vars
  BY LinkStep
<1>2. QED
  BY <1>1, LinkInvariance, PTL DEF Spec, StaysDisconnected

\* ConnectTo is refused while the driver has a role, so that an attempt that
\* falls due beside the user's own connection does not touch it.
THEOREM LiveLinkIsLeft == Spec => LiveLinkSurvives
<1>1. ASSUME LinkInv, [Next]_vars,
             phase = "reconnect", phase' = "frame", link \in {"connecting", "up"}
      PROVE  UNCHANGED driver
  <2>1. role # "Offline"
    BY <1>1 DEF LinkInv, DriverInv
  <2>2. ASSUME NEW dt \in 0..1, KeepWaiting(dt) PROVE UNCHANGED driver
    BY <2>2 DEF KeepWaiting
  <2>3. ASSUME NEW dt \in 0..1, Attempt(dt) PROVE UNCHANGED driver
    <3> DEFINE failed == /\ attempts' = attempts + 1 /\ pending' = FALSE
                         /\ timer' = 0 /\ UNCHANGED target
    <3>1. ConnectTo(failed)
      BY <2>3, Zenon DEF Attempt
    <3> HIDE DEF failed
    <3>2. QED
      BY <1>1, <2>1, <3>1, ConnectStep, Zenon
  <2>4. Next \/ UNCHANGED vars
    BY <1>1
  <2>5. QED
    BY <1>1, <2>2, <2>3, <2>4
    DEF Next, NetworkThread, Frame, User, Confirm, DropFully, DropRole, DropReport,
        StartFrame, SessionUpdate, PollEvents, DetectLoss, UserConnect, UserDisconnect, HostGame,
        ChangeMode, Call, vars
<1>2. LinkInv /\ [Next]_vars
        => [phase = "reconnect" /\ phase' = "frame" /\ link \in {"connecting", "up"}
              => UNCHANGED driver]_vars
  BY <1>1
<1>3. QED
  BY <1>2, LinkInvariance, PTL DEF Spec, LiveLinkSurvives

-----------------------------------------------------------------------------
(* Types.  The time waited is bounded by the last delay, since each delay is    *)
(* twice the one before.                                                        *)

\* The equation of Backoff has a solution: one for the delays up to n is continued
\* by one more.
LEMMA BackoffEquation ==
  Backoff = [n \in 0 .. MaxAttempts |-> IF n = 0 THEN 1 ELSE 2 * Backoff[n - 1]]
<1> DEFINE Step(f, n) == IF n = 0 THEN 1 ELSE 2 * f[n - 1]
           Doubles(f, m) == f = [n \in 0 .. m |-> Step(f, n)]
           Partly(m) == \E f : Doubles(f, m)
           Done == {m \in Nat : Partly(m)}
<1>0. MaxAttempts \in Nat
  BY LinkAssumption
<1>1. 0 \in Done
  <2> DEFINE e == [n \in 0 .. 0 |-> 1]
  <2>1. e = [n \in 0 .. 0 |-> Step(e, n)]
    OBVIOUS
  <2>2. Partly(0)
    BY <2>1
  <2> HIDE DEF Partly
  <2>3. QED
    BY <2>2
<1>2. ASSUME NEW m \in Nat, m \in Done
      PROVE  m + 1 \in Done
  <2>1. Partly(m)
    <3> HIDE DEF Partly
    <3>1. QED
      BY <1>2
  <2>2. PICK f : Doubles(f, m)
    BY <2>1
  <2> DEFINE g == [n \in 0 .. m + 1 |-> Step(f, n)]
  <2>3. \A n \in 0 .. m : f[n] = Step(f, n)
    BY <2>2
  <2>4. ASSUME NEW n \in 0 .. m + 1
        PROVE  g[n] = Step(g, n)
    <3>1. CASE n = 0
      BY <3>1
    <3>2. CASE n # 0
      <4>1. n - 1 \in 0 .. m /\ n - 1 \in 0 .. m + 1
        BY <3>2
      <4>2. g[n] = 2 * f[n - 1] /\ g[n - 1] = Step(f, n - 1)
        BY <3>2, <4>1
      <4>3. g[n - 1] = f[n - 1]
        BY <2>3, <4>1, <4>2
      <4> HIDE DEF g
      <4>4. QED
        BY <3>2, <4>2, <4>3
    <3>3. QED
      BY <3>1, <3>2
  <2>5. Partly(m + 1)
    <3>1. g = [n \in 0 .. m + 1 |-> g[n]]
      OBVIOUS
    <3> HIDE DEF g
    <3>2. g = [n \in 0 .. m + 1 |-> Step(g, n)]
      BY <2>4, <3>1
    <3>3. QED
      BY <3>2
  <2> HIDE DEF Partly
  <2>6. QED
    BY <2>5
<1>3. Partly(MaxAttempts)
  <2>1. MaxAttempts \in Done
    <3> HIDE DEF Done
    <3>1. QED
      BY <1>0, <1>1, <1>2, SetInduction
  <2> HIDE DEF Partly
  <2>2. QED
    BY <2>1
<1>4. QED
  BY <1>3, Zenon DEF Backoff

\* No delay is longer than the last one.
LEMMA BackoffGrows ==
  \A n \in 0 .. MaxAttempts :
    Backoff[n] \in Nat /\ Backoff[MaxAttempts] \in Nat
    /\ Backoff[n] =< Backoff[MaxAttempts]
<1> DEFINE M == MaxAttempts
           Number == {n \in Nat : n <= M => Backoff[n] \in Nat}
           Below == {d \in Nat : d <= M => Backoff[M - d] =< Backoff[M]}
<1>0. M \in Nat
  BY LinkAssumption
<1>1. \A n \in 0 .. M : Backoff[n] = IF n = 0 THEN 1 ELSE 2 * Backoff[n - 1]
  BY BackoffEquation, Zenon
<1> HIDE DEF M
<1>2. \A n \in Nat : n \in Number
  <2>1. 0 \in Number
    BY <1>0, <1>1
  <2>2. ASSUME NEW n \in Nat, n \in Number PROVE n + 1 \in Number
    <3>1. SUFFICES ASSUME n + 1 <= M PROVE Backoff[n + 1] \in Nat
      OBVIOUS
    <3>2. Backoff[n] \in Nat
      BY <1>0, <2>2, <3>1
    <3>3. Backoff[n + 1] = 2 * Backoff[n]
      BY <1>0, <1>1, <3>1
    <3>4. QED
      BY <3>2, <3>3
  <2> HIDE DEF Number
  <2>3. QED
    BY <2>1, <2>2, SetInduction
<1>3. \A n \in 0 .. M : Backoff[n] \in Nat
  BY <1>0, <1>2
<1>4. \A d \in Nat : d \in Below
  <2>1. 0 \in Below
    BY <1>0, <1>3
  <2>2. ASSUME NEW d \in Nat, d \in Below PROVE d + 1 \in Below
    <3>1. SUFFICES ASSUME d + 1 <= M PROVE Backoff[M - (d + 1)] =< Backoff[M]
      OBVIOUS
    <3> DEFINE n == M - (d + 1)
    <3>2. n \in 0 .. M /\ n + 1 \in 0 .. M /\ n + 1 = M - d /\ n + 1 # 0
          /\ (n + 1) - 1 = n
      BY <1>0, <3>1
    <3>3. Backoff[n + 1] =< Backoff[M]
      BY <1>0, <2>2, <3>1, <3>2
    <3> HIDE DEF n
    <3>4. Backoff[n + 1] = 2 * Backoff[n]
      BY <1>1, <3>2
    <3>5. Backoff[n] \in Nat /\ Backoff[M] \in Nat
      BY <1>0, <1>3, <3>2
    <3>6. Backoff[n] =< Backoff[M]
      BY <3>3, <3>4, <3>5
    <3>7. QED
      BY <3>6 DEF n
  <2> HIDE DEF Below
  <2>3. QED
    BY <2>1, <2>2, SetInduction
<1>5. ASSUME NEW n \in 0 .. M
      PROVE  Backoff[n] \in Nat /\ Backoff[M] \in Nat /\ Backoff[n] =< Backoff[M]
  <2>1. M - n \in Nat /\ M - n <= M /\ M - (M - n) = n
    BY <1>0
  <2>2. M - n \in Below
    BY <1>4, <2>1
  <2>3. QED
    BY <1>0, <1>3, <2>1, <2>2
<1>6. QED
  BY <1>5 DEF M

\* What ConnectTo may do to the driver, the event of the last connection included.
LEMMA ConnectTypes ==
  ASSUME TypeOK, NEW failed, ConnectTo(failed)
  PROVE  /\ role' \in {role, "Client"} /\ link' \in Links /\ fully' \in BOOLEAN
         /\ inbound' \subseteq {"Connected", "Disconnected"}
         /\ handle' \in BOOLEAN
         /\ \/ failed /\ role' = role
            \/ /\ role' = "Client" /\ target' = TRUE /\ attempts' = 0
               /\ pending' = FALSE /\ timer' = 0
<1>1. Joined => inbound' \subseteq {"Connected", "Disconnected"}
  BY DEF Joined, TypeOK
<1>2. QED
  BY <1>1 DEF ConnectTo, ConnectFails, ConnectStarts, driver, TypeOK, Links

\* Every step keeps the types.
LEMMA TypeStep ==
  ASSUME TypeOK, [Next]_vars
  PROVE  TypeOK'
<1> USE LinkAssumption
<1>a. /\ Backoff[MaxAttempts] \in Nat
      /\ attempts < MaxAttempts
           => Backoff[attempts] \in Nat /\ Backoff[attempts] =< Backoff[MaxAttempts]
  BY BackoffGrows DEF TypeOK
<1>1. CASE Confirm
  BY <1>1 DEF Confirm, TypeOK, Links, reconnect
<1>2. CASE DropFully \/ DropRole
  BY <1>2 DEF DropFully, DropRole, TypeOK, Links, reconnect, history
<1>3. CASE DropReport
  BY <1>3 DEF DropReport, TypeOK, Links, reconnect, history
<1>4. CASE StartFrame \/ SessionUpdate \/ ChangeMode
  BY <1>4 DEF StartFrame, SessionUpdate, ChangeMode, TypeOK, driver, reconnect, history
<1>5. CASE PollEvents
  <2>1. handle' \in BOOLEAN
    BY <1>5, Zenon DEF PollEvents, TypeOK
  <2>2. QED
    BY <1>5, <2>1 DEF PollEvents, TypeOK, reconnect, history
<1>6. CASE DetectLoss
  <2>1. was' \in BOOLEAN /\ pending' \in BOOLEAN
    BY <1>6, Zenon DEF DetectLoss, NowConnected, TypeOK
  <2>2. timer' \in 0 .. Backoff[MaxAttempts]
    BY <1>6, <1>a DEF DetectLoss, TypeOK
  <2>3. QED
    BY <1>6, <2>1, <2>2 DEF DetectLoss, TypeOK, driver, history
<1>7. ASSUME NEW dt \in 0 .. 1, KeepWaiting(dt) PROVE TypeOK'
  <2>1. timer' \in 0 .. Backoff[MaxAttempts]
    BY <1>7, <1>a DEF KeepWaiting, Waiting, TypeOK
  <2>2. QED
    BY <1>7, <2>1 DEF KeepWaiting, TypeOK, driver, history
<1>8. ASSUME NEW dt \in 0 .. 1, Attempt(dt) PROVE TypeOK'
  <2> DEFINE failed == /\ attempts' = attempts + 1 /\ pending' = FALSE /\ timer' = 0
                       /\ UNCHANGED target
  <2>1. ConnectTo(failed) /\ pending /\ attempts < MaxAttempts
        /\ phase' = "frame" /\ UNCHANGED <<was, mode, wanted, calls>>
        /\ tried' = IF tried < MaxAttempts THEN tried + 1 ELSE tried
    BY <1>8, Zenon DEF Attempt, Waiting
  <2>2. failed => attempts' = attempts + 1 /\ pending' = FALSE /\ timer' = 0
                  /\ target' = target
    OBVIOUS
  <2> HIDE DEF failed
  <2>3. /\ role' \in {role, "Client"} /\ link' \in Links /\ fully' \in BOOLEAN
        /\ inbound' \subseteq {"Connected", "Disconnected"} /\ handle' \in BOOLEAN
        /\ \/ failed /\ role' = role
           \/ /\ role' = "Client" /\ target' = TRUE /\ attempts' = 0
              /\ pending' = FALSE /\ timer' = 0
    BY <2>1, ConnectTypes, Zenon
  <2>4. /\ attempts' \in 0 .. MaxAttempts /\ timer' \in 0 .. Backoff[MaxAttempts]
        /\ pending' \in BOOLEAN /\ target' \in BOOLEAN
    <3>1. CASE attempts' = attempts + 1 /\ pending' = FALSE /\ timer' = 0
               /\ target' = target
      <4>1. attempts' \in 0 .. MaxAttempts /\ timer' \in 0 .. Backoff[MaxAttempts]
        BY <1>a, <2>1, <3>1 DEF TypeOK
      <4>2. QED
        BY <3>1, <4>1, Zenon DEF TypeOK
    <3>2. CASE target' = TRUE /\ attempts' = 0 /\ pending' = FALSE /\ timer' = 0
      <4>1. attempts' \in 0 .. MaxAttempts /\ timer' \in 0 .. Backoff[MaxAttempts]
        BY <1>a, <3>2
      <4>2. QED
        BY <3>2, <4>1, Zenon
    <3>3. QED
      BY <2>2, <2>3, <3>1, <3>2, Zenon
  <2>5. tried' \in 0 .. MaxAttempts
    BY <2>1 DEF TypeOK
  <2>6. QED
    BY <2>1, <2>3, <2>4, <2>5 DEF TypeOK
<1>9. CASE UserConnect
  <2> DEFINE failed == UNCHANGED <<target, attempts, pending, timer>>
  <2>1. ConnectTo(failed) /\ wanted' = (wanted \/ role' = "Client") /\ tried' = 0
        /\ calls < MaxCalls /\ calls' = calls + 1 /\ UNCHANGED <<mode, phase, was>>
    BY <1>9, Zenon DEF UserConnect, Call
  <2>2. failed => UNCHANGED <<target, attempts, pending, timer>>
    OBVIOUS
  <2> HIDE DEF failed
  <2>3. /\ role' \in {role, "Client"} /\ link' \in Links /\ fully' \in BOOLEAN
        /\ inbound' \subseteq {"Connected", "Disconnected"} /\ handle' \in BOOLEAN
        /\ \/ failed /\ role' = role
           \/ /\ role' = "Client" /\ target' = TRUE /\ attempts' = 0
              /\ pending' = FALSE /\ timer' = 0
    BY <2>1, ConnectTypes, Zenon
  <2>4. /\ attempts' \in 0 .. MaxAttempts /\ timer' \in 0 .. Backoff[MaxAttempts]
        /\ pending' \in BOOLEAN /\ target' \in BOOLEAN
    <3>1. CASE UNCHANGED <<target, attempts, pending, timer>>
      BY <3>1 DEF TypeOK
    <3>2. CASE target' = TRUE /\ attempts' = 0 /\ pending' = FALSE /\ timer' = 0
      <4>1. attempts' \in 0 .. MaxAttempts /\ timer' \in 0 .. Backoff[MaxAttempts]
        BY <1>a, <3>2
      <4>2. QED
        BY <3>2, <4>1, Zenon
    <3>3. QED
      BY <2>2, <2>3, <3>1, <3>2, Zenon
  <2>5. wanted' \in BOOLEAN
    BY <2>1, Zenon DEF TypeOK
  <2>6. tried' \in 0 .. MaxAttempts /\ calls' \in 0 .. MaxCalls
    BY <2>1 DEF TypeOK
  <2>7. QED
    BY <2>1, <2>3, <2>4, <2>5, <2>6 DEF TypeOK
<1>10. CASE UserDisconnect
  <2>1. /\ attempts' \in 0 .. MaxAttempts /\ tried' \in 0 .. MaxAttempts
        /\ timer' \in 0 .. Backoff[MaxAttempts] /\ calls' \in 0 .. MaxCalls
    BY <1>10, <1>a DEF UserDisconnect, Call, TypeOK
  <2>2. /\ role' = "Offline" /\ link' = "none" /\ phase' = phase /\ mode' = mode
        /\ inbound' = {} /\ fully' = FALSE /\ handle' = FALSE /\ was' = was
        /\ pending' = FALSE /\ target' = FALSE /\ wanted' = FALSE
    BY <1>10 DEF UserDisconnect, Call
  <2>3. QED
    BY <2>1, <2>2 DEF TypeOK, Links
<1>11. CASE HostGame
  <2>1. inbound' \subseteq {"Connected", "Disconnected"}
    BY <1>11 DEF HostGame, Joined, TypeOK
  <2>2. QED
    BY <1>11, <2>1 DEF HostGame, Call, TypeOK, Links, history
<1>12. CASE UNCHANGED vars
  BY <1>12 DEF vars, TypeOK, driver, reconnect, history
<1>13. QED
  BY <1>1, <1>2, <1>3, <1>4, <1>5, <1>6, <1>7, <1>8, <1>9, <1>10, <1>11, <1>12
  DEF Next, NetworkThread, Frame, User

\* The counters and the time waited stay within their limits for any number of
\* attempts and calls.
THEOREM TypesKept == Spec => []TypeOK
<1>1. Init => TypeOK
  <2>1. SUFFICES ASSUME Init PROVE TypeOK
    OBVIOUS
  <2>2. Backoff[MaxAttempts] \in Nat
    BY LinkAssumption, BackoffGrows
  <2>3. /\ attempts \in 0 .. MaxAttempts /\ tried \in 0 .. MaxAttempts
        /\ timer \in 0 .. Backoff[MaxAttempts] /\ calls \in 0 .. MaxCalls
    BY <2>1, <2>2, LinkAssumption DEF Init
  <2>4. /\ role = "Offline" /\ link = "none" /\ phase = "frame" /\ mode \in Modes
        /\ inbound = {}
        /\ fully = FALSE /\ handle = FALSE /\ was = FALSE /\ pending = FALSE
        /\ target = FALSE /\ wanted = FALSE
    BY <2>1 DEF Init
  <2>5. QED
    BY <2>3, <2>4 DEF TypeOK, Links
<1>2. TypeOK /\ [Next]_vars => TypeOK'
  BY TypeStep
<1>3. QED
  BY <1>1, <1>2, PTL DEF Spec
=============================================================================
