------------------------------- MODULE Roster -------------------------------
(***************************************************************************)
(* What the host promises about network IDs, whatever the transport does:  *)
(* a session hands out IDs in increasing order and never twice, a player   *)
(* keeps its ID until it leaves, and players join and leave one at a time. *)
(***************************************************************************)
EXTENDS Naturals

VARIABLES
  open,     \* a session is running
  members,  \* the IDs of the remote players
  next      \* the next ID to hand out

HostID == 1
FirstID == 2

Init == open = FALSE /\ members = {} /\ next = FirstID

Open ==
  /\ ~open
  /\ open' = TRUE /\ members' = {} /\ next' = FirstID

Join ==
  /\ open
  /\ members' = members \cup {next}
  /\ next' = next + 1
  /\ UNCHANGED open

Leave ==
  /\ open
  /\ \E id \in members : members' = members \ {id}
  /\ UNCHANGED <<open, next>>

Close ==
  /\ open
  /\ open' = FALSE /\ members' = {} /\ next' = FirstID

Next == Open \/ Join \/ Leave \/ Close

Spec == Init /\ [][Next]_<<open, members, next>>
=============================================================================
