--------------------------- MODULE MCClientReplica ---------------------------
(* Instances of ClientReplica for TLC: the client has ID 2.                   *)
EXTENDS ClientReplica

TheClient == 2
OneOther == {3}
=============================================================================
