-------------------------- MODULE MCHostReplication --------------------------
(* Instances of HostReplication for TLC.                                      *)
EXTENDS HostReplication, TLC

\* One index sends inputs, the other one finishes loading scenes.
OneEach == (0 :> {"Input"} @@ 1 :> {"SceneLoaded"})
Both == [i \in Indices |-> Packets]
=============================================================================
