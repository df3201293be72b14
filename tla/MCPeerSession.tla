---------------------------- MODULE MCPeerSession ----------------------------
(* Instances of PeerSession for TLC: three connections compete for two client *)
(* indices.                                                                   *)
EXTENDS PeerSession
=============================================================================
