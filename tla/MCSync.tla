------------------------------- MODULE MCSync -------------------------------
(***************************************************************************)
(* Instances of Sync: two working replicas and the relay that both have as *)
(* a peer.                                                                 *)
(***************************************************************************)
EXTENDS Sync

CONSTANTS a, b, relay

MCReplica  == {a, b, relay}
MCPeers    == {<<a, relay>>, <<b, relay>>}
=============================================================================
