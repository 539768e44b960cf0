-------------------------- MODULE MCPeerDiscovery --------------------------
EXTENDS PeerDiscovery

CONSTANTS n1, n2

(* Ids of at most 31 characters survive the advert unchanged. *)
ShortIds == [n \in Nodes |-> n]
=============================================================================
