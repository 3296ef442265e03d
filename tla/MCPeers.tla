------------------------------ MODULE MCPeers -------------------------------
(* Constants of the run of Peers.  A node's first life is an older build.    *)
EXTENDS Peers

CONSTANTS a, b

OneNode == {a}
TwoNodes == {a, b}
Events == [node : Nodes, kind : Kinds]
UpgradedOnce == [p \in Nodes |-> [i \in 1..Lives |-> i = 1]]
=============================================================================
