------------------------------ MODULE MCPeerIps ------------------------------
(* TLC instance of PeerIps: two nodes, one address that both may be given.   *)
EXTENDS PeerIps, TLC

CONSTANTS a, b, x, y, z

MCHome == (a :> {x, y}) @@ (b :> {y, z})
=============================================================================
