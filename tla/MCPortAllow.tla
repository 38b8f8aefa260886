---------------------------- MODULE MCPortAllow ----------------------------
(* TLC instance of PortAllow: two keys, the agent and one API request.      *)
EXTENDS PortAllow, TLC

CONSTANTS k, l

MCTargets == {"*", "here", "other"}
Symmetry == Permutations({k, l})
=============================================================================
