---------------------------- MODULE MCAgentNode ----------------------------
(* TLC instances of AgentNode: one address under attack, a short clock, and *)
(* ttl values around the default and IpsetMax.                              *)
EXTENDS AgentNode

CONSTANT a

\* Without ttl field (the default applies), and longer than the default.
MCEventTtls == {0, 2}
MCOneTtl == {0}
=============================================================================
