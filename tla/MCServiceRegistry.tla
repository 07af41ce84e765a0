-------------------------- MODULE MCServiceRegistry --------------------------
(* Instantiates ServiceRegistry for TLC: two peers competing for one or    *)
(* two service names.                                                      *)
EXTENDS ServiceRegistry, TLC

CONSTANTS p1, p2, s1, s2

MCPeers == {p1, p2}

Symm == Permutations(MCPeers)
=============================================================================
