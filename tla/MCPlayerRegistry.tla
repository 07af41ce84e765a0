-------------------------- MODULE MCPlayerRegistry --------------------------
(* Instantiates PlayerRegistry for TLC: two peers of one type, one or two  *)
(* users, and revisions enough for lock, unlock and a re-lock elsewhere.   *)
EXTENDS PlayerRegistry, TLC

CONSTANTS p1, p2, u1, u2

MCPeers == {p1, p2}
MCTypes == {"hall"}
MCPeerType == [p \in MCPeers |-> "hall"]

\* Two application types sharing the global /user/<uid> key.
MCTwoTypes == {"hall", "world"}
MCPeerTwoTypes == [p \in MCPeers |-> IF p = p1 THEN "hall" ELSE "world"]

Symm == Permutations(MCPeers)
=============================================================================
