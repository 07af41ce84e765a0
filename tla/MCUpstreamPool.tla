--------------------------- MODULE MCUpstreamPool ---------------------------
(* Instantiates UpstreamPool for TLC: two halls, two addresses, two build  *)
(* times, so a hall can come back elsewhere or newer and an agent can be   *)
(* replaced after a delete.                                                *)
EXTENDS UpstreamPool, TLC

CONSTANTS h1, h2, ad1, ad2

MCIds == {h1, h2}
MCAddrs == {ad1, ad2}

Symm == Permutations(MCIds)
=============================================================================
