------------------------- MODULE MCSessionForwarder -------------------------
(* Instantiates SessionForwarder for TLC: two halls, so a failover has     *)
(* somewhere to go, and frames enough to queue behind a failed one.        *)
EXTENDS SessionForwarder, TLC

CONSTANTS h1, h2

MCHalls == {h1, h2}
=============================================================================
