------------------------------ MODULE MCGameApp ------------------------------
(* The hall instance driven by the application shell, and a second         *)
(* instance that any thread may start and stop.                            *)
EXTENDS GameApp

CONSTANTS hall, sv2

MCSvcs == {hall, sv2}
=============================================================================
