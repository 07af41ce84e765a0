-------------------------- MODULE MCRegistryClient --------------------------
(* Peers hall_1 and hall_10 (type "hall", ids "1" and "10"), attributes "grpc" and   *)
(* "version": the smallest names of which one is a byte prefix of another. *)
EXTENDS RegistryClient

CONSTANT NoAddrV

MCTypes == {104}                 \* "hall"
MCIds == {<<49>>, <<49, 48>>}    \* "1", "10"
MCAttrs == {103, 118}            \* "grpc", "version"
=============================================================================
