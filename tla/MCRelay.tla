------------------------------ MODULE MCRelay ------------------------------
(* Instances of the relay for TLC: see MCRelay.cfg and MCRelayShutdown.cfg. *)
EXTENDS Relay
=============================================================================
