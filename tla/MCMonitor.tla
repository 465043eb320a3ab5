----------------------------- MODULE MCMonitor -----------------------------
(* An instance of the monitor session for TLC: see MCMonitor.cfg. *)
EXTENDS Monitor
=============================================================================
