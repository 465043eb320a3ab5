----------------------------- MODULE MCSelector -----------------------------
(* An instance of the selector's table for TLC: see MCSelector.cfg.         *)
EXTENDS Selector, TLC

CONSTANTS t1
=============================================================================
