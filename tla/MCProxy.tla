------------------------------ MODULE MCProxy ------------------------------
(* Instances of the proxy for TLC: see the configurations MCProxy*.cfg.     *)
EXTENDS Proxy, TLC

\* Blocks of the heap are interchangeable, and so are threads.
Symmetry == Permutations(Conns) \cup Permutations(Threads)
=============================================================================
