---------------------------- MODULE BoundedFifo ----------------------------
(***************************************************************************)
(* What a byte buffer promises its users: a queue of at most Capacity      *)
(* bytes.  What is put in comes out in the same order, nothing is lost     *)
(* except by Clear, and nothing that was not put in ever comes out.        *)
(* Buffer.tla, the model of utils/buffer.c, implements this specification. *)
(***************************************************************************)
EXTENDS Naturals, Sequences

CONSTANTS Capacity, Byte

VARIABLE q

TypeOK == q \in Seq(Byte) /\ Len(q) <= Capacity

Init == q = << >>

\* The producer appends s, which has to fit.
Put(s) ==
    /\ Len(q) + Len(s) <= Capacity
    /\ q' = q \o s

\* The consumer takes the n oldest bytes.
Get(n) ==
    /\ n <= Len(q)
    /\ q' = SubSeq(q, n + 1, Len(q))

\* Everything pending is dropped.
Clear == q' = << >>

Next ==
    \/ \E k \in 1 .. Capacity : \E s \in [1 .. k -> Byte] : Put(s)
    \/ \E n \in 0 .. Capacity : Get(n)
    \/ Clear

Spec == Init /\ [][Next]_q
=============================================================================
