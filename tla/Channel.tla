------------------------------ MODULE Channel ------------------------------
(***************************************************************************)
(* What one direction of a relayed connection promises the two peers: a    *)
(* reliable stream that can be cut.  Bytes come out in the order they went *)
(* in.  A cut loses the newest bytes only, so that the receiver always has *)
(* a prefix of what was sent, and after a cut nothing goes in any more.    *)
(* Relay.tla implements this specification once per direction.             *)
(***************************************************************************)
EXTENDS Naturals, Sequences

CONSTANT Byte

VARIABLES
    q,      \* the bytes that are under way, the oldest first
    open    \* the sender is still connected to the receiver

vars == << q, open >>

TypeOK == q \in Seq(Byte) /\ open \in BOOLEAN

Init == q = << >> /\ open = TRUE

Put(b) ==
    /\ open
    /\ q' = Append(q, b)
    /\ UNCHANGED open

Get ==
    /\ q # << >>
    /\ q' = Tail(q)
    /\ UNCHANGED open

Cut ==
    /\ open
    /\ \E n \in 0 .. Len(q) : q' = SubSeq(q, 1, n)
    /\ open' = FALSE

Next == Get \/ Cut \/ \E b \in Byte : Put(b)

Spec == Init /\ [][Next]_vars

\* No byte stays under way for ever, if each value is put in at most once.
Delivers == \A b \in Byte : []<> ~(\E i \in 1 .. Len(q) : q[i] = b)
=============================================================================
