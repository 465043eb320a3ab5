---------------------------- MODULE MCHandshake ----------------------------
(* An instance of the negotiation for TLC: see MCHandshake.cfg.             *)
EXTENDS Handshake

\* Bytes have 8 values; 5 is the version, 1 and 2 are letters.
MCAccounts == { << <<1>>, <<2>> >>, << <<1, 2>>, <<3, 1>> >> }

P(methods, name, pass, cmd, atyp, addr, port) ==
    { [ methods |-> methods, name |-> name, pass |-> pass, cmd |-> cmd,
        atyp |-> atyp, addr |-> addr, port |-> port, hasty |-> h ] :
      h \in BOOLEAN }

\* Anonymous, with each kind of request; a method nobody knows; a greeting of
\* as many bytes as a byte can count; a good login and two bad ones, and a name
\* with a byte 0 in it; an address that is too long for its type.
MCPlans ==
    P(<<0>>, <<1>>, <<2>>, 1, 1, <<1, 2, 3, 4>>, 11)
    \cup P(<<0>>, <<1>>, <<2>>, 1, 1, <<5, 1, 0, 1>>, 9)
    \cup P(<<0, 1>>, <<1>>, <<2>>, 1, 4, [i \in 1 .. 16 |-> i % 8], 62)
    \cup P(<<0>>, <<1>>, <<2>>, 2, 1, <<1, 2, 3, 4>>, 11)
    \cup P(<<0>>, <<1>>, <<2>>, 1, 6, <<1, 2>>, 11)
    \cup P(<<1>>, <<1>>, <<2>>, 1, 1, <<1, 2, 3, 4>>, 11)
    \cup P(<<0, 1, 3, 4, 6, 7>>, <<1>>, <<2>>, 1, 1, <<1, 2, 3, 4>>, 11)
    \cup P(<<0, 2>>, <<1, 2>>, <<3, 1>>, 1, 3, <<1, 2, 3>>, 11)
    \cup P(<<2>>, <<1>>, <<2, 1>>, 1, 1, <<1, 2, 3, 4>>, 11)
    \cup P(<<2>>, <<3>>, <<>>, 1, 3, <<1, 2>>, 11)
    \cup P(<<2>>, <<1, 0, 3>>, <<2>>, 1, 1, <<1, 2, 3, 4>>, 11)
    \cup P(<<0>>, <<1>>, <<2>>, 1, 1, <<1, 2, 3, 4, 6>>, 11)
=============================================================================
