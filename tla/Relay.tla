------------------------------- MODULE Relay -------------------------------
(***************************************************************************)
(* The two byte streams of a connection in STATE_FORWARDING                *)
(* (states/state_forward.c), byte by byte: the sockets of the two legs,    *)
(* the buffer of each direction, and the one interest per leg that both    *)
(* directions share.  Proxy.tla has the same two handlers with a buffer    *)
(* reduced to "something is pending"; here are the contents, the room and  *)
(* the peers.                                                              *)
(*                                                                         *)
(* A buffer is the one of Buffer.tla seen through its pending bytes and    *)
(* the number of bytes before them that are used up: state_forward.c never *)
(* calls buffer_compact, so room comes back only when a buffer is emptied. *)
(*                                                                         *)
(* The bytes of a peer are numbered in the order it sends them, so that a  *)
(* lost, doubled or displaced byte shows.                                  *)
(***************************************************************************)
EXTENDS Naturals, Sequences

CONSTANTS
    Total,      \* bound: bytes each peer sends in its life
    Window,     \* bytes a socket queues in each direction
    BufferSize  \* BUFFER_SIZE of socks5_handler.h

ASSUME RelayAssumption ==
    /\ Total \in Nat
    /\ Window \in Nat \ {0}
    /\ BufferSize \in Nat \ {0}

Leg      == { "client", "origin" }
Byte     == 1 .. Total
Interest == { "noop", "read", "write" }

\* other_fd of the handlers.
Other(l) == IF l = "client" THEN "origin" ELSE "client"

VARIABLES
    inq,        \* inq[l]: received by the socket of l, not read by the proxy
    outq,       \* outq[l]: accepted by the socket of l, not read by the peer
    buf,        \* buf[l]: the buffer towards l: write_buffer for the client,
                \* origin_write_buffer for the origin
    interest,   \* the interest of each leg in the selector
    ready,      \* what pselect reported and handle_iteration has not visited
    first,      \* the leg with the lower descriptor, which is visited first
    state,      \* forwarding, or how it ended
    sent,       \* number of bytes each peer has sent
    fin,        \* the peer has shut down its direction
    broken      \* the peer has reset the connection

peers == << sent, fin, broken >>
vars  == << inq, outq, buf, interest, ready, first, state, sent, fin, broken >>

Least(m, n) == IF m < n THEN m ELSE n

NothingReady == [l \in Leg |-> "noop"]

Empty == [ used |-> 0, bytes |-> << >> ]

-----------------------------------------------------------------------------
(***************************************************************************)
(* buffer.c, and the system calls on the sockets.                          *)
(***************************************************************************)
\* (faulty variant for the mutation tests: the used part counts as room)
RoomWithUsed(b) == BufferSize - Len(b.bytes)

\* The n of buffer_write_ptr; buffer_can_write is Room(b) > 0.
Room(b) == BufferSize - b.used - Len(b.bytes)

\* buffer_can_read
CanRead(b) == b.bytes # << >>

\* (faulty variant for the mutation tests: an emptied buffer is not compacted)
ReadAdvKeepsUsed(b, n) ==
    [ used |-> b.used + n, bytes |-> SubSeq(b.bytes, n + 1, Len(b.bytes)) ]

\* buffer_read_adv: an emptied buffer starts over.
ReadAdv(b, n) ==
    IF n = Len(b.bytes)
      THEN Empty
      ELSE [ used |-> b.used + n, bytes |-> SubSeq(b.bytes, n + 1, Len(b.bytes)) ]

\* buffer_write_adv after s was received behind the pending bytes.
WriteAdv(b, s) == [ used |-> b.used, bytes |-> b.bytes \o s ]

\* What pselect finds: data, end of file or an error for a reader; room or an
\* error for a writer.
IsReady(l) ==
    \/ interest[l] = "read"  /\ (inq[l] # << >> \/ fin[l] \/ broken[l])
    \/ interest[l] = "write" /\ (Len(outq[l]) < Window \/ broken[l])

\* How many of the bytes of b the socket of l accepts; 0 is EAGAIN.
Accepts(l, b) == Least(Len(b.bytes), Window - Len(outq[l]))

\* forward_send: what remains of b, the buffer towards l, and the bytes sent.
Remaining(l, b) == ReadAdv(b, Accepts(l, b))

\* (faulty variant for the mutation tests: the bytes sent are not the oldest)
SentNewest(l, b) == SubSeq(b.bytes, Len(b.bytes) - Accepts(l, b) + 1, Len(b.bytes))

SentOf(l, b) == SubSeq(b.bytes, 1, Accepts(l, b))

-----------------------------------------------------------------------------
Init ==
    /\ inq      = [l \in Leg |-> << >>]
    /\ outq     = [l \in Leg |-> << >>]
    /\ buf      = [l \in Leg |-> Empty]
    /\ interest = [l \in Leg |-> "read"]    \* request_write
    /\ ready    = NothingReady
    /\ first    \in Leg
    /\ state    = "forwarding"
    /\ sent     = [l \in Leg |-> 0]
    /\ fin      = [l \in Leg |-> FALSE]
    /\ broken   = [l \in Leg |-> FALSE]

\* The handler returned STATE_DONE or STATE_ERROR and finish closes both legs,
\* or the process died of SIGPIPE.  What the buffers and the receive queues
\* hold is lost.  Closing a socket with unread data, or one that the peer has
\* reset, also loses what its kernel has not transmitted.
End(how) ==
    /\ state' = how
    /\ ready' = NothingReady
    /\ \E kept \in [Leg -> 0 .. Window] :
          /\ \A l \in Leg :
                /\ kept[l] <= Len(outq[l])
                /\ inq[l] = << >> /\ ~broken[l] => kept[l] = Len(outq[l])
                /\ broken[l] => kept[l] = 0
          /\ outq' = [l \in Leg |-> SubSeq(outq[l], 1, kept[l])]
    /\ UNCHANGED << inq, buf, interest, first, peers >>

\* send() to a peer that has reset the connection.
SendFails == End("error") \/ End("killed")

\* The handler of l is done, and it stays in STATE_FORWARDING: l is visited,
\* and so is the leg before it.
Visited(l) ==
    ready' = IF l = first THEN [ready EXCEPT ![l] = "noop"] ELSE NothingReady

Stay(l) ==
    /\ Visited(l)
    /\ UNCHANGED << first, state, peers >>

\* handle_iteration calls a handler for l: it was reported and is still of
\* interest, and the leg with the lower descriptor has been visited.
Visit(l, ev) ==
    /\ state = "forwarding"
    /\ ready[l] = ev
    /\ interest[l] = ev
    /\ l = first \/ ready[first] = "noop"

\* pselect returns; if nothing is ready it does so after its timeout.
Poll ==
    /\ state = "forwarding"
    /\ ready = NothingReady
    /\ ready' = [l \in Leg |-> IF IsReady(l) THEN interest[l] ELSE "noop"]
    /\ UNCHANGED << inq, outq, buf, interest, first, state, peers >>

\* handle_iteration passes over a leg whose interest has changed since.
Stale(l) ==
    /\ state = "forwarding"
    /\ ready[l] # "noop"
    /\ ready[l] # interest[l]
    /\ l = first \/ ready[first] = "noop"
    /\ Visited(l)
    /\ UNCHANGED << inq, outq, buf, interest, first, state, peers >>

-----------------------------------------------------------------------------
(***************************************************************************)
(* forward_read on leg l, whose bytes go to the buffer towards Other(l).   *)
(***************************************************************************)
\* (faulty variant for the mutation tests: buffer_can_write is not asked, and
\* recv() of no bytes returns 0)
ReadFullIsEof(l) ==
    /\ Visit(l, "read")
    /\ Room(buf[Other(l)]) = 0
    /\ End("done")

\* The buffer has no room: l is parked until the other leg has drained it.
ReadFull(l) ==
    /\ Visit(l, "read")
    /\ Room(buf[Other(l)]) = 0
    /\ interest' = [interest EXCEPT ![l] = "noop", ![Other(l)] = "write"]
    /\ Stay(l)
    /\ UNCHANGED << inq, outq, buf >>

\* recv() = 0: the connection is over, in both directions.
ReadEof(l) ==
    /\ Visit(l, "read")
    /\ Room(buf[Other(l)]) > 0
    /\ inq[l] = << >>
    /\ fin[l]
    /\ ~broken[l]
    /\ End("done")

\* recv() < 0, which is not EAGAIN on a descriptor that was reported.
ReadError(l) ==
    /\ Visit(l, "read")
    /\ Room(buf[Other(l)]) > 0
    /\ inq[l] = << >>
    /\ broken[l]
    /\ End("error")

\* (faulty variant for the mutation tests: after a partial send the other leg
\* keeps waiting for input)
ReadBytesNoWriter(l) ==
    LET o == Other(l)
        n == Least(Room(buf[o]), Len(inq[l]))
        b == WriteAdv(buf[o], SubSeq(inq[l], 1, n))
    IN  /\ Visit(l, "read")
        /\ n > 0
        /\ ~broken[o]
        /\ inq'  = [inq EXCEPT ![l] = SubSeq(@, n + 1, Len(@))]
        /\ buf'  = [buf EXCEPT ![o] = Remaining(o, b)]
        /\ outq' = [outq EXCEPT ![o] = @ \o SentOf(o, b)]
        /\ interest' = [interest EXCEPT ![l] = "read", ![o] = "read"]
        /\ Stay(l)

\* Bytes are received and sent on at once, as many as the other leg takes.
ReadBytes(l) ==
    LET o == Other(l)
        n == Least(Room(buf[o]), Len(inq[l]))
        b == WriteAdv(buf[o], SubSeq(inq[l], 1, n))
    IN  /\ Visit(l, "read")
        /\ n > 0
        /\ ~broken[o]
        /\ inq'  = [inq EXCEPT ![l] = SubSeq(@, n + 1, Len(@))]
        /\ buf'  = [buf EXCEPT ![o] = Remaining(o, b)]
        /\ outq' = [outq EXCEPT ![o] = @ \o SentOf(o, b)]
        /\ interest' = [interest EXCEPT
                          ![l] = "read",
                          ![o] = IF CanRead(Remaining(o, b)) THEN "write" ELSE "read"]
        /\ Stay(l)

\* Bytes are received, but the other peer is gone.
ReadSendFails(l) ==
    /\ Visit(l, "read")
    /\ Room(buf[Other(l)]) > 0
    /\ inq[l] # << >>
    /\ broken[Other(l)]
    /\ SendFails

-----------------------------------------------------------------------------
(***************************************************************************)
(* forward_write on leg l, which drains the buffer towards l.              *)
(***************************************************************************)
\* Bytes are sent, and both legs get the interest that their buffers call for.
\* Without a byte to send, both are read; nothing changes if the socket has
\* filled up since pselect returned (EAGAIN).
WriteBytes(l) ==
    LET o == Other(l)
        b == Remaining(l, buf[l])
        interestFor(c) == IF CanRead(c) THEN "write" ELSE "read"
    IN  /\ Visit(l, "write")
        /\ CanRead(buf[l]) => ~broken[l]
        /\ buf'  = [buf EXCEPT ![l] = b]
        /\ outq' = [outq EXCEPT ![l] = @ \o SentOf(l, buf[l])]
        /\ interest' =
              IF ~CanRead(buf[l]) THEN [k \in Leg |-> "read"]
              ELSE IF Accepts(l, buf[l]) = 0 THEN interest
              ELSE [k \in Leg |-> IF k = l THEN interestFor(b)
                                           ELSE interestFor(buf[o])]
        /\ Stay(l)
        /\ UNCHANGED inq

\* There are bytes to send, but the peer is gone.
WriteFails(l) ==
    /\ Visit(l, "write")
    /\ CanRead(buf[l])
    /\ broken[l]
    /\ SendFails

-----------------------------------------------------------------------------
(***************************************************************************)
(* The peers and the network.                                              *)
(***************************************************************************)
PeerSend(l) ==
    /\ state = "forwarding"
    /\ sent[l] < Total
    /\ ~fin[l]
    /\ ~broken[l]
    /\ Len(inq[l]) < Window
    /\ sent' = [sent EXCEPT ![l] = @ + 1]
    /\ inq'  = [inq EXCEPT ![l] = Append(@, sent[l] + 1)]
    /\ UNCHANGED << outq, buf, interest, ready, first, state, fin, broken >>

PeerRead(l) ==
    /\ outq[l] # << >>
    /\ ~broken[l]
    /\ outq' = [outq EXCEPT ![l] = Tail(@)]
    /\ UNCHANGED << inq, buf, interest, ready, first, state, peers >>

\* The peer has no more to send; it still reads.
PeerShutdown(l) ==
    /\ state = "forwarding"
    /\ ~fin[l]
    /\ ~broken[l]
    /\ fin' = [fin EXCEPT ![l] = TRUE]
    /\ UNCHANGED << inq, outq, buf, interest, ready, first, state, sent, broken >>

\* The peer resets the connection; what has arrived from it can still be read.
PeerReset(l) ==
    /\ state = "forwarding"
    /\ ~broken[l]
    /\ broken' = [broken EXCEPT ![l] = TRUE]
    /\ UNCHANGED << inq, outq, buf, interest, ready, first, state, sent, fin >>

\* The connection is gone, and the peers have read what there was.
Over ==
    /\ state # "forwarding"
    /\ \A l \in Leg : outq[l] = << >>
    /\ UNCHANGED vars

-----------------------------------------------------------------------------
Read(l)  == ReadFull(l) \/ ReadEof(l) \/ ReadError(l) \/ ReadBytes(l) \/ ReadSendFails(l)
Write(l) == WriteBytes(l) \/ WriteFails(l)

Loop == Poll \/ \E l \in Leg : Stale(l) \/ Read(l) \/ Write(l)

Next ==
    \/ Loop
    \/ \E l \in Leg : PeerSend(l) \/ PeerRead(l) \/ PeerShutdown(l) \/ PeerReset(l)
    \/ Over

Spec == Init /\ [][Next]_vars

(***************************************************************************)
(* Fairness: pselect returns and handlers do not block; a peer goes on     *)
(* reading until it is done or resets the connection.  Peers need not send *)
(* and need not close.                                                     *)
(***************************************************************************)
Fairness ==
    /\ WF_vars(Loop)
    /\ \A l \in Leg : WF_vars(PeerRead(l))

FairSpec == Spec /\ Fairness

-----------------------------------------------------------------------------
(***************************************************************************)
(* Properties.                                                             *)
(***************************************************************************)
\* Types, the capacity of the buffers and the size of the sockets' queues.
TypeOK ==
    /\ inq \in [Leg -> Seq(Byte)]
    /\ outq \in [Leg -> Seq(Byte)]
    /\ buf \in [Leg -> [ used : 0 .. BufferSize, bytes : Seq(Byte) ]]
    /\ \A l \in Leg :
          /\ Len(inq[l]) <= Window
          /\ Len(outq[l]) <= Window
          /\ buf[l].used + Len(buf[l].bytes) <= BufferSize
    /\ interest \in [Leg -> Interest]
    /\ ready \in [Leg -> Interest]
    /\ first \in Leg
    /\ state \in { "forwarding", "done", "error", "killed" }
    /\ sent \in [Leg -> 0 .. Total]
    /\ fin \in [Leg -> BOOLEAN]
    /\ broken \in [Leg -> BOOLEAN]

(***************************************************************************)
(* Both directions share the interest of a leg, and still each is served:  *)
(* a leg waits to write exactly while its buffer has bytes, and a parked   *)
(* leg waits for the other one to drain a buffer that has no room left.    *)
(***************************************************************************)
InterestsServeBuffers ==
    state = "forwarding" =>
        \A l \in Leg :
            /\ interest[l] = "write" <=> CanRead(buf[l])
            /\ interest[l] = "noop" =>
                  /\ interest[Other(l)] = "write"
                  /\ Room(buf[Other(l)]) = 0

(***************************************************************************)
(* The relay never ends by itself: one of the peers has shut down or reset *)
(* its connection.                                                         *)
(***************************************************************************)
EndsOnlyByPeer ==
    state # "forwarding" => \E l \in Leg : fin[l] \/ broken[l]

\* What is under way to the peer of l.
Transit(l) ==
    IF state = "forwarding" THEN outq[l] \o buf[l].bytes \o inq[Other(l)]
                            ELSE outq[l]

ToClient == INSTANCE Channel WITH q <- Transit("client"), open <- state = "forwarding"
ToOrigin == INSTANCE Channel WITH q <- Transit("origin"), open <- state = "forwarding"

(***************************************************************************)
(* Each direction is a reliable stream over both sockets and the buffer:   *)
(* partial reads and sends, full buffers and the interplay of the two      *)
(* directions never lose, double or reorder a byte, and the end of the     *)
(* connection loses the newest only.                                       *)
(***************************************************************************)
StreamsAreChannels == ToClient!Spec /\ ToOrigin!Spec

(***************************************************************************)
(* If the peers read, every byte arrives or the connection ends: back      *)
(* pressure in one direction, or in both, stops neither for ever.          *)
(***************************************************************************)
BytesArrive == ToClient!Delivers /\ ToOrigin!Delivers
=============================================================================
