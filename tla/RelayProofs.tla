---------------------------- MODULE RelayProofs ----------------------------
(* Proofs about Relay.tla, for every value of its constants.               *)
EXTENDS Relay, SequenceTheorems, TLAPS

-----------------------------------------------------------------------------
(***************************************************************************)
(* The operators on buffers and sockets.                                   *)
(***************************************************************************)
\* A pending buffer within its capacity, which starts over when it is empty.
Buffer ==
    { b \in [ used : 0 .. BufferSize, bytes : Seq(Byte) ] :
        /\ b.used + Len(b.bytes) <= BufferSize
        /\ b.bytes = << >> => b.used = 0 }

\* A socket's queue.
Queue == { s \in Seq(Byte) : Len(s) <= Window }

\* The room of a buffer is never negative.
LEMMA RoomType ==
    ASSUME NEW b \in Buffer
    PROVE  Room(b) \in Nat
  BY RelayAssumption DEF Buffer, Room

\* A part of a sequence is a sequence of the same elements, and its length is
\* that of the part.
LEMMA PartType ==
    ASSUME NEW S, NEW s \in Seq(S), NEW m \in 1 .. Len(s) + 1, NEW n \in 0 .. Len(s),
           m <= n + 1
    PROVE  SubSeq(s, m, n) \in Seq(S) /\ Len(SubSeq(s, m, n)) = n - m + 1
  BY SubSeqProperties, SMT

\* buffer_read_adv keeps a buffer a buffer.
LEMMA ReadAdvType ==
    ASSUME NEW b \in Buffer, NEW n \in 0 .. Len(b.bytes)
    PROVE  ReadAdv(b, n) \in Buffer
<1>. USE RelayAssumption
<1>1. CASE n = Len(b.bytes)
  BY <1>1 DEF ReadAdv, Buffer, Empty
<1>2. CASE n # Len(b.bytes)
  <2>. DEFINE r == SubSeq(b.bytes, n + 1, Len(b.bytes))
  <2>1. b.bytes \in Seq(Byte) /\ Len(b.bytes) \in Nat /\ b.used \in 0 .. BufferSize
    BY DEF Buffer
  <2>2. r \in Seq(Byte) /\ Len(r) = Len(b.bytes) - n
    BY <2>1, <1>2, PartType
  <2>. HIDE DEF r
  <2>3. r # << >>
    BY <2>1, <2>2, <1>2
  <2>4. b.used + n + Len(r) <= BufferSize
    BY <2>1, <2>2 DEF Buffer
  <2>5. ReadAdv(b, n) = [ used |-> b.used + n, bytes |-> r ]
    BY <1>2 DEF ReadAdv, r
  <2>6. b.used + n \in 0 .. BufferSize
    BY <2>1, <2>2, <2>4
  <2>. QED
    BY <2>2, <2>3, <2>4, <2>5, <2>6 DEF Buffer
<1>. QED
  BY <1>1, <1>2

\* A sequence is what comes first followed by the rest.
LEMMA Split ==
    ASSUME NEW S, NEW s \in Seq(S), NEW n \in 0 .. Len(s)
    PROVE  /\ SubSeq(s, 1, n) \in Seq(S) /\ Len(SubSeq(s, 1, n)) = n
           /\ SubSeq(s, n + 1, Len(s)) \in Seq(S)
           /\ Len(SubSeq(s, n + 1, Len(s))) = Len(s) - n
           /\ SubSeq(s, 1, n) \o SubSeq(s, n + 1, Len(s)) = s
<1>1. Len(s) \in Nat
  OBVIOUS
<1>2. /\ SubSeq(s, 1, n) \in Seq(S) /\ Len(SubSeq(s, 1, n)) = n
      /\ SubSeq(s, n + 1, Len(s)) \in Seq(S)
      /\ Len(SubSeq(s, n + 1, Len(s))) = Len(s) - n
  BY <1>1, PartType
<1>3. SubSeq(s, 1, n) \o SubSeq(s, n + 1, Len(s)) = SubSeq(s, 1, Len(s))
  <2>1. 1 \in 1 .. Len(s) + 1 /\ n \in 1 - 1 .. Len(s) /\ Len(s) \in n .. Len(s)
    BY <1>1
  <2>. QED
    BY <2>1, ConcatAdjacentSubSeq
<1>4. SubSeq(s, 1, Len(s)) = s
  BY SubSeqFull
<1>. QED
  BY <1>2, <1>3, <1>4

\* buffer_write_adv keeps a buffer a buffer, and appends.
LEMMA WriteAdvType ==
    ASSUME NEW b \in Buffer, NEW s \in Seq(Byte), Len(s) \in 1 .. Room(b)
    PROVE  WriteAdv(b, s) \in Buffer /\ WriteAdv(b, s).bytes = b.bytes \o s
<1>. USE RelayAssumption
<1>1. b.bytes \in Seq(Byte) /\ Len(b.bytes) \in Nat /\ b.used \in 0 .. BufferSize
  BY DEF Buffer
<1>2. b.bytes \o s \in Seq(Byte) /\ Len(b.bytes \o s) = Len(b.bytes) + Len(s)
  BY <1>1, ConcatProperties
<1>3. WriteAdv(b, s) = [ used |-> b.used, bytes |-> b.bytes \o s ]
  BY DEF WriteAdv
<1>4. b.used + Len(b.bytes \o s) <= BufferSize /\ b.bytes \o s # << >>
  BY <1>1, <1>2 DEF Room
<1>. QED
  BY <1>1, <1>2, <1>3, <1>4 DEF Buffer

\* forward_send: what is accepted fits in the socket, it is the oldest part of
\* the buffer, and the rest is a buffer.
LEMMA SendType ==
    ASSUME NEW l \in Leg, NEW b \in Buffer, outq \in [Leg -> Queue]
    PROVE  /\ Accepts(l, b) \in 0 .. Len(b.bytes)
           /\ Remaining(l, b) \in Buffer
           /\ SentOf(l, b) \in Seq(Byte)
           /\ SentOf(l, b) \o Remaining(l, b).bytes = b.bytes
           /\ outq[l] \o SentOf(l, b) \in Queue
<1>. USE RelayAssumption
<1>. DEFINE n == Accepts(l, b)
<1>1. /\ b.bytes \in Seq(Byte) /\ Len(b.bytes) \in Nat
      /\ outq[l] \in Seq(Byte) /\ Len(outq[l]) \in 0 .. Window
  BY DEF Buffer, Queue
<1>2. n \in 0 .. Len(b.bytes) /\ Len(outq[l]) + n <= Window
  BY <1>1 DEF Accepts, Least
<1>. HIDE DEF n
<1>3. Remaining(l, b) \in Buffer
  BY <1>2, ReadAdvType DEF Remaining, n
<1>4. /\ SentOf(l, b) \in Seq(Byte) /\ Len(SentOf(l, b)) = n
      /\ SentOf(l, b) \o SubSeq(b.bytes, n + 1, Len(b.bytes)) = b.bytes
  BY <1>1, <1>2, Split DEF SentOf, n
<1>5. Remaining(l, b).bytes = SubSeq(b.bytes, n + 1, Len(b.bytes))
  <2>1. CASE n = Len(b.bytes)
    <3>1. SubSeq(b.bytes, n + 1, Len(b.bytes)) = << >>
      BY <1>1, <1>2, <2>1, SubSeqEmpty
    <3>. QED
      BY <2>1, <3>1 DEF Remaining, ReadAdv, Empty, n
  <2>2. CASE n # Len(b.bytes)
    BY <2>2 DEF Remaining, ReadAdv, n
  <2>. QED
    BY <2>1, <2>2
<1>6. outq[l] \o SentOf(l, b) \in Queue
  BY <1>1, <1>2, <1>4, ConcatProperties DEF Queue
<1>. QED
  BY <1>2, <1>3, <1>4, <1>5, <1>6 DEF n

-----------------------------------------------------------------------------
(***************************************************************************)
(* The inductive invariant.                                                *)
(***************************************************************************)
RelayTypes ==
    /\ inq \in [Leg -> Queue]
    /\ outq \in [Leg -> Queue]
    /\ buf \in [Leg -> Buffer]
    /\ interest \in [Leg -> Interest]
    /\ ready \in [Leg -> Interest]
    /\ first \in Leg
    /\ state \in { "forwarding", "done", "error", "killed" }
    /\ sent \in [Leg -> 0 .. Total]
    /\ fin \in [Leg -> BOOLEAN]
    /\ broken \in [Leg -> BOOLEAN]

RelayInv == RelayTypes /\ InterestsServeBuffers /\ EndsOnlyByPeer

LEMMA TwoLegs ==
    \A l \in Leg : /\ Other(l) \in Leg /\ Other(l) # l /\ Other(Other(l)) = l
                   /\ \A k \in Leg : k = l \/ k = Other(l)
  BY DEF Leg, Other

LEMMA RelayTypesImplyTypeOK == RelayTypes => TypeOK
  BY DEF RelayTypes, TypeOK, Queue, Buffer

LEMMA RelayInvInit == Init => RelayInv
<1>. SUFFICES ASSUME Init PROVE RelayInv
  OBVIOUS
<1>. USE RelayAssumption
<1>1. << >> \in Queue /\ Empty \in Buffer /\ ~CanRead(Empty)
  BY DEF Queue, Buffer, Empty, CanRead
<1>2. RelayTypes
  BY <1>1 DEF Init, RelayTypes, NothingReady, Interest
<1>3. InterestsServeBuffers
  BY <1>1 DEF Init, InterestsServeBuffers
<1>4. EndsOnlyByPeer
  BY DEF Init, EndsOnlyByPeer
<1>. QED
  BY <1>2, <1>3, <1>4 DEF RelayInv

\* The connection ends: the invariant then only asks who ended it.
LEMMA EndStep ==
    ASSUME RelayInv, NEW how \in { "done", "error", "killed" }, End(how),
           NEW l \in Leg, fin[l] \/ broken[l]
    PROVE  RelayInv'
<1>. USE RelayAssumption
<1>1. outq' \in [Leg -> Queue]
  <2>1. PICK kept \in [Leg -> 0 .. Window] :
           /\ \A k \in Leg : kept[k] <= Len(outq[k])
           /\ outq' = [k \in Leg |-> SubSeq(outq[k], 1, kept[k])]
    BY DEF End
  <2>2. ASSUME NEW k \in Leg PROVE SubSeq(outq[k], 1, kept[k]) \in Queue
    <3>1. outq[k] \in Seq(Byte) /\ kept[k] \in 0 .. Len(outq[k]) /\ kept[k] <= Window
      BY <2>1 DEF RelayInv, RelayTypes, Queue
    <3>. QED
      BY <3>1, Split DEF Queue
  <2>. QED
    BY <2>1, <2>2
<1>2. RelayTypes'
  BY <1>1 DEF RelayInv, RelayTypes, End, NothingReady, Interest, peers
<1>. QED
  BY <1>2 DEF RelayInv, End, InterestsServeBuffers, EndsOnlyByPeer, peers

\* A visit that changes neither buffers nor interests, or a poll.
LEMMA VisitedType ==
    ASSUME RelayTypes, NEW l \in Leg, Visited(l)
    PROVE  ready' \in [Leg -> Interest]
  BY DEF RelayTypes, Visited, NothingReady, Interest

\* A step that leaves buffers, interests and the end of the connection alone,
\* and forgets nothing of what the peers did.
LEMMA QuietStep ==
    ASSUME RelayInv, RelayTypes', UNCHANGED << buf, interest, state >>,
           \A l \in Leg : (fin[l] => fin'[l]) /\ (broken[l] => broken'[l])
    PROVE  RelayInv'
  BY DEF RelayInv, InterestsServeBuffers, EndsOnlyByPeer

\* An empty buffer has room.
LEMMA FullCanRead ==
    ASSUME NEW b \in Buffer, Room(b) = 0
    PROVE  CanRead(b)
  BY RelayAssumption DEF Buffer, Room, CanRead

LEMMA ReadFullStep ==
    ASSUME RelayInv, NEW l \in Leg, ReadFull(l)
    PROVE  RelayInv'
<1>. DEFINE o == Other(l)
<1>1. o \in Leg /\ o # l /\ Other(o) = l /\ \A k \in Leg : k = l \/ k = o
  BY TwoLegs
<1>2. /\ state = "forwarding" /\ interest[l] = "read" /\ Room(buf[o]) = 0
      /\ interest' = [interest EXCEPT ![l] = "noop", ![o] = "write"]
      /\ UNCHANGED << inq, outq, buf, first, state, sent, fin, broken >>
  BY DEF ReadFull, Visit, Stay, peers
<1>3. ready' \in [Leg -> Interest]
  BY VisitedType DEF RelayInv, ReadFull, Stay
<1>4. RelayTypes'
  BY <1>1, <1>2, <1>3 DEF RelayInv, RelayTypes, Interest
<1>5. CanRead(buf[o]) /\ ~CanRead(buf[l])
  BY <1>1, <1>2, FullCanRead DEF RelayInv, RelayTypes, InterestsServeBuffers
<1>6. interest'[l] = "noop" /\ interest'[o] = "write"
  BY <1>1, <1>2 DEF RelayInv, RelayTypes
<1>7. InterestsServeBuffers'
  BY <1>1, <1>2, <1>5, <1>6 DEF InterestsServeBuffers
<1>. QED
  BY <1>2, <1>4, <1>7 DEF RelayInv, EndsOnlyByPeer

LEMMA ReadBytesStep ==
    ASSUME RelayInv, NEW l \in Leg, ReadBytes(l)
    PROVE  RelayInv'
<1>. USE RelayAssumption
<1>. DEFINE o == Other(l)
            n == Least(Room(buf[o]), Len(inq[l]))
            s == SubSeq(inq[l], 1, n)
            b == WriteAdv(buf[o], s)
            r == Remaining(o, b)
<1>1. o \in Leg /\ o # l /\ Other(o) = l /\ \A k \in Leg : k = l \/ k = o
  BY TwoLegs
<1>2. /\ state = "forwarding" /\ interest[l] = "read" /\ n > 0
      /\ inq'  = [inq EXCEPT ![l] = SubSeq(@, n + 1, Len(@))]
      /\ buf'  = [buf EXCEPT ![o] = r]
      /\ outq' = [outq EXCEPT ![o] = @ \o SentOf(o, b)]
      /\ interest' = [interest EXCEPT
                        ![l] = "read",
                        ![o] = IF CanRead(r) THEN "write" ELSE "read"]
      /\ UNCHANGED << first, state, sent, fin, broken >>
  BY DEF ReadBytes, Visit, Stay, peers
<1>3. ready' \in [Leg -> Interest]
  BY VisitedType DEF RelayInv, ReadBytes, Stay
<1>4. /\ inq[l] \in Seq(Byte) /\ Len(inq[l]) \in 0 .. Window /\ buf[o] \in Buffer
      /\ Room(buf[o]) \in Nat
  <2>1. inq[l] \in Queue /\ buf[o] \in Buffer
    BY <1>1 DEF RelayInv, RelayTypes
  <2>. QED
    BY <2>1, RoomType DEF Queue
<1>5. n \in 1 .. Len(inq[l]) /\ n <= Room(buf[o])
  BY <1>2, <1>4 DEF Least
<1>. HIDE DEF n
<1>6. s \in Seq(Byte) /\ Len(s) = n /\ SubSeq(inq[l], n + 1, Len(inq[l])) \in Queue
  BY <1>4, <1>5, Split DEF Queue
<1>. HIDE DEF s
<1>7. b \in Buffer
  BY <1>4, <1>5, <1>6, WriteAdvType
<1>. HIDE DEF b
<1>8. r \in Buffer /\ outq[o] \o SentOf(o, b) \in Queue
  BY <1>1, <1>7, SendType DEF RelayInv, RelayTypes
<1>. HIDE DEF r
<1>9. RelayTypes'
  <2>1. inq' \in [Leg -> Queue]
    BY <1>2, <1>6 DEF RelayInv, RelayTypes
  <2>2. outq' \in [Leg -> Queue] /\ buf' \in [Leg -> Buffer]
    BY <1>1, <1>2, <1>8 DEF RelayInv, RelayTypes
  <2>3. interest' \in [Leg -> Interest]
    BY <1>1, <1>2 DEF RelayInv, RelayTypes, Interest
  <2>. QED
    BY <1>2, <1>3, <2>1, <2>2, <2>3 DEF RelayInv, RelayTypes
<1>10. /\ interest'[l] = "read" /\ interest'[o] = IF CanRead(r) THEN "write" ELSE "read"
       /\ buf'[l] = buf[l] /\ buf'[o] = r
  BY <1>1, <1>2 DEF RelayInv, RelayTypes
<1>11. ~CanRead(buf[l])
  BY <1>2 DEF RelayInv, InterestsServeBuffers
<1>12. InterestsServeBuffers'
  BY <1>1, <1>10, <1>11 DEF InterestsServeBuffers
<1>. QED
  BY <1>2, <1>9, <1>12 DEF RelayInv, EndsOnlyByPeer

LEMMA WriteBytesStep ==
    ASSUME RelayInv, NEW l \in Leg, WriteBytes(l)
    PROVE  RelayInv'
<1>. DEFINE o == Other(l)
            b == Remaining(l, buf[l])
            interestFor(c) == IF CanRead(c) THEN "write" ELSE "read"
<1>1. o \in Leg /\ o # l /\ Other(o) = l /\ \A k \in Leg : k = l \/ k = o
  BY TwoLegs
<1>2. /\ state = "forwarding" /\ interest[l] = "write" /\ CanRead(buf[l])
      /\ buf'  = [buf EXCEPT ![l] = b]
      /\ outq' = [outq EXCEPT ![l] = @ \o SentOf(l, buf[l])]
      /\ UNCHANGED << inq, first, state, sent, fin, broken >>
  BY DEF WriteBytes, Visit, Stay, peers, RelayInv, InterestsServeBuffers
<1>3. ready' \in [Leg -> Interest]
  BY VisitedType DEF RelayInv, WriteBytes, Stay
<1>4. buf[l] \in Buffer /\ buf[o] \in Buffer
  BY <1>1 DEF RelayInv, RelayTypes
<1>5. b \in Buffer /\ outq[l] \o SentOf(l, buf[l]) \in Queue
  BY <1>4, SendType DEF RelayInv, RelayTypes
<1>6. /\ buf'[l] = b /\ buf'[o] = buf[o]
      /\ buf' \in [Leg -> Buffer] /\ outq' \in [Leg -> Queue]
  BY <1>1, <1>2, <1>5 DEF RelayInv, RelayTypes
<1>7. CASE Accepts(l, buf[l]) = 0
  <2>1. interest' = interest
    BY <1>2, <1>7 DEF WriteBytes
  <2>2. b = buf[l]
    <3>1. /\ buf[l].bytes \in Seq(Byte) /\ buf[l].used \in 0 .. BufferSize
          /\ buf[l].bytes # << >>
          /\ buf[l] = [ used |-> buf[l].used, bytes |-> buf[l].bytes ]
      BY <1>2, <1>4 DEF Buffer, CanRead
    <3>2. SubSeq(buf[l].bytes, 0 + 1, Len(buf[l].bytes)) = buf[l].bytes
      BY <3>1, SubSeqFull
    <3>3. 0 # Len(buf[l].bytes)
      BY <3>1
    <3>. QED
      BY <1>7, <3>1, <3>2, <3>3 DEF Remaining, ReadAdv
  <2>3. RelayTypes'
    BY <1>2, <1>3, <1>6, <2>1 DEF RelayInv, RelayTypes
  <2>4. UNCHANGED buf
    BY <1>2, <2>2 DEF RelayInv, RelayTypes
  <2>. QED
    BY <1>2, <2>1, <2>3, <2>4, QuietStep
<1>8. CASE Accepts(l, buf[l]) # 0
  <2>1. interest' = [k \in Leg |-> IF k = l THEN interestFor(b) ELSE interestFor(buf[o])]
    BY <1>2, <1>8 DEF WriteBytes
  <2>2. interest'[l] = interestFor(b) /\ interest'[o] = interestFor(buf[o])
    BY <1>1, <2>1
  <2>3. RelayTypes'
    BY <1>2, <1>3, <1>6, <2>1 DEF RelayInv, RelayTypes, Interest
  <2>4. InterestsServeBuffers'
    BY <1>1, <1>6, <2>2 DEF InterestsServeBuffers
  <2>. QED
    BY <1>2, <2>3, <2>4 DEF RelayInv, EndsOnlyByPeer
<1>. QED
  BY <1>7, <1>8

LEMMA PeerSendType ==
    ASSUME RelayInv, NEW l \in Leg, PeerSend(l)
    PROVE  RelayInv'
<1>1. /\ sent[l] \in 0 .. Total /\ sent[l] < Total /\ Total \in Nat
      /\ inq[l] \in Seq(Byte) /\ Len(inq[l]) < Window /\ Window \in Nat
  BY RelayAssumption DEF RelayInv, RelayTypes, Queue, PeerSend
<1>2. sent[l] + 1 \in Byte /\ sent[l] + 1 \in 0 .. Total
  BY <1>1 DEF Byte
<1>3. Append(inq[l], sent[l] + 1) \in Queue
  BY <1>1, <1>2, AppendProperties DEF Queue
<1>4. inq' \in [Leg -> Queue]
  BY <1>3 DEF RelayInv, RelayTypes, PeerSend
<1>5. sent' \in [Leg -> 0 .. Total]
  BY <1>2 DEF RelayInv, RelayTypes, PeerSend
<1>6. RelayTypes'
  BY <1>4, <1>5 DEF RelayInv, RelayTypes, PeerSend
<1>. QED
  BY <1>6, QuietStep DEF PeerSend

LEMMA PeerReadType ==
    ASSUME RelayInv, NEW l \in Leg, PeerRead(l)
    PROVE  RelayInv'
<1>1. outq[l] \in Seq(Byte) /\ outq[l] # << >> /\ Len(outq[l]) <= Window /\ Window \in Nat
  BY RelayAssumption DEF RelayInv, RelayTypes, Queue, PeerRead
<1>2. Tail(outq[l]) \in Queue
  BY <1>1, HeadTailProperties DEF Queue
<1>3. RelayTypes'
  BY <1>2 DEF RelayInv, RelayTypes, PeerRead, peers
<1>. QED
  BY <1>3, QuietStep DEF PeerRead, peers

\* Each action keeps the invariant.
LEMMA RelayInvStep == RelayInv /\ [Next]_vars => RelayInv'
<1>. SUFFICES ASSUME RelayInv, [Next]_vars PROVE RelayInv'
  OBVIOUS
<1>1. CASE Poll
  <2>1. ready' \in [Leg -> Interest]
    BY <1>1 DEF Poll, RelayInv, RelayTypes, Interest
  <2>2. RelayTypes'
    BY <1>1, <2>1 DEF Poll, RelayInv, RelayTypes, peers
  <2>. QED
    BY <1>1, <2>2, QuietStep DEF Poll, peers
<1>2. ASSUME NEW l \in Leg, Stale(l) PROVE RelayInv'
  <2>1. ready' \in [Leg -> Interest]
    BY <1>2, VisitedType DEF Stale, RelayInv
  <2>2. RelayTypes'
    BY <1>2, <2>1 DEF Stale, RelayInv, RelayTypes, peers
  <2>. QED
    BY <1>2, <2>2, QuietStep DEF Stale, peers
<1>3. ASSUME NEW l \in Leg, Read(l) PROVE RelayInv'
  <2>1. CASE ReadFull(l)
    BY <2>1, ReadFullStep
  <2>2. CASE ReadEof(l)
    BY <2>2, EndStep DEF ReadEof
  <2>3. CASE ReadError(l)
    BY <2>3, EndStep DEF ReadError
  <2>4. CASE ReadBytes(l)
    BY <2>4, ReadBytesStep
  <2>5. CASE ReadSendFails(l)
    BY <2>5, EndStep, TwoLegs DEF ReadSendFails, SendFails
  <2>. QED
    BY <1>3, <2>1, <2>2, <2>3, <2>4, <2>5 DEF Read
<1>4. ASSUME NEW l \in Leg, Write(l) PROVE RelayInv'
  <2>1. CASE WriteBytes(l)
    BY <2>1, WriteBytesStep
  <2>2. CASE WriteFails(l)
    BY <2>2, EndStep DEF WriteFails, SendFails
  <2>. QED
    BY <1>4, <2>1, <2>2 DEF Write
<1>5. ASSUME NEW l \in Leg, PeerSend(l) PROVE RelayInv'
  BY <1>5, PeerSendType
<1>6. ASSUME NEW l \in Leg, PeerRead(l) PROVE RelayInv'
  BY <1>6, PeerReadType
<1>7. ASSUME NEW l \in Leg, PeerShutdown(l) PROVE RelayInv'
  <2>1. RelayTypes' /\ \A k \in Leg : fin[k] => fin'[k]
    BY <1>7 DEF PeerShutdown, RelayInv, RelayTypes
  <2>. QED
    BY <1>7, <2>1, QuietStep DEF PeerShutdown
<1>8. ASSUME NEW l \in Leg, PeerReset(l) PROVE RelayInv'
  <2>1. RelayTypes' /\ \A k \in Leg : broken[k] => broken'[k]
    BY <1>8 DEF PeerReset, RelayInv, RelayTypes
  <2>. QED
    BY <1>8, <2>1, QuietStep DEF PeerReset
<1>9. CASE UNCHANGED vars
  BY <1>9 DEF vars, RelayInv, RelayTypes, InterestsServeBuffers, EndsOnlyByPeer
<1>. QED
  BY <1>1, <1>2, <1>3, <1>4, <1>5, <1>6, <1>7, <1>8, <1>9 DEF Next, Loop, Over

\* The invariant holds in every state.
LEMMA RelayInvAlways == Spec => []RelayInv
  BY RelayInvInit, RelayInvStep, PTL DEF Spec

\* Every variable has its type, and no buffer and no socket queue exceeds its
\* capacity: the room forward_read passes to recv is there.
THEOREM RelayTypeOK == Spec => []TypeOK
<1>1. RelayInv => TypeOK
  BY RelayTypesImplyTypeOK DEF RelayInv
<1>. QED
  BY <1>1, RelayInvAlways, PTL

\* For every size of the buffers and the sockets: a leg waits to write exactly
\* while bytes wait for it, and a parked leg is waited for by a full buffer
\* that the other leg is about to drain.
THEOREM InterestsAlwaysServe == Spec => []InterestsServeBuffers
<1>1. RelayInv => InterestsServeBuffers
  BY DEF RelayInv
<1>. QED
  BY <1>1, RelayInvAlways, PTL

\* Only a shutdown or a reset by a peer ends a relay.
THEOREM RelayEndsOnlyByPeer == Spec => []EndsOnlyByPeer
<1>1. RelayInv => EndsOnlyByPeer
  BY DEF RelayInv
<1>. QED
  BY <1>1, RelayInvAlways, PTL

-----------------------------------------------------------------------------
(***************************************************************************)
(* Each direction implements Channel.                                      *)
(***************************************************************************)
\* What a step does to the stream towards l.
StreamKept(l) == Transit(l)' = Transit(l) /\ state' = state

StreamPut(l) ==
    /\ state = "forwarding" /\ state' = state
    /\ \E b \in Byte : Transit(l)' = Append(Transit(l), b)

StreamGet(l) ==
    /\ Transit(l) # << >>
    /\ Transit(l)' = Tail(Transit(l))
    /\ state' = state

StreamCut(l) ==
    /\ state = "forwarding" /\ state' # "forwarding"
    /\ \E n \in 0 .. Len(Transit(l)) : Transit(l)' = SubSeq(Transit(l), 1, n)

StreamStep(l) == StreamKept(l) \/ StreamPut(l) \/ StreamGet(l) \/ StreamCut(l)

\* The three parts of a stream are sequences of bytes.
LEMMA PartsType ==
    ASSUME RelayTypes, NEW l \in Leg
    PROVE  /\ outq[l] \in Seq(Byte) /\ buf[l].bytes \in Seq(Byte)
           /\ inq[Other(l)] \in Seq(Byte) /\ inq[l] \in Seq(Byte)
<1>1. outq[l] \in Queue /\ inq[l] \in Queue /\ inq[Other(l)] \in Queue /\ buf[l] \in Buffer
  BY TwoLegs DEF RelayTypes
<1>. QED
  BY <1>1 DEF Queue, Buffer

\* Appending to the second of two sequences appends to the whole.
LEMMA AppendToConcat ==
    \A a, c \in Seq(Byte) : \A e \in Byte : a \o Append(c, e) = Append(a \o c, e)
<1>. SUFFICES ASSUME NEW a \in Seq(Byte), NEW c \in Seq(Byte), NEW e \in Byte
             PROVE  a \o Append(c, e) = Append(a \o c, e)
  OBVIOUS
<1>1. a \o c \in Seq(Byte) /\ << e >> \in Seq(Byte)
  BY ConcatProperties
<1>2. Append(c, e) = c \o << e >> /\ Append(a \o c, e) = (a \o c) \o << e >>
  BY <1>1, AppendIsConcat
<1>3. a \o (c \o << e >>) = (a \o c) \o << e >>
  BY <1>1, ConcatAssociative
<1>. QED
  BY <1>2, <1>3

\* Removing the first element of the first removes it from the whole.
LEMMA TailOfConcat ==
    ASSUME NEW S, NEW a \in Seq(S), NEW t \in Seq(S), a # << >>
    PROVE  a \o t # << >> /\ Tail(a \o t) = Tail(a) \o t
<1>1. /\ a \o t \in Seq(S) /\ Len(a \o t) = Len(a) + Len(t)
      /\ \A i \in 1 .. Len(a) + Len(t) : (a \o t)[i] = IF i <= Len(a) THEN a[i] ELSE t[i - Len(a)]
  BY ConcatProperties
<1>2. Len(a) \in Nat /\ Len(t) \in Nat /\ Len(a) > 0
  OBVIOUS
<1>3. a \o t # << >>
  BY <1>1, <1>2
<1>4. /\ Tail(a) \in Seq(S) /\ Len(Tail(a)) = Len(a) - 1
      /\ \A i \in 1 .. Len(a) - 1 : Tail(a)[i] = a[i + 1]
  BY HeadTailProperties
<1>5. /\ Tail(a \o t) \in Seq(S) /\ Len(Tail(a \o t)) = Len(a) + Len(t) - 1
      /\ \A i \in 1 .. Len(a) + Len(t) - 1 : Tail(a \o t)[i] = (a \o t)[i + 1]
  BY <1>1, <1>3, HeadTailProperties
<1>6. /\ Tail(a) \o t \in Seq(S) /\ Len(Tail(a) \o t) = Len(a) - 1 + Len(t)
      /\ \A i \in 1 .. Len(a) - 1 + Len(t) :
            (Tail(a) \o t)[i] = IF i <= Len(a) - 1 THEN Tail(a)[i] ELSE t[i - (Len(a) - 1)]
  BY <1>4, ConcatProperties
<1>7. ASSUME NEW i \in 1 .. Len(a) + Len(t) - 1
      PROVE  Tail(a \o t)[i] = (Tail(a) \o t)[i]
  <2>1. i + 1 \in 1 .. Len(a) + Len(t) /\ i + 1 - Len(a) = i - (Len(a) - 1)
    BY <1>2
  <2>2. CASE i <= Len(a) - 1
    BY <1>1, <1>2, <1>4, <1>5, <1>6, <2>1, <2>2
  <2>3. CASE i > Len(a) - 1
    <3>1. Tail(a \o t)[i] = t[i + 1 - Len(a)]
      BY <1>1, <1>2, <1>5, <2>1, <2>3
    <3>2. (Tail(a) \o t)[i] = t[i - (Len(a) - 1)]
      BY <1>2, <1>6, <2>3
    <3>. QED
      BY <2>1, <3>1, <3>2
  <2>. QED
    BY <1>2, <2>2, <2>3
<1>8. Len(Tail(a \o t)) = Len(Tail(a) \o t)
  BY <1>2, <1>5, <1>6
<1>. QED
  BY <1>3, <1>5, <1>6, <1>7, <1>8, SeqEqual

\* The head of the first of two is the head of the whole.
LEMMA PrefixOfConcat ==
    ASSUME NEW S, NEW a \in Seq(S), NEW t \in Seq(S), NEW n \in 0 .. Len(a)
    PROVE  n \in 0 .. Len(a \o t) /\ SubSeq(a \o t, 1, n) = SubSeq(a, 1, n)
<1>1. n \in 0 .. Len(a \o t)
  BY ConcatProperties
<1>2. CASE n = 0
  BY <1>2, SubSeqEmpty
<1>3. CASE n # 0
  <2>1. 1 \in 1 .. Len(a) /\ n \in 1 .. Len(a)
    BY <1>3
  <2>. QED
    BY <2>1, SubSeqOfConcat1
<1>. QED
  BY <1>1, <1>2, <1>3

\* Concatenation as an operator of its own, so that the provers use nothing
\* of it but its rules.
Cat(a, b) == a \o b

LEMMA CatRules ==
    /\ \A a, b \in Seq(Byte) : Cat(a, b) \in Seq(Byte)
    /\ \A a, b, c \in Seq(Byte) : Cat(Cat(a, b), c) = Cat(a, Cat(b, c))
<1>1. ASSUME NEW a \in Seq(Byte), NEW b \in Seq(Byte)
      PROVE  Cat(a, b) \in Seq(Byte)
  BY ConcatProperties DEF Cat
<1>2. ASSUME NEW a \in Seq(Byte), NEW b \in Seq(Byte), NEW c \in Seq(Byte)
      PROVE  Cat(Cat(a, b), c) = Cat(a, Cat(b, c))
  <2>1. (a \o b) \o c = a \o (b \o c)
    BY ConcatAssociative
  <2>. QED
    BY <2>1 DEF Cat
<1>. QED
  BY <1>1, <1>2

\* Bytes m go from the front of a buffer to the back of the queue a.
LEMMA SendRegroup ==
    ASSUME NEW a \in Seq(Byte), NEW m \in Seq(Byte), NEW r \in Seq(Byte)
    PROVE  Cat(Cat(a, m), r) = Cat(a, Cat(m, r))
  BY CatRules

\* A stream whose parts do not change is kept.
LEMMA KeptParts ==
    ASSUME NEW l \in Leg, UNCHANGED << outq, buf, inq, state >>
    PROVE  StreamKept(l)
  BY DEF StreamKept, Transit

\* The end of the connection cuts both streams.
LEMMA EndCuts ==
    ASSUME RelayTypes, state = "forwarding", NEW how \in { "done", "error", "killed" },
           End(how), NEW l \in Leg
    PROVE  StreamCut(l)
<1>. DEFINE rest == buf[l].bytes \o inq[Other(l)]
<1>1. PICK kept \in [Leg -> 0 .. Window] :
         /\ \A k \in Leg : kept[k] <= Len(outq[k])
         /\ outq' = [k \in Leg |-> SubSeq(outq[k], 1, kept[k])]
  BY DEF End
<1>2. /\ outq[l] \in Seq(Byte) /\ buf[l].bytes \in Seq(Byte)
      /\ inq[Other(l)] \in Seq(Byte) /\ rest \in Seq(Byte)
  BY PartsType, ConcatProperties
<1>3. Transit(l) = outq[l] \o rest
  <2>1. Transit(l) = Cat(Cat(outq[l], buf[l].bytes), inq[Other(l)])
    BY DEF Transit, Cat
  <2>2. rest = Cat(buf[l].bytes, inq[Other(l)])
    BY DEF Cat
  <2>3. Transit(l) = Cat(outq[l], rest)
    BY <1>2, <2>1, <2>2, SendRegroup
  <2>. QED
    BY <2>3 DEF Cat
<1>4. state' = how /\ how # "forwarding"
  BY DEF End
<1>5. Transit(l)' = SubSeq(outq[l], 1, kept[l])
  BY <1>1, <1>4 DEF Transit
<1>6. kept[l] \in 0 .. Len(outq[l])
  BY <1>1, <1>2, RelayAssumption
<1>. HIDE DEF rest
<1>7. kept[l] \in 0 .. Len(Transit(l)) /\ Transit(l)' = SubSeq(Transit(l), 1, kept[l])
  BY <1>2, <1>3, <1>5, <1>6, PrefixOfConcat
<1>. QED
  BY <1>4, <1>7 DEF StreamCut

\* forward_read moves bytes from a socket to the buffer and on to the other
\* socket: the stream is the same.
LEMMA ReadBytesKeeps ==
    ASSUME RelayInv, NEW l \in Leg, ReadBytes(l), NEW k \in Leg
    PROVE  StreamKept(k)
<1>. DEFINE o == Other(l)
            n == Least(Room(buf[o]), Len(inq[l]))
            s == SubSeq(inq[l], 1, n)
            t == SubSeq(inq[l], n + 1, Len(inq[l]))
            b == WriteAdv(buf[o], s)
            r == Remaining(o, b)
            m == SentOf(o, b)
<1>1. o \in Leg /\ o # l /\ Other(o) = l /\ (k = l \/ k = o)
  BY TwoLegs
<1>2. /\ state = "forwarding" /\ state' = state /\ n > 0
      /\ inq'  = [inq EXCEPT ![l] = t]
      /\ buf'  = [buf EXCEPT ![o] = r]
      /\ outq' = [outq EXCEPT ![o] = @ \o m]
  BY DEF ReadBytes, Visit, Stay
<1>3. CASE k = l
  BY <1>1, <1>2, <1>3 DEF StreamKept, Transit, RelayInv, RelayTypes
<1>4. CASE k = o
  <2>1. /\ inq[l] \in Queue /\ buf[o] \in Buffer /\ outq \in [Leg -> Queue]
        /\ Room(buf[o]) \in Nat
    BY <1>1, RoomType DEF RelayInv, RelayTypes
  <2>2. inq[l] \in Seq(Byte) /\ outq[o] \in Seq(Byte) /\ buf[o].bytes \in Seq(Byte)
    BY <1>1, <2>1 DEF Queue, Buffer
  <2>3. n \in 1 .. Len(inq[l]) /\ n <= Room(buf[o])
    BY <1>2, <2>1, <2>2 DEF Least
  <2>. HIDE DEF n
  <2>4. s \in Seq(Byte) /\ Len(s) = n /\ t \in Seq(Byte) /\ s \o t = inq[l]
    <3>1. inq[l] \in Seq(Byte) /\ n \in 0 .. Len(inq[l])
      BY <2>2, <2>3
    <3>. QED
      BY <3>1, Split
  <2>5. Len(s) \in 1 .. Room(buf[o])
    BY <2>1, <2>3, <2>4
  <2>. HIDE DEF s, t
  <2>6. b \in Buffer /\ b.bytes = buf[o].bytes \o s
    BY <2>1, <2>4, <2>5, WriteAdvType
  <2>. HIDE DEF b
  <2>7. r \in Buffer /\ m \in Seq(Byte) /\ m \o r.bytes = b.bytes
    BY <1>1, <2>1, <2>6, SendType
  <2>8. r.bytes \in Seq(Byte)
    BY <2>7 DEF Buffer
  <2>. HIDE DEF r, m
  <2>9. /\ inq'[l] = t /\ buf'[o].bytes = r.bytes /\ outq'[o] = outq[o] \o m
    BY <1>1, <1>2 DEF RelayInv, RelayTypes
  <2>10. Cat(m, r.bytes) = Cat(buf[o].bytes, s)
    BY <2>6, <2>7 DEF Cat
  <2>11. Cat(Cat(Cat(outq[o], m), r.bytes), t) = Cat(Cat(outq[o], buf[o].bytes), Cat(s, t))
    <3>1. /\ outq[o] \in Seq(Byte) /\ buf[o].bytes \in Seq(Byte)
          /\ s \in Seq(Byte) /\ t \in Seq(Byte)
          /\ m \in Seq(Byte) /\ r.bytes \in Seq(Byte)
      BY <2>2, <2>4, <2>7, <2>8
    <3>2. Cat(Cat(outq[o], m), r.bytes) = Cat(outq[o], Cat(m, r.bytes))
      BY <3>1, CatRules
    <3>3. Cat(outq[o], Cat(buf[o].bytes, s)) = Cat(Cat(outq[o], buf[o].bytes), s)
      BY <3>1, CatRules
    <3>4. Cat(outq[o], buf[o].bytes) \in Seq(Byte)
      BY <3>1, CatRules
    <3>5. Cat(Cat(Cat(outq[o], buf[o].bytes), s), t) = Cat(Cat(outq[o], buf[o].bytes), Cat(s, t))
      BY <3>1, <3>4, SendRegroup
    <3>. QED
      BY <2>10, <3>2, <3>3, <3>5
  <2>12. Transit(o)' = Cat(Cat(Cat(outq[o], m), r.bytes), t)
    BY <1>1, <1>2, <2>9 DEF Transit, Cat
  <2>13. Transit(o) = Cat(Cat(outq[o], buf[o].bytes), Cat(s, t))
    BY <1>1, <1>2, <2>4 DEF Transit, Cat
  <2>. QED
    BY <1>2, <1>4, <2>11, <2>12, <2>13 DEF StreamKept
<1>. QED
  BY <1>1, <1>3, <1>4

\* forward_write moves bytes from the buffer to the socket.
LEMMA WriteBytesKeeps ==
    ASSUME RelayInv, NEW l \in Leg, WriteBytes(l), NEW k \in Leg
    PROVE  StreamKept(k)
<1>. DEFINE r == Remaining(l, buf[l])
            m == SentOf(l, buf[l])
<1>1. /\ state = "forwarding" /\ state' = state /\ inq' = inq
      /\ buf'  = [buf EXCEPT ![l] = r]
      /\ outq' = [outq EXCEPT ![l] = @ \o m]
  BY DEF WriteBytes, Visit, Stay
<1>2. CASE k # l
  BY <1>1, <1>2 DEF StreamKept, Transit, RelayInv, RelayTypes
<1>3. CASE k = l
  <2>1. buf[l] \in Buffer /\ outq \in [Leg -> Queue]
    BY DEF RelayInv, RelayTypes
  <2>2. outq[l] \in Seq(Byte) /\ buf[l].bytes \in Seq(Byte)
    BY PartsType DEF RelayInv
  <2>3. r \in Buffer /\ m \in Seq(Byte) /\ m \o r.bytes = buf[l].bytes
    BY <2>1, SendType
  <2>4. r.bytes \in Seq(Byte)
    BY <2>3 DEF Buffer
  <2>. HIDE DEF r, m
  <2>5. buf'[l].bytes = r.bytes /\ outq'[l] = outq[l] \o m
    BY <1>1 DEF RelayInv, RelayTypes
  <2>6. Cat(Cat(outq[l], m), r.bytes) = Cat(outq[l], buf[l].bytes)
    <3>1. Cat(m, r.bytes) = buf[l].bytes
      BY <2>3 DEF Cat
    <3>. QED
      BY <2>2, <2>3, <2>4, <3>1, SendRegroup
  <2>7. Transit(l)' = Cat(Cat(Cat(outq[l], m), r.bytes), inq[Other(l)])
    BY <1>1, <2>5 DEF Transit, Cat
  <2>8. Transit(l) = Cat(Cat(outq[l], buf[l].bytes), inq[Other(l)])
    BY <1>1 DEF Transit, Cat
  <2>. QED
    BY <1>1, <1>3, <2>6, <2>7, <2>8 DEF StreamKept
<1>. QED
  BY <1>2, <1>3

\* A peer puts its next byte at the end of the stream to the other.
LEMMA PeerSendPuts ==
    ASSUME RelayInv, NEW l \in Leg, PeerSend(l), NEW k \in Leg
    PROVE  StreamStep(k)
<1>. DEFINE e == sent[l] + 1
<1>1. /\ Other(l) \in Leg /\ Other(l) # l /\ Other(Other(l)) = l
      /\ k = l \/ k = Other(l)
  BY TwoLegs
<1>2. /\ state = "forwarding" /\ state' = state /\ UNCHANGED << outq, buf >>
      /\ inq' = [inq EXCEPT ![l] = Append(@, e)]
  BY DEF PeerSend
<1>3. CASE k = l
  BY <1>1, <1>2, <1>3 DEF StreamStep, StreamKept, Transit, RelayInv, RelayTypes
<1>4. CASE k = Other(l)
  <2>1. e \in Byte
    BY RelayAssumption DEF Byte, PeerSend, RelayInv, RelayTypes
  <2>. HIDE DEF e
  <2>2. /\ outq[k] \in Seq(Byte) /\ buf[k].bytes \in Seq(Byte) /\ inq[l] \in Seq(Byte)
    BY PartsType DEF RelayInv
  <2>3. inq'[l] = Append(inq[l], e)
    BY <1>2 DEF RelayInv, RelayTypes
  <2>4. Transit(k)' = outq[k] \o buf[k].bytes \o Append(inq[l], e)
    BY <1>1, <1>2, <1>4, <2>3 DEF Transit
  <2>5. Transit(k) = outq[k] \o buf[k].bytes \o inq[l]
    BY <1>1, <1>2, <1>4 DEF Transit
  <2>6. outq[k] \o buf[k].bytes \o Append(inq[l], e) = Append(outq[k] \o buf[k].bytes \o inq[l], e)
    <3>1. outq[k] \o buf[k].bytes \in Seq(Byte)
      BY <2>2, ConcatProperties
    <3>. QED
      BY <2>1, <2>2, <3>1, AppendToConcat
  <2>7. Transit(k)' = Append(Transit(k), e)
    BY <2>4, <2>5, <2>6
  <2>. QED
    BY <1>2, <2>1, <2>7 DEF StreamStep, StreamPut
<1>. QED
  BY <1>1, <1>3, <1>4

\* A peer takes the oldest byte of the stream to it.
LEMMA PeerReadGets ==
    ASSUME RelayInv, NEW l \in Leg, PeerRead(l), NEW k \in Leg
    PROVE  StreamStep(k)
<1>1. /\ state' = state /\ UNCHANGED << inq, buf >> /\ outq[l] # << >>
      /\ outq' = [outq EXCEPT ![l] = Tail(@)]
  BY DEF PeerRead
<1>2. CASE k # l
  BY <1>1, <1>2 DEF StreamStep, StreamKept, Transit, RelayInv, RelayTypes
<1>3. CASE k = l
  <2>1. /\ outq[l] \in Seq(Byte) /\ buf[l].bytes \in Seq(Byte)
        /\ inq[Other(l)] \in Seq(Byte)
    BY PartsType DEF RelayInv
  <2>2. outq'[l] = Tail(outq[l])
    BY <1>1 DEF RelayInv, RelayTypes
  <2>3. CASE state # "forwarding"
    BY <1>1, <1>3, <2>2, <2>3 DEF StreamStep, StreamGet, Transit
  <2>4. CASE state = "forwarding"
    <3>1. /\ outq[l] \o buf[l].bytes \in Seq(Byte)
          /\ outq[l] \o buf[l].bytes # << >>
          /\ Tail(outq[l] \o buf[l].bytes) = Tail(outq[l]) \o buf[l].bytes
      BY <1>1, <2>1, ConcatProperties, TailOfConcat
    <3>2. /\ Transit(l) = (outq[l] \o buf[l].bytes) \o inq[Other(l)]
          /\ Transit(l)' = (Tail(outq[l]) \o buf[l].bytes) \o inq[Other(l)]
      BY <1>1, <2>2, <2>4 DEF Transit
    <3>3. /\ (outq[l] \o buf[l].bytes) \o inq[Other(l)] # << >>
          /\ Tail((outq[l] \o buf[l].bytes) \o inq[Other(l)]) =
                Tail(outq[l] \o buf[l].bytes) \o inq[Other(l)]
      BY <2>1, <3>1, TailOfConcat
    <3>. QED
      BY <1>1, <1>3, <3>1, <3>2, <3>3 DEF StreamStep, StreamGet
  <2>. QED
    BY <2>3, <2>4
<1>. QED
  BY <1>2, <1>3

\* Every step of the relay is a step of both streams.
LEMMA RelayStepIsStreamStep ==
    ASSUME RelayInv, [Next]_vars, NEW k \in Leg
    PROVE  StreamStep(k)
<1>1. CASE UNCHANGED << outq, buf, inq, state >>
  BY <1>1, KeptParts DEF StreamStep
<1>2. ASSUME NEW l \in Leg, Read(l) PROVE StreamStep(k)
  <2>. state = "forwarding" /\ RelayTypes
    BY <1>2 DEF Read, ReadFull, ReadEof, ReadError, ReadBytes, ReadSendFails, Visit, RelayInv
  <2>1. CASE ReadFull(l)
    BY <2>1, <1>1 DEF ReadFull, Stay
  <2>2. CASE ReadEof(l)
    BY <2>2, EndCuts DEF ReadEof, StreamStep
  <2>3. CASE ReadError(l)
    BY <2>3, EndCuts DEF ReadError, StreamStep
  <2>4. CASE ReadBytes(l)
    BY <2>4, ReadBytesKeeps DEF StreamStep
  <2>5. CASE ReadSendFails(l)
    BY <2>5, EndCuts DEF ReadSendFails, SendFails, StreamStep
  <2>. QED
    BY <1>2, <2>1, <2>2, <2>3, <2>4, <2>5 DEF Read
<1>3. ASSUME NEW l \in Leg, Write(l) PROVE StreamStep(k)
  <2>. state = "forwarding" /\ RelayTypes
    BY <1>3 DEF Write, WriteBytes, WriteFails, Visit, RelayInv
  <2>1. CASE WriteBytes(l)
    BY <2>1, WriteBytesKeeps DEF StreamStep
  <2>2. CASE WriteFails(l)
    BY <2>2, EndCuts DEF WriteFails, SendFails, StreamStep
  <2>. QED
    BY <1>3, <2>1, <2>2 DEF Write
<1>4. CASE Poll
  BY <1>1, <1>4 DEF Poll
<1>5. ASSUME NEW l \in Leg, Stale(l) \/ PeerShutdown(l) \/ PeerReset(l) PROVE StreamStep(k)
  BY <1>1, <1>5 DEF Stale, PeerShutdown, PeerReset
<1>6. CASE Over \/ UNCHANGED vars
  BY <1>1, <1>6 DEF Over, vars
<1>. QED
  BY <1>2, <1>3, <1>4, <1>5, <1>6, PeerSendPuts, PeerReadGets DEF Next, Loop

\* Both streams are empty and open at first.
LEMMA StreamInit ==
    ASSUME Init, NEW k \in Leg
    PROVE  Transit(k) = << >> /\ state = "forwarding"
<1>1. << >> \in Seq(Byte)
  OBVIOUS
<1>2. << >> \o << >> = << >>
  BY <1>1, ConcatEmptySeq
<1>3. outq[k] = << >> /\ buf[k].bytes = << >> /\ inq[Other(k)] = << >> /\ state = "forwarding"
  BY TwoLegs DEF Init, Empty
<1>. QED
  BY <1>2, <1>3 DEF Transit

\* For every size of the buffers and the sockets, and for any number of bytes:
\* each direction of a relayed connection is a reliable stream that loses
\* nothing but its newest bytes, and those only when the connection ends.
THEOREM RelayImplementsChannels == Spec => StreamsAreChannels
<1>1. Init => ToClient!Init /\ ToOrigin!Init
  <2>. SUFFICES ASSUME Init PROVE ToClient!Init /\ ToOrigin!Init
    OBVIOUS
  <2>1. /\ Transit("client") = << >> /\ Transit("origin") = << >> /\ state = "forwarding"
    BY StreamInit DEF Leg
  <2>. QED
    BY <2>1 DEF ToClient!Init, ToOrigin!Init
<1>2. RelayInv /\ [Next]_vars => [ToClient!Next]_(ToClient!vars)
  <2>. SUFFICES ASSUME RelayInv, [Next]_vars PROVE [ToClient!Next]_(ToClient!vars)
    OBVIOUS
  <2>1. StreamStep("client")
    BY RelayStepIsStreamStep DEF Leg
  <2>. QED
    BY <2>1 DEF StreamStep, StreamKept, StreamPut, StreamGet, StreamCut,
       ToClient!Next, ToClient!vars, ToClient!Put, ToClient!Get, ToClient!Cut
<1>3. RelayInv /\ [Next]_vars => [ToOrigin!Next]_(ToOrigin!vars)
  <2>. SUFFICES ASSUME RelayInv, [Next]_vars PROVE [ToOrigin!Next]_(ToOrigin!vars)
    OBVIOUS
  <2>1. StreamStep("origin")
    BY RelayStepIsStreamStep DEF Leg
  <2>. QED
    BY <2>1 DEF StreamStep, StreamKept, StreamPut, StreamGet, StreamCut,
       ToOrigin!Next, ToOrigin!vars, ToOrigin!Put, ToOrigin!Get, ToOrigin!Cut
<1>. QED
  BY <1>1, <1>2, <1>3, RelayInvAlways, PTL
     DEF Spec, StreamsAreChannels, ToClient!Spec, ToOrigin!Spec
=============================================================================
