---------------------------- MODULE BufferProofs ----------------------------
(***************************************************************************)
(* Proofs about Buffer.tla, for every size and every alphabet: the         *)
(* documented order of the pointers, the room of an empty buffer, and that *)
(* the buffer implements the bounded FIFO queue of BoundedFifo.tla.        *)
(***************************************************************************)
EXTENDS Buffer, SequenceTheorems, TLAPS

\* The invariant carried through every step.
BufferInv == TypeOK /\ EmptyHasRoom

LEMMA BufferInvInit == Init => BufferInv
  BY LimitAssumption
     DEF Init, BufferInv, TypeOK, EmptyHasRoom, CanRead, CanWrite, Index

\* Consuming n pending bytes drops exactly the n oldest ones.
LEMMA ReadAdvStep ==
    ASSUME BufferInv, NEW n \in Nat, n <= write - read, ReadAdv(n)
    PROVE  /\ BufferInv'
           /\ write' - read' = write - read - n
           /\ \A i \in 0 .. write - read - n - 1 :
                  data'[read' + i] = data[read + n + i]
  BY LimitAssumption
     DEF BufferInv, TypeOK, EmptyHasRoom, CanRead, CanWrite, ReadAdv, Index

\* Storing bytes keeps what was pending and appends them to it.
LEMMA WriteAdvStep ==
    ASSUME BufferInv, NEW k \in 1 .. Limit, NEW s \in [1 .. k -> Byte],
           Len(s) = k, k <= Limit - write, WriteAdv(s)
    PROVE  /\ BufferInv'
           /\ read' = read
           /\ write' = write + k
           /\ \A i \in read .. write - 1 : data'[i] = data[i]
           /\ \A i \in 1 .. k : data'[write + i - 1] = s[i]
  BY LimitAssumption
     DEF BufferInv, TypeOK, EmptyHasRoom, CanRead, CanWrite, WriteAdv, Index

\* Compaction moves the pending bytes and changes none of them.
LEMMA CompactStep ==
    ASSUME BufferInv, Compact
    PROVE  /\ BufferInv'
           /\ write' - read' = write - read
           /\ \A i \in 0 .. write - read - 1 : data'[read' + i] = data[read + i]
  BY LimitAssumption
     DEF BufferInv, TypeOK, EmptyHasRoom, CanRead, CanWrite, Compact, Moved, Index

-----------------------------------------------------------------------------
\* Each action keeps the invariant.
LEMMA BufferInvStep == BufferInv /\ [Next]_vars => BufferInv'
  <1> SUFFICES ASSUME BufferInv, [Next]_vars
               PROVE  BufferInv'
    OBVIOUS
  <1>0. /\ read \in Nat /\ write \in Nat /\ Limit \in Nat
        /\ read <= write /\ write <= Limit
    BY LimitAssumption DEF BufferInv, TypeOK
  <1>1. ASSUME NEW k \in 1 .. Limit, NEW s \in [1 .. k -> Byte], Receive(s)
        PROVE  BufferInv'
    <2>1. Len(s) = k
      BY <1>0
    <2>2. QED
      BY <1>0, <1>1, <2>1, WriteAdvStep DEF Receive
  <1>2. ASSUME NEW n \in 0 .. Limit, Send(n)
        PROVE  BufferInv'
    BY <1>0, <1>2, ReadAdvStep DEF Send
  <1>3. CASE ReadByte
    <2>1. CASE CanRead
      <3>1. 1 <= write - read /\ ReadAdv(1)
        BY <1>0, <1>3, <2>1 DEF ReadByte, CanRead
      <3>2. QED
        BY <3>1, ReadAdvStep
    <2>2. CASE ~CanRead
      BY <1>3, <2>2
         DEF ReadByte, BufferInv, TypeOK, EmptyHasRoom, CanRead, CanWrite, vars
    <2>3. QED
      BY <2>1, <2>2
  <1>4. ASSUME NEW c \in Byte, WriteByte(c)
        PROVE  BufferInv'
    <2>1. CASE CanWrite
      <3>1. 1 \in 1 .. Limit /\ 1 <= Limit - write /\ WriteAdv(<< c >>)
        BY <1>0, <1>4, <2>1 DEF WriteByte, CanWrite
      <3>2. << c >> \in [1 .. 1 -> Byte] /\ Len(<< c >>) = 1
        OBVIOUS
      <3>3. QED
        BY <3>1, <3>2, WriteAdvStep
    <2>2. CASE ~CanWrite
      BY <1>4, <2>2
         DEF WriteByte, BufferInv, TypeOK, EmptyHasRoom, CanRead, CanWrite, vars
    <2>3. QED
      BY <2>1, <2>2
  <1>5. CASE Reset
    BY <1>0, <1>5, LimitAssumption
       DEF Reset, BufferInv, TypeOK, EmptyHasRoom, CanRead, CanWrite
  <1>6. CASE Compact
    BY <1>6, CompactStep
  <1>7. CASE UNCHANGED vars
    BY <1>7 DEF BufferInv, TypeOK, EmptyHasRoom, CanRead, CanWrite, vars
  <1>8. QED
    BY <1>1, <1>2, <1>3, <1>4, <1>5, <1>6, <1>7 DEF Next

(***************************************************************************)
(* In every reachable state the pointers are ordered as buffer.h:25 says,  *)
(* so no assert of buffer.c can fail, whatever the size of the buffer.     *)
(***************************************************************************)
THEOREM PointersOrdered == Spec => []TypeOK
  <1>1. BufferInv => TypeOK
    BY DEF BufferInv
  <1>2. QED
    BY <1>1, BufferInvInit, BufferInvStep, PTL DEF Spec

(***************************************************************************)
(* In every reachable state an empty buffer offers its whole capacity, so  *)
(* forward_read never meets a buffer without room and without bytes.       *)
(***************************************************************************)
THEOREM EmptyBufferHasRoom == Spec => []EmptyHasRoom
  <1>1. BufferInv => EmptyHasRoom
    BY DEF BufferInv
  <1>2. QED
    BY <1>1, BufferInvInit, BufferInvStep, PTL DEF Spec

-----------------------------------------------------------------------------
(***************************************************************************)
(* Refinement: what each primitive does to the queue of pending bytes.     *)
(***************************************************************************)
\* The part of an array between two indexes, as a sequence.
Slice(d, r, w) == [i \in 1 .. w - r |-> d[r + i - 1]]

LEMMA SliceIsSeq ==
    ASSUME NEW d \in [Index -> Byte], NEW r \in Nat, NEW w \in Nat,
           r <= w, w <= Limit
    PROVE  /\ Slice(d, r, w) \in Seq(Byte)
           /\ Len(Slice(d, r, w)) = w - r
           /\ \A i \in 1 .. w - r : Slice(d, r, w)[i] = d[r + i - 1]
  <1>1. \A i \in 1 .. w - r : r + i - 1 \in Index
    BY LimitAssumption DEF Index
  <1>2. Slice(d, r, w) \in [1 .. w - r -> Byte]
    BY <1>1 DEF Slice
  <1>3. QED
    BY <1>2 DEF Slice

\* Before and after a step that keeps the invariant, Pending is a sequence.
LEMMA PendingIsSeq ==
    ASSUME BufferInv, BufferInv'
    PROVE  /\ Pending \in Seq(Byte)
           /\ Len(Pending) = write - read
           /\ \A i \in 1 .. write - read : Pending[i] = data[read + i - 1]
           /\ Pending' \in Seq(Byte)
           /\ Len(Pending') = write' - read'
           /\ \A i \in 1 .. write' - read' : Pending'[i] = data'[read' + i - 1]
  <1>1. Pending = Slice(data, read, write) /\ Pending' = Slice(data', read', write')
    BY DEF Pending, Slice
  <1>2. /\ data \in [Index -> Byte] /\ data' \in [Index -> Byte]
        /\ read \in Nat /\ write \in Nat /\ read <= write /\ write <= Limit
        /\ read' \in Nat /\ write' \in Nat /\ read' <= write' /\ write' <= Limit
    BY LimitAssumption DEF BufferInv, TypeOK, Index
  <1>3. QED
    BY <1>1, <1>2, SliceIsSeq

\* Consuming n bytes takes them from the front of the queue.
LEMMA ReadAdvIsGet ==
    ASSUME BufferInv, NEW n \in Nat, n <= write - read, ReadAdv(n)
    PROVE  Fifo!Get(n)
  <1>0. read \in Nat /\ write \in Nat /\ write - read \in Nat
    BY DEF BufferInv, TypeOK
  <1>1. /\ BufferInv'
        /\ write' - read' = write - read - n
        /\ \A i \in 0 .. write - read - n - 1 : data'[read' + i] = data[read + n + i]
    BY <1>0, ReadAdvStep
  <1>2. read' \in Nat /\ write' \in Nat
    BY <1>1 DEF BufferInv, TypeOK
  <1> DEFINE rest == SubSeq(Pending, n + 1, Len(Pending))
  <1>3. /\ rest \in Seq(Byte)
        /\ Len(rest) = write - read - n
        /\ \A i \in 1 .. write - read - n : rest[i] = Pending[n + i]
    <2>1. Pending \in Seq(Byte) /\ Len(Pending) = write - read
      BY <1>1, PendingIsSeq
    <2>2. \A i \in n + 1 .. Len(Pending) : Pending[i] \in Byte
      BY <2>1, <1>0
    <2>3. n + 1 \in Int /\ Len(Pending) \in Int
      BY <2>1, <1>0
    <2>4. /\ rest \in Seq(Byte)
          /\ Len(rest) = IF n + 1 <= Len(Pending) THEN Len(Pending) - (n + 1) + 1 ELSE 0
          /\ \A i \in 1 .. Len(Pending) - (n + 1) + 1 : rest[i] = Pending[n + 1 + i - 1]
      BY <2>2, <2>3, SubSeqProperties
    <2>5. \A i \in 1 .. write - read - n : n + 1 + i - 1 = n + i
      OBVIOUS
    <2>6. QED
      BY <2>1, <2>4, <2>5, <1>0
  <1>4. \A i \in 1 .. write - read - n : Pending'[i] = rest[i]
    <2>1. TAKE i \in 1 .. write - read - n
    <2>2. /\ i \in 1 .. write' - read'
          /\ i - 1 \in 0 .. write - read - n - 1
          /\ n + i \in 1 .. write - read
      <3>1. i \in Nat /\ 1 <= i /\ i <= write - read - n /\ n <= write - read
        BY <1>0
      <3>2. write' - read' = write - read - n
        BY <1>1
      <3>3. i \in 1 .. write' - read'
        BY <3>2
      <3>4. i - 1 \in 0 .. write - read - n - 1
        BY <3>1, <1>0
      <3>5. n + i \in 1 .. write - read
        BY <3>1, <1>0
      <3>6. QED
        BY <3>3, <3>4, <3>5
    <2>3. Pending'[i] = data'[read' + i - 1] /\ Pending[n + i] = data[read + (n + i) - 1]
      BY <2>2, <1>1, PendingIsSeq
    <2>4. data'[read' + (i - 1)] = data[read + n + (i - 1)]
      BY <2>2, <1>1
    <2>5. read' + i - 1 = read' + (i - 1) /\ read + (n + i) - 1 = read + n + (i - 1)
      BY <1>0, <1>2
    <2>6. QED
      BY <1>3, <2>3, <2>4, <2>5
  <1>5. Pending' = rest
    <2>1. Pending' \in Seq(Byte) /\ Len(Pending') = write - read - n
      BY <1>1, PendingIsSeq
    <2>2. QED
      BY <1>3, <1>4, <2>1, SeqEqual
  <1>6. n <= Len(Pending)
    BY <1>1, PendingIsSeq
  <1>7. QED
    BY <1>5, <1>6 DEF Fifo!Get

\* Storing received bytes appends them to the queue.
LEMMA WriteAdvIsPut ==
    ASSUME BufferInv, NEW k \in 1 .. Limit, NEW s \in [1 .. k -> Byte],
           Len(s) = k, k <= Limit - write, WriteAdv(s)
    PROVE  Fifo!Put(s)
  <1>0. /\ read \in Nat /\ write \in Nat /\ write - read \in Nat /\ k \in Nat
        /\ Limit \in Nat /\ read <= write
    BY LimitAssumption DEF BufferInv, TypeOK
  <1>1. /\ BufferInv'
        /\ read' = read
        /\ write' = write + k
        /\ \A i \in read .. write - 1 : data'[i] = data[i]
        /\ \A i \in 1 .. k : data'[write + i - 1] = s[i]
    BY WriteAdvStep
  <1>2. /\ Pending \in Seq(Byte) /\ Len(Pending) = write - read
        /\ Pending' \in Seq(Byte) /\ Len(Pending') = write - read + k
    BY <1>0, <1>1, PendingIsSeq
  <1>3. s \in Seq(Byte)
    BY <1>0
  <1>4. /\ Pending \o s \in Seq(Byte)
        /\ Len(Pending \o s) = write - read + k
        /\ \A i \in 1 .. write - read + k : (Pending \o s)[i] =
               IF i <= write - read THEN Pending[i] ELSE s[i - (write - read)]
    BY <1>2, <1>3, ConcatProperties
  <1>5. \A i \in 1 .. write - read + k : Pending'[i] = (Pending \o s)[i]
    <2>1. TAKE i \in 1 .. write - read + k
    <2>2. Pending'[i] = data'[read + i - 1]
      <3>1. i \in 1 .. write' - read'
        BY <1>0, <1>1
      <3>2. QED
        BY <3>1, <1>1, PendingIsSeq
    <2>3. CASE i <= write - read
      <3>1. read + i - 1 \in read .. write - 1 /\ i \in 1 .. write - read
        BY <1>0, <2>3
      <3>2. Pending[i] = data[read + i - 1]
        BY <3>1, <1>1, PendingIsSeq
      <3>3. data'[read + i - 1] = data[read + i - 1]
        BY <3>1, <1>1
      <3>4. QED
        BY <2>2, <2>3, <3>2, <3>3, <1>4
    <2>4. CASE ~(i <= write - read)
      <3>1. /\ i - (write - read) \in 1 .. k
            /\ write + (i - (write - read)) - 1 = read + i - 1
        BY <1>0, <2>4
      <3>2. data'[read + i - 1] = s[i - (write - read)]
        BY <3>1, <1>1
      <3>3. QED
        BY <2>2, <2>4, <3>2, <1>4
    <2>5. QED
      BY <2>3, <2>4
  <1>6. Pending' = Pending \o s
    BY <1>2, <1>4, <1>5, SeqEqual
  <1>7. Len(Pending) + Len(s) <= Limit
    BY <1>0, <1>2
  <1>8. QED
    BY <1>6, <1>7 DEF Fifo!Put

\* Compaction is invisible to the queue.
LEMMA CompactIsStutter ==
    ASSUME BufferInv, Compact
    PROVE  Pending' = Pending
  <1>1. /\ BufferInv'
        /\ write' - read' = write - read
        /\ \A i \in 0 .. write - read - 1 : data'[read' + i] = data[read + i]
    BY CompactStep
  <1>2. /\ read \in Nat /\ write \in Nat /\ write - read \in Nat
        /\ read' \in Nat /\ write' \in Nat
    BY <1>1 DEF BufferInv, TypeOK
  <1>3. \A i \in 1 .. write - read : data'[read' + i - 1] = data[read + i - 1]
    <2>1. TAKE i \in 1 .. write - read
    <2>2. i - 1 \in 0 .. write - read - 1
      BY <1>2
    <2>3. data'[read' + (i - 1)] = data[read + (i - 1)]
      BY <2>2, <1>1
    <2>4. read' + (i - 1) = read' + i - 1 /\ read + (i - 1) = read + i - 1
      BY <1>2
    <2>5. QED
      BY <2>3, <2>4
  <1>4. QED
    BY <1>1, <1>3 DEF Pending

\* Every step of the buffer is a step of the queue, or invisible to it.
LEMMA BufferStepIsFifoStep ==
    BufferInv /\ [Next]_vars => [Fifo!Next]_Pending
  <1> SUFFICES ASSUME BufferInv, [Next]_vars
               PROVE  Fifo!Next \/ Pending' = Pending
    OBVIOUS
  <1>0. /\ read \in Nat /\ write \in Nat /\ Limit \in Nat
        /\ read <= write /\ write <= Limit /\ 1 \in 1 .. Limit
    BY LimitAssumption DEF BufferInv, TypeOK
  <1>1. ASSUME NEW k \in 1 .. Limit, NEW s \in [1 .. k -> Byte], Receive(s)
        PROVE  Fifo!Next
    <2>1. Len(s) = k
      BY <1>0
    <2>2. Fifo!Put(s)
      BY <1>0, <1>1, <2>1, WriteAdvIsPut DEF Receive
    <2>3. QED
      BY <2>2 DEF Fifo!Next
  <1>2. ASSUME NEW n \in 0 .. Limit, Send(n)
        PROVE  Fifo!Next
    <2>1. Fifo!Get(n)
      BY <1>0, <1>2, ReadAdvIsGet DEF Send
    <2>2. QED
      BY <2>1 DEF Fifo!Next
  <1>3. CASE ReadByte
    <2>1. CASE CanRead
      <3>1. 1 <= write - read /\ ReadAdv(1)
        BY <1>0, <1>3, <2>1 DEF ReadByte, CanRead
      <3>2. Fifo!Get(1)
        BY <3>1, ReadAdvIsGet
      <3>3. QED
        BY <1>0, <3>2 DEF Fifo!Next
    <2>2. CASE ~CanRead
      BY <1>3, <2>2 DEF ReadByte, Pending, vars
    <2>3. QED
      BY <2>1, <2>2
  <1>4. ASSUME NEW c \in Byte, WriteByte(c)
        PROVE  Fifo!Next \/ Pending' = Pending
    <2>1. CASE CanWrite
      <3>1. 1 <= Limit - write /\ WriteAdv(<< c >>)
        BY <1>0, <1>4, <2>1 DEF WriteByte, CanWrite
      <3>2. << c >> \in [1 .. 1 -> Byte] /\ Len(<< c >>) = 1
        OBVIOUS
      <3>3. Fifo!Put(<< c >>)
        BY <1>0, <3>1, <3>2, WriteAdvIsPut
      <3>4. QED
        BY <1>0, <3>2, <3>3 DEF Fifo!Next
    <2>2. CASE ~CanWrite
      BY <1>4, <2>2 DEF WriteByte, Pending, vars
    <2>3. QED
      BY <2>1, <2>2
  <1>5. CASE Reset
    <2>1. Pending' = << >>
      BY <1>5 DEF Reset, Pending
    <2>2. QED
      BY <2>1 DEF Fifo!Next, Fifo!Clear
  <1>6. CASE Compact
    BY <1>6, CompactIsStutter
  <1>7. CASE UNCHANGED vars
    BY <1>7 DEF Pending, vars
  <1>8. QED
    BY <1>1, <1>2, <1>3, <1>4, <1>5, <1>6, <1>7 DEF Next

(***************************************************************************)
(* buffer.c implements a bounded FIFO queue: for every size, no call of    *)
(* the library ever loses, duplicates or reorders a byte.                  *)
(***************************************************************************)
THEOREM BufferImplementsFifo == Spec => ImplementsFifo
  <1>1. Init => Fifo!Init
    BY DEF Init, Fifo!Init, Pending
  <1>2. QED
    BY <1>1, BufferInvInit, BufferInvStep, BufferStepIsFifoStep, PTL
       DEF Spec, ImplementsFifo, Fifo!Spec
=============================================================================
