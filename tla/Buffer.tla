------------------------------- MODULE Buffer -------------------------------
(***************************************************************************)
(* utils/buffer.c: the buffer every connection receives into and sends     *)
(* from.  It is a linear array with a read index R and a write index W,    *)
(* compacted when it becomes empty.  The users of the buffer (state_*.c)   *)
(* receive directly into the free tail and send directly from the pending  *)
(* part, so one action of this module is one such use: the pointer         *)
(* obtained, the system call and the *_adv that follows.                   *)
(*                                                                         *)
(* buffer.h:25 documents R <= W <= limit; buffer.c asserts parts of it.    *)
(***************************************************************************)
EXTENDS Naturals, Sequences

CONSTANTS
    Limit,      \* the size passed to buffer_init (BUFFER_SIZE, 16384)
    Byte        \* the values a byte can have; abstract

ASSUME LimitAssumption == Limit \in Nat \ {0}

VARIABLES
    data,       \* the array b->data
    read,       \* b->read  - b->data
    write       \* b->write - b->data

vars == << data, read, write >>

Index == 0 .. Limit - 1

-----------------------------------------------------------------------------
CanWrite == Limit - write > 0

\* (faulty variant for the mutation tests: the check is skipped)
CanReadUnchecked == TRUE

CanRead == write - read > 0

\* (faulty variant for the mutation tests: the memmove is missing)
NotMoved == data

\* The memmove of buffer_compact: the pending bytes go to the start.
Moved ==
    [i \in Index |-> IF i < write - read THEN data[i + read] ELSE data[i]]

\* buffer_compact.
Compact ==
    /\ data'  = Moved
    /\ read'  = 0
    /\ write' = write - read

\* (faulty variant for the mutation tests: an emptied buffer is not compacted)
ReadAdvWithoutCompact(n) ==
    /\ read' = read + n
    /\ UNCHANGED << data, write >>

\* buffer_read_adv: n bytes were consumed; an emptied buffer is compacted,
\* which then moves no byte.
ReadAdv(n) ==
    IF read + n = write
      THEN /\ read' = 0
           /\ write' = 0
           /\ UNCHANGED data
      ELSE /\ read' = read + n
           /\ UNCHANGED << data, write >>

\* buffer_write_adv after s was stored from the write pointer on.
WriteAdv(s) ==
    /\ data' = [i \in Index |->
                  IF i >= write /\ i < write + Len(s) THEN s[i - write + 1]
                                                      ELSE data[i]]
    /\ write' = write + Len(s)
    /\ UNCHANGED read

Init ==
    /\ data \in [Index -> Byte]
    /\ read = 0
    /\ write = 0

\* recv(fd, buffer_write_ptr(b, &n), n) returned the bytes s.
Receive(s) ==
    /\ Len(s) \in 1 .. Limit - write
    /\ WriteAdv(s)

\* send(fd, buffer_read_ptr(b, &n), n) accepted n bytes.
Send(n) ==
    /\ n \in 0 .. write - read
    /\ ReadAdv(n)

\* buffer_read: one byte, or 0 and no change when there is none.
ReadByte ==
    IF CanRead THEN ReadAdv(1) ELSE UNCHANGED vars

\* buffer_write: one byte, silently dropped when there is no room.
WriteByte(c) ==
    IF CanWrite THEN WriteAdv(<< c >>) ELSE UNCHANGED vars

\* buffer_reset.
Reset ==
    /\ read' = 0
    /\ write' = 0
    /\ UNCHANGED data

Next ==
    \/ \E k \in 1 .. Limit : \E s \in [1 .. k -> Byte] : Receive(s)
    \/ \E n \in 0 .. Limit : Send(n)
    \/ ReadByte
    \/ \E c \in Byte : WriteByte(c)
    \/ Reset
    \/ Compact

Spec == Init /\ [][Next]_vars

-----------------------------------------------------------------------------
(***************************************************************************)
(* Type correctness, with the documented order of the pointers (buffer.h   *)
(* line 25): 0 <= R <= W <= limit.  Every assert of buffer.c follows.      *)
(***************************************************************************)
TypeOK ==
    /\ data \in [Index -> Byte]
    /\ read \in 0 .. Limit
    /\ write \in read .. Limit

(***************************************************************************)
(* An empty buffer offers its whole capacity again.  forward_read relies   *)
(* on it: it parks a reader with OP_NOOP when the buffer has no room, and  *)
(* only a writer that drains pending bytes wakes it up, so a buffer with   *)
(* neither room nor bytes would stop the direction for ever.               *)
(***************************************************************************)
EmptyHasRoom == ~CanRead => write = 0 /\ CanWrite

\* The bytes received and not yet sent, oldest first.
Pending == [i \in 1 .. write - read |-> data[read + i - 1]]

Fifo == INSTANCE BoundedFifo WITH Capacity <- Limit, q <- Pending

(***************************************************************************)
(* The buffer is a bounded FIFO queue: compaction and the reuse of the     *)
(* array never lose, duplicate or reorder a pending byte.                  *)
(***************************************************************************)
ImplementsFifo == Fifo!Spec
=============================================================================
