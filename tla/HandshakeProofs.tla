-------------------------- MODULE HandshakeProofs --------------------------
(* Proofs about Handshake.tla, for every value of its constants.            *)
EXTENDS Handshake, SequenceTheorems, WellFoundedInduction, TLAPS

-----------------------------------------------------------------------------
(***************************************************************************)
(* Sequences.                                                              *)
(***************************************************************************)
\* A part of a sequence is a sequence of the same elements, and its length is
\* that of the part.
LEMMA PartType ==
    ASSUME NEW S, NEW s \in Seq(S), NEW m \in Nat, NEW n \in Int,
           1 <= m, n <= Len(s)
    PROVE  /\ SubSeq(s, m, n) \in Seq(S)
           /\ Len(SubSeq(s, m, n)) = IF m <= n THEN n - m + 1 ELSE 0
<1>1. \A i \in m .. n : s[i] \in S
  <2>. TAKE i \in m .. n
  <2>1. i \in 1 .. Len(s)
    OBVIOUS
  <2>. QED
    BY <2>1, ElementOfSeq, SMTT(60)
<1>. QED
  BY <1>1, SubSeqProperties, SMT

\* A sequence is what comes first followed by the rest.
LEMMA Split ==
    ASSUME NEW S, NEW s \in Seq(S), NEW n \in 0 .. Len(s)
    PROVE  /\ SubSeq(s, 1, n) \in Seq(S)
           /\ SubSeq(s, n + 1, Len(s)) \in Seq(S)
           /\ Len(SubSeq(s, n + 1, Len(s))) = Len(s) - n
           /\ SubSeq(s, 1, n) \o SubSeq(s, n + 1, Len(s)) = s
<1>1. Len(s) \in Nat
  OBVIOUS
<1>2. /\ SubSeq(s, 1, n) \in Seq(S)
      /\ SubSeq(s, n + 1, Len(s)) \in Seq(S)
      /\ Len(SubSeq(s, n + 1, Len(s))) = Len(s) - n
  BY <1>1, PartType
<1>3. SubSeq(s, 1, n) \o SubSeq(s, n + 1, Len(s)) = SubSeq(s, 1, Len(s))
  <2>1. 1 \in 1 .. Len(s) + 1 /\ n \in 1 - 1 .. Len(s) /\ Len(s) \in n .. Len(s)
    BY <1>1
  <2>. QED
    BY <2>1, ConcatAdjacentSubSeq
<1>4. SubSeq(s, 1, Len(s)) = s
  BY SubSeqFull
<1>. QED
  BY <1>2, <1>3, <1>4

\* A set of natural numbers that is not empty has a least element.
LEMMA LeastElement ==
    ASSUME NEW T \in SUBSET Nat, T # {}
    PROVE  \E i \in T : \A j \in T : i <= j
<1>. DEFINE R == OpToRel(<, Nat)
<1>1. IsWellFoundedOn(R, Nat)
  BY NatLessThanWellFounded
<1>2. PICK i \in T : \A j \in T : << j, i >> \notin R
  <2>. HIDE DEF R
  <2>. QED
    BY <1>1, WFMin
<1>3. \A j \in T : ~(j < i)
  BY <1>2 DEF OpToRel
<1>. QED
  BY <1>3

\* Concatenation is associative.
LEMMA Regroup ==
    \A a, b, c \in Seq(Nat) : (a \o b) \o c = a \o (b \o c)
<1>1. ASSUME NEW a \in Seq(Nat), NEW b \in Seq(Nat), NEW c \in Seq(Nat)
      PROVE  (a \o b) \o c = a \o (b \o c)
  BY ConcatAssociative, SMTT(60)
<1>. QED
  BY <1>1

LEMMA RegroupBytes ==
    \A a, b, c \in Seq(Byte) : (a \o b) \o c = a \o (b \o c)
<1>1. ASSUME NEW a \in Seq(Byte), NEW b \in Seq(Byte), NEW c \in Seq(Byte)
      PROVE  (a \o b) \o c = a \o (b \o c)
  BY ConcatAssociative
<1>. QED
  BY <1>1

\* What a sequence begins with is where it was.
LEMMA Begins ==
    ASSUME NEW S, NEW a \in Seq(S), NEW b \in Seq(S)
    PROVE  /\ Len(a) \in Nat /\ Len(b) \in Nat /\ Len(a \o b) = Len(a) + Len(b)
           /\ \A i \in 1 .. Len(a) : (a \o b)[i] = a[i]
<1>1. Len(a) \in Nat /\ Len(b) \in Nat /\ Len(a \o b) = Len(a) + Len(b)
  BY ConcatProperties
<1>2. ASSUME NEW i \in 1 .. Len(a)
      PROVE  (a \o b)[i] = a[i]
  <2>1. i \in 1 .. Len(a) + Len(b) /\ i <= Len(a)
    BY <1>1
  <2>. QED
    BY <2>1, ConcatProperties
<1>. QED
  BY <1>1, <1>2

\* What comes next is where the first part ends.
LEMMA Follows ==
    ASSUME NEW S, NEW a \in Seq(S), NEW b \in Seq(S), NEW i \in 1 .. Len(b)
    PROVE  (a \o b)[Len(a) + i] = b[i]
<1>1. Len(a) \in Nat /\ Len(b) \in Nat
  OBVIOUS
<1>2. PICK k \in Nat : k = Len(a) + i
  BY <1>1
<1>3. k \in 1 .. Len(a) + Len(b) /\ ~(k <= Len(a)) /\ k - Len(a) = i
  BY <1>1, <1>2
<1>4. (a \o b)[k] = b[k - Len(a)]
  BY <1>3, ConcatProperties
<1>. QED
  BY <1>2, <1>3, <1>4

\* The middle of three parts.
LEMMA Middle ==
    ASSUME NEW S, NEW a \in Seq(S), NEW b \in Seq(S), NEW c \in Seq(S)
    PROVE  SubSeq(a \o (b \o c), Len(a) + 1, Len(a) + Len(b)) = b
<1>. DEFINE t == b \o c
            s == a \o t
            r == SubSeq(s, Len(a) + 1, Len(a) + Len(b))
<1>1. /\ t \in Seq(S) /\ Len(t) = Len(b) + Len(c)
      /\ Len(a) \in Nat /\ Len(b) \in Nat /\ Len(c) \in Nat
      /\ \A i \in 1 .. Len(b) : t[i] = b[i]
  BY Begins, ConcatProperties
<1>. HIDE DEF t
<1>2. s \in Seq(S) /\ Len(s) = Len(a) + Len(t)
  BY <1>1, ConcatProperties
<1>3. ASSUME NEW i \in 1 .. Len(b)
      PROVE  s[Len(a) + i] = b[i]
  <2>1. i \in 1 .. Len(t)
    BY <1>1
  <2>. QED
    BY <1>1, <2>1, Follows
<1>. HIDE DEF s
<1>. DEFINE m == Len(a) + 1
            n == Len(a) + Len(b)
<1>4. /\ m \in Int /\ n \in Int /\ n - m + 1 = Len(b)
      /\ m <= n => n - m + 1 = Len(b)
      /\ ~(m <= n) => Len(b) = 0
      /\ \A i \in 1 .. Len(b) : m + i - 1 = Len(a) + i
  BY <1>1
<1>5. \A i \in m .. n : s[i] \in S
  <2>. TAKE i \in m .. n
  <2>1. i \in 1 .. Len(s)
    BY <1>1, <1>2
  <2>. QED
    BY <1>2, <2>1, ElementOfSeq
<1>. HIDE DEF m, n
<1>6. /\ SubSeq(s, m, n) \in Seq(S)
      /\ Len(SubSeq(s, m, n)) = Len(b)
      /\ \A i \in 1 .. n - m + 1 : SubSeq(s, m, n)[i] = s[m + i - 1]
  BY <1>4, <1>5, SubSeqProperties
<1>7. \A i \in 1 .. Len(b) : SubSeq(s, m, n)[i] = b[i]
  BY <1>3, <1>4, <1>6
<1>8. SubSeq(s, m, n) = b
  BY <1>6, <1>7, SeqEqual
<1>. QED
  BY <1>8 DEF m, n, s, t

\* The last of two parts.
LEMMA Ending ==
    ASSUME NEW S, NEW a \in Seq(S), NEW b \in Seq(S)
    PROVE  SubSeq(a \o b, Len(a) + 1, Len(a) + Len(b)) = b
<1>1. << >> \in Seq(S) /\ b \o << >> = b
  BY EmptySeq, ConcatEmptySeq
<1>2. SubSeq(a \o (b \o << >>), Len(a) + 1, Len(a) + Len(b)) = b
  BY <1>1, Middle
<1>. QED
  BY <1>1, <1>2

\* Two ways to cut a sequence: without what the second begins with, the first goes on
\* as the second does.
LEMMA Dropped ==
    ASSUME NEW a \in Seq(Byte), NEW w \in Seq(Byte), NEW h \in Seq(Byte), NEW t \in Seq(Byte),
           Len(h) <= Len(a)
    PROVE  a \o w = h \o t => SubSeq(a, Len(h) + 1, Len(a)) \o w = t
<1>. DEFINE f == SubSeq(a, 1, Len(h))
            r == SubSeq(a, Len(h) + 1, Len(a))
<1>1. Len(h) \in Nat /\ Len(a) \in Nat /\ Len(w) \in Nat /\ Len(t) \in Nat
  OBVIOUS
<1>2. Len(h) \in 0 .. Len(a)
  BY <1>1
<1>3. f \in Seq(Byte) /\ r \in Seq(Byte)
  BY <1>2, Split
<1>4. Len(r) = Len(a) - Len(h) /\ f \o r = a
  BY <1>2, Split
<1>. HIDE DEF f, r
<1>5. /\ r \o w \in Seq(Byte) /\ Len(r \o w) = Len(r) + Len(w)
      /\ Len(f \o r) = Len(f) + Len(r) /\ Len(f) \in Nat
      /\ Len(a \o w) = Len(a) + Len(w) /\ Len(h \o t) = Len(h) + Len(t)
  BY <1>3, ConcatProperties
<1>6. (f \o r) \o w = f \o (r \o w)
  <2>1. \A b, c \in Seq(Byte) : (f \o b) \o c = f \o (b \o c)
    BY <1>3, RegroupBytes, ZenonT(60)
  <2>. QED
    BY <1>3, <2>1, ZenonT(60)
<1>7. /\ SubSeq(f \o (r \o w), Len(f) + 1, Len(f) + Len(r \o w)) = r \o w
      /\ SubSeq(h \o t, Len(h) + 1, Len(h) + Len(t)) = t
  BY <1>3, <1>5, Ending
<1>. SUFFICES ASSUME a \o w = h \o t PROVE r \o w = t
  BY DEF r
<1>8. Len(f) = Len(h) /\ Len(r \o w) = Len(t)
  BY <1>1, <1>4, <1>5, SMTT(60)
<1>9. f \o (r \o w) = h \o t
  BY <1>4, <1>6, Zenon
<1>. QED
  BY <1>7, <1>8, <1>9

\* The same for bytes, in a form the provers instantiate by themselves.
LEMMA JoinBytes ==
    \A a, b \in Seq(Byte) :
        /\ a \o b \in Seq(Byte) /\ Len(a \o b) = Len(a) + Len(b)
        /\ Len(a) \in Nat /\ Len(b) \in Nat
        /\ \A i \in 1 .. Len(a) : (a \o b)[i] = a[i]
        /\ \A i \in 1 .. Len(b) : (a \o b)[Len(a) + i] = b[i]
<1>1. ASSUME NEW a \in Seq(Byte), NEW b \in Seq(Byte)
      PROVE  /\ a \o b \in Seq(Byte) /\ Len(a \o b) = Len(a) + Len(b)
             /\ Len(a) \in Nat /\ Len(b) \in Nat
             /\ \A i \in 1 .. Len(a) : (a \o b)[i] = a[i]
             /\ \A i \in 1 .. Len(b) : (a \o b)[Len(a) + i] = b[i]
  <2>1. a \o b \in Seq(Byte)
    BY ConcatProperties
  <2>2. /\ Len(a) \in Nat /\ Len(b) \in Nat /\ Len(a \o b) = Len(a) + Len(b)
        /\ \A i \in 1 .. Len(a) : (a \o b)[i] = a[i]
    BY Begins
  <2>3. \A i \in 1 .. Len(b) : (a \o b)[Len(a) + i] = b[i]
    BY Follows
  <2>. QED
    BY <2>1, <2>2, <2>3
<1>. QED
  BY <1>1

-----------------------------------------------------------------------------
(***************************************************************************)
(* Sending a reply.                                                        *)
(***************************************************************************)
\* What the client has been told, and what waits to be sent.
Says(s) == s.told \o s.reply

\* Whatever send() takes, a session goes on saying what it had to say: it has
\* failed, or said all of it, or some is left.
LEMMA SendLeaves ==
    ASSUME NEW s \in Session, NEW least \in Nat, NEW next \in State,
           NEW then \in {"R", "W"}, NEW current \in State,
           NEW r \in Send(s, least, next, then, current)
    PROVE  /\ r \in Session
           /\ r.buf = s.buf /\ r.used = s.used
           /\ r.user = s.user /\ r.heard = s.heard
           /\ \/ r.state = "ERROR"
              \/ /\ r.state = next /\ r.interest = then
                 /\ r.told = Says(s) /\ r.reply = << >>
              \/ /\ r.state = current /\ r.interest = s.interest
                 /\ Says(r) = Says(s) /\ r.reply # << >>
<1>1. s.told \in Seq(Nat) /\ s.reply \in Seq(Nat) /\ Len(s.reply) \in Nat
  BY DEF Session
<1>2. CASE r = Failed(s)
  BY <1>2 DEF Failed, Session, State
<1>3. ASSUME NEW k \in least .. Len(s.reply),
             r = [s EXCEPT !.told     = @ \o SubSeq(s.reply, 1, k),
                           !.reply    = SubSeq(s.reply, k + 1, Len(s.reply)),
                           !.state    = IF k = Len(s.reply) THEN next ELSE current,
                           !.interest = IF k = Len(s.reply) THEN then ELSE @]
      PROVE  /\ r \in Session
             /\ r.buf = s.buf /\ r.used = s.used
             /\ r.user = s.user /\ r.heard = s.heard
             /\ \/ /\ r.state = next /\ r.interest = then
                   /\ r.told = Says(s) /\ r.reply = << >>
                \/ /\ r.state = current /\ r.interest = s.interest
                   /\ Says(r) = Says(s) /\ r.reply # << >>
  <2>. DEFINE first == SubSeq(s.reply, 1, k)
              rest  == SubSeq(s.reply, k + 1, Len(s.reply))
  <2>1. k \in 0 .. Len(s.reply)
    BY <1>1
  <2>2. /\ first \in Seq(Nat) /\ rest \in Seq(Nat)
        /\ Len(rest) = Len(s.reply) - k /\ first \o rest = s.reply
    BY <1>1, <2>1, Split
  <2>. HIDE DEF first, rest
  <2>3. /\ s.told \o first \in Seq(Nat)
        /\ (s.told \o first) \o rest = s.told \o s.reply
    <3>1. s.told \o first \in Seq(Nat)
      BY <1>1, <2>2, ConcatProperties
    <3>2. (s.told \o first) \o rest = s.told \o (first \o rest)
      BY <1>1, <2>2, Regroup, Zenon
    <3>. QED
      BY <2>2, <3>1, <3>2, Zenon
  <2>4. r = [s EXCEPT !.told     = s.told \o first, !.reply = rest,
                      !.state    = IF k = Len(s.reply) THEN next ELSE current,
                      !.interest = IF k = Len(s.reply) THEN then ELSE s.interest]
    BY <1>3 DEF first, rest
  <2>5. /\ r \in Session
        /\ r.buf = s.buf /\ r.used = s.used /\ r.user = s.user /\ r.heard = s.heard
        /\ r.told = s.told \o first /\ r.reply = rest
        /\ r.state = IF k = Len(s.reply) THEN next ELSE current
        /\ r.interest = IF k = Len(s.reply) THEN then ELSE s.interest
    BY <2>2, <2>3, <2>4 DEF Session
  <2>6. CASE k = Len(s.reply)
    <3>1. rest = << >>
      BY <2>2, <2>6, EmptySeq
    <3>2. s.told \o first = s.told \o s.reply
      BY <2>3, <3>1, ConcatEmptySeq
    <3>. QED
      BY <2>5, <2>6, <3>1, <3>2 DEF Says
  <2>7. CASE k # Len(s.reply)
    <3>1. rest # << >>
      BY <2>1, <2>2, <2>7, <1>1, EmptySeq
    <3>. QED
      BY <2>3, <2>5, <2>7, <3>1 DEF Says
  <2>. QED
    BY <2>5, <2>6, <2>7
<1>. QED
  BY <1>2, <1>3 DEF Send

-----------------------------------------------------------------------------
(***************************************************************************)
(* Reading: the types of what the parsers take out of the buffer.          *)
(***************************************************************************)
\* Pending and used bytes are within the buffer.
BufferFits(s) == s.used + Len(s.buf) <= Capacity

LEMMA ZeroIsByte == 0 \in Byte
  BY HandshakeAssumption, SMT DEF Byte, UNSUPPORTED_COMMAND

LEMMA ByteAtType ==
    ASSUME NEW s \in Session, NEW i \in Nat \ {0}
    PROVE  ByteAt(s, i) \in Byte
<1>1. s.buf \in Seq(Byte) /\ Len(s.buf) \in Nat
  BY DEF Session
<1>2. CASE i <= Len(s.buf)
  <2>1. i \in 1 .. Len(s.buf)
    BY <1>1, <1>2
  <2>. QED
    BY <1>1, <1>2, <2>1, ElementOfSeq DEF ByteAt
<1>3. CASE ~(i <= Len(s.buf))
  BY <1>3, ZeroIsByte DEF ByteAt
<1>. QED
  BY <1>2, <1>3

\* A byte is a number.
LEMMA ByteIsNat == \A b \in Byte : b \in Nat /\ b < ByteMod
  BY HandshakeAssumption, SMT DEF Byte, UNSUPPORTED_COMMAND

LEMMA BytesAtType ==
    ASSUME NEW s \in Session, NEW i \in Nat \ {0}, NEW n \in Nat
    PROVE  BytesAt(s, i, n) \in Seq(Byte) /\ Len(BytesAt(s, i, n)) \in Nat
<1>. DEFINE end == Least(i + n - 1, Len(s.buf))
<1>1. s.buf \in Seq(Byte) /\ Len(s.buf) \in Nat
  BY DEF Session
<1>2. end \in Int /\ end <= Len(s.buf)
  BY <1>1 DEF Least
<1>. HIDE DEF end
<1>3. SubSeq(s.buf, i, end) \in Seq(Byte)
  BY <1>1, <1>2, PartType
<1>. QED
  BY <1>3 DEF BytesAt, end

LEMMA CStringType ==
    ASSUME NEW b \in Seq(Byte)
    PROVE  CString(b) \in Seq(Byte)
<1>. DEFINE ends == { i \in DOMAIN b : b[i] = 0 }
            first == CHOOSE i \in ends : \A j \in ends : i <= j
<1>1. Len(b) \in Nat /\ DOMAIN b = 1 .. Len(b)
  OBVIOUS
<1>2. CASE ends = {}
  BY <1>2 DEF CString
<1>3. CASE ends # {}
  <2>1. ends \in SUBSET Nat
    BY <1>1
  <2>2. \E i \in ends : \A j \in ends : i <= j
    BY <1>3, <2>1, LeastElement
  <2>3. first \in ends
    BY <2>2
  <2>4. first - 1 \in Int /\ first - 1 <= Len(b)
    BY <1>1, <2>3
  <2>5. CString(b) = SubSeq(b, 1, first - 1)
    BY <1>3 DEF CString
  <2>. HIDE DEF first
  <2>. QED
    BY <1>1, <2>4, <2>5, PartType
<1>. QED
  BY <1>2, <1>3

\* Eating changes nothing but the buffer, which still fits.
LEMMA EatType ==
    ASSUME NEW s \in Session, BufferFits(s), NEW n \in Nat
    PROVE  /\ Eat(s, n) \in Session /\ BufferFits(Eat(s, n))
           /\ \E b \in Seq(Byte), u \in Nat :
                /\ Eat(s, n) = [s EXCEPT !.buf = b, !.used = u]
                /\ u + Len(b) <= Capacity
<1>1. s.buf \in Seq(Byte) /\ Len(s.buf) \in Nat /\ s.used \in Nat
  BY DEF Session
<1>2. \E b \in Seq(Byte), u \in Nat :
         /\ Eat(s, n) = [s EXCEPT !.buf = b, !.used = u]
         /\ u + Len(b) <= Capacity
  <2>1. CASE n >= Len(s.buf)
    <3>1. << >> \in Seq(Byte) /\ Len(<< >>) = 0
      OBVIOUS
    <3>2. Eat(s, n) = [s EXCEPT !.buf = << >>, !.used = 0]
      BY <2>1 DEF Eat
    <3>3. 0 + Len(<< >>) <= Capacity
      BY HandshakeAssumption
    <3>. QED
      BY <3>1, <3>2, <3>3
  <2>2. CASE ~(n >= Len(s.buf))
    <3>. DEFINE rest == SubSeq(s.buf, n + 1, Len(s.buf))
    <3>1. rest \in Seq(Byte) /\ Len(rest) = Len(s.buf) - n
      BY <1>1, <2>2, PartType
    <3>2. Eat(s, n) = [s EXCEPT !.buf = rest, !.used = s.used + n]
      BY <2>2 DEF Eat
    <3>. HIDE DEF rest
    <3>3. s.used + n \in Nat /\ (s.used + n) + Len(rest) <= Capacity
      BY <1>1, <3>1, HandshakeAssumption DEF BufferFits
    <3>. QED
      BY <3>1, <3>2, <3>3
  <2>. QED
    BY <2>1, <2>2
<1>3. PICK b \in Seq(Byte), u \in Nat :
         /\ Eat(s, n) = [s EXCEPT !.buf = b, !.used = u]
         /\ u + Len(b) <= Capacity
  BY <1>2
<1>4. Eat(s, n) \in Session /\ BufferFits(Eat(s, n))
  BY <1>3 DEF Session, BufferFits
<1>. QED
  BY <1>2, <1>4

-----------------------------------------------------------------------------
(***************************************************************************)
(* What a session has said and has still to say fits its state.            *)
(***************************************************************************)
LoggedIn(s) == s.user = "account" /\ s.heard.login \cap Accounts # {}

Admitted(s) ==
    \/ s.told = LetIn /\ s.user = "anonymous"
    \/ s.told = Accepted /\ LoggedIn(s)

\* A reply is told and still to be told to its end before the state that follows
\* it; a session in HELLO_TO_AUTH without a reply is one whose login failed.
Spoken(s) ==
    /\ s.state = "HELLO" /\ s.interest = "R" => s.told = << >>
    /\ s.state = "HELLO" /\ s.interest = "W" =>
         Says(s) = LetIn /\ s.user = "anonymous"
    /\ s.state \in { "HELLO", "AUTH" } /\ s.interest = "W" => s.reply # << >>
    /\ s.state \in { "HELLO_TO_AUTH", "AUTH_FAILED" } => s.interest = "W"
    /\ s.state = "HELLO_TO_AUTH" /\ s.reply # << >> => Says(s) = LogIn
    /\ s.state = "HELLO_TO_AUTH" /\ s.reply = << >> => s.told = Rejected
    /\ s.state = "AUTH_FAILED" => Says(s) = Rejected
    /\ s.state = "AUTH" /\ s.interest = "R" => s.told = LogIn
    /\ s.state = "AUTH" /\ s.interest = "W" => Says(s) = Accepted /\ LoggedIn(s)
    /\ s.state = "REQUEST" /\ s.interest = "R" => Admitted(s)
    /\ s.state \in { "CONNECT", "RESOLVE" } => Admitted(s)

Good(s) == s \in Session /\ BufferFits(s) /\ Spoken(s)

\* A session that has failed is good, whatever it was.
LEMMA FailedIsGood ==
    ASSUME NEW s \in Session, BufferFits(s)
    PROVE  Good(Failed(s))
  BY DEF Good, Failed, Session, State, Open, BufferFits, Spoken

LEMMA SameBufferFits ==
    ASSUME NEW s \in Session, BufferFits(s), NEW r \in Session,
           r.buf = s.buf, r.used = s.used
    PROVE  BufferFits(r)
  BY DEF BufferFits

\* The method without authentication is told.
LEMMA HelloWriteGood ==
    ASSUME NEW s \in Session, BufferFits(s), NEW least \in Nat,
           s.interest = "W", Says(s) = LetIn, s.user = "anonymous",
           NEW r \in HelloWrite(s, least)
    PROVE  Good(r)
<1>1. r \in Send(s, least, "REQUEST", "R", "HELLO")
  BY DEF HelloWrite
<1>2. { "REQUEST", "HELLO" } \subseteq State
  BY DEF State, Open
<1>3. /\ r \in Session /\ r.buf = s.buf /\ r.used = s.used /\ r.user = s.user
      /\ \/ r.state = "ERROR"
         \/ r.state = "REQUEST" /\ r.interest = "R" /\ r.told = Says(s)
         \/ /\ r.state = "HELLO" /\ r.interest = s.interest
            /\ Says(r) = Says(s) /\ r.reply # << >>
  BY <1>1, <1>2, SendLeaves
<1>. QED
  BY <1>3, SameBufferFits DEF Good, Spoken, Admitted

\* The method with authentication is told.
LEMMA HelloToAuthWriteGood ==
    ASSUME NEW s \in Session, BufferFits(s), NEW least \in Nat,
           s.interest = "W",
           IF s.reply # << >> THEN Says(s) = LogIn ELSE s.told = Rejected,
           NEW r \in HelloToAuthWrite(s, least)
    PROVE  Good(r)
<1>1. CASE s.reply = << >>
  <2>1. r = [s EXCEPT !.state = "HELLO_TO_AUTH"]
    BY <1>1 DEF HelloToAuthWrite
  <2>. QED
    BY <1>1, <2>1 DEF Good, Session, State, Open, BufferFits, Spoken
<1>2. CASE s.reply # << >>
  <2>1. r \in Send(s, least, "AUTH", "R", "HELLO_TO_AUTH")
    BY <1>2 DEF HelloToAuthWrite
  <2>2. { "AUTH", "HELLO_TO_AUTH" } \subseteq State
    BY DEF State, Open
  <2>3. /\ r \in Session /\ r.buf = s.buf /\ r.used = s.used
        /\ \/ r.state = "ERROR"
           \/ r.state = "AUTH" /\ r.interest = "R" /\ r.told = Says(s)
           \/ /\ r.state = "HELLO_TO_AUTH" /\ r.interest = s.interest
              /\ Says(r) = Says(s) /\ r.reply # << >>
    BY <2>1, <2>2, SendLeaves
  <2>. QED
    BY <1>2, <2>3, SameBufferFits DEF Good, Spoken
<1>. QED
  BY <1>1, <1>2

\* The success of a login is told.
LEMMA AuthWriteGood ==
    ASSUME NEW s \in Session, BufferFits(s), NEW least \in Nat,
           s.interest = "W", Says(s) = Accepted, LoggedIn(s),
           NEW r \in AuthWrite(s, least)
    PROVE  Good(r)
<1>1. r \in Send(s, least, "REQUEST", "R", "AUTH")
  BY DEF AuthWrite
<1>2. { "REQUEST", "AUTH" } \subseteq State
  BY DEF State, Open
<1>3. /\ r \in Session /\ r.buf = s.buf /\ r.used = s.used
      /\ r.user = s.user /\ r.heard = s.heard
      /\ \/ r.state = "ERROR"
         \/ r.state = "REQUEST" /\ r.interest = "R" /\ r.told = Says(s)
         \/ /\ r.state = "AUTH" /\ r.interest = s.interest
            /\ Says(r) = Says(s) /\ r.reply # << >>
  BY <1>1, <1>2, SendLeaves
<1>. QED
  BY <1>3, SameBufferFits DEF Good, Spoken, Admitted, LoggedIn

\* The failure of a login is told: what follows has nothing to say.
LEMMA AuthFailedWriteGood ==
    ASSUME NEW s \in Session, BufferFits(s), NEW least \in Nat,
           s.interest = "W", Says(s) = Rejected,
           NEW r \in AuthFailedWrite(s, least)
    PROVE  Good(r)
<1>1. r \in Send(s, least, "HELLO_TO_AUTH", "W", "AUTH_FAILED")
  BY DEF AuthFailedWrite
<1>2. { "HELLO_TO_AUTH", "AUTH_FAILED" } \subseteq State
  BY DEF State, Open
<1>3. /\ r \in Session /\ r.buf = s.buf /\ r.used = s.used
      /\ \/ r.state = "ERROR"
         \/ /\ r.state = "HELLO_TO_AUTH" /\ r.interest = "W"
            /\ r.told = Says(s) /\ r.reply = << >>
         \/ r.state = "AUTH_FAILED" /\ r.interest = s.interest /\ Says(r) = Says(s)
  BY <1>1, <1>2, SendLeaves
<1>. QED
  BY <1>3, SameBufferFits DEF Good, Spoken

\* A refusal is told.
LEMMA RequestWriteGood ==
    ASSUME NEW s \in Session, BufferFits(s), NEW least \in Nat, s.interest = "W",
           NEW r \in RequestWrite(s, least)
    PROVE  Good(r)
<1>1. r \in Send(s, least, "DONE", "W", "REQUEST")
  BY DEF RequestWrite
<1>2. { "DONE", "REQUEST" } \subseteq State
  BY DEF State, Open
<1>3. /\ r \in Session /\ r.buf = s.buf /\ r.used = s.used
      /\ \/ r.state = "ERROR"
         \/ r.state = "DONE"
         \/ r.state = "REQUEST" /\ r.interest = s.interest
  BY <1>1, <1>2, SendLeaves
<1>. QED
  BY <1>3, SameBufferFits DEF Good, Spoken

\* Every writer.
LEMMA WriteGood ==
    ASSUME NEW s, Good(s), s.state \in Open, s.interest = "W", NEW r \in Write(s)
    PROVE  Good(r)
<1>1. s \in Session /\ BufferFits(s) /\ 1 \in Nat
  BY DEF Good
<1>2. CASE s.state = "HELLO"
  <2>1. r \in HelloWrite(s, 1) /\ Says(s) = LetIn /\ s.user = "anonymous"
    BY <1>2 DEF Write, Good, Spoken
  <2>. QED
    BY <1>1, <2>1, HelloWriteGood
<1>3. CASE s.state = "HELLO_TO_AUTH"
  <2>1. /\ r \in HelloToAuthWrite(s, 1)
        /\ IF s.reply # << >> THEN Says(s) = LogIn ELSE s.told = Rejected
    BY <1>3 DEF Write, Good, Spoken
  <2>. QED
    BY <1>1, <2>1, HelloToAuthWriteGood
<1>4. CASE s.state = "AUTH"
  <2>1. r \in AuthWrite(s, 1) /\ Says(s) = Accepted /\ LoggedIn(s)
    BY <1>4 DEF Write, Good, Spoken
  <2>. QED
    BY <1>1, <2>1, AuthWriteGood
<1>5. CASE s.state = "AUTH_FAILED"
  <2>1. r \in AuthFailedWrite(s, 1) /\ Says(s) = Rejected
    BY <1>5 DEF Write, Good, Spoken
  <2>. QED
    BY <1>1, <2>1, AuthFailedWriteGood
<1>6. CASE s.state = "REQUEST"
  <2>1. r \in RequestWrite(s, 1)
    BY <1>6 DEF Write
  <2>. QED
    BY <1>1, <2>1, RequestWriteGood
<1>. QED
  BY <1>2, <1>3, <1>4, <1>5, <1>6 DEF Open

-----------------------------------------------------------------------------
(***************************************************************************)
(* The parsers leave a good session, whatever has arrived.                 *)
(***************************************************************************)
\* Eating before a parser has decided anything leaves a good session good.
LEMMA EatGood ==
    ASSUME NEW s, Good(s), NEW n \in Nat
    PROVE  /\ Good(Eat(s, n))
           /\ Eat(s, n).state = s.state /\ Eat(s, n).interest = s.interest
           /\ Eat(s, n).told = s.told /\ Eat(s, n).reply = s.reply
           /\ Eat(s, n).user = s.user /\ Eat(s, n).heard = s.heard
<1>1. s \in Session /\ BufferFits(s) /\ Spoken(s)
  BY DEF Good
<1>2. PICK b \in Seq(Byte), u \in Nat :
         /\ Eat(s, n) = [s EXCEPT !.buf = b, !.used = u]
         /\ u + Len(b) <= Capacity
  BY <1>1, EatType
<1>3. /\ Eat(s, n).state = s.state /\ Eat(s, n).interest = s.interest
      /\ Eat(s, n).told = s.told /\ Eat(s, n).reply = s.reply
      /\ Eat(s, n).user = s.user /\ Eat(s, n).heard = s.heard
  BY <1>1, <1>2 DEF Session
<1>4. Spoken(Eat(s, n))
  BY <1>1, <1>3 DEF Spoken, Says, Admitted, LoggedIn
<1>. QED
  BY <1>1, <1>3, <1>4, EatType DEF Good

LEMMA GreetedGood ==
    ASSUME NEW s, Good(s), s.told = << >>,
           NEW method \in { AUTH_METHOD, NO_AUTH_METHOD },
           NEW r \in Greeted(s, method)
    PROVE  Good(r)
<1>. DEFINE reply == << SOCKS5_VERSION, method >>
            t == [s EXCEPT !.reply = reply, !.interest = "W",
                           !.heard.method = @ \cup {method}]
            u == [t EXCEPT !.user = "anonymous"]
<1>1. s \in Session /\ BufferFits(s)
  BY DEF Good
<1>2. reply \in Seq(Nat) /\ method \in Nat /\ reply # << >>
  BY DEF SOCKS5_VERSION, AUTH_METHOD, NO_AUTH_METHOD
<1>3. /\ t \in Session /\ BufferFits(t)
      /\ t.interest = "W" /\ t.told = << >> /\ t.reply = reply
  BY <1>1, <1>2 DEF Session, BufferFits
<1>4. Says(t) = reply
  BY <1>2, <1>3, ConcatEmptySeq DEF Says
<1>5. CASE method = AUTH_METHOD
  <2>1. r \in HelloToAuthWrite(t, 0)
    BY <1>5 DEF Greeted
  <2>2. Says(t) = LogIn /\ t.reply # << >>
    BY <1>2, <1>3, <1>4, <1>5 DEF LogIn
  <2>. HIDE DEF t
  <2>. QED
    BY <1>3, <2>1, <2>2, HelloToAuthWriteGood
<1>6. CASE method # AUTH_METHOD
  <2>1. r \in HelloWrite(u, 0)
    BY <1>6 DEF Greeted
  <2>2. Says(t) = LetIn
    BY <1>4, <1>6 DEF LetIn
  <2>. HIDE DEF t
  <2>3. /\ u \in Session /\ BufferFits(u) /\ u.interest = "W"
        /\ u.told = t.told /\ u.reply = t.reply /\ u.user = "anonymous"
    BY <1>3 DEF Session, BufferFits
  <2>4. Says(u) = LetIn
    BY <2>2, <2>3 DEF Says
  <2>. HIDE DEF u
  <2>. QED
    BY <2>1, <2>3, <2>4, HelloWriteGood
<1>. QED
  BY <1>5, <1>6

LEMMA HelloReadGood ==
    ASSUME NEW s, Good(s), s.state = "HELLO", s.interest = "R", NEW r \in HelloRead(s)
    PROVE  Good(r)
<1>. DEFINE count == ByteAt(s, 2)
            auth  == \E i \in 3 .. 2 + count : ByteAt(s, i) = AUTH_METHOD
            method == IF auth THEN AUTH_METHOD ELSE NO_AUTH_METHOD
<1>1. s \in Session /\ BufferFits(s) /\ s.told = << >>
  BY DEF Good, Spoken
<1>2. count \in Nat
  BY <1>1, ByteAtType, ByteIsNat
<1>3. method \in { AUTH_METHOD, NO_AUTH_METHOD }
  OBVIOUS
<1>4. r \in {s} \cup { Failed(s) } \cup { Eat(s, 2) } \cup Greeted(Eat(s, 2 + count), method)
  BY DEF HelloRead
<1>. HIDE DEF count, method
<1>5. CASE r = s
  BY <1>5
<1>6. CASE r = Failed(s)
  BY <1>1, <1>6, FailedIsGood
<1>7. CASE r = Eat(s, 2)
  BY <1>7, EatGood
<1>8. CASE r \in Greeted(Eat(s, 2 + count), method)
  <2>1. 2 + count \in Nat
    BY <1>2
  <2>2. Good(Eat(s, 2 + count)) /\ Eat(s, 2 + count).told = << >>
    BY <1>1, <2>1, EatGood
  <2>. QED
    BY <1>3, <1>8, <2>2, GreetedGood
<1>. QED
  BY <1>4, <1>5, <1>6, <1>7, <1>8

LEMMA JudgedGood ==
    ASSUME NEW s, Good(s), s.told = LogIn, NEW n \in Nat,
           NEW login \in Seq(Byte) \X Seq(Byte), NEW r \in Judged(s, n, login)
    PROVE  Good(r)
<1>. DEFINE valid == login \in Accounts
            e == Eat(s, n)
            reply == << AUTH_VERSION, IF valid THEN 0 ELSE 1 >>
            t == [e EXCEPT !.reply = reply, !.interest = "W",
                           !.heard.login = @ \cup {login}]
            u == [t EXCEPT !.user = "account"]
<1>1. e \in Session /\ BufferFits(e) /\ e.told = LogIn
  BY EatGood DEF Good
<1>2. reply \in Seq(Nat)
  BY DEF AUTH_VERSION
<1>. HIDE DEF e
<1>3. /\ t \in Session /\ BufferFits(t)
      /\ t.interest = "W" /\ t.told = LogIn /\ t.reply = reply
      /\ login \in t.heard.login
  BY <1>1, <1>2 DEF Session, BufferFits
<1>4. CASE valid
  <2>1. r \in AuthWrite(u, 0)
    BY <1>4 DEF Judged, e
  <2>. HIDE DEF t
  <2>2. /\ u \in Session /\ BufferFits(u) /\ u.interest = "W"
        /\ u.told = t.told /\ u.reply = t.reply /\ u.heard = t.heard /\ u.user = "account"
    BY <1>3 DEF Session, BufferFits
  <2>. HIDE DEF u
  <2>3. Says(u) = Accepted
    BY <1>3, <1>4, <2>2 DEF Says, Accepted
  <2>4. LoggedIn(u)
    BY <1>3, <1>4, <2>2 DEF LoggedIn
  <2>. QED
    BY <2>1, <2>2, <2>3, <2>4, AuthWriteGood
<1>5. CASE ~valid
  <2>1. r \in AuthFailedWrite(t, 0)
    BY <1>5 DEF Judged, e
  <2>. HIDE DEF t
  <2>2. Says(t) = Rejected
    BY <1>3, <1>5 DEF Says, Rejected
  <2>. QED
    BY <1>3, <2>1, <2>2, AuthFailedWriteGood
<1>. QED
  BY <1>4, <1>5

LEMMA AuthReadGood ==
    ASSUME NEW s, Good(s), s.state = "AUTH", s.interest = "R", NEW r \in AuthRead(s)
    PROVE  Good(r)
<1>. DEFINE name == BytesAt(s, 3, ByteAt(s, 2))
            pass == BytesAt(s, 4 + Len(name), ByteAt(s, 3 + Len(name)))
            n    == 3 + Len(name) + Len(pass)
            login == << CString(name), CString(pass) >>
<1>1. s \in Session /\ BufferFits(s) /\ s.told = LogIn
  BY DEF Good, Spoken
<1>2. CASE r = [s EXCEPT !.state = "ABORTED"]
  BY <1>1, <1>2 DEF Good, Session, State, Open, BufferFits, Spoken
<1>3. CASE r \in Judged(s, n, login)
  <2>1. name \in Seq(Byte) /\ Len(name) \in Nat
    <3>1. ByteAt(s, 2) \in Nat
      BY <1>1, ByteAtType, ByteIsNat
    <3>. QED
      BY <1>1, <3>1, BytesAtType
  <2>. HIDE DEF name
  <2>2. pass \in Seq(Byte) /\ Len(pass) \in Nat
    <3>1. 3 + Len(name) \in Nat \ {0} /\ 4 + Len(name) \in Nat \ {0}
      BY <2>1
    <3>2. ByteAt(s, 3 + Len(name)) \in Nat
      BY <1>1, <3>1, ByteAtType, ByteIsNat
    <3>. QED
      BY <1>1, <3>1, <3>2, BytesAtType
  <2>. HIDE DEF pass
  <2>3. n \in Nat
    BY <2>1, <2>2
  <2>4. login \in Seq(Byte) \X Seq(Byte)
    BY <2>1, <2>2, CStringType
  <2>. HIDE DEF n, login
  <2>. QED
    BY <1>1, <1>3, <2>3, <2>4, JudgedGood
<1>. QED
  BY <1>2, <1>3 DEF AuthRead

\* A destination is known: the session was admitted before it was read.
LEMMA DestinedGood ==
    ASSUME NEW s, Good(s), Admitted(s), NEW i \in Nat \ {0}, NEW n \in Nat,
           NEW next \in { "CONNECT", "RESOLVE" }, NEW r \in Destined(s, i, n, next)
    PROVE  Good(r)
<1>. DEFINE host == BytesAt(s, i, n)
            p    == i + Len(host)
            port == ByteAt(s, p) * ByteMod + ByteAt(s, p + 1)
            e    == Eat(s, p + 1)
            dest == [ host |-> host, port |-> port ]
<1>1. s \in Session /\ BufferFits(s)
  BY DEF Good
<1>2. host \in Seq(Byte) /\ Len(host) \in Nat
  BY <1>1, BytesAtType
<1>. HIDE DEF host
<1>3. p \in Nat \ {0} /\ p + 1 \in Nat \ {0}
  BY <1>2
<1>. HIDE DEF p
<1>4. port \in Nat
  <2>1. ByteAt(s, p) \in Nat /\ ByteAt(s, p + 1) \in Nat /\ ByteMod \in Nat
    BY <1>1, <1>3, ByteAtType, ByteIsNat, HandshakeAssumption
  <2>2. \A x, y, z \in Nat : x * y + z \in Nat
    OBVIOUS
  <2>. QED
    BY <2>1, <2>2
<1>. HIDE DEF port
<1>5. dest \in [ host : Seq(Byte), port : Nat ]
  BY <1>2, <1>4
<1>6. /\ e \in Session /\ BufferFits(e) /\ Admitted(e)
  <2>1. /\ Good(e) /\ e.told = s.told /\ e.user = s.user /\ e.heard = s.heard
    BY <1>3, EatGood
  <2>. QED
    BY <2>1 DEF Good, Admitted, LoggedIn
<1>. HIDE DEF e, dest
<1>7. r = [e EXCEPT !.state = next, !.heard.dest = @ \cup { dest }]
  BY DEF Destined, e, dest, p, port, host
<1>8. /\ r \in Session /\ BufferFits(r) /\ r.state = next
      /\ r.told = e.told /\ r.user = e.user /\ r.heard.login = e.heard.login
  BY <1>5, <1>6, <1>7 DEF Session, BufferFits, State, Open
<1>9. Admitted(r)
  BY <1>6, <1>8 DEF Admitted, LoggedIn
<1>. QED
  BY <1>8, <1>9 DEF Good, Spoken

LEMMA RefusedGood ==
    ASSUME NEW s, Good(s), s.state = "REQUEST", NEW status \in Nat,
           NEW r \in Refused(s, status)
    PROVE  Good(r)
<1>1. s \in Session /\ BufferFits(s)
  BY DEF Good
<1>2. << SOCKS5_VERSION, status >> \in Seq(Nat)
  BY DEF SOCKS5_VERSION
<1>3. r = [s EXCEPT !.reply = << SOCKS5_VERSION, status >>, !.interest = "W"]
  BY DEF Refused
<1>4. r \in Session /\ BufferFits(r) /\ r.state = "REQUEST" /\ r.interest = "W"
  BY <1>1, <1>2, <1>3 DEF Session, BufferFits
<1>. QED
  BY <1>4 DEF Good, Spoken

LEMMA RequestReadGood ==
    ASSUME NEW s, Good(s), s.state = "REQUEST", s.interest = "R",
           NEW r \in RequestRead(s)
    PROVE  Good(r)
<1>. DEFINE t == Eat(s, 4)
<1>1. s \in Session /\ BufferFits(s) /\ Admitted(s)
  BY DEF Good, Spoken
<1>2. Good(t) /\ t.state = "REQUEST" /\ Admitted(t) /\ t \in Session
  <2>1. /\ Good(t) /\ t.state = s.state
        /\ t.told = s.told /\ t.user = s.user /\ t.heard = s.heard
    BY EatGood
  <2>. QED
    BY <1>1, <2>1 DEF Good, Admitted, LoggedIn
<1>3. \/ r = s
      \/ r = Failed(s)
      \/ r = t
      \/ r \in Refused(t, UNSUPPORTED_COMMAND)
      \/ r \in Refused(t, UNSUPPORTED_ATYP)
      \/ r \in Destined(t, 1, 4, "CONNECT")
      \/ r \in Destined(t, 1, 16, "CONNECT")
      \/ t.buf # << >> /\ r \in Destined(t, 2, t.buf[1], "RESOLVE")
  BY DEF RequestRead
<1>. HIDE DEF t
<1>4. CASE r = s
  BY <1>4
<1>5. CASE r = Failed(s)
  BY <1>1, <1>5, FailedIsGood
<1>6. CASE r = t
  BY <1>2, <1>6
<1>7. CASE r \in Refused(t, UNSUPPORTED_COMMAND) \cup Refused(t, UNSUPPORTED_ATYP)
  <2>1. UNSUPPORTED_COMMAND \in Nat /\ UNSUPPORTED_ATYP \in Nat
    BY DEF UNSUPPORTED_COMMAND, UNSUPPORTED_ATYP
  <2>. QED
    BY <1>2, <1>7, <2>1, RefusedGood
<1>8. CASE r \in Destined(t, 1, 4, "CONNECT") \cup Destined(t, 1, 16, "CONNECT")
  BY <1>2, <1>8, DestinedGood
<1>9. CASE t.buf # << >> /\ r \in Destined(t, 2, t.buf[1], "RESOLVE")
  <2>1. t.buf \in Seq(Byte) /\ 1 \in 1 .. Len(t.buf)
    BY <1>2, <1>9, EmptySeq DEF Session
  <2>2. t.buf[1] \in Nat
    BY <2>1, ElementOfSeq, ByteIsNat
  <2>. QED
    BY <1>2, <1>9, <2>2, DestinedGood
<1>. QED
  BY <1>3, <1>4, <1>5, <1>6, <1>7, <1>8, <1>9

\* Every parser.
LEMMA ReadGood ==
    ASSUME NEW s, Good(s), s.state \in Open, s.interest = "R", NEW r \in Read(s)
    PROVE  Good(r)
<1>1. s.state \in { "HELLO", "AUTH", "REQUEST" }
  BY DEF Good, Spoken, Open
<1>2. CASE s.state = "HELLO"
  <2>1. r \in HelloRead(s)
    BY <1>2 DEF Read
  <2>. QED
    BY <1>2, <2>1, HelloReadGood
<1>3. CASE s.state = "AUTH"
  <2>1. r \in AuthRead(s)
    BY <1>3 DEF Read
  <2>. QED
    BY <1>3, <2>1, AuthReadGood
<1>4. CASE s.state = "REQUEST"
  <2>1. r \in RequestRead(s)
    BY <1>4 DEF Read
  <2>. QED
    BY <1>4, <2>1, RequestReadGood
<1>. QED
  BY <1>1, <1>2, <1>3, <1>4

-----------------------------------------------------------------------------
(***************************************************************************)
(* The message a session reads next.                                       *)
(***************************************************************************)
\* The message the state of a session is there to read, now or once its reply is sent.
Awaits(s, m) ==
    \/ m = "greeting" /\ s.state = "HELLO" /\ s.interest = "R"
    \/ m = "auth" /\ \/ s.state = "AUTH" /\ s.interest = "R"
                     \/ s.state = "HELLO_TO_AUTH" /\ s.reply # << >>
    \/ m = "request" /\ \/ s.state \in { "HELLO", "AUTH" } /\ s.interest = "W"
                        \/ s.state = "REQUEST" /\ s.interest = "R"

\* No message but m.
AwaitsOnly(s, m) == \A k \in Message : Awaits(s, k) => k = m

Refusing(s) == s.state = "REQUEST" /\ s.interest = "W"

\* Nothing was read.
Kept(s, r) == r.buf = s.buf /\ r.user = s.user /\ r.heard = s.heard

LEMMA OverAwaits ==
    ASSUME NEW s, s.state \notin Open, NEW m
    PROVE  AwaitsOnly(s, m) /\ ~Refusing(s)
  BY DEF AwaitsOnly, Awaits, Refusing, Open

LEMMA HelloWriteAwaits ==
    ASSUME NEW s \in Session, NEW least \in Nat, s.interest = "W",
           NEW r \in HelloWrite(s, least)
    PROVE  Kept(s, r) /\ AwaitsOnly(r, "request") /\ ~Refusing(r)
<1>1. r \in Send(s, least, "REQUEST", "R", "HELLO")
  BY DEF HelloWrite
<1>2. { "REQUEST", "HELLO" } \subseteq State
  BY DEF State, Open
<1>3. /\ r.buf = s.buf /\ r.user = s.user /\ r.heard = s.heard
      /\ \/ r.state = "ERROR"
         \/ r.state = "REQUEST" /\ r.interest = "R"
         \/ r.state = "HELLO" /\ r.interest = s.interest
  BY <1>1, <1>2, SendLeaves
<1>. QED
  BY <1>3 DEF Kept, AwaitsOnly, Awaits, Refusing

LEMMA HelloToAuthWriteAwaits ==
    ASSUME NEW s \in Session, NEW least \in Nat, s.interest = "W",
           NEW r \in HelloToAuthWrite(s, least)
    PROVE  /\ Kept(s, r) /\ ~Refusing(r)
           /\ AwaitsOnly(r, IF s.reply = << >> THEN "nothing" ELSE "auth")
<1>1. CASE s.reply = << >>
  <2>1. r = [s EXCEPT !.state = "HELLO_TO_AUTH"]
    BY <1>1 DEF HelloToAuthWrite
  <2>2. /\ r.buf = s.buf /\ r.user = s.user /\ r.heard = s.heard
        /\ r.state = "HELLO_TO_AUTH" /\ r.reply = << >>
    BY <1>1, <2>1 DEF Session
  <2>. QED
    BY <1>1, <2>2 DEF Kept, AwaitsOnly, Awaits, Refusing
<1>2. CASE s.reply # << >>
  <2>1. r \in Send(s, least, "AUTH", "R", "HELLO_TO_AUTH")
    BY <1>2 DEF HelloToAuthWrite
  <2>2. { "AUTH", "HELLO_TO_AUTH" } \subseteq State
    BY DEF State, Open
  <2>3. /\ r.buf = s.buf /\ r.user = s.user /\ r.heard = s.heard
        /\ \/ r.state = "ERROR"
           \/ r.state = "AUTH" /\ r.interest = "R"
           \/ r.state = "HELLO_TO_AUTH" /\ r.interest = s.interest
    BY <2>1, <2>2, SendLeaves
  <2>. QED
    BY <1>2, <2>3 DEF Kept, AwaitsOnly, Awaits, Refusing
<1>. QED
  BY <1>1, <1>2

LEMMA AuthWriteAwaits ==
    ASSUME NEW s \in Session, NEW least \in Nat, s.interest = "W",
           NEW r \in AuthWrite(s, least)
    PROVE  Kept(s, r) /\ AwaitsOnly(r, "request") /\ ~Refusing(r)
<1>1. r \in Send(s, least, "REQUEST", "R", "AUTH")
  BY DEF AuthWrite
<1>2. { "REQUEST", "AUTH" } \subseteq State
  BY DEF State, Open
<1>3. /\ r.buf = s.buf /\ r.user = s.user /\ r.heard = s.heard
      /\ \/ r.state = "ERROR"
         \/ r.state = "REQUEST" /\ r.interest = "R"
         \/ r.state = "AUTH" /\ r.interest = s.interest
  BY <1>1, <1>2, SendLeaves
<1>. QED
  BY <1>3 DEF Kept, AwaitsOnly, Awaits, Refusing

\* After a login that failed nothing is read any more.
LEMMA AuthFailedWriteAwaits ==
    ASSUME NEW s \in Session, NEW least \in Nat, s.interest = "W",
           NEW r \in AuthFailedWrite(s, least)
    PROVE  Kept(s, r) /\ AwaitsOnly(r, "nothing") /\ ~Refusing(r)
<1>1. r \in Send(s, least, "HELLO_TO_AUTH", "W", "AUTH_FAILED")
  BY DEF AuthFailedWrite
<1>2. { "HELLO_TO_AUTH", "AUTH_FAILED" } \subseteq State
  BY DEF State, Open
<1>3. /\ r.buf = s.buf /\ r.user = s.user /\ r.heard = s.heard
      /\ \/ r.state = "ERROR"
         \/ r.state = "HELLO_TO_AUTH" /\ r.reply = << >>
         \/ r.state = "AUTH_FAILED"
  BY <1>1, <1>2, SendLeaves
<1>. QED
  BY <1>3 DEF Kept, AwaitsOnly, Awaits, Refusing

LEMMA RequestWriteAwaits ==
    ASSUME NEW s \in Session, NEW least \in Nat, s.interest = "W",
           NEW r \in RequestWrite(s, least)
    PROVE  /\ Kept(s, r) /\ AwaitsOnly(r, "nothing")
           /\ r.state \notin Open \/ Refusing(r)
<1>1. r \in Send(s, least, "DONE", "W", "REQUEST")
  BY DEF RequestWrite
<1>2. { "DONE", "REQUEST" } \subseteq State
  BY DEF State, Open
<1>3. /\ r.buf = s.buf /\ r.user = s.user /\ r.heard = s.heard
      /\ \/ r.state \in { "ERROR", "DONE" }
         \/ r.state = "REQUEST" /\ r.interest = s.interest
  BY <1>1, <1>2, SendLeaves
<1>. QED
  BY <1>3 DEF Kept, AwaitsOnly, Awaits, Refusing, Open

\* Writing reads nothing and changes nothing in what is awaited.
LEMMA WriteAwaits ==
    ASSUME NEW s, Good(s), s.state \in Open, s.interest = "W", NEW r \in Write(s)
    PROVE  /\ Kept(s, r)
           /\ \A m \in Message : Awaits(r, m) => Awaits(s, m)
           /\ Refusing(r) => Refusing(s)
           /\ s.state = "REQUEST" => r.state \notin Open \/ Refusing(r)
<1>1. s \in Session /\ 1 \in Nat
  BY DEF Good
<1>2. CASE s.state = "HELLO"
  <2>1. r \in HelloWrite(s, 1)
    BY <1>2 DEF Write
  <2>2. Kept(s, r) /\ AwaitsOnly(r, "request") /\ ~Refusing(r)
    BY <1>1, <2>1, HelloWriteAwaits
  <2>. QED
    BY <1>2, <2>2 DEF AwaitsOnly, Awaits
<1>3. CASE s.state = "HELLO_TO_AUTH"
  <2>1. r \in HelloToAuthWrite(s, 1)
    BY <1>3 DEF Write
  <2>2. /\ Kept(s, r) /\ ~Refusing(r)
        /\ AwaitsOnly(r, IF s.reply = << >> THEN "nothing" ELSE "auth")
    BY <1>1, <2>1, HelloToAuthWriteAwaits
  <2>3. "nothing" \notin Message
    BY DEF Message
  <2>. QED
    BY <1>3, <2>2, <2>3 DEF AwaitsOnly, Awaits
<1>4. CASE s.state = "AUTH"
  <2>1. r \in AuthWrite(s, 1)
    BY <1>4 DEF Write
  <2>2. Kept(s, r) /\ AwaitsOnly(r, "request") /\ ~Refusing(r)
    BY <1>1, <2>1, AuthWriteAwaits
  <2>. QED
    BY <1>4, <2>2 DEF AwaitsOnly, Awaits
<1>5. CASE s.state = "AUTH_FAILED"
  <2>1. r \in AuthFailedWrite(s, 1)
    BY <1>5 DEF Write
  <2>2. Kept(s, r) /\ AwaitsOnly(r, "nothing") /\ ~Refusing(r)
    BY <1>1, <2>1, AuthFailedWriteAwaits
  <2>3. "nothing" \notin Message
    BY DEF Message
  <2>. QED
    BY <1>5, <2>2, <2>3 DEF AwaitsOnly
<1>6. CASE s.state = "REQUEST"
  <2>1. r \in RequestWrite(s, 1)
    BY <1>6 DEF Write
  <2>2. /\ Kept(s, r) /\ AwaitsOnly(r, "nothing")
        /\ r.state \notin Open \/ Refusing(r)
    BY <1>1, <2>1, RequestWriteAwaits
  <2>3. "nothing" \notin Message /\ Refusing(s)
    BY <1>6 DEF Message, Refusing
  <2>. QED
    BY <1>6, <2>2, <2>3 DEF AwaitsOnly
<1>. QED
  BY <1>2, <1>3, <1>4, <1>5, <1>6 DEF Open

-----------------------------------------------------------------------------
(***************************************************************************)
(* The wire.                                                               *)
(***************************************************************************)
\* The parts of an encoding are bytes.
LEMMA PlanBytes ==
    ASSUME plan \in Plans
    PROVE  /\ plan.methods \in Seq(Byte) /\ plan.name \in Seq(Byte)
           /\ plan.pass \in Seq(Byte) /\ plan.addr \in Seq(Byte)
           /\ plan.cmd \in Byte /\ plan.atyp \in Byte /\ plan.port \in Nat
           /\ Len(plan.methods) \in Byte /\ Len(plan.name) \in Byte
           /\ Len(plan.pass) \in Byte /\ plan.port \div ByteMod \in Byte
           /\ plan.port % ByteMod \in Byte
           /\ plan.atyp = DOMAIN_NAME_ATYP => Len(plan.addr) \in Byte
           /\ SOCKS5_VERSION \in Byte /\ AUTH_VERSION \in Byte /\ 0 \in Byte
<1>1. plan \in Plan /\ Fits(plan)
  BY HandshakeAssumption
<1>2. /\ plan.methods \in Seq(Byte) /\ plan.name \in Seq(Byte)
      /\ plan.pass \in Seq(Byte) /\ plan.addr \in Seq(Byte)
      /\ plan.cmd \in Byte /\ plan.atyp \in Byte /\ plan.port \in Nat
  BY <1>1 DEF Plan
<1>3. /\ Len(plan.methods) \in Byte /\ Len(plan.name) \in Byte
      /\ Len(plan.pass) \in Byte /\ plan.port \div ByteMod \in Byte
      /\ plan.atyp = DOMAIN_NAME_ATYP => Len(plan.addr) \in Byte
  BY <1>1 DEF Fits
<1>4. /\ SOCKS5_VERSION \in Byte /\ AUTH_VERSION \in Byte /\ 0 \in Byte
      /\ plan.port % ByteMod \in Byte
  <2>1. \A x \in Nat : x % ByteMod \in 0 .. ByteMod - 1
    BY HandshakeAssumption DEF UNSUPPORTED_COMMAND
  <2>2. plan.port % ByteMod \in Byte
    BY <1>2, <2>1 DEF Byte
  <2>3. SOCKS5_VERSION \in Byte /\ AUTH_VERSION \in Byte
    BY HandshakeAssumption DEF Byte, SOCKS5_VERSION, AUTH_VERSION, UNSUPPORTED_COMMAND
  <2>. QED
    BY <2>2, <2>3, ZeroIsByte
<1>. QED
  BY <1>2, <1>3, <1>4

\* What a client sends are bytes: its lengths fit in one, its port in two.
LEMMA EncodingType ==
    ASSUME plan \in Plans, NEW m \in Message
    PROVE  Encoding(m) \in Seq(Byte)
<1>1. /\ plan.methods \in Seq(Byte) /\ plan.name \in Seq(Byte)
      /\ plan.pass \in Seq(Byte) /\ plan.addr \in Seq(Byte)
      /\ plan.cmd \in Byte /\ plan.atyp \in Byte
  BY PlanBytes
<1>2. /\ Len(plan.methods) \in Byte /\ Len(plan.name) \in Byte
      /\ Len(plan.pass) \in Byte /\ plan.port \div ByteMod \in Byte
      /\ plan.port % ByteMod \in Byte
      /\ plan.atyp = DOMAIN_NAME_ATYP => Len(plan.addr) \in Byte
      /\ SOCKS5_VERSION \in Byte /\ AUTH_VERSION \in Byte /\ 0 \in Byte
  BY PlanBytes
<1>3. CASE m = "greeting"
  <2>1. << SOCKS5_VERSION, Len(plan.methods) >> \in Seq(Byte)
    BY <1>2
  <2>2. << SOCKS5_VERSION, Len(plan.methods) >> \o plan.methods \in Seq(Byte)
    BY <1>1, <2>1, ConcatProperties
  <2>. QED
    BY <1>3, <2>2 DEF Encoding
<1>4. CASE m = "auth"
  <2>1. /\ << AUTH_VERSION, Len(plan.name) >> \in Seq(Byte)
        /\ << Len(plan.pass) >> \in Seq(Byte)
    BY <1>2
  <2>2. << AUTH_VERSION, Len(plan.name) >> \o plan.name \in Seq(Byte)
    BY <1>1, <2>1, ConcatProperties
  <2>3. << AUTH_VERSION, Len(plan.name) >> \o plan.name \o << Len(plan.pass) >> \in Seq(Byte)
    BY <2>1, <2>2, ConcatProperties
  <2>4. << AUTH_VERSION, Len(plan.name) >> \o plan.name \o << Len(plan.pass) >>
          \o plan.pass \in Seq(Byte)
    BY <1>1, <2>3, ConcatProperties
  <2>. QED
    BY <1>4, <2>4 DEF Encoding
<1>5. CASE m = "request"
  <2>. DEFINE header == << SOCKS5_VERSION, plan.cmd, 0, plan.atyp >>
              length == IF plan.atyp = DOMAIN_NAME_ATYP THEN << Len(plan.addr) >> ELSE << >>
              port   == << plan.port \div ByteMod, plan.port % ByteMod >>
  <2>1. header \in Seq(Byte)
    BY <1>1, <1>2
  <2>2. length \in Seq(Byte)
    BY <1>2
  <2>3. port \in Seq(Byte)
    BY <1>2
  <2>4. Encoding(m) = header \o length \o plan.addr \o port
    BY <1>5 DEF Encoding
  <2>. HIDE DEF header, length, port
  <2>5. header \o length \in Seq(Byte)
    BY <2>1, <2>2, ConcatProperties
  <2>6. header \o length \o plan.addr \in Seq(Byte)
    BY <1>1, <2>5, ConcatProperties
  <2>7. header \o length \o plan.addr \o port \in Seq(Byte)
    BY <2>3, <2>6, ConcatProperties
  <2>. QED
    BY <2>4, <2>7
<1>. QED
  BY <1>3, <1>4, <1>5 DEF Message

\* What is where in a greeting.
LEMMA GreetingParts ==
    ASSUME plan \in Plans
    PROVE  /\ Encoding("greeting") \in Seq(Byte)
           /\ Len(Encoding("greeting")) = 2 + Len(plan.methods)
           /\ Encoding("greeting")[1] = SOCKS5_VERSION
           /\ Encoding("greeting")[2] = Len(plan.methods)
           /\ \A i \in 1 .. Len(plan.methods) : Encoding("greeting")[2 + i] = plan.methods[i]
<1>. DEFINE head == << SOCKS5_VERSION, Len(plan.methods) >>
<1>1. plan.methods \in Seq(Byte) /\ Len(plan.methods) \in Byte /\ SOCKS5_VERSION \in Byte
  BY PlanBytes
<1>2. /\ head \in Seq(Byte) /\ Len(head) = 2
      /\ head[1] = SOCKS5_VERSION /\ head[2] = Len(plan.methods)
  BY <1>1
<1>3. Encoding("greeting") = head \o plan.methods
  BY DEF Encoding
<1>. HIDE DEF head
<1>4. /\ Len(head \o plan.methods) = 2 + Len(plan.methods)
      /\ head \o plan.methods \in Seq(Byte)
      /\ (head \o plan.methods)[1] = head[1] /\ (head \o plan.methods)[2] = head[2]
  <2>1. 1 \in 1 .. Len(head) /\ 2 \in 1 .. Len(head)
    BY <1>2
  <2>. QED
    BY <1>1, <1>2, <2>1, JoinBytes
<1>5. \A i \in 1 .. Len(plan.methods) : (head \o plan.methods)[2 + i] = plan.methods[i]
  <2>1. \A i \in 1 .. Len(plan.methods) :
            (head \o plan.methods)[Len(head) + i] = plan.methods[i]
    BY <1>1, <1>2, JoinBytes, ZenonT(60)
  <2>. QED
    BY <1>2, <2>1
<1>. QED
  BY <1>2, <1>3, <1>4, <1>5

\* What is where in the message of a login.
LEMMA AuthParts ==
    ASSUME plan \in Plans
    PROVE  LET e == Encoding("auth")
               n == Len(plan.name)
               p == Len(plan.pass)
           IN  /\ e \in Seq(Byte) /\ Len(e) = 3 + n + p
               /\ e[1] = AUTH_VERSION /\ e[2] = n /\ e[3 + n] = p
               /\ SubSeq(e, 3, 2 + n) = plan.name
               /\ SubSeq(e, 4 + n, 3 + n + p) = plan.pass
<1>. DEFINE head == << AUTH_VERSION, Len(plan.name) >>
            size == << Len(plan.pass) >>
            a == head \o plan.name
            b == a \o size
            e == Encoding("auth")
            n == Len(plan.name)
            p == Len(plan.pass)
<1>1. /\ plan.name \in Seq(Byte) /\ Len(plan.name) \in Byte
      /\ plan.pass \in Seq(Byte) /\ Len(plan.pass) \in Byte /\ AUTH_VERSION \in Byte
  BY PlanBytes
<1>2. /\ head \in Seq(Byte) /\ Len(head) = 2
      /\ head[1] = AUTH_VERSION /\ head[2] = n
      /\ size \in Seq(Byte) /\ Len(size) = 1 /\ size[1] = p
      /\ n \in Nat /\ p \in Nat
  BY <1>1
<1>3. e = b \o plan.pass
  BY DEF Encoding
<1>. HIDE DEF head, size, n, p, e
<1>4. a \in Seq(Byte) /\ Len(a) = 2 + n /\ a[1] = AUTH_VERSION /\ a[2] = n
  <2>1. 1 \in 1 .. Len(head) /\ 2 \in 1 .. Len(head)
    BY <1>2
  <2>. QED
    <3>1. plan.name \in Seq(Byte) /\ Len(plan.name) = n
      BY <1>1 DEF n
    <3>2. /\ a \in Seq(Byte) /\ Len(a) = Len(head) + Len(plan.name)
          /\ \A i \in 1 .. Len(head) : a[i] = head[i]
      BY <1>2, <3>1, JoinBytes
    <3>. QED
      BY <1>2, <2>1, <3>1, <3>2
<1>5. e = a \o (size \o plan.pass)
  <2>. HIDE DEF a
  <2>1. (a \o size) \o plan.pass = a \o (size \o plan.pass)
    BY <1>1, <1>2, <1>4, RegroupBytes
  <2>. QED
    BY <1>3, <2>1
<1>6. size \o plan.pass \in Seq(Byte)
  BY <1>1, <1>2, ConcatProperties
<1>7. SubSeq(e, 3, 2 + n) = plan.name
  <2>. DEFINE c == size \o plan.pass
  <2>1. c \in Seq(Byte)
    BY <1>6
  <2>. HIDE DEF c
  <2>2. (head \o plan.name) \o c = head \o (plan.name \o c)
    <3>1. \A x, y \in Seq(Byte) : (head \o x) \o y = head \o (x \o y)
      BY <1>2, RegroupBytes, ZenonT(60)
    <3>. QED
      BY <1>1, <2>1, <3>1, ZenonT(60)
  <2>3. SubSeq(head \o (plan.name \o c), Len(head) + 1, Len(head) + Len(plan.name)) = plan.name
    BY <1>1, <1>2, <2>1, Middle
  <2>4. e = head \o (plan.name \o c)
    BY <1>5, <2>2 DEF c
  <2>5. Len(head) + 1 = 3 /\ Len(head) + Len(plan.name) = 2 + n
    BY <1>2 DEF n
  <2>. QED
    BY <2>3, <2>4, <2>5
<1>. HIDE DEF a
<1>8. /\ b \in Seq(Byte) /\ Len(b) = 3 + n
      /\ b[1] = AUTH_VERSION /\ b[2] = n /\ b[3 + n] = p
  <2>1. 1 \in 1 .. Len(a) /\ 2 \in 1 .. Len(a) /\ 1 \in 1 .. Len(size)
    BY <1>2, <1>4
  <2>2. b \in Seq(Byte) /\ Len(b) = Len(a) + 1 /\ b[1] = a[1] /\ b[2] = a[2]
    <3>1. /\ b \in Seq(Byte) /\ Len(b) = Len(a) + Len(size)
          /\ \A i \in 1 .. Len(a) : b[i] = a[i]
      BY <1>2, <1>4, JoinBytes
    <3>. QED
      BY <1>2, <2>1, <3>1
  <2>3. b[Len(a) + 1] = size[1]
    BY <1>2, <1>4, <2>1, JoinBytes
  <2>4. Len(a) + 1 = 3 + n
    BY <1>2, <1>4
  <2>. QED
    BY <1>2, <1>4, <2>2, <2>3, <2>4
<1>. HIDE DEF b
<1>9. /\ e \in Seq(Byte) /\ Len(e) = 3 + n + p
      /\ e[1] = AUTH_VERSION /\ e[2] = n /\ e[3 + n] = p
  <2>1. 1 \in 1 .. Len(b) /\ 2 \in 1 .. Len(b) /\ 3 + n \in 1 .. Len(b)
    BY <1>2, <1>8
  <2>2. /\ b \o plan.pass \in Seq(Byte) /\ Len(b \o plan.pass) = Len(b) + Len(plan.pass)
        /\ \A i \in 1 .. Len(b) : (b \o plan.pass)[i] = b[i]
    BY <1>1, <1>8, Begins, ConcatProperties
  <2>. QED
    BY <1>3, <1>8, <2>1, <2>2 DEF p
<1>10. SubSeq(e, 4 + n, 3 + n + p) = plan.pass
  <2>1. SubSeq(b \o plan.pass, Len(b) + 1, Len(b) + Len(plan.pass)) = plan.pass
    BY <1>1, <1>8, Ending
  <2>2. Len(b) + 1 = 4 + n /\ Len(b) + Len(plan.pass) = 3 + n + p
    BY <1>2, <1>8 DEF p
  <2>. QED
    BY <1>3, <2>1, <2>2
<1>. QED
  BY <1>7, <1>9, <1>10 DEF e, n, p

\* A request is a header and what follows it.
Header    == << SOCKS5_VERSION, plan.cmd, 0, plan.atyp >>
PortBytes == << plan.port \div ByteMod, plan.port % ByteMod >>
Size      == IF plan.atyp = DOMAIN_NAME_ATYP THEN << Len(plan.addr) >> ELSE << >>
Body      == Size \o (plan.addr \o PortBytes)

LEMMA RequestParts ==
    ASSUME plan \in Plans
    PROVE  /\ Header \in Seq(Byte) /\ Len(Header) = 4
           /\ Header[1] = SOCKS5_VERSION /\ Header[2] = plan.cmd /\ Header[4] = plan.atyp
           /\ Size \in Seq(Byte) /\ PortBytes \in Seq(Byte) /\ Len(PortBytes) = 2
           /\ plan.addr \in Seq(Byte) /\ Len(plan.addr) \in Nat
           /\ plan.addr \o PortBytes \in Seq(Byte)
           /\ Len(plan.addr \o PortBytes) = Len(plan.addr) + 2
           /\ Body \in Seq(Byte) /\ Len(Body) = Len(Size) + Len(plan.addr) + 2
           /\ Encoding("request") = Header \o Body
<1>1. /\ plan.addr \in Seq(Byte) /\ plan.cmd \in Byte /\ plan.atyp \in Byte
      /\ plan.port \div ByteMod \in Byte /\ plan.port % ByteMod \in Byte
      /\ plan.atyp = DOMAIN_NAME_ATYP => Len(plan.addr) \in Byte
      /\ SOCKS5_VERSION \in Byte /\ 0 \in Byte
  BY PlanBytes
<1>2. /\ Header \in Seq(Byte) /\ Len(Header) = 4
      /\ Header[1] = SOCKS5_VERSION /\ Header[2] = plan.cmd /\ Header[4] = plan.atyp
  BY <1>1 DEF Header
<1>3. PortBytes \in Seq(Byte) /\ Len(PortBytes) = 2
  BY <1>1 DEF PortBytes
<1>4. Size \in Seq(Byte)
  BY <1>1 DEF Size
<1>5. /\ plan.addr \o PortBytes \in Seq(Byte)
      /\ Len(plan.addr \o PortBytes) = Len(plan.addr) + 2
  <2>1. plan.addr \in Seq(Byte)
    BY <1>1
  <2>2. /\ plan.addr \o PortBytes \in Seq(Byte)
        /\ Len(plan.addr \o PortBytes) = Len(plan.addr) + Len(PortBytes)
    BY <2>1, <1>3, JoinBytes
  <2>. QED
    BY <2>2, <1>3
<1>6. /\ Body \in Seq(Byte)
      /\ Len(Body) = Len(Size) + (Len(plan.addr) + 2)
  <2>. DEFINE c == plan.addr \o PortBytes
  <2>1. c \in Seq(Byte) /\ Len(c) = Len(plan.addr) + 2
    BY <1>5
  <2>. HIDE DEF c
  <2>2. Size \o c \in Seq(Byte) /\ Len(Size \o c) = Len(Size) + Len(c)
    BY <1>4, <2>1, JoinBytes
  <2>. QED
    BY <2>1, <2>2 DEF Body, c
<1>7. Header \o Size \in Seq(Byte)
  BY <1>2, <1>4, ConcatProperties
<1>8. Encoding("request") = ((Header \o Size) \o plan.addr) \o PortBytes
  BY DEF Encoding, Header, Size, PortBytes
<1>9. ((Header \o Size) \o plan.addr) \o PortBytes = (Header \o Size) \o (plan.addr \o PortBytes)
  <2>. DEFINE a == Header \o Size
  <2>1. a \in Seq(Byte)
    BY <1>7
  <2>. HIDE DEF a
  <2>2. (a \o plan.addr) \o PortBytes = a \o (plan.addr \o PortBytes)
    BY <1>1, <1>3, <2>1, RegroupBytes
  <2>. QED
    BY <2>2 DEF a
<1>10. (Header \o Size) \o (plan.addr \o PortBytes) = Header \o Body
  <2>. DEFINE c == plan.addr \o PortBytes
  <2>1. c \in Seq(Byte)
    BY <1>5
  <2>. HIDE DEF c
  <2>2. (Header \o Size) \o c = Header \o (Size \o c)
    BY <1>2, <1>4, <2>1, RegroupBytes
  <2>. QED
    BY <2>2 DEF Body, c
<1>11. Encoding("request") = Header \o Body
  BY <1>8, <1>9, <1>10, Zenon
<1>12. Len(plan.addr) \in Nat /\ Len(Size) \in Nat
  BY <1>1, <1>4
<1>. QED
  BY <1>1, <1>2, <1>3, <1>4, <1>5, <1>6, <1>11, <1>12

\* No message is empty.
LEMMA EncodingLong ==
    ASSUME plan \in Plans, NEW m \in Message
    PROVE  Encoding(m) \in Seq(Byte) /\ Len(Encoding(m)) \in Nat /\ Len(Encoding(m)) > 0
<1>1. Encoding(m) \in Seq(Byte)
  BY EncodingType
<1>2. Len(plan.methods) \in Nat /\ Len(plan.name) \in Nat /\ Len(plan.pass) \in Nat
  BY PlanBytes, ByteIsNat
<1>3. CASE m = "greeting"
  BY <1>2, <1>3, GreetingParts
<1>4. CASE m = "auth"
  <2>. DEFINE n == Len(plan.name)
              p == Len(plan.pass)
  <2>. DEFINE l == Len(Encoding("auth"))
  <2>1. l = 3 + n + p
    BY AuthParts, Zenon
  <2>2. n \in Nat /\ p \in Nat
    BY <1>2
  <2>. HIDE DEF n, p, l
  <2>3. l \in Nat /\ l > 0
    BY <2>1, <2>2
  <2>. QED
    BY <1>1, <1>4, <2>3 DEF l
<1>5. CASE m = "request"
  <2>1. /\ Header \in Seq(Byte) /\ Body \in Seq(Byte) /\ Len(Header) = 4
        /\ Encoding("request") = Header \o Body
    BY RequestParts
  <2>2. Len(Header \o Body) = Len(Header) + Len(Body) /\ Len(Body) \in Nat
    BY <2>1, JoinBytes
  <2>. QED
    BY <1>1, <1>5, <2>1, <2>2
<1>. QED
  BY <1>1, <1>3, <1>4, <1>5 DEF Message

-----------------------------------------------------------------------------
(***************************************************************************)
(* What the parsers make of a message that has arrived whole and alone.    *)
(***************************************************************************)
\* Eating leaves what comes after.
LEMMA EatBuf ==
    ASSUME NEW s \in Session, NEW n \in Nat
    PROVE  /\ n >= Len(s.buf) => Eat(s, n).buf = << >>
           /\ n < Len(s.buf) => Eat(s, n).buf = SubSeq(s.buf, n + 1, Len(s.buf))
<1>1. Len(s.buf) \in Nat
  BY DEF Session
<1>2. Eat(s, n).buf = (IF n >= Len(s.buf) THEN << >> ELSE SubSeq(s.buf, n + 1, Len(s.buf)))
  BY DEF Eat, Session
<1>. HIDE DEF Eat
<1>. QED
  BY <1>1, <1>2

\* The reply to a greeting is one byte of method, and what the session then awaits
\* is the message that method asks for.
LEMMA GreetedAwaits ==
    ASSUME NEW s \in Session,
           NEW method \in { AUTH_METHOD, NO_AUTH_METHOD }, NEW r \in Greeted(s, method)
    PROVE  /\ r.buf = s.buf /\ ~Refusing(r)
           /\ r.heard.method = s.heard.method \cup {method}
           /\ r.heard.login = s.heard.login /\ r.heard.dest = s.heard.dest
           /\ method = AUTH_METHOD => AwaitsOnly(r, "auth")
           /\ method # AUTH_METHOD => AwaitsOnly(r, "request") /\ r.user = "anonymous"
<1>. DEFINE reply == << SOCKS5_VERSION, method >>
            t == [s EXCEPT !.reply = reply, !.interest = "W",
                           !.heard.method = @ \cup {method}]
            u == [t EXCEPT !.user = "anonymous"]
<1>1. reply \in Seq(Nat) /\ method \in Nat /\ reply # << >>
  BY DEF SOCKS5_VERSION, AUTH_METHOD, NO_AUTH_METHOD
<1>2. /\ t \in Session /\ t.interest = "W" /\ t.buf = s.buf /\ t.reply = reply
      /\ t.heard.method = s.heard.method \cup {method}
      /\ t.heard.login = s.heard.login /\ t.heard.dest = s.heard.dest
  BY <1>1 DEF Session
<1>3. CASE method = AUTH_METHOD
  <2>1. r \in HelloToAuthWrite(t, 0)
    BY <1>3 DEF Greeted
  <2>. HIDE DEF t
  <2>2. Kept(t, r) /\ AwaitsOnly(r, "auth") /\ ~Refusing(r)
    BY <1>1, <1>2, <2>1, HelloToAuthWriteAwaits
  <2>. QED
    BY <1>2, <1>3, <2>2 DEF Kept
<1>4. CASE method # AUTH_METHOD
  <2>1. r \in HelloWrite(u, 0)
    BY <1>4 DEF Greeted
  <2>. HIDE DEF t
  <2>2. /\ u \in Session /\ u.interest = "W" /\ u.buf = t.buf
        /\ u.heard = t.heard /\ u.user = "anonymous"
    BY <1>2 DEF Session
  <2>. HIDE DEF u
  <2>3. Kept(u, r) /\ AwaitsOnly(r, "request") /\ ~Refusing(r)
    BY <2>1, <2>2, HelloWriteAwaits
  <2>. QED
    BY <1>2, <1>4, <2>2, <2>3 DEF Kept
<1>. QED
  BY <1>3, <1>4

\* The greeting: the method chosen is the one the client can use, and what is
\* awaited is the message it sends next; or the greeting is so long that only its
\* header is read.
LEMMA GreetingRead ==
    ASSUME plan \in Plans, NEW s \in Session, s.state = "HELLO", s.interest = "R",
           s.buf = Encoding("greeting"), NEW r \in HelloRead(s)
    PROVE  /\ r.heard.method \subseteq s.heard.method \cup {Chosen}
           /\ r.heard.login = s.heard.login /\ r.heard.dest = s.heard.dest
           /\ ~Refusing(r)
           /\ \/ AwaitsOnly(r, "nothing")
              \/ r.buf # << >> /\ AwaitsOnly(r, "greeting")
              \/ /\ r.buf = << >>
                 /\ \/ AwaitsOnly(r, "auth") /\ Offers(AUTH_METHOD)
                    \/ /\ AwaitsOnly(r, "request") /\ r.user = "anonymous"
                       /\ ~Offers(AUTH_METHOD)
<1>. DEFINE n == Len(plan.methods)
            e == Eat(s, 2)
            f == Eat(s, 2 + n)
            auth == \E i \in 3 .. 2 + n : ByteAt(s, i) = AUTH_METHOD
<1>1. /\ n \in Nat /\ Len(s.buf) = 2 + n
      /\ s.buf[1] = SOCKS5_VERSION /\ s.buf[2] = n
      /\ \A i \in 1 .. n : s.buf[2 + i] = plan.methods[i]
      /\ DOMAIN plan.methods = 1 .. n
  <2>1. plan.methods \in Seq(Byte) /\ n \in Byte
    BY PlanBytes
  <2>2. n \in Nat /\ DOMAIN plan.methods = 1 .. n
    BY <2>1, ByteIsNat
  <2>3. /\ Len(Encoding("greeting")) = 2 + n
        /\ Encoding("greeting")[1] = SOCKS5_VERSION /\ Encoding("greeting")[2] = n
        /\ \A i \in 1 .. n : Encoding("greeting")[2 + i] = plan.methods[i]
    BY GreetingParts, Zenon
  <2>. QED
    BY <2>2, <2>3
<1>. HIDE DEF n
<1>2. ByteAt(s, 2) = n
  BY <1>1 DEF ByteAt
<1>3. auth <=> Offers(AUTH_METHOD)
  <2>1. \A i \in 1 .. n : 2 + i \in 3 .. 2 + n /\ ByteAt(s, 2 + i) = plan.methods[i]
    BY <1>1 DEF ByteAt
  <2>2. \A j \in 3 .. 2 + n : \E i \in 1 .. n : j = 2 + i
    <3>. TAKE j \in 3 .. 2 + n
    <3>1. j - 2 \in 1 .. n /\ j = 2 + (j - 2)
      BY <1>1
    <3>. QED
      BY <3>1
  <2>3. ASSUME auth PROVE Offers(AUTH_METHOD)
    <3>1. PICK j \in 3 .. 2 + n : ByteAt(s, j) = AUTH_METHOD
      BY <2>3
    <3>2. PICK i \in 1 .. n : j = 2 + i
      BY <2>2
    <3>. QED
      BY <1>1, <2>1, <3>1, <3>2 DEF Offers
  <2>4. ASSUME Offers(AUTH_METHOD) PROVE auth
    <3>1. PICK i \in 1 .. n : plan.methods[i] = AUTH_METHOD
      BY <1>1, <2>4 DEF Offers
    <3>. QED
      BY <2>1, <3>1
  <2>. QED
    BY <2>3, <2>4
<1>4. \/ r = Failed(s)
      \/ n # 0 /\ r = e
      \/ r \in Greeted(f, IF auth THEN AUTH_METHOD ELSE NO_AUTH_METHOD)
  <2>1. ~(Len(s.buf) < 2)
    BY <1>1
  <2>. QED
    BY <1>1, <1>2, <2>1 DEF HelloRead
<1>. HIDE DEF auth
<1>5. CASE r = Failed(s)
  <2>1. r.state = "ERROR" /\ r.heard = s.heard
    BY <1>5 DEF Failed, Session
  <2>. QED
    BY <2>1, OverAwaits DEF Open
<1>6. CASE n # 0 /\ r = e
  <2>1. r.state = "HELLO" /\ r.interest = "R" /\ r.heard = s.heard
    BY <1>6 DEF Eat, Session
  <2>2. r.buf = SubSeq(s.buf, 3, 2 + n)
    <3>1. 2 \in Nat /\ 2 < Len(s.buf) /\ Len(s.buf) = 2 + n
      BY <1>1, <1>6
    <3>2. e.buf = SubSeq(s.buf, 2 + 1, Len(s.buf))
      BY <3>1, EatBuf
    <3>. QED
      BY <1>6, <3>1, <3>2
  <2>3. Len(r.buf) = n
    BY <1>1, <2>2, PartType DEF Session
  <2>4. r.buf # << >>
    BY <1>6, <2>3
  <2>. QED
    BY <2>1, <2>4 DEF AwaitsOnly, Awaits, Refusing
<1>7. CASE r \in Greeted(f, IF auth THEN AUTH_METHOD ELSE NO_AUTH_METHOD)
  <2>1. r \in Greeted(f, Chosen) /\ Chosen \in { AUTH_METHOD, NO_AUTH_METHOD }
        /\ (Chosen = AUTH_METHOD <=> Offers(AUTH_METHOD))
    BY <1>3, <1>7 DEF Chosen, AUTH_METHOD, NO_AUTH_METHOD
  <2>2. f \in Session /\ f.heard = s.heard /\ f.buf = << >>
    <3>1. 2 + n \in Nat /\ s.buf \in Seq(Byte) /\ s.used \in Nat
      BY <1>1 DEF Session
    <3>2. 2 + n >= Len(s.buf)
      BY <1>1
    <3>3. f = [s EXCEPT !.buf = << >>, !.used = 0]
      BY <3>2 DEF Eat
    <3>. HIDE DEF f
    <3>4. << >> \in Seq(Byte) /\ 0 \in Nat
      OBVIOUS
    <3>. QED
      BY <3>3, <3>4 DEF Session
  <2>. HIDE DEF f
  <2>3. /\ ~Refusing(r) /\ r.buf = f.buf
        /\ r.heard.method = f.heard.method \cup {Chosen}
        /\ r.heard.login = f.heard.login /\ r.heard.dest = f.heard.dest
        /\ Chosen = AUTH_METHOD => AwaitsOnly(r, "auth")
        /\ Chosen # AUTH_METHOD => AwaitsOnly(r, "request") /\ r.user = "anonymous"
    BY <2>1, <2>2, GreetedAwaits
  <2>. QED
    BY <2>1, <2>2, <2>3
<1>. QED
  BY <1>4, <1>5, <1>6, <1>7

\* Bytes that are all there are taken as they are.
LEMMA BytesThere ==
    ASSUME NEW s \in Session, NEW i \in Nat \ {0}, NEW n \in Nat, i + n - 1 <= Len(s.buf)
    PROVE  BytesAt(s, i, n) = SubSeq(s.buf, i, i + n - 1)
<1>1. Len(s.buf) \in Nat
  BY DEF Session
<1>2. Least(i + n - 1, Len(s.buf)) = i + n - 1
  BY <1>1 DEF Least
<1>. QED
  BY <1>2 DEF BytesAt

\* After a login only the request of an account is awaited, or nothing.
LEMMA JudgedAwaits ==
    ASSUME NEW s \in Session, BufferFits(s), NEW n \in Nat,
           NEW login \in Seq(Byte) \X Seq(Byte), NEW r \in Judged(s, n, login)
    PROVE  /\ r.buf = Eat(s, n).buf /\ ~Refusing(r)
           /\ r.heard.login = s.heard.login \cup {login}
           /\ r.heard.method = s.heard.method /\ r.heard.dest = s.heard.dest
           /\ \/ AwaitsOnly(r, "nothing")
              \/ AwaitsOnly(r, "request") /\ r.user = "account"
<1>. DEFINE valid == login \in Accounts
            e == Eat(s, n)
            reply == << AUTH_VERSION, IF valid THEN 0 ELSE 1 >>
            t == [e EXCEPT !.reply = reply, !.interest = "W",
                           !.heard.login = @ \cup {login}]
            u == [t EXCEPT !.user = "account"]
<1>1. e \in Session /\ e.heard = s.heard
  <2>1. e \in Session
    BY EatType
  <2>2. PICK b \in Seq(Byte), v \in Nat :
           /\ Eat(s, n) = [s EXCEPT !.buf = b, !.used = v]
           /\ v + Len(b) <= Capacity
    BY EatType
  <2>3. Eat(s, n).heard = s.heard
    BY <2>2 DEF Session
  <2>. QED
    BY <2>1, <2>3
<1>2. reply \in Seq(Nat)
  BY DEF AUTH_VERSION
<1>3. /\ valid => r \in AuthWrite(u, 0)
      /\ ~valid => r \in AuthFailedWrite(t, 0)
  BY DEF Judged
<1>. HIDE DEF e, reply, valid
<1>4. /\ t \in Session /\ t.interest = "W" /\ t.buf = e.buf
      /\ t.heard.login = s.heard.login \cup {login}
      /\ t.heard.method = s.heard.method /\ t.heard.dest = s.heard.dest
  BY <1>1, <1>2 DEF Session
<1>. HIDE DEF t
<1>5. /\ u \in Session /\ u.interest = "W" /\ u.buf = t.buf
      /\ u.heard = t.heard /\ u.user = "account"
  BY <1>4 DEF Session
<1>. HIDE DEF u
<1>6. CASE valid
  <2>1. Kept(u, r) /\ AwaitsOnly(r, "request") /\ ~Refusing(r)
    BY <1>3, <1>5, <1>6, AuthWriteAwaits
  <2>. QED
    BY <1>4, <1>5, <2>1 DEF Kept, e
<1>7. CASE ~valid
  <2>1. Kept(t, r) /\ AwaitsOnly(r, "nothing") /\ ~Refusing(r)
    BY <1>3, <1>4, <1>7, AuthFailedWriteAwaits
  <2>. QED
    BY <1>4, <2>1 DEF Kept, e
<1>. QED
  BY <1>6, <1>7

\* The login: what is checked against the accounts is the client's name and password,
\* as strings.
LEMMA LoginRead ==
    ASSUME plan \in Plans, NEW s \in Session, BufferFits(s),
           s.buf = Encoding("auth"), NEW r \in AuthRead(s)
    PROVE  /\ r.heard.login \subseteq s.heard.login \cup {Login}
           /\ r.heard.method = s.heard.method /\ r.heard.dest = s.heard.dest
           /\ ~Refusing(r)
           /\ \/ AwaitsOnly(r, "nothing")
              \/ r.buf = << >> /\ AwaitsOnly(r, "request") /\ r.user = "account"
<1>. DEFINE n == Len(plan.name)
            p == Len(plan.pass)
            name == BytesAt(s, 3, ByteAt(s, 2))
            pass == BytesAt(s, 4 + Len(name), ByteAt(s, 3 + Len(name)))
<1>1. n \in Nat /\ p \in Nat /\ plan.name \in Seq(Byte) /\ plan.pass \in Seq(Byte)
  BY PlanBytes, ByteIsNat
<1>2. /\ Len(s.buf) = 3 + n + p
      /\ s.buf[1] = AUTH_VERSION /\ s.buf[2] = n /\ s.buf[3 + n] = p
      /\ SubSeq(s.buf, 3, 2 + n) = plan.name
      /\ SubSeq(s.buf, 4 + n, 3 + n + p) = plan.pass
  BY AuthParts, Zenon
<1>3. r \in Judged(s, 3 + Len(name) + Len(pass), << CString(name), CString(pass) >>)
  BY <1>2 DEF AuthRead
<1>4. name = plan.name
  <2>. HIDE DEF n, p
  <2>1. ByteAt(s, 2) = n
    BY <1>1, <1>2 DEF ByteAt
  <2>2. 3 \in Nat \ {0} /\ 3 + n - 1 <= Len(s.buf) /\ 3 + n - 1 = 2 + n
    BY <1>1, <1>2
  <2>3. BytesAt(s, 3, n) = SubSeq(s.buf, 3, 3 + n - 1)
    BY <1>1, <2>2, BytesThere
  <2>. QED
    BY <1>2, <2>1, <2>2, <2>3
<1>. HIDE DEF name
<1>5. pass = plan.pass
  <2>0. Len(name) = n
    BY <1>4
  <2>. HIDE DEF n, p
  <2>1. ByteAt(s, 3 + n) = p
    BY <1>1, <1>2 DEF ByteAt
  <2>2. /\ 4 + n \in Nat \ {0} /\ (4 + n) + p - 1 <= Len(s.buf)
        /\ (4 + n) + p - 1 = 3 + n + p
    BY <1>1, <1>2
  <2>3. BytesAt(s, 4 + n, p) = SubSeq(s.buf, 4 + n, (4 + n) + p - 1)
    BY <1>1, <2>2, BytesThere
  <2>. QED
    BY <1>2, <2>0, <2>1, <2>2, <2>3
<1>. HIDE DEF pass
<1>6. r \in Judged(s, 3 + n + p, Login)
  BY <1>3, <1>4, <1>5 DEF Login
<1>7. Login \in Seq(Byte) \X Seq(Byte)
  BY <1>1, CStringType DEF Login
<1>. HIDE DEF n, p
<1>8. 3 + n + p \in Nat /\ 3 + n + p >= Len(s.buf)
  BY <1>1, <1>2
<1>9. Eat(s, 3 + n + p).buf = << >>
  BY <1>8, EatBuf
<1>. QED
  BY <1>6, <1>7, <1>8, <1>9, JudgedAwaits

\* Two bytes make the port they were made of.
LEMMA PortWhole ==
    ASSUME plan \in Plans
    PROVE  PortBytes[1] * ByteMod + PortBytes[2] = plan.port
<1>1. plan.port \in Nat /\ ByteMod \in Nat \ {0}
  BY PlanBytes, HandshakeAssumption DEF UNSUPPORTED_COMMAND
<1>2. \A x \in Nat : (x \div ByteMod) * ByteMod + (x % ByteMod) = x
  BY <1>1
<1>3. PortBytes[1] = plan.port \div ByteMod /\ PortBytes[2] = plan.port % ByteMod
  BY DEF PortBytes
<1>. QED
  BY <1>1, <1>2, <1>3

\* Where address and port are all that is left, the destination is the client's.
LEMMA DestinedMeant ==
    ASSUME plan \in Plans, NEW s \in Session, BufferFits(s), NEW pre \in Seq(Byte),
           s.buf = pre \o (plan.addr \o PortBytes),
           NEW i \in Nat, i = Len(pre) + 1, NEW next \in { "CONNECT", "RESOLVE" },
           NEW r \in Destined(s, i, Len(plan.addr), next)
    PROVE  /\ r.state = next
           /\ r.heard.dest = s.heard.dest \cup {Destination}
           /\ r.heard.method = s.heard.method /\ r.heard.login = s.heard.login
<1>. DEFINE n    == Len(plan.addr)
            host == BytesAt(s, i, n)
            p    == i + Len(host)
            port == ByteAt(s, p) * ByteMod + ByteAt(s, p + 1)
            e    == Eat(s, p + 1)
            dest == [ host |-> host, port |-> port ]
<1>1. /\ PortBytes \in Seq(Byte) /\ Len(PortBytes) = 2 /\ plan.addr \in Seq(Byte)
      /\ n \in Nat /\ plan.addr \o PortBytes \in Seq(Byte)
      /\ Len(plan.addr \o PortBytes) = n + 2
      /\ Len(pre) \in Nat
  BY RequestParts
<1>2. /\ SubSeq(s.buf, Len(pre) + 1, Len(pre) + n) = plan.addr
      /\ Len(s.buf) = Len(pre) + (n + 2)
  <2>1. SubSeq(pre \o (plan.addr \o PortBytes), Len(pre) + 1, Len(pre) + Len(plan.addr)) = plan.addr
    BY <1>1, Middle
  <2>2. /\ plan.addr \o PortBytes \in Seq(Byte)
        /\ Len(plan.addr \o PortBytes) = n + 2
    BY <1>1
  <2>. DEFINE c == plan.addr \o PortBytes
  <2>. HIDE DEF c
  <2>3. Len(pre \o c) = Len(pre) + Len(c)
    BY <2>2, JoinBytes DEF c
  <2>. QED
    BY <2>1, <2>2, <2>3 DEF c
<1>3. /\ s.buf[Len(pre) + n + 1] = PortBytes[1]
      /\ s.buf[Len(pre) + n + 2] = PortBytes[2]
  <2>. DEFINE a == pre \o plan.addr
  <2>1. a \in Seq(Byte) /\ Len(a) = Len(pre) + n
    <3>1. plan.addr \in Seq(Byte)
      BY <1>1
    <3>. QED
      BY <3>1, JoinBytes
  <2>2. s.buf = a \o PortBytes
    <3>1. plan.addr \in Seq(Byte) /\ PortBytes \in Seq(Byte)
      BY <1>1
    <3>2. (pre \o plan.addr) \o PortBytes = pre \o (plan.addr \o PortBytes)
      BY <3>1, RegroupBytes
    <3>. QED
      BY <3>2
  <2>. HIDE DEF a
  <2>3. \A j \in 1 .. Len(PortBytes) : (a \o PortBytes)[Len(a) + j] = PortBytes[j]
    BY <1>1, <2>1, JoinBytes
  <2>4. 1 \in 1 .. Len(PortBytes) /\ 2 \in 1 .. Len(PortBytes)
    BY <1>1
  <2>. QED
    BY <2>1, <2>2, <2>3, <2>4
<1>. HIDE DEF n
<1>4. host = plan.addr
  <2>1. i \in Nat \ {0} /\ i + n - 1 <= Len(s.buf) /\ i + n - 1 = Len(pre) + n
    BY <1>1, <1>2
  <2>2. BytesAt(s, i, n) = SubSeq(s.buf, i, i + n - 1)
    BY <1>1, <2>1, BytesThere
  <2>. QED
    BY <1>2, <2>1, <2>2
<1>. HIDE DEF host
<1>5. p = Len(pre) + n + 1 /\ p + 1 = Len(pre) + n + 2 /\ p + 1 <= Len(s.buf) /\ p \in Nat
  <2>1. Len(host) = n
    BY <1>4 DEF n
  <2>. QED
    BY <1>1, <1>2, <2>1
<1>. HIDE DEF p
<1>6. port = plan.port
  <2>1. ByteAt(s, p) = PortBytes[1] /\ ByteAt(s, p + 1) = PortBytes[2]
    <3>1. s.buf[p] = PortBytes[1] /\ s.buf[p + 1] = PortBytes[2]
      BY <1>3, <1>5
    <3>2. p <= Len(s.buf) /\ p + 1 <= Len(s.buf)
      BY <1>1, <1>2, <1>5
    <3>. QED
      BY <3>1, <3>2 DEF ByteAt
  <2>. QED
    BY <2>1, PortWhole
<1>. HIDE DEF port
<1>7. dest = Destination
  BY <1>4, <1>6 DEF Destination
<1>8. e \in Session /\ e.heard = s.heard
  <2>1. p + 1 \in Nat
    BY <1>5
  <2>2. e \in Session
    BY <2>1, EatType
  <2>3. PICK b \in Seq(Byte), v \in Nat :
           /\ Eat(s, p + 1) = [s EXCEPT !.buf = b, !.used = v]
           /\ v + Len(b) <= Capacity
    BY <2>1, EatType
  <2>4. Eat(s, p + 1).heard = s.heard
    BY <2>3 DEF Session
  <2>. QED
    BY <2>2, <2>4
<1>. HIDE DEF e, dest
<1>9. r = [e EXCEPT !.state = next, !.heard.dest = @ \cup { dest }]
  BY DEF Destined, e, dest, p, port, host, n
<1>. QED
  BY <1>7, <1>8, <1>9 DEF Session

\* What the parser finds in a request of which all the header has arrived, and what
\* is left for it to read.
LEMMA HeaderRead ==
    ASSUME plan \in Plans, NEW s \in Session, NEW w \in Seq(Byte),
           s.buf \o w = Encoding("request"), Len(s.buf) >= 4
    PROVE  /\ s.buf[1] = SOCKS5_VERSION /\ s.buf[2] = plan.cmd /\ s.buf[4] = plan.atyp
           /\ Eat(s, 4).buf \in Seq(Byte)
           /\ Eat(s, 4).buf \o w = Body
<1>1. /\ Header \in Seq(Byte) /\ Len(Header) = 4 /\ Body \in Seq(Byte)
      /\ Header[1] = SOCKS5_VERSION /\ Header[2] = plan.cmd /\ Header[4] = plan.atyp
      /\ Encoding("request") = Header \o Body
  BY RequestParts
<1>2. s.buf \in Seq(Byte) /\ Len(s.buf) \in Nat /\ s.buf \o w = Header \o Body
  <2>1. s.buf \in Seq(Byte)
    BY DEF Session
  <2>2. s.buf \o w = Header \o Body
    BY <1>1, Zenon
  <2>3. Len(s.buf) \in Nat
    BY <2>1
  <2>. QED
    BY <2>1, <2>2, <2>3, Zenon
<1>3. \A i \in 1 .. 4 : s.buf[i] = Header[i]
  <2>. TAKE i \in 1 .. 4
  <2>1. i \in 1 .. Len(s.buf) /\ i \in 1 .. Len(Header)
    BY <1>1, <1>2
  <2>2. (s.buf \o w)[i] = s.buf[i]
    BY <1>2, <2>1, JoinBytes
  <2>3. (Header \o Body)[i] = Header[i]
    BY <1>1, <2>1, JoinBytes
  <2>. QED
    BY <1>2, <2>2, <2>3
<1>4. Eat(s, 4).buf = SubSeq(s.buf, 4 + 1, Len(s.buf))
  <2>1. 4 \in Nat /\ (4 >= Len(s.buf) \/ 4 < Len(s.buf))
    BY <1>2
  <2>2. CASE 4 < Len(s.buf)
    BY <2>1, <2>2, EatBuf
  <2>3. CASE 4 >= Len(s.buf)
    <3>1. Eat(s, 4).buf = << >>
      BY <2>1, <2>3, EatBuf
    <3>2. Len(SubSeq(s.buf, 4 + 1, Len(s.buf))) = 0
      BY <1>2, <2>3, PartType
    <3>3. SubSeq(s.buf, 4 + 1, Len(s.buf)) \in Seq(Byte)
      BY <1>2, PartType
    <3>. QED
      BY <3>1, <3>2, <3>3, EmptySeq
  <2>. QED
    BY <2>1, <2>2, <2>3
<1>5. SubSeq(s.buf, Len(Header) + 1, Len(s.buf)) \o w = Body
  <2>1. Len(Header) <= Len(s.buf)
    BY <1>1
  <2>2. s.buf \o w = Header \o Body => SubSeq(s.buf, Len(Header) + 1, Len(s.buf)) \o w = Body
    BY <1>1, <1>2, <2>1, Dropped
  <2>. QED
    BY <1>2, <2>2
<1>6. SubSeq(s.buf, 4 + 1, Len(s.buf)) \in Seq(Byte)
  BY <1>2, PartType
<1>7. s.buf[1] = SOCKS5_VERSION /\ s.buf[2] = plan.cmd /\ s.buf[4] = plan.atyp
  BY <1>1, <1>3
<1>8. Eat(s, 4).buf \o w = Body
  BY <1>1, <1>4, <1>5
<1>. QED
  BY <1>4, <1>6, <1>7, <1>8

\* A destination changes nothing else that was heard.
LEMMA DestinedKeeps ==
    ASSUME NEW s \in Session, BufferFits(s), NEW i \in Nat \ {0}, NEW n \in Nat,
           NEW next \in { "CONNECT", "RESOLVE" }, NEW r \in Destined(s, i, n, next)
    PROVE  /\ r.state = next
           /\ r.heard.method = s.heard.method /\ r.heard.login = s.heard.login
<1>. DEFINE host == BytesAt(s, i, n)
            p    == i + Len(host)
            port == ByteAt(s, p) * ByteMod + ByteAt(s, p + 1)
            e    == Eat(s, p + 1)
            dest == [ host |-> host, port |-> port ]
<1>1. p + 1 \in Nat
  <2>1. Len(host) \in Nat
    BY BytesAtType
  <2>. HIDE DEF host
  <2>. QED
    BY <2>1
<1>. HIDE DEF p
<1>2. e \in Session /\ e.heard = s.heard
  <2>1. e \in Session
    BY <1>1, EatType
  <2>2. PICK b \in Seq(Byte), v \in Nat :
           /\ Eat(s, p + 1) = [s EXCEPT !.buf = b, !.used = v]
           /\ v + Len(b) <= Capacity
    BY <1>1, EatType
  <2>3. Eat(s, p + 1).heard = s.heard
    BY <2>2 DEF Session
  <2>. QED
    BY <2>1, <2>3
<1>. HIDE DEF e, dest
<1>3. r = [e EXCEPT !.state = next, !.heard.dest = @ \cup { dest }]
  BY DEF Destined, e, dest, p, port, host
<1>. QED
  BY <1>2, <1>3 DEF Session

\* What a request can lead to.
LEMMA RequestReadCases ==
    ASSUME NEW s, NEW r \in RequestRead(s)
    PROVE  LET t == Eat(s, 4)
           IN  \/ Len(s.buf) < 4 /\ r = s
               \/ r = Failed(s)
               \/ /\ ~(Len(s.buf) < 4) /\ s.buf[1] = SOCKS5_VERSION
                  /\ \/ r \in Refused(t, UNSUPPORTED_COMMAND) \cup Refused(t, UNSUPPORTED_ATYP)
                     \/ s.buf[4] = IPV4_ATYP /\ Len(t.buf) < 6 /\ r = t
                     \/ /\ s.buf[4] = IPV4_ATYP /\ ~(Len(t.buf) < 6)
                        /\ r \in Destined(t, 1, 4, "CONNECT")
                     \/ s.buf[4] = IPV6_ATYP /\ Len(t.buf) < 18 /\ r = t
                     \/ /\ s.buf[4] = IPV6_ATYP /\ ~(Len(t.buf) < 18)
                        /\ r \in Destined(t, 1, 16, "CONNECT")
                     \/ s.buf[4] = DOMAIN_NAME_ATYP /\ t.buf = << >> /\ r = t
                     \/ /\ s.buf[4] = DOMAIN_NAME_ATYP /\ t.buf # << >>
                        /\ r \in Destined(t, 2, t.buf[1], "RESOLVE")
  BY DEF RequestRead

\* Eating the header of a request changes nothing else.
LEMMA HeaderEaten ==
    ASSUME NEW s \in Session, BufferFits(s)
    PROVE  LET t == Eat(s, 4)
           IN  /\ t \in Session /\ BufferFits(t)
               /\ t.state = s.state /\ t.interest = s.interest
               /\ t.user = s.user /\ t.heard = s.heard
<1>1. 4 \in Nat
  OBVIOUS
<1>2. Eat(s, 4) \in Session /\ BufferFits(Eat(s, 4))
  BY <1>1, EatType
<1>3. PICK b \in Seq(Byte), v \in Nat :
         /\ Eat(s, 4) = [s EXCEPT !.buf = b, !.used = v]
         /\ v + Len(b) <= Capacity
  BY <1>1, EatType
<1>. QED
  BY <1>2, <1>3 DEF Session

\* Of an address of its type nothing is read before all of it and its port are there.
LEMMA AddressRead ==
    ASSUME plan \in Plans, NEW s \in Session, BufferFits(s), NEW w \in Seq(Byte),
           s.buf \o w = plan.addr \o PortBytes, Len(s.buf) >= Len(plan.addr) + 2,
           NEW r \in Destined(s, 1, Len(plan.addr), "CONNECT")
    PROVE  /\ r.state = "CONNECT"
           /\ r.heard.dest = s.heard.dest \cup {Destination}
           /\ r.heard.method = s.heard.method /\ r.heard.login = s.heard.login
<1>1. s.buf \in Seq(Byte) /\ Len(s.buf) \in Nat /\ Len(w) \in Nat
  <2>1. s.buf \in Seq(Byte)
    BY DEF Session
  <2>. QED
    BY <2>1
<1>. DEFINE c == plan.addr \o PortBytes
<1>2. c \in Seq(Byte) /\ Len(c) = Len(plan.addr) + 2 /\ Len(plan.addr) \in Nat
  BY RequestParts
<1>3. s.buf \o w = c
  OBVIOUS
<1>. HIDE DEF c
<1>4. Len(s.buf \o w) = Len(s.buf) + Len(w)
  BY <1>1, JoinBytes
<1>5. Len(w) = 0
  BY <1>1, <1>2, <1>3, <1>4
<1>6. w = << >>
  BY <1>5, EmptySeq
<1>7. s.buf = c
  BY <1>1, <1>3, <1>6, ConcatEmptySeq
<1>8. << >> \in Seq(Byte) /\ Len(<< >>) = 0 /\ << >> \o c = c
  BY <1>2, EmptySeq, ConcatEmptySeq
<1>9. 1 = Len(<< >>) + 1 /\ s.buf = << >> \o c
  BY <1>7, <1>8
<1>10. PICK pre : pre \in Seq(Byte) /\ s.buf = pre \o c /\ 1 = Len(pre) + 1
  BY <1>8, <1>9, Zenon
<1>11. s.buf = pre \o (plan.addr \o PortBytes)
  BY <1>10 DEF c
<1>12. r \in Destined(s, 1, Len(plan.addr), "CONNECT")
  OBVIOUS
<1>. QED
  BY <1>10, <1>11, <1>12, DestinedMeant

\* What a session does after it has read at its request.
LEMMA AtRequest ==
    ASSUME NEW s \in Session, BufferFits(s), s.state = "REQUEST", s.interest = "R"
    PROVE  /\ Failed(s).state \notin Open /\ Failed(s).heard = s.heard
           /\ \A r \in Refused(Eat(s, 4), UNSUPPORTED_COMMAND)
                         \cup Refused(Eat(s, 4), UNSUPPORTED_ATYP) :
                r.state = "REQUEST" /\ r.interest = "W" /\ r.heard = s.heard /\ r.user = s.user
           /\ AwaitsOnly(s, "request") /\ ~Refusing(s)
           /\ AwaitsOnly(Eat(s, 4), "request") /\ ~Refusing(Eat(s, 4))
           /\ Eat(s, 4).heard = s.heard /\ Eat(s, 4).user = s.user
           /\ Eat(s, 4).state = "REQUEST" /\ Eat(s, 4).interest = "R"
<1>1. PICK t : t = Eat(s, 4)
  OBVIOUS
<1>2. /\ t \in Session /\ t.state = s.state /\ t.interest = s.interest
      /\ t.user = s.user /\ t.heard = s.heard
  BY <1>1, HeaderEaten, Zenon
<1>3. Failed(s).state \notin Open /\ Failed(s).heard = s.heard
  BY DEF Failed, Session, Open
<1>4. ASSUME NEW r \in Refused(t, UNSUPPORTED_COMMAND) \cup Refused(t, UNSUPPORTED_ATYP)
      PROVE  r.state = "REQUEST" /\ r.interest = "W" /\ r.heard = s.heard /\ r.user = s.user
  <2>1. \E status : r = [t EXCEPT !.reply = << SOCKS5_VERSION, status >>, !.interest = "W"]
    BY DEF Refused
  <2>2. PICK status : r = [t EXCEPT !.reply = << SOCKS5_VERSION, status >>, !.interest = "W"]
    BY <2>1
  <2>. QED
    BY <1>2, <2>2 DEF Session
<1>5. AwaitsOnly(s, "request") /\ ~Refusing(s) /\ AwaitsOnly(t, "request") /\ ~Refusing(t)
  BY <1>2 DEF AwaitsOnly, Awaits, Refusing
<1>. QED
  BY <1>1, <1>2, <1>3, <1>4, <1>5

\* Of an address of its type the parser knows the length.
LEMMA AddressSize ==
    ASSUME Addressed, plan.atyp \in { IPV4_ATYP, IPV6_ATYP }
    PROVE  /\ Size = << >>
           /\ plan.atyp = IPV4_ATYP => Len(plan.addr) = 4
           /\ plan.atyp = IPV6_ATYP => Len(plan.addr) = 16
  BY DEF Addressed, Size, IPV4_ATYP, IPV6_ATYP, DOMAIN_NAME_ATYP

LEMMA AddressLong ==
    ASSUME plan \in Plans, Addressed, plan.atyp \in { IPV4_ATYP, IPV6_ATYP }
    PROVE  /\ Len(plan.addr) >= 4
           /\ \A l \in Nat :
                \/ plan.atyp = IPV4_ATYP /\ ~(l < 6)
                \/ plan.atyp = IPV6_ATYP /\ ~(l < 18)
                => l >= Len(plan.addr) + 2
<1>1. PICK n : n = Len(plan.addr)
  OBVIOUS
<1>2. /\ plan.atyp = IPV4_ATYP => n = 4
      /\ plan.atyp = IPV6_ATYP => n = 16
  BY <1>1, AddressSize
<1>3. n >= 4
  BY <1>2
<1>4. \A l \in Nat :
         \/ plan.atyp = IPV4_ATYP /\ ~(l < 6)
         \/ plan.atyp = IPV6_ATYP /\ ~(l < 18)
         => l >= n + 2
  BY <1>2
<1>. QED
  BY <1>1, <1>3, <1>4

\* A whole request: the destination is the client's, if its address is of its type;
\* what is not understood leaves something to read, or ends in a refusal.
LEMMA RequestReadWhole ==
    ASSUME plan \in Plans, NEW s \in Session, BufferFits(s),
           s.state = "REQUEST", s.interest = "R",
           s.buf = Encoding("request"), NEW r \in RequestRead(s)
    PROVE  /\ r.heard.method = s.heard.method /\ r.heard.login = s.heard.login
           /\ Addressed => r.heard.dest \subseteq s.heard.dest \cup {Destination}
           /\ \/ AwaitsOnly(r, "nothing")
              \/ AwaitsOnly(r, "request") /\ r.buf # << >> /\ r.user = s.user
<1>1. PICK t : t = Eat(s, 4)
  OBVIOUS
<1>2. t \in Session /\ BufferFits(t) /\ t.heard = s.heard
  BY <1>1, HeaderEaten, Zenon
<1>3. /\ Size \in Seq(Byte) /\ Body \in Seq(Byte) /\ Len(plan.addr) \in Nat
      /\ Len(Size) \in Nat /\ Len(Body) = Len(Size) + Len(plan.addr) + 2
      /\ Len(Encoding("request")) \in Nat
  BY RequestParts, EncodingLong DEF Message
<1>4. /\ s.buf \o << >> = Encoding("request") /\ << >> \in Seq(Byte)
  <2>1. s.buf \in Seq(Byte)
    BY DEF Session
  <2>. QED
    BY <2>1, EmptySeq, ConcatEmptySeq
<1>5. Len(s.buf) >= 4 /\ s.buf # << >>
  <2>1. Len(Header \o Body) = Len(Header) + Len(Body) /\ Len(Header) = 4 /\ Len(Body) \in Nat
    BY RequestParts, JoinBytes
  <2>2. Encoding("request") = Header \o Body
    BY RequestParts
  <2>3. Len(s.buf) >= 4
    BY <2>1, <2>2
  <2>. QED
    BY <2>3
<1>6. s.buf[4] = plan.atyp /\ t.buf \in Seq(Byte) /\ t.buf \o << >> = Body
  BY <1>1, <1>4, <1>5, HeaderRead, Zenon
<1>7. t.buf = Body
  BY <1>6, ConcatEmptySeq
<1>8. t.buf # << >>
  BY <1>3, <1>7
<1>9. CASE r = s
  BY <1>5, <1>9, AtRequest
<1>10. CASE r = Failed(s)
  BY <1>10, AtRequest, OverAwaits
<1>11. CASE r \in Refused(t, UNSUPPORTED_COMMAND) \cup Refused(t, UNSUPPORTED_ATYP)
  <2>1. r.state = "REQUEST" /\ r.interest = "W" /\ r.heard = s.heard
    BY <1>1, <1>11, AtRequest
  <2>. QED
    BY <2>1 DEF AwaitsOnly, Awaits
<1>12. CASE r = t
  BY <1>1, <1>8, <1>12, AtRequest
<1>13. CASE \/ plan.atyp = IPV4_ATYP /\ ~(Len(t.buf) < 6) /\ r \in Destined(t, 1, 4, "CONNECT")
            \/ plan.atyp = IPV6_ATYP /\ ~(Len(t.buf) < 18) /\ r \in Destined(t, 1, 16, "CONNECT")
  <2>1. /\ r.state = "CONNECT"
        /\ r.heard.method = s.heard.method /\ r.heard.login = s.heard.login
    BY <1>2, <1>13, DestinedKeeps, SMTT(60)
  <2>2. ASSUME Addressed
        PROVE  r.heard.dest = s.heard.dest \cup {Destination}
    <3>1. Size = << >> /\ r \in Destined(t, 1, Len(plan.addr), "CONNECT")
      BY <1>13, <2>2, AddressSize
    <3>2. Body = plan.addr \o PortBytes
      BY <3>1, RequestParts, ConcatEmptySeq DEF Body
    <3>3. Len(Size) = 0
      BY <3>1
    <3>4. t.buf \o << >> = plan.addr \o PortBytes /\ Len(t.buf) >= Len(plan.addr) + 2
      BY <1>3, <1>6, <1>7, <3>2, <3>3
    <3>. QED
      BY <1>2, <1>4, <3>1, <3>4, AddressRead
  <2>. QED
    BY <2>1, <2>2, OverAwaits DEF Open
<1>14. CASE plan.atyp = DOMAIN_NAME_ATYP /\ r \in Destined(t, 2, t.buf[1], "RESOLVE")
  <2>1. Size = << Len(plan.addr) >> /\ Len(Size) = 1 /\ Size[1] = Len(plan.addr)
    BY <1>14 DEF Size
  <2>2. t.buf = Size \o (plan.addr \o PortBytes)
    BY <1>7 DEF Body
  <2>3. t.buf[1] = Len(plan.addr)
    <3>. DEFINE c == plan.addr \o PortBytes
    <3>1. c \in Seq(Byte) /\ t.buf = Size \o c
      BY <2>2, RequestParts
    <3>. HIDE DEF c
    <3>2. 1 \in 1 .. Len(Size)
      BY <2>1
    <3>. QED
      BY <1>3, <2>1, <3>1, <3>2, JoinBytes
  <2>4. 2 = Len(Size) + 1 /\ r \in Destined(t, 2, Len(plan.addr), "RESOLVE")
    BY <1>14, <2>1, <2>3
  <2>5. /\ r.state = "RESOLVE"
        /\ r.heard.dest = t.heard.dest \cup {Destination}
        /\ r.heard.method = t.heard.method /\ r.heard.login = t.heard.login
    BY <1>2, <1>3, <2>2, <2>4, DestinedMeant, ZenonT(60)
  <2>. QED
    BY <1>2, <2>5, OverAwaits DEF Open
<1>. QED
  BY <1>1, <1>6, <1>9, <1>10, <1>11, <1>12, <1>13, <1>14, RequestReadCases

\* A request for an address that comes in parts: its header is lost with the first,
\* so what is left is read as a request of its own, and refused; or the address is
\* waited for, and then it is the client's.
LEMMA RequestReadPart ==
    ASSUME plan \in Plans, Addressed, plan.atyp \in { IPV4_ATYP, IPV6_ATYP },
           plan.addr[1] # SOCKS5_VERSION,
           NEW s \in Session, BufferFits(s), s.state = "REQUEST", s.interest = "R",
           NEW w \in Seq(Byte),
           \/ s.buf \o w = Encoding("request")
           \/ s.buf \o w = plan.addr \o PortBytes,
           NEW r \in RequestRead(s)
    PROVE  /\ r.heard.dest \subseteq s.heard.dest \cup {Destination}
           /\ r.state \in Open => r.state = "REQUEST"
           /\ r.state = "REQUEST" /\ r.interest = "R" =>
                \/ r.buf \o w = Encoding("request")
                \/ r.buf \o w = plan.addr \o PortBytes
<1>1. PICK t : t = Eat(s, 4)
  OBVIOUS
<1>2. t \in Session /\ BufferFits(t) /\ t.heard = s.heard
  BY <1>1, HeaderEaten, Zenon
<1>3. Body = plan.addr \o PortBytes
  BY AddressSize, RequestParts, ConcatEmptySeq DEF Body
<1>4. CASE r = s
  BY <1>4
<1>5. CASE r = Failed(s)
  BY <1>5, AtRequest DEF Open
<1>6. CASE s.buf \o w = Encoding("request") /\ Len(s.buf) >= 4
  <2>1. s.buf[4] = plan.atyp /\ t.buf \in Seq(Byte) /\ t.buf \o w = plan.addr \o PortBytes
    BY <1>1, <1>3, <1>6, HeaderRead, Zenon
  <2>2. CASE r \in Refused(t, UNSUPPORTED_COMMAND) \cup Refused(t, UNSUPPORTED_ATYP)
    BY <1>1, <2>2, AtRequest
  <2>3. CASE r = t
    BY <1>1, <2>1, <2>3, AtRequest
  <2>4. CASE \/ plan.atyp = IPV4_ATYP /\ ~(Len(t.buf) < 6) /\ r \in Destined(t, 1, 4, "CONNECT")
             \/ plan.atyp = IPV6_ATYP /\ ~(Len(t.buf) < 18) /\ r \in Destined(t, 1, 16, "CONNECT")
    <3>1. r \in Destined(t, 1, Len(plan.addr), "CONNECT")
      BY <2>4, AddressSize
    <3>2. Len(t.buf) >= Len(plan.addr) + 2
      <4>1. Len(t.buf) \in Nat
        BY <2>1
      <4>. QED
        BY <2>4, <4>1, AddressLong
    <3>3. r.state = "CONNECT" /\ r.heard.dest = t.heard.dest \cup {Destination}
      BY <1>2, <2>1, <3>1, <3>2, AddressRead
    <3>. QED
      BY <1>2, <3>3 DEF Open
  <2>5. plan.atyp # DOMAIN_NAME_ATYP
    BY DEF IPV4_ATYP, IPV6_ATYP, DOMAIN_NAME_ATYP
  <2>. QED
    BY <1>1, <1>4, <1>5, <2>1, <2>2, <2>3, <2>4, <2>5, RequestReadCases
<1>7. CASE s.buf \o w = plan.addr \o PortBytes /\ Len(s.buf) >= 4
  <2>1. s.buf \in Seq(Byte) /\ Len(s.buf) \in Nat
    <3>1. s.buf \in Seq(Byte)
      BY DEF Session
    <3>. QED
      BY <3>1
  <2>2. plan.addr \in Seq(Byte) /\ PortBytes \in Seq(Byte) /\ Len(plan.addr) >= 4
    <3>1. plan.addr \in Seq(Byte) /\ PortBytes \in Seq(Byte)
      BY RequestParts
    <3>. QED
      BY <3>1, AddressLong
  <2>3. 1 \in 1 .. Len(s.buf) /\ 1 \in 1 .. Len(plan.addr)
    BY <1>7, <2>1, <2>2
  <2>4. (s.buf \o w)[1] = s.buf[1]
    BY <2>1, <2>3, JoinBytes
  <2>5. (plan.addr \o PortBytes)[1] = plan.addr[1]
    BY <2>2, <2>3, JoinBytes
  <2>6. s.buf[1] # SOCKS5_VERSION
    BY <1>7, <2>4, <2>5
  <2>. QED
    BY <1>4, <1>5, <2>6, RequestReadCases
<1>8. Len(s.buf) >= 4 \/ Len(s.buf) < 4
  <2>1. s.buf \in Seq(Byte)
    BY DEF Session
  <2>2. Len(s.buf) \in Nat
    BY <2>1
  <2>. QED
    BY <2>2
<1>9. Len(s.buf) < 4 => r = s \/ r = Failed(s)
  BY RequestReadCases
<1>. QED
  BY <1>4, <1>5, <1>6, <1>7, <1>8, <1>9

-----------------------------------------------------------------------------
(***************************************************************************)
(* The inductive invariant.                                                *)
(***************************************************************************)
HandshakeInv ==
    /\ plan \in Plans
    /\ sent \in Seq(Message)
    /\ wire \in Seq(Byte)
    /\ sent = << >> => wire = << >>
    /\ closed \in BOOLEAN
    /\ Good(session)
    /\ cut \subseteq Message

LEMMA InitInv == Init => HandshakeInv
<1>. SUFFICES ASSUME Init PROVE HandshakeInv
  OBVIOUS
<1>1. << >> \in Seq(Message) /\ << >> \in Seq(Byte) /\ << >> \in Seq(Nat)
  BY EmptySeq
<1>2. session \in Session
  BY <1>1 DEF Init, Session, State, Open
<1>3. BufferFits(session)
  BY HandshakeAssumption DEF Init, BufferFits
<1>4. Spoken(session)
  BY DEF Init, Spoken
<1>. QED
  BY <1>1, <1>2, <1>3, <1>4 DEF Init, HandshakeInv, Good

LEMMA ClientSendsInv == HandshakeInv /\ ClientSends => HandshakeInv'
<1>. SUFFICES ASSUME HandshakeInv, ClientSends PROVE HandshakeInv'
  OBVIOUS
<1>1. PICK m \in Message : sent' = Append(sent, m) /\ wire' = wire \o Encoding(m)
  BY DEF ClientSends
<1>2. sent' \in Seq(Message) /\ sent' # << >>
  BY <1>1, AppendProperties DEF HandshakeInv
<1>3. wire' \in Seq(Byte)
  BY <1>1, EncodingType, ConcatProperties DEF HandshakeInv
<1>. QED
  BY <1>2, <1>3 DEF HandshakeInv, ClientSends

\* The session as a handler finds it after recv().
Filled(k) == [session EXCEPT !.buf = @ \o SubSeq(wire, 1, k)]

LEMMA Received ==
    ASSUME HandshakeInv, Reading, NEW k \in 1 .. Least(Len(wire), Room), Receive(k)
    PROVE  /\ Good(Filled(k)) /\ session' \in Read(Filled(k))
           /\ Filled(k).buf = session.buf \o SubSeq(wire, 1, k)
           /\ Filled(k).buf \o wire' = session.buf \o wire
           /\ Filled(k).state = session.state /\ Filled(k).interest = session.interest
           /\ Filled(k).user = session.user /\ Filled(k).heard = session.heard
           /\ k \in 1 .. Len(wire) /\ wire # << >> /\ wire' \in Seq(Byte)
<1>. DEFINE first == SubSeq(wire, 1, k)
            rest  == SubSeq(wire, k + 1, Len(wire))
            s == [session EXCEPT !.buf = @ \o first]
<1>1. /\ session \in Session /\ BufferFits(session) /\ Spoken(session)
      /\ wire \in Seq(Byte) /\ Len(wire) \in Nat
      /\ session.buf \in Seq(Byte) /\ Len(session.buf) \in Nat /\ session.used \in Nat
  BY DEF HandshakeInv, Good, Session
<1>2. k \in 1 .. Len(wire) /\ k <= Capacity - session.used - Len(session.buf)
  BY <1>1, HandshakeAssumption DEF Least, Room
<1>3. first \in Seq(Byte) /\ Len(first) = k /\ rest \in Seq(Byte)
  BY <1>1, <1>2, PartType
<1>4. first \o rest = wire
  BY <1>1, <1>2, Split
<1>5. wire # << >>
  BY <1>1, <1>2
<1>6. session' \in Read(s) /\ wire' = rest
  BY DEF Receive
<1>. HIDE DEF first, rest
<1>7. /\ session.buf \o first \in Seq(Byte)
      /\ Len(session.buf \o first) = Len(session.buf) + k
  BY <1>1, <1>3, ConcatProperties
<1>8. /\ s \in Session /\ s.buf = session.buf \o first /\ s.used = session.used
      /\ s.state = session.state /\ s.interest = session.interest
      /\ s.told = session.told /\ s.reply = session.reply
      /\ s.user = session.user /\ s.heard = session.heard
  BY <1>1, <1>7 DEF Session
<1>9. (session.buf \o first) \o rest = session.buf \o (first \o rest)
  BY <1>1, <1>3, RegroupBytes
<1>. HIDE DEF s
<1>10. BufferFits(s)
  BY <1>1, <1>2, <1>7, <1>8, HandshakeAssumption, SMTT(60) DEF BufferFits
<1>11. Spoken(s)
  BY <1>1, <1>8 DEF Spoken, Says, Admitted, LoggedIn
<1>12. s.buf \o wire' = session.buf \o wire
  BY <1>4, <1>6, <1>8, <1>9, Zenon
<1>13. s = Filled(k) /\ first = SubSeq(wire, 1, k)
  BY DEF s, first, Filled
<1>14. Good(s)
  BY <1>8, <1>10, <1>11 DEF Good
<1>. QED
  BY <1>2, <1>3, <1>5, <1>6, <1>8, <1>12, <1>13, <1>14, Zenon

LEMMA ReceiveInv ==
    ASSUME HandshakeInv, Reading, NEW k \in 1 .. Least(Len(wire), Room), Receive(k)
    PROVE  HandshakeInv'
<1>1. /\ Good(Filled(k)) /\ session' \in Read(Filled(k))
      /\ Filled(k).state = session.state /\ Filled(k).interest = session.interest
      /\ wire # << >> /\ wire' \in Seq(Byte)
  BY Received
<1>2. Good(session')
  BY <1>1, ReadGood DEF Reading
<1>3. sent # << >> /\ sent \in Seq(Message)
  BY <1>1 DEF HandshakeInv
<1>4. LastSent \in Message
  <2>1. Len(sent) \in 1 .. Len(sent)
    BY <1>3, EmptySeq
  <2>. QED
    BY <1>3, <2>1, ElementOfSeq DEF LastSent
<1>5. cut' \subseteq Message /\ sent' = sent
  BY <1>4 DEF HandshakeInv, Receive
<1>. QED
  BY <1>1, <1>2, <1>3, <1>5 DEF HandshakeInv, Receive

LEMMA ReadEndInv == HandshakeInv /\ ReadEnd => HandshakeInv'
<1>. SUFFICES ASSUME HandshakeInv, ReadEnd PROVE HandshakeInv'
  OBVIOUS
<1>1. session \in Session /\ BufferFits(session)
  BY DEF HandshakeInv, Good
<1>2. CASE session' = [session EXCEPT !.state = "DONE"]
  <2>1. Good(session')
    BY <1>1, <1>2 DEF Good, Session, State, BufferFits, Spoken
  <2>. QED
    BY <2>1 DEF HandshakeInv, ReadEnd
<1>3. CASE session' = Failed(session)
  <2>1. Good(session')
    BY <1>1, <1>3, FailedIsGood
  <2>. QED
    BY <2>1 DEF HandshakeInv, ReadEnd
<1>. QED
  BY <1>2, <1>3 DEF ReadEnd

LEMMA WriteReadyInv == HandshakeInv /\ WriteReady => HandshakeInv'
<1>. SUFFICES ASSUME HandshakeInv, WriteReady PROVE HandshakeInv'
  OBVIOUS
<1>1. Good(session')
  BY WriteGood DEF HandshakeInv, WriteReady, Writing
<1>. QED
  BY <1>1 DEF HandshakeInv, WriteReady

LEMMA NextInv == HandshakeInv /\ [Next]_vars => HandshakeInv'
<1>. SUFFICES ASSUME HandshakeInv, [Next]_vars PROVE HandshakeInv'
  OBVIOUS
<1>1. CASE ClientSends
  BY <1>1, ClientSendsInv
<1>2. CASE ClientCloses
  BY <1>2 DEF ClientCloses, HandshakeInv
<1>3. CASE ReadReady
  <2>1. PICK k \in 1 .. Least(Len(wire), Room) : Receive(k)
    BY <1>3 DEF ReadReady
  <2>. QED
    BY <2>1, ReceiveInv DEF Receive
<1>4. CASE ReadEnd
  BY <1>4, ReadEndInv
<1>5. CASE WriteReady
  BY <1>5, WriteReadyInv
<1>6. CASE Over
  BY <1>6 DEF Over, vars, HandshakeInv
<1>7. CASE UNCHANGED vars
  BY <1>7 DEF vars, HandshakeInv
<1>. QED
  BY <1>1, <1>2, <1>3, <1>4, <1>5, <1>6, <1>7 DEF Next, Server

LEMMA Invariance == Spec => []HandshakeInv
  BY InitInv, NextInv, PTL DEF Spec

\* Type correctness of the negotiation, for every width of a byte, size of the
\* buffer, set of accounts and set of clients: read_buffer is never overrun.
THEOREM HandshakeTypeOK == Spec => []TypeOK
<1>1. HandshakeInv => TypeOK
  BY DEF HandshakeInv, TypeOK, Good, BufferFits
<1>. QED
  BY <1>1, Invariance, PTL

\* Whatever any client sends and however its bytes are cut and joined, the server
\* reads or serves a request only after it has told the client that it is admitted,
\* and, where it asked for a login, has read one that the accounts allow: hello_read,
\* auth_read, request_read and the writers of their replies.
THEOREM NobodyServedUntold == Spec => []ServedOnlyWhenTold
<1>1. HandshakeInv => ServedOnlyWhenTold
  BY DEF HandshakeInv, Good, Spoken, Admitted, LoggedIn, ServedOnlyWhenTold
<1>. QED
  BY <1>1, Invariance, PTL
-----------------------------------------------------------------------------
(***************************************************************************)
(* Messages that arrive whole.                                             *)
(***************************************************************************)
\* What the client had sent last before m.
Precedes(s, m) ==
    IF m = "greeting" THEN "nothing"
    ELSE IF m = "auth" \/ s.user = "anonymous" THEN "greeting"
    ELSE "auth"

\* A session that awaits m, with nothing pending, is one message behind its client, or
\* m is under way; or the client is hasty, and more than its last message is.
InTurn ==
    \A m \in Message :
        Awaits(session, m) /\ session.buf = << >> =>
            \/ wire = << >> /\ LastSent = Precedes(session, m)
            \/ wire = Encoding(LastSent) /\ LastSent = m
            \/ plan.hasty /\ Len(wire) > Len(Encoding(LastSent))

\* The message awaited is the one the client sends after the method it can use.
MethodFits ==
    /\ Awaits(session, "auth") => Offers(AUTH_METHOD)
    /\ Awaits(session, "request") /\ session.user = "anonymous" => ~Offers(AUTH_METHOD)

\* A request that is refused, or of which something is left, is the last message.
RequestLast ==
    \/ Refusing(session)
    \/ Awaits(session, "request") /\ session.buf # << >>
    => LastSent = "request"

Understood ==
    /\ session.heard.method \subseteq {Chosen}
    /\ session.heard.login \subseteq {Login}
    /\ Addressed => session.heard.dest \subseteq {Destination}

Whole == cut = {} => Understood /\ InTurn /\ MethodFits /\ RequestLast

\* Of a client that keeps to the protocol and asks for an address, when nothing but
\* its request was cut: the bytes of it that are still to be read are the request or
\* what follows its header.
Patient ==
    /\ cut \subseteq {"request"}
    /\ ~plan.hasty
    /\ plan.atyp \in { IPV4_ATYP, IPV6_ATYP } /\ Addressed
    /\ plan.addr[1] # SOCKS5_VERSION

Parted ==
    /\ session.heard.dest \subseteq {Destination}
    /\ session.state \in Open => session.state = "REQUEST"
    /\ session.state = "REQUEST" /\ session.interest = "R" =>
         \/ session.buf \o wire = Encoding("request")
         \/ session.buf \o wire = plan.addr \o PortBytes

MeaningInv ==
    /\ HandshakeInv
    /\ Whole
    /\ "request" \in cut => LastSent = "request"
    /\ Patient /\ LastSent = "request" => Parted

-----------------------------------------------------------------------------
(***************************************************************************)
(* What a client that waits for the replies has been told.                 *)
(***************************************************************************)
LEMMA JoinNumbers ==
    \A a, b \in Seq(Nat) :
        /\ a \o b \in Seq(Nat) /\ Len(a \o b) = Len(a) + Len(b)
        /\ Len(a) \in Nat /\ Len(b) \in Nat
        /\ \A i \in 1 .. Len(a) : (a \o b)[i] = a[i]
        /\ \A i \in 1 .. Len(b) : (a \o b)[Len(a) + i] = b[i]
<1>1. ASSUME NEW a \in Seq(Nat), NEW b \in Seq(Nat)
      PROVE  /\ a \o b \in Seq(Nat) /\ Len(a \o b) = Len(a) + Len(b)
             /\ Len(a) \in Nat /\ Len(b) \in Nat
             /\ \A i \in 1 .. Len(a) : (a \o b)[i] = a[i]
             /\ \A i \in 1 .. Len(b) : (a \o b)[Len(a) + i] = b[i]
  <2>1. a \o b \in Seq(Nat)
    BY ConcatProperties
  <2>2. /\ Len(a) \in Nat /\ Len(b) \in Nat /\ Len(a \o b) = Len(a) + Len(b)
        /\ \A i \in 1 .. Len(a) : (a \o b)[i] = a[i]
    BY Begins
  <2>3. \A i \in 1 .. Len(b) : (a \o b)[Len(a) + i] = b[i]
    BY Follows
  <2>. QED
    BY <2>1, <2>2, <2>3
<1>. QED
  BY <1>1

\* The replies tell themselves apart by their length and what they say.
LEMMA Replies ==
    /\ LetIn \in Seq(Nat) /\ Len(LetIn) = 2 /\ LetIn[2] = 0
    /\ LogIn \in Seq(Nat) /\ Len(LogIn) = 2 /\ LogIn[2] = 2
    /\ Accepted \in Seq(Nat) /\ Len(Accepted) = 4 /\ Accepted[2] = 2 /\ Accepted[4] = 0
    /\ Rejected \in Seq(Nat) /\ Len(Rejected) = 4 /\ Rejected[2] = 2 /\ Rejected[4] = 1
<1>1. /\ LetIn \in Seq(Nat) /\ Len(LetIn) = 2 /\ LetIn[2] = 0
      /\ LogIn \in Seq(Nat) /\ Len(LogIn) = 2 /\ LogIn[2] = 2
  BY DEF LetIn, LogIn, SOCKS5_VERSION, NO_AUTH_METHOD, AUTH_METHOD
<1>2. ASSUME NEW x \in Nat
      PROVE  /\ LogIn \o << AUTH_VERSION, x >> \in Seq(Nat)
             /\ Len(LogIn \o << AUTH_VERSION, x >>) = 4
             /\ (LogIn \o << AUTH_VERSION, x >>)[2] = 2
             /\ (LogIn \o << AUTH_VERSION, x >>)[4] = x
  <2>. DEFINE e == << AUTH_VERSION, x >>
  <2>1. e \in Seq(Nat) /\ Len(e) = 2 /\ e[2] = x
    BY DEF AUTH_VERSION
  <2>. HIDE DEF e
  <2>2. /\ Len(LogIn \o e) = Len(LogIn) + Len(e)
        /\ \A i \in 1 .. Len(LogIn) : (LogIn \o e)[i] = LogIn[i]
    BY <1>1, <2>1, Begins
  <2>3. 2 \in 1 .. Len(LogIn) /\ 2 \in 1 .. Len(e)
    BY <1>1, <2>1
  <2>4. (LogIn \o e)[Len(LogIn) + 2] = e[2]
    BY <1>1, <2>1, <2>3, JoinNumbers
  <2>5. LogIn \o e \in Seq(Nat)
    BY <1>1, <2>1, ConcatProperties
  <2>6. Len(LogIn \o e) = 4 /\ (LogIn \o e)[2] = 2 /\ (LogIn \o e)[4] = x
    BY <1>1, <2>1, <2>2, <2>3, <2>4
  <2>. QED
    BY <2>5, <2>6 DEF e
<1>3. Accepted = LogIn \o << AUTH_VERSION, 0 >> /\ Rejected = LogIn \o << AUTH_VERSION, 1 >>
  BY DEF Accepted, Rejected
<1>4. 0 \in Nat /\ 1 \in Nat
  OBVIOUS
<1>. QED
  BY <1>1, <1>2, <1>3, <1>4, Zenon

\* A reply partly sent: what was told is what it begins with.
LEMMA Telling ==
    ASSUME NEW s \in Session
    PROVE  /\ Len(s.told) \in Nat
           /\ \A n \in Nat : Len(Says(s)) = n /\ s.reply # << >> => Len(s.told) < n
           /\ \A i \in 1 .. Len(s.told) : Says(s)[i] = s.told[i]
<1>1. s.told \in Seq(Nat) /\ s.reply \in Seq(Nat)
  BY DEF Session
<1>0. \A p, q, n \in Nat : n = p + q /\ q # 0 => p < n
  OBVIOUS
<1>. PICK a, b : a = s.told /\ b = s.reply
  OBVIOUS
<1>2. /\ Len(a) \in Nat /\ Len(b) \in Nat
      /\ Len(a \o b) = Len(a) + Len(b)
      /\ \A i \in 1 .. Len(a) : (a \o b)[i] = a[i]
  BY <1>1, JoinNumbers
<1>3. b # << >> => Len(b) # 0
  BY <1>1, EmptySeq
<1>4. \A n \in Nat : Len(a \o b) = n /\ b # << >> => Len(a) < n
  <2>. SUFFICES ASSUME b # << >>, NEW n \in Nat, Len(a \o b) = n PROVE Len(a) < n
    OBVIOUS
  <2>1. PICK p \in Nat, q \in Nat : p = Len(a) /\ q = Len(b) /\ n = p + q /\ q # 0
    BY <1>2, <1>3
  <2>. QED
    BY <1>0, <2>1, Zenon
<1>. QED
  BY <1>2, <1>4 DEF Says

\* How long they are.
LEMMA ReplyLengths ==
    Len(LetIn) = 2 /\ Len(LogIn) = 2 /\ Len(Accepted) = 4 /\ Len(Rejected) = 4
  BY Replies, Zenon

\* Of a reply not yet all told less was told.
LEMMA TellingLess ==
    ASSUME NEW s \in Session
    PROVE  /\ (Says(s) = LetIn \/ Says(s) = LogIn) /\ s.reply # << >> => Len(s.told) < 2
           /\ Says(s) = Accepted /\ s.reply # << >> => Len(s.told) < 4
<1>1. \A n \in Nat : Len(Says(s)) = n /\ s.reply # << >> => Len(s.told) < n
  BY Telling
<1>2. 2 \in Nat /\ 4 \in Nat
  OBVIOUS
<1>. QED
  BY <1>1, <1>2, ReplyLengths, Zenon

\* They are different.
LEMMA RepliesDiffer ==
    /\ LetIn # LogIn /\ LetIn # Accepted /\ LetIn # Rejected
    /\ LogIn # Accepted /\ LogIn # Rejected /\ Accepted # Rejected
<1>1. LetIn # LogIn
  BY Replies
<1>2. LetIn # Accepted /\ LetIn # Rejected
  BY Replies
<1>3. LogIn # Accepted /\ LogIn # Rejected
  <2>1. Len(LogIn) = 2 /\ Len(Accepted) = 4 /\ Len(Rejected) = 4 /\ 2 # 4
    BY ReplyLengths
  <2>. QED
    BY <2>1, Zenon
<1>4. Accepted # Rejected
  BY Replies
<1>. QED
  BY <1>1, <1>2, <1>3, <1>4

\* A session that has told its client to send the request reads it, or has read it.
LEMMA ToldToAsk ==
    ASSUME NEW s, Good(s), s.state \in Open, s.told \in { LetIn, Accepted }
    PROVE  s.state = "REQUEST"
<1>1. s \in Session
  BY DEF Good
<1>2. /\ Len(s.told) \in Nat
      /\ (Says(s) = LetIn \/ Says(s) = LogIn) /\ s.reply # << >> => Len(s.told) < 2
      /\ Says(s) = Accepted /\ s.reply # << >> => Len(s.told) < 4
      /\ \A i \in 1 .. Len(s.told) : Says(s)[i] = s.told[i]
  BY <1>1, Telling, TellingLess
<1>3. /\ s.told = LetIn => Len(s.told) = 2 /\ Says(s)[2] = 0
      /\ s.told = Accepted => Len(s.told) = 4 /\ Says(s)[4] = 0
  <2>1. CASE s.told = LetIn
    <3>1. 2 \in 1 .. Len(s.told) /\ Len(s.told) # 4 /\ Len(s.told) = 2
      BY <2>1, Replies
    <3>. QED
      BY <1>2, <2>1, <3>1, Replies
  <2>2. CASE s.told = Accepted
    <3>1. 4 \in 1 .. Len(s.told) /\ Len(s.told) # 2 /\ Len(s.told) = 4
      BY <2>2, Replies
    <3>. QED
      BY <1>2, <2>2, <3>1, Replies
  <2>. QED
    BY <2>1, <2>2
<1>4. Len(s.told) \in { 2, 4 }
  BY <1>3
<1>5. s.state # "HELLO"
  <2>1. CASE s.interest = "R"
    <3>1. s.state = "HELLO" => s.told = << >>
      BY <2>1 DEF Good, Spoken
    <3>2. Len(<< >>) \notin { 2, 4 }
      OBVIOUS
    <3>. QED
      BY <1>4, <3>1, <3>2, Zenon
  <2>2. CASE s.interest = "W"
    <3>1. s.state = "HELLO" => Says(s) = LetIn /\ s.reply # << >>
      BY <2>2 DEF Good, Spoken
    <3>2. s.state = "HELLO" => Len(s.told) < 2
      BY <1>2, <3>1, Zenon
    <3>3. ~(Len(s.told) < 2)
      BY <1>4
    <3>. QED
      BY <3>2, <3>3
  <2>. QED
    BY <1>1, <2>1, <2>2 DEF Session
<1>6. s.state # "HELLO_TO_AUTH"
  <2>1. s.state = "HELLO_TO_AUTH" =>
          (Says(s) = LogIn /\ s.reply # << >>) \/ s.told = Rejected
    BY DEF Good, Spoken
  <2>2. Says(s) = LogIn /\ s.reply # << >> => Len(s.told) < 2
    BY <1>2, Zenon
  <2>3. s.told # Rejected
    BY RepliesDiffer
  <2>4. ~(Len(s.told) < 2)
    BY <1>4
  <2>. QED
    BY <2>1, <2>2, <2>3, <2>4
<1>7. s.state # "AUTH"
  <2>1. CASE s.interest = "R"
    <3>1. s.state = "AUTH" => s.told = LogIn
      BY <2>1 DEF Good, Spoken
    <3>. QED
      BY <3>1, RepliesDiffer
  <2>2. CASE s.interest = "W"
    <3>1. s.state = "AUTH" => Says(s) = Accepted /\ s.reply # << >>
      BY <2>2 DEF Good, Spoken
    <3>2. Len(Accepted) = 4 /\ Accepted[2] = 2
      BY Replies
    <3>. QED
      BY <1>2, <1>3, <3>1, <3>2
  <2>. QED
    BY <1>1, <2>1, <2>2 DEF Session
<1>8. s.state # "AUTH_FAILED"
  <2>1. s.state = "AUTH_FAILED" => Says(s) = Rejected
    BY DEF Good, Spoken
  <2>2. Rejected[2] = 2 /\ Rejected[4] = 1
    BY Replies
  <2>. QED
    BY <1>3, <2>1, <2>2
<1>. QED
  BY <1>5, <1>6, <1>7, <1>8 DEF Open

\* What a session that awaits a message has not told its client.
LEMMA AwaitsTold ==
    ASSUME NEW s, Good(s)
    PROVE  /\ Awaits(s, "greeting") => s.told \notin { LetIn, LogIn }
           /\ Awaits(s, "auth") => s.told \notin { LetIn, Accepted, Rejected }
           /\ Awaits(s, "request") /\ s.user # "anonymous" => s.told # Rejected
<1>1. s \in Session
  BY DEF Good
<1>2. /\ Says(s) = LogIn /\ s.reply # << >> => Len(s.told) < 2
      /\ Says(s) = Accepted /\ s.reply # << >> => Len(s.told) < 4
  BY <1>1, TellingLess
<1>0. ~(2 < 2) /\ ~(4 < 2) /\ ~(4 < 4)
  OBVIOUS
<1>3. Awaits(s, "greeting") => s.told \notin { LetIn, LogIn }
  <2>1. Awaits(s, "greeting") => s.told = << >>
    BY DEF Awaits, Good, Spoken
  <2>2. Len(<< >>) # 2
    OBVIOUS
  <2>3. << >> \notin { LetIn, LogIn }
    BY <2>2, ReplyLengths, Zenon
  <2>. QED
    BY <2>1, <2>3
<1>4. Awaits(s, "auth") => s.told \notin { LetIn, Accepted, Rejected }
  <2>1. Awaits(s, "auth") => s.told = LogIn \/ (Says(s) = LogIn /\ s.reply # << >>)
    <3>1. s.state = "AUTH" /\ s.interest = "R" => s.told = LogIn
      BY DEF Good, Spoken
    <3>2. s.state = "HELLO_TO_AUTH" /\ s.reply # << >> => Says(s) = LogIn
      BY DEF Good, Spoken
    <3>. QED
      BY <3>1, <3>2, Zenon DEF Awaits
  <2>2. Says(s) = LogIn /\ s.reply # << >> => Len(s.told) < 2
    BY <1>2, Zenon
  <2>3. Len(s.told) < 2 => s.told \notin { LetIn, Accepted, Rejected }
    BY <1>0, ReplyLengths, Zenon
  <2>. QED
    BY <2>1, <2>2, <2>3, RepliesDiffer
<1>5. Awaits(s, "request") /\ s.user # "anonymous" => s.told # Rejected
  <2>1. Awaits(s, "request") /\ s.user # "anonymous" =>
          s.told = Accepted \/ (Says(s) = Accepted /\ s.reply # << >>)
    <3>1. s.state # "HELLO" \/ s.interest # "W" \/ s.user = "anonymous"
      BY DEF Good, Spoken
    <3>2. s.state = "AUTH" /\ s.interest = "W" => Says(s) = Accepted /\ s.reply # << >>
      BY DEF Good, Spoken
    <3>3. s.state = "REQUEST" /\ s.interest = "R" => s.told = Accepted \/ s.user = "anonymous"
      BY DEF Good, Spoken, Admitted
    <3>. QED
      BY <3>1, <3>2, <3>3, Zenon DEF Awaits
  <2>2. Says(s) = Accepted /\ s.reply # << >> => Len(s.told) < 4
    BY <1>2, Zenon
  <2>3. Len(s.told) < 4 => s.told # Rejected
    BY <1>0, ReplyLengths, Zenon
  <2>. QED
    BY <2>1, <2>2, <2>3, RepliesDiffer
<1>. QED
  BY <1>3, <1>4, <1>5

-----------------------------------------------------------------------------
(***************************************************************************)
(* The client's steps keep what is meant.                                  *)
(***************************************************************************)
\* What a plan means does not change while it does not.
LEMMA PlanStays ==
    ASSUME plan' = plan
    PROVE  /\ \A m : Encoding(m)' = Encoding(m)
           /\ Offers(AUTH_METHOD)' = Offers(AUTH_METHOD)
           /\ Chosen' = Chosen /\ Login' = Login /\ Destination' = Destination
           /\ Addressed' = Addressed /\ PortBytes' = PortBytes
<1>1. \A m : Encoding(m)' = Encoding(m)
  BY DEF Encoding
<1>2. Offers(AUTH_METHOD)' = Offers(AUTH_METHOD)
  BY DEF Offers
<1>3. Chosen' = Chosen
  BY <1>2 DEF Chosen
<1>. QED
  BY <1>1, <1>2, <1>3 DEF Login, Destination, Addressed, PortBytes

LEMMA NoReply == "nothing" \notin Message
  BY DEF Message

\* After a request nothing is due, and the message sent becomes the last.
LEMMA DueLast ==
    ASSUME sent \in Seq(Message), NEW m \in Message, Due(m)
    PROVE  /\ LastSent # "request"
           /\ sent' = Append(sent, m) => LastSent' = m
<1>1. LastSent # "request"
  BY DEF Due, LastSent
<1>2. ASSUME sent' = Append(sent, m)
      PROVE  LastSent' = m
  <2>1. /\ sent' # << >> /\ Len(sent') = Len(sent) + 1 /\ sent'[Len(sent) + 1] = m
    BY <1>2, AppendProperties
  <2>2. LastSent' = sent'[Len(sent')]
    BY <2>1 DEF LastSent
  <2>. QED
    BY <2>1, <2>2
<1>. QED
  BY <1>1, <1>2

\* A client whose server awaits a message, and who has sent the one before, sends it.
LEMMA DueTurn ==
    ASSUME Good(session), NEW m \in Message, NEW k \in Message, Due(m),
           Awaits(session, k), MethodFits, LastSent = Precedes(session, k)
    PROVE  m = k
<1>1. /\ k = "greeting" => LastSent = "nothing"
      /\ k = "auth" => LastSent = "greeting"
      /\ k = "request" => LastSent = IF session.user = "anonymous" THEN "greeting" ELSE "auth"
  BY DEF Precedes
<1>2. /\ k = "auth" => session.told # LetIn
      /\ k = "request" /\ session.user # "anonymous" => session.told # Rejected
  BY AwaitsTold, Zenon
<1>3. /\ k = "auth" => Offers(AUTH_METHOD)
      /\ k = "request" /\ session.user = "anonymous" => ~Offers(AUTH_METHOD)
  BY DEF MethodFits
<1>4. \/ m = "greeting" /\ LastSent = "nothing"
      \/ m = "auth" /\ LastSent = "greeting" /\ Offers(AUTH_METHOD)
      \/ m = "auth" /\ LastSent = "auth" /\ session.told = Rejected
      \/ /\ m = "request" /\ LastSent = "greeting"
         /\ \/ ~Offers(AUTH_METHOD)
            \/ session.told = LetIn
      \/ m = "request" /\ LastSent = "auth"
  BY DEF Due, LastSent
<1>. QED
  BY <1>1, <1>2, <1>3, <1>4 DEF Message

\* While its last message is awaited, a client that waits has nothing to send.
LEMMA DueInHaste ==
    ASSUME Good(session), NEW m \in Message, NEW k \in Message, Due(m),
           Awaits(session, k), LastSent = k
    PROVE  plan.hasty
<1>1. /\ k = "greeting" => session.told \notin { LetIn, LogIn }
      /\ k = "auth" => session.told \notin { LetIn, Accepted, Rejected }
  BY AwaitsTold, Zenon
<1>2. \/ LastSent = "nothing"
      \/ LastSent = "greeting" /\ (plan.hasty \/ session.told \in { LetIn, LogIn })
      \/ LastSent = "auth" /\ (plan.hasty \/ session.told \in { Accepted, Rejected })
  BY DEF Due, LastSent
<1>. QED
  BY <1>1, <1>2, NoReply

\* A message sent by a client is the one awaited, or one too many of a hasty client.
LEMMA ClientSendsInTurn ==
    ASSUME HandshakeInv, ClientSends, InTurn, MethodFits
    PROVE  InTurn'
<1>1. PICK m \in Message : Due(m) /\ sent' = Append(sent, m) /\ wire' = wire \o Encoding(m)
  BY DEF ClientSends
<1>2. plan' = plan /\ session' = session
  BY DEF ClientSends
<1>3. Good(session) /\ plan \in Plans /\ sent \in Seq(Message) /\ wire \in Seq(Byte)
  BY DEF HandshakeInv
<1>4. LastSent' = m
  BY <1>1, <1>3, DueLast
<1>5. Encoding(m)' = Encoding(m)
  BY <1>2, PlanStays
<1>. SUFFICES ASSUME NEW k \in Message, Awaits(session, k), session.buf = << >>
              PROVE  \/ wire' = Encoding(m) /\ m = k
                     \/ plan.hasty /\ Len(wire') > Len(Encoding(m))
  BY <1>2, <1>4, <1>5, Zenon DEF InTurn
<1>6. Encoding(m) \in Seq(Byte)
  BY <1>3, EncodingType
<1>7. \A a, b, c \in Nat : c = a + b /\ a # 0 => c > b
  OBVIOUS
<1>8. wire # << >> => Len(wire') > Len(Encoding(m))
  <2>1. wire # << >> => Len(wire) # 0
    BY <1>3, EmptySeq
  <2>2. /\ Len(wire') = Len(wire) + Len(Encoding(m))
        /\ Len(wire') \in Nat /\ Len(wire) \in Nat /\ Len(Encoding(m)) \in Nat
    <3>1. wire' \in Seq(Byte)
      BY <1>1, <1>3, <1>6, JoinBytes
    <3>2. Len(wire') = Len(wire) + Len(Encoding(m))
      BY <1>1, <1>3, <1>6, JoinBytes
    <3>. QED
      BY <1>3, <1>6, <3>1, <3>2
  <2>. QED
    BY <1>7, <2>1, <2>2, Zenon
<1>9. CASE wire = << >> /\ LastSent = Precedes(session, k)
  <2>1. m = k
    BY <1>1, <1>3, <1>9, DueTurn
  <2>2. wire' = Encoding(m)
    BY <1>1, <1>6, <1>9, ConcatEmptySeq
  <2>. QED
    BY <2>1, <2>2
<1>10. CASE wire = Encoding(LastSent) /\ LastSent = k
  <2>1. plan.hasty
    BY <1>1, <1>3, <1>10, DueInHaste
  <2>2. wire # << >>
    <3>1. Len(Encoding(k)) > 0
      BY <1>3, EncodingLong
    <3>. QED
      BY <1>10, <3>1
  <2>. QED
    BY <1>8, <2>1, <2>2
<1>11. CASE plan.hasty /\ Len(wire) > Len(Encoding(LastSent))
  <2>1. wire # << >>
    <3>1. LastSent \in Message => Len(Encoding(LastSent)) \in Nat
      BY <1>3, EncodingLong
    <3>2. sent = << >> => wire = << >>
      BY DEF HandshakeInv
    <3>3. sent # << >> => LastSent \in Message
      <4>1. sent # << >> => Len(sent) \in 1 .. Len(sent)
        BY <1>3, EmptySeq
      <4>. QED
        BY <1>3, <4>1, ElementOfSeq DEF LastSent
    <3>. QED
      BY <1>11, <3>1, <3>2, <3>3
  <2>. QED
    BY <1>8, <1>11, <2>1
<1>. QED
  BY <1>9, <1>10, <1>11, Zenon DEF InTurn

\* Nothing that was understood changes.
LEMMA UnderstoodStays ==
    ASSUME plan' = plan, session'.heard = session.heard, Understood
    PROVE  Understood'
  BY PlanStays DEF Understood

LEMMA ClientSendsWhole ==
    ASSUME HandshakeInv, ClientSends, Whole
    PROVE  Whole'
<1>1. PICK m \in Message : Due(m)
  BY DEF ClientSends
<1>2. plan' = plan /\ session' = session /\ cut' = cut /\ sent \in Seq(Message)
  BY DEF ClientSends, HandshakeInv
<1>3. LastSent # "request"
  BY <1>1, <1>2, DueLast
<1>. SUFFICES ASSUME cut = {} PROVE Understood' /\ InTurn' /\ MethodFits' /\ RequestLast'
  BY <1>2 DEF Whole
<1>4. Understood /\ InTurn /\ MethodFits /\ RequestLast
  BY DEF Whole
<1>5. Understood'
  BY <1>2, <1>4, UnderstoodStays
<1>6. MethodFits'
  BY <1>2, <1>4, PlanStays DEF MethodFits
<1>7. RequestLast'
  BY <1>2, <1>3, <1>4, Zenon DEF RequestLast
<1>. QED
  BY <1>4, <1>5, <1>6, <1>7, ClientSendsInTurn

\* A patient client's request is on its way to a session that waits for it, or is over.
LEMMA ClientSendsParted ==
    ASSUME HandshakeInv, ClientSends, Whole, cut = {}, Patient, LastSent' = "request"
    PROVE  Parted'
<1>1. PICK m \in Message : Due(m) /\ sent' = Append(sent, m) /\ wire' = wire \o Encoding(m)
  BY DEF ClientSends
<1>2. /\ plan' = plan /\ session' = session /\ sent \in Seq(Message)
      /\ plan \in Plans /\ Good(session)
  BY DEF ClientSends, HandshakeInv
<1>3. LastSent # "request" /\ m = "request"
  BY <1>1, <1>2, DueLast
<1>4. Understood /\ InTurn /\ RequestLast
  BY DEF Whole
<1>5. session.heard.dest \subseteq {Destination}
  BY <1>4 DEF Understood, Patient
<1>6. session.told \in { LetIn, Accepted }
  BY <1>1, <1>3 DEF Due, Patient
<1>7. session.state \in Open => session.state = "REQUEST"
  BY <1>2, <1>6, ToldToAsk
<1>8. ASSUME session.state = "REQUEST", session.interest = "R"
      PROVE  session.buf \o wire' = Encoding("request")
  <2>1. Awaits(session, "request") /\ "request" \in Message
    BY <1>8 DEF Awaits, Message
  <2>2. session.buf = << >>
    BY <1>3, <1>4, <2>1, Zenon DEF RequestLast
  <2>3. wire = << >>
    BY <1>3, <1>4, <2>1, <2>2 DEF InTurn, Patient
  <2>4. Encoding("request") \in Seq(Byte)
    BY <1>2, <2>1, EncodingType
  <2>5. << >> \o Encoding("request") = Encoding("request")
    BY <2>4, ConcatEmptySeq
  <2>. QED
    BY <1>1, <1>3, <2>2, <2>3, <2>5
<1>9. Destination' = Destination /\ Encoding("request")' = Encoding("request")
  BY <1>2, PlanStays
<1>. QED
  BY <1>2, <1>5, <1>7, <1>8, <1>9 DEF Parted

LEMMA ClientSendsMeaning ==
    ASSUME MeaningInv, ClientSends
    PROVE  MeaningInv'
<1>1. HandshakeInv /\ Whole /\ ("request" \in cut => LastSent = "request")
  BY DEF MeaningInv
<1>2. HandshakeInv' /\ Whole'
  BY <1>1, ClientSendsInv, ClientSendsWhole
<1>3. PICK m \in Message : Due(m)
  BY DEF ClientSends
<1>4. LastSent # "request" /\ cut' = cut /\ plan' = plan
  BY <1>1, <1>3, DueLast DEF HandshakeInv, ClientSends
<1>5. Patient' => Patient
  BY <1>4, PlanStays DEF Patient
<1>6. ASSUME Patient', LastSent' = "request"
      PROVE  Parted'
  <2>1. Patient /\ cut = {}
    BY <1>1, <1>4, <1>5, <1>6 DEF Patient
  <2>. QED
    BY <1>1, <1>6, <2>1, ClientSendsParted
<1>7. ("request" \in cut)' => FALSE
  BY <1>1, <1>4
<1>. QED
  BY <1>2, <1>6, <1>7 DEF MeaningInv

LEMMA InitMeaning == Init => MeaningInv
<1>. SUFFICES ASSUME Init PROVE MeaningInv
  OBVIOUS
<1>1. HandshakeInv
  BY InitInv
<1>2. /\ session.state = "HELLO" /\ session.interest = "R" /\ session.buf = << >>
      /\ session.heard = [ method |-> {}, login |-> {}, dest |-> {} ]
      /\ wire = << >> /\ LastSent = "nothing" /\ cut = {}
  BY DEF Init, LastSent
<1>3. Understood
  BY <1>2 DEF Understood
<1>4. InTurn
  <2>1. \A m \in Message : Awaits(session, m) => m = "greeting"
    BY <1>2 DEF Awaits
  <2>. QED
    BY <1>2, <2>1 DEF InTurn, Precedes
<1>5. MethodFits /\ RequestLast
  BY <1>2 DEF MethodFits, RequestLast, Awaits, Refusing
<1>. QED
  BY <1>1, <1>2, <1>3, <1>4, <1>5 DEF MeaningInv, Whole

-----------------------------------------------------------------------------
(***************************************************************************)
(* The server's steps keep what is meant.                                  *)
(***************************************************************************)
\* What a session in the middle of nothing does.
LEMMA EndMeaning ==
    ASSUME MeaningInv, HandshakeInv', UNCHANGED << plan, sent, wire, cut >>,
           session'.heard = session.heard, session'.state \notin Open
    PROVE  MeaningInv'
<1>1. /\ plan' = plan /\ cut' = cut /\ LastSent' = LastSent
      /\ Whole /\ ("request" \in cut => LastSent = "request")
      /\ Patient /\ LastSent = "request" => Parted
  BY DEF MeaningInv, LastSent
<1>2. /\ \A m \in Message : ~Awaits(session', m)
      /\ ~Awaits(session', "auth") /\ ~Awaits(session', "request") /\ ~Refusing(session')
  BY DEF Awaits, Refusing, Open
<1>3. InTurn' /\ MethodFits' /\ RequestLast'
  BY <1>2 DEF InTurn, MethodFits, RequestLast
<1>4. Whole'
  <2>. SUFFICES ASSUME cut = {} PROVE Understood'
    BY <1>1, <1>3 DEF Whole
  <2>. QED
    BY <1>1, UnderstoodStays DEF Whole
<1>5. Patient' <=> Patient
  BY <1>1, PlanStays DEF Patient
<1>6. Patient /\ LastSent = "request" => Parted'
  <2>. SUFFICES ASSUME Parted PROVE Parted'
    BY <1>1
  <2>1. Destination' = Destination
    BY <1>1, PlanStays
  <2>2. session'.state # "REQUEST"
    BY DEF Open
  <2>. QED
    BY <2>1, <2>2 DEF Parted
<1>. QED
  BY <1>1, <1>4, <1>5, <1>6 DEF MeaningInv

LEMMA ReadEndMeaning ==
    ASSUME MeaningInv, ReadEnd
    PROVE  MeaningInv'
<1>1. HandshakeInv'
  BY ReadEndInv DEF MeaningInv
<1>2. session \in Session
  BY DEF MeaningInv, HandshakeInv, Good
<1>3. \/ session' = [session EXCEPT !.state = "DONE"]
      \/ session' = [session EXCEPT !.state = "ERROR"]
  BY DEF ReadEnd, Failed
<1>4. session'.heard = session.heard /\ session'.state \in { "DONE", "ERROR" }
  BY <1>2, <1>3 DEF Session
<1>5. session'.state \notin Open
  BY <1>4 DEF Open
<1>. QED
  BY <1>1, <1>4, <1>5, EndMeaning DEF ReadEnd

\* Sending a reply changes nothing in what is awaited.
LEMMA WriteReadyMeaning ==
    ASSUME MeaningInv, WriteReady
    PROVE  MeaningInv'
<1>1. HandshakeInv' /\ Good(session)
  BY WriteReadyInv DEF MeaningInv, HandshakeInv
<1>2. /\ session' \in Write(session) /\ session.state \in Open /\ session.interest = "W"
      /\ plan' = plan /\ sent' = sent /\ wire' = wire /\ cut' = cut
  BY DEF WriteReady, Writing
<1>3. /\ Kept(session, session')
      /\ \A m \in Message : Awaits(session', m) => Awaits(session, m)
      /\ Refusing(session') => Refusing(session)
      /\ session.state = "REQUEST" => session'.state \notin Open \/ Refusing(session')
  BY <1>1, <1>2, WriteAwaits
<1>4. /\ LastSent' = LastSent
      /\ Whole /\ ("request" \in cut => LastSent = "request")
      /\ Patient /\ LastSent = "request" => Parted
  BY <1>2 DEF MeaningInv, LastSent
<1>5. /\ session'.buf = session.buf /\ session'.user = session.user
      /\ session'.heard = session.heard
  BY <1>3 DEF Kept
<1>6. Whole'
  <2>. SUFFICES ASSUME cut = {} PROVE Understood' /\ InTurn' /\ MethodFits' /\ RequestLast'
    BY <1>2 DEF Whole
  <2>1. Understood /\ InTurn /\ MethodFits /\ RequestLast
    BY <1>4 DEF Whole
  <2>2. Understood'
    BY <1>2, <1>5, <2>1, UnderstoodStays
  <2>3. MethodFits'
    BY <1>2, <1>3, <1>5, <2>1, PlanStays DEF MethodFits, Message
  <2>4. RequestLast'
    <3>1. Awaits(session', "request") => Awaits(session, "request")
      BY <1>3 DEF Message
    <3>. QED
      BY <1>3, <1>4, <1>5, <2>1, <3>1, Zenon DEF RequestLast
  <2>5. InTurn'
    <3>1. /\ \A m : Encoding(m)' = Encoding(m)
          /\ \A m : Precedes(session', m) = Precedes(session, m)
      BY <1>2, <1>5, PlanStays DEF Precedes
    <3>2. ASSUME NEW m \in Message, Awaits(session', m), session'.buf = << >>
          PROVE  \/ wire' = << >> /\ LastSent' = Precedes(session', m)
                 \/ wire' = Encoding(LastSent)' /\ LastSent' = m
                 \/ plan'.hasty /\ Len(wire') > Len(Encoding(LastSent)')
      <4>1. \/ wire = << >> /\ LastSent = Precedes(session, m)
            \/ wire = Encoding(LastSent) /\ LastSent = m
            \/ plan.hasty /\ Len(wire) > Len(Encoding(LastSent))
        BY <1>3, <1>5, <2>1, <3>2, Zenon DEF InTurn
      <4>2. Encoding(LastSent)' = Encoding(LastSent)
        BY <1>2, <1>4 DEF Encoding
      <4>. QED
        BY <1>2, <1>4, <3>1, <4>1, <4>2, Zenon
    <3>. QED
      BY <3>2, Zenon DEF InTurn
  <2>. QED
    BY <2>2, <2>3, <2>4, <2>5
<1>7. Patient' <=> Patient
  BY <1>2, PlanStays DEF Patient
<1>8. Patient /\ LastSent = "request" => Parted'
  <2>. SUFFICES ASSUME Parted PROVE Parted'
    BY <1>4
  <2>1. Destination' = Destination
    BY <1>2, PlanStays
  <2>2. /\ session'.state \in Open => session'.state = "REQUEST"
        /\ ~(session'.state = "REQUEST" /\ session'.interest = "R")
    BY <1>2, <1>3 DEF Parted, Refusing, Open
  <2>. QED
    BY <1>5, <2>1, <2>2 DEF Parted
<1>. QED
  BY <1>1, <1>2, <1>4, <1>6, <1>7, <1>8 DEF MeaningInv

\* A message received whole and alone was the last that was sent, and the one awaited.
LEMMA ReceivedWhole ==
    ASSUME HandshakeInv, Reading, NEW k \in 1 .. Least(Len(wire), Room), Receive(k),
           cut' = {}, Whole, NEW m \in Message, Awaits(session, m)
    PROVE  /\ cut = {} /\ LastSent = m
           /\ Filled(k).buf = Encoding(m) /\ wire' = << >>
<1>1. /\ Filled(k).buf = session.buf \o SubSeq(wire, 1, k)
      /\ k \in 1 .. Len(wire) /\ wire # << >>
  BY Received
<1>2. cut = {} /\ session.buf = << >> /\ k = Len(wire) /\ wire = Encoding(LastSent)
  BY DEF Receive
<1>3. wire \in Seq(Byte) /\ Len(wire) \in Nat
  BY DEF HandshakeInv
<1>4. SubSeq(wire, 1, Len(wire)) = wire
  BY <1>3, SubSeqFull
<1>5. Filled(k).buf = wire
  BY <1>1, <1>2, <1>3, <1>4, ConcatEmptySeq
<1>6. LastSent = m
  <2>1. \/ wire = << >>
        \/ LastSent = m
        \/ Len(wire) > Len(Encoding(LastSent))
    BY <1>2 DEF Whole, InTurn
  <2>2. ~(Len(wire) > Len(wire))
    BY <1>3
  <2>. QED
    BY <1>1, <1>2, <2>1, <2>2, Zenon
<1>7. wire' = << >>
  <2>1. /\ SubSeq(wire, Len(wire) + 1, Len(wire)) \in Seq(Byte)
        /\ Len(SubSeq(wire, Len(wire) + 1, Len(wire))) = 0
    BY <1>3, PartType
  <2>2. wire' = SubSeq(wire, Len(wire) + 1, Len(wire))
    BY <1>2 DEF Receive
  <2>. QED
    BY <2>1, <2>2, EmptySeq
<1>. QED
  BY <1>2, <1>5, <1>6, <1>7

\* What each parser has made of it leaves the session awaiting what comes next.
LEMMA AfterRead ==
    ASSUME plan \in Plans, NEW s, Good(s), NEW m \in Message, s.buf = Encoding(m),
           s.state \in Open, s.interest = "R", Awaits(s, m), NEW r \in Read(s)
    PROVE  /\ r.heard.method \subseteq s.heard.method \cup {Chosen}
           /\ r.heard.login \subseteq s.heard.login \cup {Login}
           /\ Addressed => r.heard.dest \subseteq s.heard.dest \cup {Destination}
           /\ Refusing(r) => m = "request"
           /\ \A j \in Message : Awaits(r, j) =>
                \/ /\ r.buf # << >> /\ j = m
                   /\ j = "request" => r.user = s.user
                \/ /\ r.buf = << >> /\ m = Precedes(r, j)
                   /\ j = "auth" => Offers(AUTH_METHOD)
                   /\ j = "request" /\ r.user = "anonymous" => ~Offers(AUTH_METHOD)
<1>1. s \in Session /\ BufferFits(s)
  BY DEF Good
<1>2. "nothing" \notin Message
  BY DEF Message
<1>3. \/ m = "greeting" /\ s.state = "HELLO"
      \/ m = "auth" /\ s.state = "AUTH"
      \/ m = "request" /\ s.state = "REQUEST"
  <2>1. s.state # "HELLO_TO_AUTH"
    BY DEF Good, Spoken
  <2>. QED
    BY <2>1, Zenon DEF Awaits
<1>4. CASE m = "greeting" /\ s.state = "HELLO"
  <2>1. r \in HelloRead(s)
    BY <1>4 DEF Read
  <2>2. /\ r.heard.method \subseteq s.heard.method \cup {Chosen}
        /\ r.heard.login = s.heard.login /\ r.heard.dest = s.heard.dest
        /\ ~Refusing(r)
        /\ \/ AwaitsOnly(r, "nothing")
           \/ r.buf # << >> /\ AwaitsOnly(r, "greeting")
           \/ /\ r.buf = << >>
              /\ \/ AwaitsOnly(r, "auth") /\ Offers(AUTH_METHOD)
                 \/ /\ AwaitsOnly(r, "request") /\ r.user = "anonymous"
                    /\ ~Offers(AUTH_METHOD)
    BY <1>1, <1>4, <2>1, GreetingRead
  <2>3. Precedes(r, "auth") = "greeting"
        /\ (r.user = "anonymous" => Precedes(r, "request") = "greeting")
    BY DEF Precedes
  <2>. QED
    BY <1>2, <1>4, <2>2, <2>3 DEF AwaitsOnly
<1>5. CASE m = "auth" /\ s.state = "AUTH"
  <2>1. r \in AuthRead(s)
    BY <1>5 DEF Read
  <2>2. /\ r.heard.login \subseteq s.heard.login \cup {Login}
        /\ r.heard.method = s.heard.method /\ r.heard.dest = s.heard.dest
        /\ ~Refusing(r)
        /\ \/ AwaitsOnly(r, "nothing")
           \/ r.buf = << >> /\ AwaitsOnly(r, "request") /\ r.user = "account"
    BY <1>1, <1>5, <2>1, LoginRead
  <2>3. r.user = "account" => Precedes(r, "request") = "auth"
    BY DEF Precedes
  <2>. QED
    BY <1>2, <1>5, <2>2, <2>3 DEF AwaitsOnly
<1>6. CASE m = "request" /\ s.state = "REQUEST"
  <2>1. r \in RequestRead(s)
    BY <1>6 DEF Read
  <2>2. /\ r.heard.method = s.heard.method /\ r.heard.login = s.heard.login
        /\ Addressed => r.heard.dest \subseteq s.heard.dest \cup {Destination}
        /\ \/ AwaitsOnly(r, "nothing")
           \/ AwaitsOnly(r, "request") /\ r.buf # << >> /\ r.user = s.user
    BY <1>1, <1>6, <2>1, RequestReadWhole
  <2>. QED
    BY <1>2, <1>6, <2>2 DEF AwaitsOnly
<1>. QED
  BY <1>3, <1>4, <1>5, <1>6

LEMMA ReceiveWhole ==
    ASSUME HandshakeInv, Reading, NEW k \in 1 .. Least(Len(wire), Room), Receive(k),
           Whole
    PROVE  Whole'
<1>. SUFFICES ASSUME cut' = {} PROVE Understood' /\ InTurn' /\ MethodFits' /\ RequestLast'
  BY DEF Whole
<1>. DEFINE s == Filled(k)
            r == session'
<1>1. /\ Good(s) /\ r \in Read(s) /\ s.state \in Open /\ s.interest = "R"
      /\ s.state = session.state /\ s.interest = session.interest
      /\ s.user = session.user /\ s.heard = session.heard
  BY Received DEF Reading
<1>2. plan' = plan /\ sent' = sent /\ LastSent' = LastSent /\ plan \in Plans
  BY DEF Receive, LastSent, HandshakeInv
<1>. HIDE DEF s
<1>3. PICK m \in Message : Awaits(session, m) /\ Awaits(s, m)
  <2>1. s.state \in { "HELLO", "AUTH", "REQUEST" }
    BY <1>1 DEF Good, Spoken, Open
  <2>. QED
    BY <1>1, <2>1 DEF Awaits, Message
<1>4. cut = {} /\ LastSent = m /\ s.buf = Encoding(m) /\ wire' = << >>
  BY <1>3, ReceivedWhole DEF s
<1>5. /\ r.heard.method \subseteq s.heard.method \cup {Chosen}
      /\ r.heard.login \subseteq s.heard.login \cup {Login}
      /\ Addressed => r.heard.dest \subseteq s.heard.dest \cup {Destination}
      /\ Refusing(r) => m = "request"
      /\ \A j \in Message : Awaits(r, j) =>
           \/ /\ r.buf # << >> /\ j = m
              /\ j = "request" => r.user = s.user
           \/ /\ r.buf = << >> /\ m = Precedes(r, j)
              /\ j = "auth" => Offers(AUTH_METHOD)
              /\ j = "request" /\ r.user = "anonymous" => ~Offers(AUTH_METHOD)
  BY <1>1, <1>2, <1>3, <1>4, AfterRead
<1>6. Understood /\ MethodFits
  BY <1>4 DEF Whole
<1>7. Understood'
  <2>1. /\ r.heard.method \subseteq {Chosen} /\ r.heard.login \subseteq {Login}
        /\ Addressed => r.heard.dest \subseteq {Destination}
    BY <1>1, <1>5, <1>6 DEF Understood
  <2>. QED
    BY <1>2, <2>1, PlanStays DEF Understood
<1>8. InTurn'
  <2>1. \A j \in Message : Awaits(r, j) /\ r.buf = << >> => LastSent' = Precedes(r, j)
    BY <1>2, <1>4, <1>5, Zenon
  <2>. QED
    BY <1>4, <2>1, Zenon DEF InTurn
<1>9. MethodFits'
  <2>1. "auth" \in Message /\ "request" \in Message
    BY DEF Message
  <2>2. Awaits(r, "auth") => Offers(AUTH_METHOD)
    BY <1>3, <1>4, <1>5, <1>6, <2>1 DEF MethodFits
  <2>3. Awaits(r, "request") /\ r.user = "anonymous" => ~Offers(AUTH_METHOD)
    BY <1>1, <1>3, <1>4, <1>5, <1>6, <2>1 DEF MethodFits
  <2>. QED
    BY <1>2, <2>2, <2>3, PlanStays DEF MethodFits
<1>10. RequestLast'
  <2>1. "request" \in Message
    BY DEF Message
  <2>2. Refusing(r) => LastSent = "request"
    BY <1>4, <1>5
  <2>3. Awaits(r, "request") /\ r.buf # << >> => LastSent = "request"
    BY <1>4, <1>5, <2>1
  <2>. QED
    BY <1>2, <2>2, <2>3 DEF RequestLast
<1>. QED
  BY <1>7, <1>8, <1>9, <1>10

LEMMA ReceiveParted ==
    ASSUME HandshakeInv, Reading, NEW k \in 1 .. Least(Len(wire), Room), Receive(k),
           Patient, Parted
    PROVE  Parted'
<1>. DEFINE s == Filled(k)
            r == session'
<1>1. /\ Good(s) /\ r \in Read(s) /\ s.interest = "R" /\ s.state = session.state
      /\ s.heard = session.heard /\ s.buf \o wire' = session.buf \o wire
      /\ wire' \in Seq(Byte) /\ session.state \in Open /\ session.interest = "R"
  BY Received DEF Reading
<1>. HIDE DEF s
<1>2. plan' = plan /\ plan \in Plans
  BY DEF Receive, HandshakeInv
<1>3. s.state = "REQUEST" /\ s \in Session /\ BufferFits(s)
  BY <1>1 DEF Parted, Good
<1>4. r \in RequestRead(s)
  BY <1>1, <1>3 DEF Read
<1>5. \/ s.buf \o wire' = Encoding("request")
      \/ s.buf \o wire' = plan.addr \o PortBytes
  BY <1>1, <1>3, Zenon DEF Parted
<1>6. /\ r.heard.dest \subseteq s.heard.dest \cup {Destination}
      /\ r.state \in Open => r.state = "REQUEST"
      /\ r.state = "REQUEST" /\ r.interest = "R" =>
           \/ r.buf \o wire' = Encoding("request")
           \/ r.buf \o wire' = plan.addr \o PortBytes
  <2>1. /\ plan.atyp \in { IPV4_ATYP, IPV6_ATYP } /\ Addressed
        /\ plan.addr[1] # SOCKS5_VERSION
    BY DEF Patient
  <2>. QED
    BY <1>1, <1>2, <1>3, <1>4, <1>5, <2>1, RequestReadPart, Zenon
<1>7. r.heard.dest \subseteq {Destination}
  BY <1>1, <1>6 DEF Parted
<1>8. /\ Destination' = Destination /\ PortBytes' = PortBytes /\ plan'.addr = plan.addr
      /\ Encoding("request")' = Encoding("request")
  BY <1>2, PlanStays
<1>. QED
  BY <1>6, <1>7, <1>8, Zenon DEF Parted

LEMMA ReceiveMeaning ==
    ASSUME MeaningInv, Reading, NEW k \in 1 .. Least(Len(wire), Room), Receive(k)
    PROVE  MeaningInv'
<1>1. /\ HandshakeInv /\ Whole /\ ("request" \in cut => LastSent = "request")
      /\ Patient /\ LastSent = "request" => Parted
  BY DEF MeaningInv
<1>2. HandshakeInv' /\ Whole'
  BY <1>1, ReceiveInv, ReceiveWhole
<1>3. LastSent' = LastSent /\ plan' = plan /\ cut' \in { cut, cut \cup {LastSent} }
  BY DEF Receive, LastSent
<1>4. ("request" \in cut)' => LastSent' = "request"
  BY <1>1, <1>3
<1>5. Patient' => Patient
  BY <1>3, PlanStays DEF Patient
<1>6. Patient' /\ LastSent' = "request" => Parted'
  BY <1>1, <1>3, <1>5, ReceiveParted
<1>. QED
  BY <1>2, <1>4, <1>6 DEF MeaningInv

LEMMA NextMeaning == MeaningInv /\ [Next]_vars => MeaningInv'
<1>. SUFFICES ASSUME MeaningInv, [Next]_vars PROVE MeaningInv'
  OBVIOUS
<1>1. ASSUME UNCHANGED << plan, sent, wire, session, cut >>, HandshakeInv'
      PROVE  MeaningInv'
  <2>1. /\ LastSent' = LastSent /\ Whole' = Whole /\ Patient' = Patient /\ Parted' = Parted
    <3>1. LastSent' = LastSent
      BY <1>1 DEF LastSent
    <3>2. /\ \A m : Encoding(m)' = Encoding(m)
          /\ Chosen' = Chosen /\ Login' = Login /\ Destination' = Destination
          /\ Addressed' = Addressed /\ PortBytes' = PortBytes
          /\ Offers(AUTH_METHOD)' = Offers(AUTH_METHOD)
      BY <1>1, PlanStays
    <3>3. Encoding(LastSent)' = Encoding(LastSent)
      BY <1>1, <3>1 DEF Encoding
    <3>4. Understood' = Understood /\ MethodFits' = MethodFits /\ RequestLast' = RequestLast
      BY <1>1, <3>1, <3>2 DEF Understood, MethodFits, RequestLast
    <3>5. InTurn' = InTurn
      BY <1>1, <3>1, <3>3 DEF InTurn
    <3>6. Patient' = Patient
      BY <1>1, <3>2 DEF Patient
    <3>7. Parted' = Parted
      BY <1>1, <3>2 DEF Parted
    <3>. QED
      BY <1>1, <3>1, <3>4, <3>5, <3>6, <3>7 DEF Whole
  <2>. QED
    BY <1>1, <2>1 DEF MeaningInv
<1>2. HandshakeInv'
  BY NextInv DEF MeaningInv
<1>3. CASE ClientSends
  BY <1>3, ClientSendsMeaning
<1>4. CASE ClientCloses
  BY <1>1, <1>2, <1>4 DEF ClientCloses
<1>5. CASE ReadReady
  <2>1. PICK k \in 1 .. Least(Len(wire), Room) : Receive(k)
    BY <1>5 DEF ReadReady
  <2>. QED
    BY <2>1, ReceiveMeaning DEF Receive
<1>6. CASE ReadEnd
  BY <1>6, ReadEndMeaning
<1>7. CASE WriteReady
  BY <1>7, WriteReadyMeaning
<1>8. CASE Over
  BY <1>1, <1>2, <1>8 DEF Over, vars
<1>9. CASE UNCHANGED vars
  BY <1>1, <1>2, <1>9 DEF vars
<1>. QED
  BY <1>3, <1>4, <1>5, <1>6, <1>7, <1>8, <1>9 DEF Next, Server

LEMMA MeaningInvariance == Spec => []MeaningInv
  BY InitMeaning, NextMeaning, PTL DEF Spec

\* For every client, whatever methods, credentials and destination it has and however
\* hasty it is: as long as no message of its has been cut or joined with another, the
\* parsers have taken nothing out of read_buffer but what it said, and every message
\* was read by the handler it was meant for: hello_read, auth_read, request_read.
THEOREM WholeMessagesAreUnderstood == Spec => []UnderstoodAsMeant
<1>1. MeaningInv => UnderstoodAsMeant
  BY DEF MeaningInv, Whole, Understood, UnderstoodAsMeant
<1>. QED
  BY <1>1, MeaningInvariance, PTL

\* However TCP cuts a request for an IP address of its type, at every number of bytes
\* recv() can return, request_read goes nowhere but where the client asked: what is
\* left after a lost header is refused, unless the address begins like a request.
THEOREM CutRequestsAreLost == Spec => []CutRequestsAreNotMisdirected
<1>1. MeaningInv => CutRequestsAreNotMisdirected
  <2>. SUFFICES ASSUME MeaningInv, Patient
                PROVE  session.heard.dest \subseteq {Destination}
    BY DEF CutRequestsAreNotMisdirected, Patient
  <2>1. CASE LastSent = "request"
    BY <2>1 DEF MeaningInv, Parted
  <2>2. CASE LastSent # "request"
    <3>1. cut = {}
      BY <2>2 DEF MeaningInv, Patient
    <3>. QED
      BY <3>1 DEF MeaningInv, Whole, Understood, Patient
  <2>. QED
    BY <2>1, <2>2
<1>. QED
  BY <1>1, MeaningInvariance, PTL
=============================================================================
