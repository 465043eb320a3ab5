--------------------------- MODULE MonitorProofs ---------------------------
(* Proofs about Monitor.tla, for every value of its constants.             *)
EXTENDS Monitor, SequenceTheorems, WellFoundedInduction, TLAPS

-----------------------------------------------------------------------------
(***************************************************************************)
(* Numbers and sequences.                                                  *)
(***************************************************************************)
LEMMA LeastType ==
    ASSUME NEW m \in Nat, NEW n \in Nat
    PROVE  /\ Least(m, n) \in Nat
           /\ Least(m, n) <= m /\ Least(m, n) <= n
           /\ Least(m, n) = m \/ Least(m, n) = n
  BY DEF Least

\* A set of numbers that is not empty has a least element.
LEMMA Smallest ==
    ASSUME NEW S \in SUBSET Nat, S # {}
    PROVE  \E i \in S : \A j \in S : i <= j
<1>. DEFINE R == OpToRel(<, Nat)
<1>1. PICK i \in S : \A j \in S : << j, i >> \notin R
  <2>1. IsWellFoundedOn(R, Nat)
    BY NatLessThanWellFounded
  <2>. HIDE DEF R
  <2>. QED
    BY <2>1, WFMin
<1>2. \A j \in S : ~(j < i)
  BY <1>1 DEF OpToRel
<1>. QED
  BY <1>2

\* A part of a sequence, and its elements.
LEMMA Part ==
    ASSUME NEW S, NEW s \in Seq(S), NEW m \in 1 .. Len(s) + 1, NEW n \in m - 1 .. Len(s)
    PROVE  /\ SubSeq(s, m, n) \in Seq(S)
           /\ Len(SubSeq(s, m, n)) = n - m + 1
           /\ \A i \in 1 .. n - m + 1 : SubSeq(s, m, n)[i] = s[m + i - 1]
<1>1. \A i \in m .. n : s[i] \in S
  BY ElementOfSeq
<1>2. m \in Int /\ n \in Int /\ Len(s) \in Nat
  OBVIOUS
<1>. QED
  BY <1>1, <1>2, SubSeqProperties, SMT

\* The first n elements of a sequence.
LEMMA First ==
    ASSUME NEW S, NEW s \in Seq(S), NEW n \in 0 .. Len(s)
    PROVE  /\ SubSeq(s, 1, n) \in Seq(S)
           /\ Len(SubSeq(s, 1, n)) = n
           /\ \A i \in 1 .. n : SubSeq(s, 1, n)[i] = s[i]
<1>. DEFINE t == SubSeq(s, 1, n)
<1>1. Len(s) \in Nat /\ n \in Int /\ n - 1 + 1 = n
  OBVIOUS
<1>2. 1 \in 1 .. Len(s) + 1 /\ n \in 1 - 1 .. Len(s)
  BY <1>1
<1>3. /\ t \in Seq(S) /\ Len(t) = n - 1 + 1
      /\ \A i \in 1 .. n - 1 + 1 : t[i] = s[1 + i - 1]
  BY <1>2, Part
<1>. HIDE DEF t
<1>4. ASSUME NEW i \in 1 .. n
      PROVE  t[i] = s[i]
  <2>1. 1 + i - 1 = i
    BY <1>1
  <2>. QED
    BY <1>1, <1>3, <2>1
<1>5. t \in Seq(S) /\ Len(t) = n /\ \A i \in 1 .. n : t[i] = s[i]
  BY <1>1, <1>3, <1>4, SMTT(60)
<1>. QED
  BY <1>5 DEF t

LEMMA Rest ==
    ASSUME NEW S, NEW s \in Seq(S), NEW n \in 0 .. Len(s)
    PROVE  /\ SubSeq(s, n + 1, Len(s)) \in Seq(S)
           /\ Len(SubSeq(s, n + 1, Len(s))) = Len(s) - n
           /\ \A i \in 1 .. Len(s) - n : SubSeq(s, n + 1, Len(s))[i] = s[n + i]
<1>1. Len(s) \in Nat /\ n \in Nat
  OBVIOUS
<1>2. n + 1 \in 1 .. Len(s) + 1 /\ Len(s) \in n + 1 - 1 .. Len(s)
  BY <1>1
<1>. DEFINE r == SubSeq(s, n + 1, Len(s))
<1>3. /\ r \in Seq(S) /\ Len(r) = Len(s) - (n + 1) + 1
      /\ \A i \in 1 .. Len(s) - (n + 1) + 1 : r[i] = s[n + 1 + i - 1]
  BY <1>2, Part
<1>. HIDE DEF r
<1>4. Len(s) - (n + 1) + 1 = Len(s) - n
  BY <1>1
<1>5. ASSUME NEW i \in 1 .. Len(s) - n
      PROVE  r[i] = s[n + i]
  <2>1. n + 1 + i - 1 = n + i
    BY <1>1
  <2>. QED
    BY <1>3, <1>4, <2>1
<1>. QED
  BY <1>3, <1>4, <1>5 DEF r

Sequences(S, s, t, u) == s \in Seq(S) /\ t \in Seq(S) /\ u \in Seq(S)

LEMMA Joined ==
    ASSUME NEW S, NEW s, NEW t, NEW u, Sequences(S, s, t, u)
    PROVE  (s \o t) \o u = s \o (t \o u)
  BY ConcatAssociative, SMTT(60) DEF Sequences

\* The start of w moves behind d.
LEMMA Moved ==
    ASSUME NEW S, NEW d \in Seq(S), NEW w \in Seq(S), NEW n \in 0 .. Len(w)
    PROVE  (d \o SubSeq(w, 1, n)) \o SubSeq(w, n + 1, Len(w)) = d \o w
<1>1. Len(w) \in Nat /\ n \in Nat
  OBVIOUS
<1>2. SubSeq(w, 1, n) \in Seq(S) /\ SubSeq(w, n + 1, Len(w)) \in Seq(S)
  BY <1>1, Part, SMT
<1>3. SubSeq(w, 1, n) \o SubSeq(w, n + 1, Len(w)) = SubSeq(w, 1, Len(w))
  <2>1. 1 \in 1 .. Len(w) + 1 /\ n \in 1 - 1 .. Len(w) /\ Len(w) \in n .. Len(w)
    BY <1>1
  <2>. QED
    BY <2>1, ConcatAdjacentSubSeq, Zenon
<1>. QED
  <2>1. (d \o SubSeq(w, 1, n)) \o SubSeq(w, n + 1, Len(w))
          = d \o (SubSeq(w, 1, n) \o SubSeq(w, n + 1, Len(w)))
    <3>. DEFINE u == SubSeq(w, 1, n)
                v == SubSeq(w, n + 1, Len(w))
    <3>1. u \in Seq(S) /\ v \in Seq(S)
      BY <1>2
    <3>. HIDE DEF u, v
    <3>2. (d \o u) \o v = d \o (u \o v)
      <4>1. Sequences(S, d, u, v)
        BY <3>1 DEF Sequences
      <4>. QED
        BY <4>1, Joined
    <3>. QED
      BY <3>2, Zenon DEF u, v
  <2>2. SubSeq(w, 1, Len(w)) = w
    BY SubSeqFull
  <2>. QED
    BY <1>3, <2>1, <2>2

Byte == Nat \X Nat

\* The first n of d leave old, and the last of them takes the place of g, which
\* left before them.
Passes(g, d, w, n, h, old, new) ==
    /\ g \in Byte /\ d \in Seq(Byte) /\ w \in Seq(Byte)
    /\ n \in 0 .. Len(d)
    /\ h = IF n = 0 THEN g ELSE d[n]
    /\ old = << g >> \o (d \o w)
    /\ new = << h >> \o (SubSeq(d, n + 1, Len(d)) \o w)

\* That shifts the sequence.
LEMMA Shifted ==
    ASSUME NEW g, NEW d, NEW w, NEW n, NEW h, NEW old, NEW new,
           Passes(g, d, w, n, h, old, new)
    PROVE  /\ old \in Seq(Byte) /\ Len(old) = 1 + Len(d) + Len(w)
           /\ new \in Seq(Byte) /\ Len(new) = Len(old) - n
           /\ \A i \in 1 .. Len(new) : new[i] = old[n + i]
<1>. DEFINE q == << g >> \o (d \o w)
            e == SubSeq(d, n + 1, Len(d))
            r == << h >> \o (e \o w)
<1>a. /\ g \in Byte /\ d \in Seq(Byte) /\ w \in Seq(Byte)
       /\ n \in 0 .. Len(d)
       /\ h = IF n = 0 THEN g ELSE d[n]
  BY DEF Passes
<1>0. Len(d) \in Nat /\ Len(w) \in Nat /\ n \in 0 .. Len(d)
  BY <1>a
<1>1. /\ e \in Seq(Byte) /\ Len(e) = Len(d) - n
      /\ \A i \in 1 .. Len(e) : e[i] = d[n + i]
  BY <1>a, <1>0, Rest
<1>2. h \in Byte
  BY <1>a, <1>0, ElementOfSeq
<1>. HIDE DEF e
<1>3. /\ d \o w \in Seq(Byte) /\ Len(d \o w) = Len(d) + Len(w)
      /\ \A i \in 1 .. Len(d) + Len(w) :
            (d \o w)[i] = IF i <= Len(d) THEN d[i] ELSE w[i - Len(d)]
  BY <1>a, ConcatProperties, Zenon
<1>4. /\ e \o w \in Seq(Byte) /\ Len(e \o w) = Len(e) + Len(w)
      /\ \A i \in 1 .. Len(e) + Len(w) :
            (e \o w)[i] = IF i <= Len(e) THEN e[i] ELSE w[i - Len(e)]
  BY <1>a, <1>1, ConcatProperties, Zenon
<1>5. /\ << g >> \in Seq(Byte) /\ Len(<< g >>) = 1 /\ << g >>[1] = g
      /\ << h >> \in Seq(Byte) /\ Len(<< h >>) = 1 /\ << h >>[1] = h
  BY <1>a, <1>2
<1>. DEFINE dw == d \o w
            ew == e \o w
<1>6. /\ q \in Seq(Byte) /\ Len(q) = 1 + Len(dw)
      /\ \A i \in 1 .. 1 + Len(dw) : q[i] = IF i <= 1 THEN << g >>[i] ELSE dw[i - 1]
  <2>. HIDE DEF dw, ew
  <2>1. dw \in Seq(Byte)
    BY <1>3 DEF dw
  <2>. DEFINE a == << g >>
  <2>2. a \in Seq(Byte) /\ Len(a) = 1
    BY <1>5
  <2>. HIDE DEF a
  <2>3. /\ a \o dw \in Seq(Byte) /\ Len(a \o dw) = Len(a) + Len(dw)
        /\ \A i \in 1 .. Len(a) + Len(dw) :
              (a \o dw)[i] = IF i <= Len(a) THEN a[i] ELSE dw[i - Len(a)]
    BY <2>1, <2>2, ConcatProperties, Zenon
  <2>. QED
    BY <2>2, <2>3 DEF a, dw, q
<1>7. /\ r \in Seq(Byte) /\ Len(r) = 1 + Len(ew)
      /\ \A i \in 1 .. 1 + Len(ew) : r[i] = IF i <= 1 THEN << h >>[i] ELSE ew[i - 1]
  <2>. HIDE DEF dw, ew
  <2>1. ew \in Seq(Byte)
    BY <1>4 DEF ew
  <2>. DEFINE a == << h >>
  <2>2. a \in Seq(Byte) /\ Len(a) = 1
    BY <1>5
  <2>. HIDE DEF a
  <2>3. /\ a \o ew \in Seq(Byte) /\ Len(a \o ew) = Len(a) + Len(ew)
        /\ \A i \in 1 .. Len(a) + Len(ew) :
              (a \o ew)[i] = IF i <= Len(a) THEN a[i] ELSE ew[i - Len(a)]
    BY <2>1, <2>2, ConcatProperties, Zenon
  <2>. QED
    BY <2>2, <2>3 DEF a, ew, r
<1>. HIDE DEF dw, ew, q, r
<1>8. /\ Len(dw) = Len(d) + Len(w) /\ Len(ew) = Len(e) + Len(w)
      /\ \A i \in 1 .. Len(d) + Len(w) : dw[i] = IF i <= Len(d) THEN d[i] ELSE w[i - Len(d)]
      /\ \A i \in 1 .. Len(e) + Len(w) : ew[i] = IF i <= Len(e) THEN e[i] ELSE w[i - Len(e)]
  BY <1>3, <1>4 DEF dw, ew
<1>9. Len(q) = 1 + Len(d) + Len(w) /\ Len(r) = Len(q) - n
  BY <1>0, <1>1, <1>6, <1>7, <1>8
<1>10. ASSUME NEW i \in 1 .. Len(r)
       PROVE  r[i] = q[n + i]
  <2>1. CASE i = 1 /\ n = 0
    BY <2>1, <1>a, <1>0, <1>5, <1>6, <1>7, <1>8, <1>9
  <2>2. CASE i = 1 /\ n # 0
    <3>1. r[i] = d[n]
      BY <2>2, <1>a, <1>0, <1>5, <1>7, <1>8, <1>9
    <3>2. n + i \in 1 .. 1 + Len(dw) /\ ~(n + i <= 1) /\ n + i - 1 = n
      BY <2>2, <1>0, <1>8
    <3>3. q[n + i] = dw[n]
      <4>0. PICK k : k = n + i
        OBVIOUS
      <4>1. k \in 1 .. 1 + Len(dw) /\ ~(k <= 1) /\ k - 1 = n
        BY <1>0, <3>2, <4>0
      <4>2. q[k] = dw[k - 1]
        BY <4>1, <1>6
      <4>. QED
        BY <1>0, <4>0, <4>1, <4>2
    <3>4. dw[n] = d[n]
      BY <2>2, <1>0, <1>8
    <3>. QED
      BY <3>1, <3>3, <3>4
  <2>3. CASE i # 1
    <3>1. i - 1 \in 1 .. Len(e) + Len(w) /\ r[i] = ew[i - 1]
      BY <2>3, <1>0, <1>1, <1>7, <1>8, <1>9
    <3>2. n + i - 1 \in 1 .. Len(d) + Len(w) /\ q[n + i] = dw[n + i - 1]
      BY <2>3, <1>0, <1>1, <1>6, <1>8, <1>9
    <3>3. CASE i - 1 <= Len(e)
      <4>1. ew[i - 1] = e[i - 1]
        BY <3>1, <3>3, <1>8
      <4>2. i - 1 \in 1 .. Len(e) /\ e[i - 1] = d[n + (i - 1)]
        <5>1. i - 1 \in 1 .. Len(e) + Len(w)
          BY <3>1
        <5>2. i - 1 \in 1 .. Len(e)
          BY <3>3, <5>1
        <5>. QED
          BY <1>1, <5>2
      <4>3. n + (i - 1) = n + i - 1 /\ n + i - 1 <= Len(d)
        <5>1. Len(e) = Len(d) - n
          BY <1>1
        <5>2. i \in Int
          BY <1>0, <1>9
        <5>. QED
          BY <3>3, <5>1, <5>2, <1>0
      <4>4. dw[n + i - 1] = d[n + i - 1]
        BY <3>2, <4>3, <1>8
      <4>. QED
        BY <3>1, <3>2, <4>1, <4>2, <4>3, <4>4
    <3>4. CASE ~(i - 1 <= Len(e))
      <4>1. ew[i - 1] = w[i - 1 - Len(e)]
        BY <3>1, <3>4, <1>8
      <4>2. ~(n + i - 1 <= Len(d)) /\ i - 1 - Len(e) = n + i - 1 - Len(d)
        BY <3>4, <1>0, <1>1
      <4>3. dw[n + i - 1] = w[n + i - 1 - Len(d)]
        <5>0. PICK k : k = n + i - 1
          OBVIOUS
        <5>1. k \in 1 .. Len(d) + Len(w) /\ ~(k <= Len(d))
          BY <5>0, <3>2, <4>2
        <5>2. dw[k] = w[k - Len(d)]
          BY <5>1, <1>8
        <5>. QED
          BY <1>0, <5>0, <5>2
      <4>4. w[i - 1 - Len(e)] = w[n + i - 1 - Len(d)]
        BY <4>2
      <4>. QED
        BY <3>1, <3>2, <4>1, <4>3, <4>4, Zenon
    <3>. QED
      BY <3>3, <3>4
  <2>. QED
    BY <2>1, <2>2, <2>3
<1>11. old = q /\ new = r
  BY DEF Passes, q, r, e
<1>. QED
  BY <1>6, <1>7, <1>9, <1>10, <1>11

-----------------------------------------------------------------------------
(***************************************************************************)
(* The operators on lines and buffers.                                     *)
(***************************************************************************)
\* The loop over buffer_read stops at the first newline, at max bytes or at the
\* end of what there is.
LEMMA TextLengthType ==
    ASSUME NEW s, Len(s) \in Nat, NEW max \in Nat
    PROVE  LET n == TextLength(s, max)
           IN  /\ n \in 0 .. Least(max, Len(s))
               /\ \A i \in 1 .. n : ~IsNewline(s[i])
               /\ n = max \/ n = Len(s) \/ IsNewline(s[n + 1])
<1>. DEFINE m == Least(max, Len(s))
            P(n) == /\ \A i \in 1 .. n : ~IsNewline(s[i])
                    /\ n = max \/ n = Len(s) \/ IsNewline(s[n + 1])
            N == { i \in 1 .. m : IsNewline(s[i]) }
<1>1. m \in Nat /\ (m = max \/ m = Len(s))
  BY LeastType
<1>. HIDE DEF m
<1>2. \E n \in 0 .. m : P(n)
  <2>1. CASE N = {}
    <3>1. \A i \in 1 .. m : ~IsNewline(s[i])
      BY <2>1
    <3>2. m \in 0 .. m
      BY <1>1
    <3>. QED
      BY <1>1, <3>1, <3>2, Zenon
  <2>2. CASE N # {}
    <3>1. PICK i \in N : \A j \in N : i <= j
      <4>1. N \in SUBSET Nat
        BY <1>1
      <4>. HIDE DEF N
      <4>. QED
        BY <2>2, <4>1, Smallest, Zenon
    <3>2. i \in 1 .. m /\ IsNewline(s[i])
      BY <3>1
    <3>3. \A j \in 1 .. i - 1 : ~IsNewline(s[j])
      BY <1>1, <3>1, <3>2
    <3>4. i - 1 \in 0 .. m /\ (i - 1) + 1 = i
      BY <1>1, <3>2
    <3>. QED
      BY <3>2, <3>3, <3>4
  <2>. QED
    BY <2>1, <2>2
<1>3. TextLength(s, max) = CHOOSE n \in 0 .. m : P(n)
  BY DEF TextLength, m
<1>. HIDE DEF P
<1>4. TextLength(s, max) \in 0 .. m /\ P(TextLength(s, max))
  BY <1>2, <1>3, Zenon
<1>. QED
  BY <1>4 DEF P, m

\* It uses up no more than there is, and the text is a part of that.
LEMMA TakenType ==
    ASSUME NEW s, Len(s) \in Nat, NEW max \in Nat
    PROVE  /\ Taken(s, max) \in TextLength(s, max) .. Len(s)
           /\ Terminated(s, max) => TextLength(s, max) < Len(s)
<1>. DEFINE n == TextLength(s, max)
<1>1. n \in 0 .. Least(max, Len(s))
  BY TextLengthType, Zenon
<1>2. Least(max, Len(s)) \in Nat /\ Least(max, Len(s)) <= Len(s)
  BY LeastType
<1>. HIDE DEF n
<1>. QED
  BY <1>1, <1>2 DEF Taken, Terminated, n

\* Of a line that ends within max bytes the loop uses up every byte.
LEMMA WholeLine ==
    ASSUME NEW k \in 1 .. Len(script), script[k].size \in Nat,
           NEW max \in Nat, script[k].size < max
    PROVE  LET s == LineBytes(k, script[k].size)
           IN  /\ TextLength(s, max) = script[k].size
               /\ Terminated(s, max)
               /\ Taken(s, max) = Len(s)
<1>. DEFINE size == script[k].size
            s == LineBytes(k, size)
            n == TextLength(s, max)
<1>1. /\ Len(s) = size + 1
      /\ \A i \in 1 .. size + 1 : s[i] = << k, i >>
  BY DEF LineBytes
<1>2. \A i \in 1 .. size + 1 : IsNewline(s[i]) <=> i = size + 1
  BY <1>1 DEF IsNewline
<1>. HIDE DEF s
<1>3. /\ n \in 0 .. Least(max, Len(s))
      /\ \A i \in 1 .. n : ~IsNewline(s[i])
      /\ n = max \/ n = Len(s) \/ IsNewline(s[n + 1])
  <2>1. Len(s) \in Nat
    BY <1>1
  <2>. HIDE DEF n
  <2>. QED
    BY <2>1, TextLengthType DEF n
<1>4. Least(max, Len(s)) = size + 1
  BY <1>1 DEF Least
<1>. HIDE DEF n, size
<1>5. n = size
  BY <1>1, <1>2, <1>3, <1>4 DEF size
<1>. QED
  BY <1>1, <1>4, <1>5 DEF Taken, Terminated, n, s, size
-----------------------------------------------------------------------------
(***************************************************************************)
(* Types.                                                                  *)
(***************************************************************************)
\* What read_buffer can be.
Buffers ==
    { b \in [ used : Nat, bytes : Seq(LineByte) ] : b.used + Len(b.bytes) <= ReadBuffer }

LEMMA BufferFields ==
    ASSUME NEW b \in Buffers
    PROVE  /\ b.used \in Nat /\ b.bytes \in Seq(LineByte) /\ Len(b.bytes) \in Nat
           /\ b = [ used |-> b.used, bytes |-> b.bytes ]
           /\ b.used + Len(b.bytes) <= ReadBuffer
<1>1. b \in [ used : Nat, bytes : Seq(LineByte) ] /\ b.used + Len(b.bytes) <= ReadBuffer
  BY DEF Buffers
<1>. QED
  BY <1>1

LEMMA EmptyType == Empty \in Buffers /\ Empty.bytes = << >>
  BY MonitorAssumption DEF Empty, Buffers

\* buffer_read leaves the rest of what was pending.
LEMMA DropType ==
    ASSUME NEW b \in Buffers, NEW n \in 0 .. Len(b.bytes)
    PROVE  /\ Drop(b, n) \in Buffers
           /\ Drop(b, n).bytes = SubSeq(b.bytes, n + 1, Len(b.bytes))
<1>. DEFINE s == b.bytes
            r == SubSeq(s, n + 1, Len(s))
<1>1. /\ b.used \in Nat /\ s \in Seq(LineByte) /\ Len(s) \in Nat
      /\ b.used + Len(s) <= ReadBuffer
  BY BufferFields
<1>2. r \in Seq(LineByte) /\ Len(r) = Len(s) - n
  <2>1. n \in 0 .. Len(s)
    OBVIOUS
  <2>. HIDE DEF s
  <2>. QED
    BY <1>1, <2>1, Rest
<1>3. n \in Nat /\ n <= Len(s)
  BY <1>1
<1>4. CASE n = Len(s)
  <2>1. r = << >>
    BY <1>1, <1>2, <1>4
  <2>. QED
    BY <1>4, <2>1, EmptyType DEF Drop
<1>5. CASE n # Len(s)
  <2>1. Drop(b, n) = [ used |-> b.used + n, bytes |-> r ]
    BY <1>5 DEF Drop
  <2>. HIDE DEF r, s
  <2>2. b.used + n + Len(r) <= ReadBuffer /\ b.used + n \in Nat
    BY <1>1, <1>2, <1>3, MonitorAssumption
  <2>3. Drop(b, n) \in Buffers /\ Drop(b, n).bytes = r
    <3>. DEFINE u == b.used + n
    <3>1. Drop(b, n) = [ used |-> u, bytes |-> r ] /\ u \in Nat /\ u + Len(r) <= ReadBuffer
      BY <2>1, <2>2
    <3>. HIDE DEF u
    <3>. QED
      BY <1>2, <3>1 DEF Buffers
  <2>. QED
    BY <2>3 DEF r, s
<1>. QED
  BY <1>4, <1>5

\* What recv returns to the server is there and fits.
LEMMA ReceivedType ==
    ASSUME TypeOK, NEW n \in Arrivals
    PROVE  /\ n \in 0 .. Len(up)
           /\ Received(n) \in Buffers
           /\ Received(n).bytes = rbuf.bytes \o SubSeq(up, 1, n)
           /\ SubSeq(up, n + 1, Len(up)) \in Seq(LineByte)
           /\ Arrive(n) => cuts' \in 0 .. MaxCuts
<1>1. /\ rbuf \in Buffers /\ up \in Seq(LineByte) /\ cuts \in 0 .. MaxCuts
      /\ MaxCuts \in Nat /\ ReadBuffer \in Nat /\ Len(up) \in Nat
  BY MonitorAssumption DEF TypeOK, Buffers
<1>2. /\ rbuf.used \in Nat /\ rbuf.bytes \in Seq(LineByte) /\ Len(rbuf.bytes) \in Nat
      /\ rbuf = [ used |-> rbuf.used, bytes |-> rbuf.bytes ]
      /\ rbuf.used + Len(rbuf.bytes) <= ReadBuffer
  BY <1>1, BufferFields
<1>3. Room \in Nat
  BY <1>1, <1>2 DEF Room
<1>4. /\ Least(Len(up), Room) \in Nat
      /\ Least(Len(up), Room) <= Len(up) /\ Least(Len(up), Room) <= Room
  BY <1>1, <1>3, LeastType
<1>5. /\ n \in 0 .. Len(up) /\ n <= Room
      /\ n < Least(Len(up), Room) => cuts < MaxCuts
  <2>1. CASE up = << >>
    <3>1. n = 0 /\ Least(Len(up), Room) = 0
      BY <1>3, <2>1 DEF Arrivals, Least
    <3>. QED
      BY <1>1, <1>3, <3>1
  <2>2. CASE up # << >> /\ Room = 0
    BY <1>1, <1>4, <2>2 DEF Arrivals
  <2>3. CASE up # << >> /\ Room # 0
    <3>1. n \in IF cuts < MaxCuts THEN 1 .. Least(Len(up), Room) ELSE { Least(Len(up), Room) }
      BY <2>3 DEF Arrivals
    <3>. QED
      BY <1>1, <1>3, <1>4, <3>1
  <2>. QED
    BY <2>1, <2>2, <2>3
<1>6. SubSeq(up, 1, n) \in Seq(LineByte) /\ Len(SubSeq(up, 1, n)) = n
  BY <1>1, <1>5, Part
<1>7. SubSeq(up, n + 1, Len(up)) \in Seq(LineByte)
  BY <1>1, <1>5, Part
<1>8. Arrive(n) => cuts' \in 0 .. MaxCuts
  BY <1>1, <1>5 DEF Arrive
<1>. DEFINE b == rbuf.bytes \o SubSeq(up, 1, n)
<1>9. b \in Seq(LineByte) /\ Len(b) = Len(rbuf.bytes) + n
  <2>. DEFINE u == SubSeq(up, 1, n)
  <2>. HIDE DEF u
  <2>1. rbuf.bytes \o u \in Seq(LineByte) /\ Len(rbuf.bytes \o u) = Len(rbuf.bytes) + n
    BY <1>2, <1>6, ConcatProperties DEF u
  <2>. QED
    BY <2>1 DEF u
<1>10. Received(n) = [ used |-> rbuf.used, bytes |-> b ]
  <2>1. rbuf \in [ used : Nat, bytes : Seq(LineByte) ]
    BY <1>1 DEF Buffers
  <2>. HIDE DEF b
  <2>2. [rbuf EXCEPT !.bytes = b] = [ used |-> rbuf.used, bytes |-> b ]
    BY <2>1
  <2>. QED
    BY <2>2 DEF Received, b
<1>. HIDE DEF b
<1>11. rbuf.used + Len(b) <= ReadBuffer
  <2>1. Len(b) = Len(rbuf.bytes) + n
    BY <1>9
  <2>. HIDE DEF b
  <2>. DEFINE used == rbuf.used
              len  == Len(rbuf.bytes)
  <2>2. used \in Nat /\ len \in Nat /\ n \in Nat /\ ReadBuffer \in Nat
    BY <1>1, <1>2, <1>3, <1>5 DEF Buffers
  <2>3. n <= ReadBuffer - (used + len)
    BY <1>1, <1>2, <1>3, <1>5 DEF Room
  <2>. HIDE DEF used, len
  <2>4. used + (len + n) <= ReadBuffer
    BY <2>2, <2>3
  <2>. QED
    BY <2>1, <2>4 DEF used, len
<1>12. Received(n) \in Buffers /\ Received(n).bytes = b
  BY <1>2, <1>9, <1>10, <1>11 DEF Buffers
<1>. QED
  BY <1>5, <1>7, <1>8, <1>12 DEF b
LEMMA MessageType ==
    ASSUME NEW k \in Nat, NEW n \in Nat
    PROVE  /\ AnswerBytes(k, n) \in Seq(Nat \X Nat) /\ Len(AnswerBytes(k, n)) = n
           /\ LineBytes(k, n) \in Seq(Nat \X Nat) /\ Len(LineBytes(k, n)) = n + 1
  BY DEF AnswerBytes, LineBytes

LEMMA TypesInit == Init => TypeOK
<1>. SUFFICES ASSUME Init PROVE TypeOK
  OBVIOUS
<1>. USE MonitorAssumption DEF Init
<1>1. AnswerBytes(1, 2) \in Seq(Nat \X Nat) /\ Len(AnswerBytes(1, 2)) = 2
  BY MessageType
<1>2. rbuf \in [ used : Nat, bytes : Seq(LineByte) ] /\ rbuf.used + Len(rbuf.bytes) <= ReadBuffer
  BY DEF Empty
<1>3. given \in Seq([ line : Nat, size : Nat, says : Saying ])
  BY DEF Saying
<1>4. got \in Nat \X Nat /\ ran \in Nat \X Nat /\ auth \in 0 .. Len(script)
  OBVIOUS
<1>5. script \in Seq([ size : Nat, kind : Credentials \cup Command ]) /\ Len(script) <= MaxLines
  OBVIOUS
<1>6. wbuf \in Seq(Nat \X Nat) /\ Len(wbuf) <= WriteBuffer
  <2>1. 2 <= WriteBuffer
    OBVIOUS
  <2>2. wbuf = AnswerBytes(1, 2)
    OBVIOUS
  <2>. QED
    BY <1>1, <2>1, <2>2
<1>7. up \in Seq(LineByte) /\ down \in Seq(Nat \X Nat)
  OBVIOUS
<1>8. /\ state \in State /\ mode \in Mode /\ interest \in { "noop", "read", "write" }
      /\ broken \in BOOLEAN /\ intact \in BOOLEAN
  BY DEF State, Mode
<1>9. cuts \in 0 .. MaxCuts
  OBVIOUS
<1>. QED
  BY <1>2, <1>3, <1>4, <1>5, <1>6, <1>7, <1>8, <1>9 DEF TypeOK

\* What the types say of the connection and of the buffers.
LEMMA Typed ==
    ASSUME TypeOK
    PROVE  /\ rbuf \in Buffers /\ up \in Seq(LineByte) /\ Len(up) \in Nat
           /\ wbuf \in Seq(Nat \X Nat) /\ Len(wbuf) \in Nat /\ Len(wbuf) <= WriteBuffer
           /\ down \in Seq(Nat \X Nat) /\ Len(down) \in Nat
           /\ given \in Seq([ line : Nat, size : Nat, says : Saying ]) /\ Len(given) \in Nat
           /\ script \in Seq([ size : Nat, kind : Credentials \cup Command ])
           /\ Len(script) \in Nat
<1>1. /\ rbuf \in Buffers /\ up \in Seq(LineByte)
      /\ wbuf \in Seq(Nat \X Nat) /\ Len(wbuf) <= WriteBuffer
      /\ down \in Seq(Nat \X Nat)
      /\ given \in Seq([ line : Nat, size : Nat, says : Saying ])
      /\ script \in Seq([ size : Nat, kind : Credentials \cup Command ])
  BY DEF TypeOK, Buffers
<1>2. \A S : \A s \in Seq(S) : Len(s) \in Nat
  BY LenProperties
<1>. QED
  BY <1>1, <1>2, Zenon

\* send() takes the start of a sequence.
LEMMA TransmitType ==
    ASSUME TypeOK, NEW s \in Seq(Nat \X Nat), Transmit(s)
    PROVE  down' \in Seq(Nat \X Nat) /\ broken' \in BOOLEAN
<1>1. down \o s \in Seq(Nat \X Nat)
  BY Typed, ConcatProperties
<1>. QED
  BY <1>1, Typed DEF Transmit

\* An answer that is added to those given.
LEMMA GivenType ==
    ASSUME TypeOK, NEW line \in Nat, NEW size \in Nat, NEW says \in Saying,
           given' = Append(given, [ line |-> line, size |-> size, says |-> says ])
    PROVE  /\ given' \in Seq([ line : Nat, size : Nat, says : Saying ])
           /\ Len(given') = Len(given) + 1
           /\ \A k \in 1 .. Len(given) : given'[k] = given[k]
           /\ given'[Len(given) + 1] = [ line |-> line, size |-> size, says |-> says ]
<1>. DEFINE S == [ line : Nat, size : Nat, says : Saying ]
            r == [ line |-> line, size |-> size, says |-> says ]
<1>1. r \in S /\ given \in Seq(S)
  BY Typed
<1>. HIDE DEF r, S
<1>2. given' = Append(given, r)
  BY DEF r
<1>3. /\ Append(given, r) \in Seq(S)
      /\ Len(Append(given, r)) = Len(given) + 1
      /\ \A k \in 1 .. Len(given) : Append(given, r)[k] = given[k]
      /\ Append(given, r)[Len(given) + 1] = r
  BY <1>1, AppendProperties
<1>. QED
  BY <1>2, <1>3 DEF r, S

LEMMA SendSomeTypes ==
    ASSUME TypeOK, NEW here, NEW next \in State, SendSome(here, next)
    PROVE  TypeOK'
<1>. USE MonitorAssumption
<1>1. PICK n \in 1 .. Len(wbuf) :
          LET rest == SubSeq(wbuf, n + 1, Len(wbuf))
          IN  /\ rest # << >> => cuts < MaxCuts
              /\ cuts' = IF rest # << >> THEN cuts + 1 ELSE cuts
              /\ Transmit(SubSeq(wbuf, 1, n))
              /\ wbuf' = rest
              /\ AfterSend(rest, next)
  BY DEF SendSome
<1>2. wbuf \in Seq(Nat \X Nat) /\ Len(wbuf) \in Nat /\ Len(wbuf) <= WriteBuffer
  BY Typed
<1>3. SubSeq(wbuf, 1, n) \in Seq(Nat \X Nat)
  BY <1>2, Part
<1>4. wbuf' \in Seq(Nat \X Nat) /\ Len(wbuf') = Len(wbuf) - n
  <2>1. n \in 0 .. Len(wbuf)
    BY <1>2
  <2>2. wbuf' = SubSeq(wbuf, n + 1, Len(wbuf))
    BY <1>1
  <2>. QED
    BY <1>2, <2>1, <2>2, Rest, ZenonT(60)
<1>5. down' \in Seq(Nat \X Nat) /\ broken' \in BOOLEAN
  BY <1>1, <1>3, TransmitType
<1>6. cuts' \in 0 .. MaxCuts
  <2>1. /\ wbuf' # << >> => cuts < MaxCuts
        /\ cuts' = IF wbuf' # << >> THEN cuts + 1 ELSE cuts
    BY <1>1
  <2>. QED
    BY <2>1 DEF TypeOK
<1>7. state' \in State /\ interest' \in { "noop", "read", "write" }
  BY <1>1 DEF AfterSend, Goto, TypeOK
<1>8. UNCHANGED << rbuf, given, ran, up, mode, script, got, auth, intact >>
  BY DEF SendSome, client
<1>. QED
  BY <1>2, <1>4, <1>5, <1>6, <1>7, <1>8 DEF TypeOK, LineByte

\* Of what a read handler receives, it keeps a part.
LEMMA Kept ==
    ASSUME TypeOK, NEW n \in Arrivals, NEW max \in Nat, Arrive(n)
    PROVE  LET b == Received(n)
           IN  /\ Drop(b, Taken(b.bytes, max)) \in Buffers
               /\ up' \in Seq(LineByte) /\ cuts' \in 0 .. MaxCuts
               /\ b.bytes \in Seq(LineByte) /\ Len(b.bytes) \in Nat
               /\ TextLength(b.bytes, max) \in 0 .. Len(b.bytes)
               /\ Taken(b.bytes, max) \in TextLength(b.bytes, max) .. Len(b.bytes)
<1>. DEFINE b == Received(n)
<1>1. b \in Buffers
  BY ReceivedType
<1>2. up' \in Seq(LineByte) /\ cuts' \in 0 .. MaxCuts
  BY ReceivedType DEF Arrive
<1>. HIDE DEF b
<1>3. b.bytes \in Seq(LineByte) /\ Len(b.bytes) \in Nat
  BY <1>1, BufferFields
<1>4. Taken(b.bytes, max) \in TextLength(b.bytes, max) .. Len(b.bytes)
  BY <1>3, TakenType
<1>5. TextLength(b.bytes, max) \in 0 .. Len(b.bytes)
  <2>1. TextLength(b.bytes, max) \in 0 .. Least(max, Len(b.bytes))
    BY <1>3, TextLengthType, Zenon
  <2>2. Least(max, Len(b.bytes)) \in Nat /\ Least(max, Len(b.bytes)) <= Len(b.bytes)
    BY <1>3, LeastType
  <2>. QED
    BY <1>3, <2>1, <2>2
<1>6. Drop(b, Taken(b.bytes, max)) \in Buffers
  BY <1>1, <1>3, <1>4, <1>5, DropType
<1>. QED
  BY <1>2, <1>3, <1>4, <1>5, <1>6 DEF b
\* Answers that are sent at once.
LEMMA SayTypes ==
    ASSUME TypeOK, NEW says \in Saying, NEW line \in Nat, Say(says, line)
    PROVE  /\ down' \in Seq(Nat \X Nat) /\ broken' \in BOOLEAN
           /\ given' \in Seq([ line : Nat, size : Nat, says : Saying ])
<1>1. AnswerBytes(Len(given) + 1, 2) \in Seq(Nat \X Nat)
  <2>1. Len(given) + 1 \in Nat /\ 2 \in Nat
    BY Typed
  <2>. QED
    BY <2>1, MessageType
<1>. QED
  BY <1>1, TransmitType, GivenType DEF Say

LEMMA HandshakeReadPartTypes == TypeOK /\ HandshakeReadPart => TypeOK'
<1>. SUFFICES ASSUME TypeOK, HandshakeReadPart
              PROVE  TypeOK'
  OBVIOUS
<1>1. PICK n \in Arrivals :
          LET b == Received(n)
          IN  /\ ~Terminated(b.bytes, HandshakeMax)
              /\ rbuf' = Drop(b, Taken(b.bytes, HandshakeMax))
              /\ Arrive(n)
              /\ intact' = (intact /\ ArrivesWhole(n, HandshakeMax))
  BY DEF HandshakeReadPart
<1>2. rbuf' \in Buffers /\ up' \in Seq(LineByte) /\ cuts' \in 0 .. MaxCuts
  BY <1>1, Kept, MonitorAssumption
<1>3. intact' \in BOOLEAN
  BY <1>1
<1>4. UNCHANGED << state, interest, wbuf, given, ran, down, broken, mode, script, got, auth >>
  BY DEF HandshakeReadPart, client
<1>. QED
  BY <1>2, <1>3, <1>4 DEF TypeOK, LineByte, Buffers

\* The first byte of what was received belongs to a line.
LEMMA LineOf ==
    ASSUME TypeOK, NEW s \in Seq(LineByte), Len(s) # 0
    PROVE  s[1] \in LineByte /\ s[1][1] \in 1 .. Len(script) /\ s[1][1] \in Nat
<1>1. Len(s) \in Nat /\ Len(script) \in Nat
  BY Typed
<1>2. s[1] \in LineByte
  BY <1>1, ElementOfSeq
<1>. QED
  BY <1>1, <1>2 DEF LineByte

LEMMA HandshakeReadLineTypes == TypeOK /\ HandshakeReadLine => TypeOK'
<1>. SUFFICES ASSUME TypeOK, HandshakeReadLine
              PROVE  TypeOK'
  OBVIOUS
<1>1. PICK n \in Arrivals :
          LET b    == Received(n)
              text == SubSeq(b.bytes, 1, TextLength(b.bytes, HandshakeMax))
              line == b.bytes[1][1]
              rest == Drop(b, Taken(b.bytes, HandshakeMax))
          IN  /\ Terminated(b.bytes, HandshakeMax)
              /\ \E verdict \in Verdicts(text) :
                    \/ /\ verdict = "good"
                       /\ Say("OK", line)
                       /\ Goto("COMMAND_READ", "read")
                       /\ rbuf' = AfterWelcome
                    \/ /\ verdict # "good"
                       /\ Say("ERR", line)
                       /\ UNCHANGED << state, interest >>
                       /\ rbuf' = IF verdict = "bad" THEN Empty ELSE rest
                    \/ /\ SayNothing
                       /\ UNCHANGED << state, interest >>
                       /\ rbuf' = IF verdict = "malformed" THEN rest ELSE Empty
                    \/ /\ Killed
                       /\ rbuf' = rest
              /\ Arrive(n)
              /\ intact' = (intact /\ ArrivesWhole(n, HandshakeMax))
  BY DEF HandshakeReadLine
<1>. DEFINE b    == Received(n)
            line == b.bytes[1][1]
            rest == Drop(b, Taken(b.bytes, HandshakeMax))
<1>2. /\ rest \in Buffers /\ up' \in Seq(LineByte) /\ cuts' \in 0 .. MaxCuts
      /\ b.bytes \in Seq(LineByte)
      /\ TextLength(b.bytes, HandshakeMax) \in 0 .. Len(b.bytes)
  BY <1>1, Kept, MonitorAssumption
<1>3. line \in Nat
  <2>1. Len(b.bytes) # 0
    <3>1. Terminated(b.bytes, HandshakeMax)
      BY <1>1
    <3>2. Len(b.bytes) \in Nat /\ HandshakeMax \in Nat
      BY <1>2, MonitorAssumption
    <3>. HIDE DEF b
    <3>3. TextLength(b.bytes, HandshakeMax) < Len(b.bytes)
      BY <3>1, <3>2, TakenType
    <3>. QED
      BY <1>2, <3>2, <3>3
  <2>. HIDE DEF b
  <2>. QED
    BY <1>2, <2>1, LineOf
<1>4. /\ rbuf' \in Buffers
      /\ state' \in State /\ interest' \in { "noop", "read", "write" }
  <2>1. \/ rbuf' = Empty
        \/ rbuf' = rest
    BY <1>1 DEF AfterWelcome
  <2>2. \/ UNCHANGED << state, interest >>
        \/ Goto("COMMAND_READ", "read")
        \/ Goto("KILLED", "noop")
    BY <1>1 DEF Killed
  <2>. HIDE DEF rest
  <2>3. rbuf' \in Buffers
    BY <1>2, <2>1, EmptyType
  <2>. QED
    BY <2>2, <2>3 DEF Goto, State, TypeOK
<1>5. /\ down' \in Seq(Nat \X Nat) /\ broken' \in BOOLEAN
      /\ given' \in Seq([ line : Nat, size : Nat, says : Saying ])
  <2>1. \/ Say("OK", line)
        \/ Say("ERR", line)
        \/ SayNothing
    BY <1>1 DEF Killed
  <2>2. "OK" \in Saying /\ "ERR" \in Saying
    BY DEF Saying
  <2>. HIDE DEF line
  <2>3. CASE SayNothing
    BY <2>3 DEF SayNothing, TypeOK
  <2>. QED
    BY <1>3, <2>1, <2>2, <2>3, SayTypes
<1>6. intact' \in BOOLEAN
  BY <1>1
<1>7. UNCHANGED << wbuf, ran, mode, script, got, auth >>
  BY DEF HandshakeReadLine, client
<1>. QED
  BY <1>2, <1>4, <1>5, <1>6, <1>7 DEF TypeOK, LineByte, Buffers
\* What the commands do to the answers, to the connection and to the session.
AnswerTypes ==
    /\ given' \in Seq([ line : Nat, size : Nat, says : Saying ])
    /\ wbuf' \in Seq(Nat \X Nat) /\ Len(wbuf') <= WriteBuffer
    /\ down' \in Seq(Nat \X Nat) /\ broken' \in BOOLEAN
    /\ state' \in State /\ interest' \in { "noop", "read", "write" }

LEMMA AnswerIsTyped ==
    ASSUME TypeOK, NEW line \in Nat, Answer(line)
    PROVE  AnswerTypes
<1>1. PICK size \in AnswerSizes, says \in { "OK", "ERR" } :
        LET fits == Least(size, WriteBuffer)
        IN  /\ given' = Append(given, [ line |-> line, size |-> fits, says |-> says ])
            /\ wbuf' = AnswerBytes(Len(given) + 1, fits)
            /\ Goto("COMMAND_WRITE", "write")
            /\ UNCHANGED << down, broken >>
  BY DEF Answer
<1>. DEFINE fits == Least(size, WriteBuffer)
<1>2. fits \in Nat /\ fits <= WriteBuffer
  <2>1. size \in Nat /\ WriteBuffer \in Nat
    BY MonitorAssumption
  <2>. QED
    BY <2>1, LeastType
<1>3. /\ given' = Append(given, [ line |-> line, size |-> fits, says |-> says ])
      /\ wbuf' = AnswerBytes(Len(given) + 1, fits)
      /\ state' = "COMMAND_WRITE" /\ interest' = "write"
      /\ UNCHANGED << down, broken >>
  BY <1>1 DEF Goto
<1>. HIDE DEF fits
<1>4. says \in Saying
  BY DEF Saying
<1>5. given' \in Seq([ line : Nat, size : Nat, says : Saying ])
  BY <1>2, <1>3, <1>4, GivenType
<1>6. wbuf' \in Seq(Nat \X Nat) /\ Len(wbuf') = fits
  BY <1>2, <1>3, Typed, MessageType
<1>7. wbuf' \in Seq(Nat \X Nat) /\ Len(wbuf') <= WriteBuffer
  BY <1>2, <1>6
<1>8. state' \in State /\ interest' \in { "noop", "read", "write" }
  BY <1>3 DEF State
<1>9. down' \in Seq(Nat \X Nat) /\ broken' \in BOOLEAN
  BY <1>3 DEF TypeOK
<1>. QED
  BY <1>5, <1>7, <1>8, <1>9 DEF AnswerTypes

LEMMA QuitIsTyped ==
    ASSUME TypeOK, NEW line \in Nat, NEW left, Quit(line, left)
    PROVE  AnswerTypes
<1>1. "bye" \in Saying /\ 2 \in Nat
  BY DEF Saying
<1>2. given' \in Seq([ line : Nat, size : Nat, says : Saying ])
  BY <1>1, GivenType DEF Quit
<1>3. down' \in Seq(Nat \X Nat)
  <2>. DEFINE all == down \o AnswerBytes(Len(given) + 1, 2)
  <2>1. all \in Seq(Nat \X Nat) /\ Len(all) \in Nat
    <3>1. Len(given) + 1 \in Nat
      BY Typed
    <3>2. AnswerBytes(Len(given) + 1, 2) \in Seq(Nat \X Nat)
      BY <1>1, <3>1, MessageType
    <3>3. all \in Seq(Nat \X Nat)
      BY <3>2, Typed, ConcatProperties
    <3>. HIDE DEF all
    <3>. QED
      BY <3>3
  <2>2. \/ down' = down
        \/ \E n \in 0 .. Len(all) : down' = SubSeq(all, 1, n)
    BY DEF Quit
  <2>3. ASSUME NEW n \in 0 .. Len(all)
        PROVE  SubSeq(all, 1, n) \in Seq(Nat \X Nat)
    <3>. HIDE DEF all
    <3>1. 1 \in 1 .. Len(all) + 1 /\ n \in 1 - 1 .. Len(all)
      BY <2>1
    <3>. QED
      BY <2>1, <3>1, Part
  <2>. HIDE DEF all
  <2>. QED
    BY <2>2, <2>3, Typed
<1>4. state' \in State /\ interest' \in { "noop", "read", "write" }
  BY DEF Quit, Goto, State, TypeOK
<1>5. UNCHANGED << wbuf, broken >>
  BY DEF Quit
<1>. QED
  BY <1>2, <1>3, <1>4, <1>5 DEF AnswerTypes, TypeOK

LEMMA QuitWithIsTyped ==
    ASSUME TypeOK, NEW line \in Nat, QuitWith(line)
    PROVE  AnswerTypes
<1>1. "bye" \in Saying /\ 2 \in Nat
  BY DEF Saying
<1>2. given' \in Seq([ line : Nat, size : Nat, says : Saying ])
  BY <1>1, GivenType DEF QuitWith
<1>3. wbuf' \in Seq(Nat \X Nat) /\ Len(wbuf') = 2
  <2>1. Len(given) + 1 \in Nat
    BY Typed
  <2>. QED
    BY <1>1, <2>1, MessageType DEF QuitWith
<1>4. wbuf' \in Seq(Nat \X Nat) /\ Len(wbuf') <= WriteBuffer
  BY <1>3, MonitorAssumption
<1>5. state' \in State /\ interest' \in { "noop", "read", "write" }
  BY DEF QuitWith, Goto, State
<1>6. UNCHANGED << down, broken >>
  BY DEF QuitWith
<1>. QED
  BY <1>2, <1>4, <1>5, <1>6 DEF AnswerTypes, TypeOK

\* What a command can be taken for.
LEMMA MeaningsAreCommands ==
    ASSUME NEW text, NEW terminated
    PROVE  Meanings(text, terminated) \subseteq Command
  BY DEF Meanings

LEMMA CommandReadTypes == TypeOK /\ CommandRead => TypeOK'
<1>. SUFFICES ASSUME TypeOK, CommandRead
              PROVE  TypeOK'
  OBVIOUS
<1>1. PICK n \in Arrivals :
          LET b     == Received(n)
              taken == Taken(b.bytes, LineMax)
              text  == SubSeq(b.bytes, 1, TextLength(b.bytes, LineMax))
              rest  == SubSeq(up, n + 1, Len(up))
          IN  /\ \/ /\ text = << >>
                    /\ UNCHANGED << state, interest, wbuf, given, down, broken >>
                 \/ /\ text # << >>
                    /\ \E meaning \in Meanings(text, Terminated(b.bytes, LineMax)) :
                          LET line == text[1][1]
                          IN  \/ meaning = "ask"       /\ Answer(line)
                              \/ meaning = "quit"      /\ Quit(line, rest)
                              \/ meaning = "quit with" /\ QuitWith(line)
              /\ rbuf' = Drop(b, taken)
              /\ ran' = IF taken = 0 THEN ran ELSE b.bytes[taken]
              /\ Arrive(n)
              /\ intact' = (intact /\ ArrivesWhole(n, LineMax))
  BY DEF CommandRead
<1>. DEFINE b     == Received(n)
            taken == Taken(b.bytes, LineMax)
            text  == SubSeq(b.bytes, 1, TextLength(b.bytes, LineMax))
            rest  == SubSeq(up, n + 1, Len(up))
<1>2. /\ rbuf' \in Buffers /\ up' \in Seq(LineByte) /\ cuts' \in 0 .. MaxCuts
      /\ b.bytes \in Seq(LineByte) /\ Len(b.bytes) \in Nat
      /\ TextLength(b.bytes, LineMax) \in 0 .. Len(b.bytes)
      /\ taken \in TextLength(b.bytes, LineMax) .. Len(b.bytes)
  BY <1>1, Kept, MonitorAssumption
<1>3. text \in Seq(LineByte) /\ Len(text) = TextLength(b.bytes, LineMax)
  <2>. DEFINE s == b.bytes
              k == TextLength(s, LineMax)
  <2>1. s \in Seq(LineByte) /\ k \in 0 .. Len(s) /\ Len(s) \in Nat
    BY <1>2
  <2>. HIDE DEF s, k
  <2>2. SubSeq(s, 1, k) \in Seq(LineByte) /\ Len(SubSeq(s, 1, k)) = k
    BY <2>1, Part
  <2>. QED
    BY <2>2 DEF s, k
<1>4. ran' \in Nat \X Nat
  <2>1. taken = 0 \/ taken \in 1 .. Len(b.bytes)
    BY <1>2
  <2>2. ran' = IF taken = 0 THEN ran ELSE b.bytes[taken]
    BY <1>1
  <2>. HIDE DEF b, taken
  <2>3. taken # 0 => b.bytes[taken] \in LineByte
    BY <1>2, <2>1, ElementOfSeq
  <2>4. \A c \in LineByte : c \in Nat \X Nat
    BY Typed DEF LineByte
  <2>. QED
    BY <2>2, <2>3, <2>4 DEF TypeOK
<1>5. \/ UNCHANGED << state, interest, wbuf, given, down, broken >>
      \/ text # << >> /\ (Answer(text[1][1]) \/ Quit(text[1][1], rest) \/ QuitWith(text[1][1]))
  BY <1>1
<1>6. text # << >> => text[1][1] \in Nat
  <2>. HIDE DEF text
  <2>. QED
    BY <1>3, LineOf
<1>7. AnswerTypes
  <2>. HIDE DEF text, rest
  <2>1. CASE UNCHANGED << state, interest, wbuf, given, down, broken >>
    BY <2>1 DEF AnswerTypes, TypeOK
  <2>. QED
    BY <1>5, <1>6, <2>1, AnswerIsTyped, QuitIsTyped, QuitWithIsTyped
<1>8. intact' \in BOOLEAN
  BY <1>1
<1>9. UNCHANGED << mode, script, got, auth >>
  BY DEF CommandRead, client
<1>. QED
  BY <1>2, <1>4, <1>7, <1>8, <1>9 DEF TypeOK, LineByte, Buffers, AnswerTypes
\* What recv returns to the client is the start of what is under way.
LEMMA PieceType ==
    ASSUME TypeOK, NEW s \in Pieces
    PROVE  /\ Len(s) \in 1 .. Len(down)
           /\ s \in Seq(Nat \X Nat)
           /\ s = SubSeq(down, 1, Len(s))
           /\ \A i \in 1 .. Len(s) : s[i] = down[i]
           /\ Len(s) < Least(Len(down), ClientBuffer) => cuts < MaxCuts
           /\ SubSeq(down, Len(s) + 1, Len(down)) \in Seq(Nat \X Nat)
           /\ Len(SubSeq(down, Len(s) + 1, Len(down))) = Len(down) - Len(s)
<1>. DEFINE most == Least(Len(down), ClientBuffer)
            sizes == IF most = 0 THEN {} ELSE IF cuts < MaxCuts THEN 1 .. most ELSE {most}
<1>1. /\ down \in Seq(Nat \X Nat) /\ Len(down) \in Nat
      /\ most \in Nat /\ most <= Len(down)
  BY Typed, LeastType, MonitorAssumption
<1>2. PICK n \in sizes : s = SubSeq(down, 1, n)
  BY DEF Pieces
<1>. HIDE DEF most
<1>3. n \in 1 .. Len(down) /\ (n < most => cuts < MaxCuts)
  BY <1>1
<1>4. /\ s \in Seq(Nat \X Nat) /\ Len(s) = n
      /\ \A i \in 1 .. n : s[i] = down[i]
  <2>1. n \in 0 .. Len(down)
    BY <1>1, <1>3
  <2>. QED
    BY <1>1, <1>2, <2>1, First, Zenon
<1>5. /\ SubSeq(down, n + 1, Len(down)) \in Seq(Nat \X Nat)
      /\ Len(SubSeq(down, n + 1, Len(down))) = Len(down) - n
  <2>1. n \in 0 .. Len(down)
    BY <1>1, <1>3
  <2>. QED
    BY <1>1, <2>1, Rest
<1>. QED
  BY <1>2, <1>3, <1>4, <1>5 DEF most

LEMMA ReceiveTypes ==
    ASSUME TypeOK, NEW s \in Pieces, NEW next \in Mode, Receive(s, next)
    PROVE  TypeOK'
<1>1. down' \in Seq(Nat \X Nat)
  BY PieceType DEF Receive
<1>2. got' \in Nat \X Nat
  <2>1. Len(s) \in 1 .. Len(s) /\ s \in Seq(Nat \X Nat)
    BY PieceType, Typed
  <2>2. s[Len(s)] \in Nat \X Nat
    BY <2>1, ElementOfSeq
  <2>. QED
    BY <2>2 DEF Receive
<1>3. cuts' \in 0 .. MaxCuts
  <2>1. Len(s) < Least(Len(down), ClientBuffer) => cuts < MaxCuts
    BY PieceType
  <2>2. cuts' = IF Len(s) < Least(Len(down), ClientBuffer) THEN cuts + 1 ELSE cuts
    BY DEF Receive
  <2>. QED
    BY <2>1, <2>2, MonitorAssumption DEF TypeOK
<1>4. mode' \in Mode /\ auth' \in 0 .. Len(script) /\ intact' \in BOOLEAN
  BY Typed DEF Receive, TypeOK
<1>5. UNCHANGED << state, interest, rbuf, wbuf, given, ran, up, broken, script >>
  BY DEF Receive, server
<1>. QED
  BY <1>1, <1>2, <1>3, <1>4, <1>5 DEF TypeOK, LineByte

\* A line that is added to those typed.
LEMMA ScriptType ==
    ASSUME TypeOK, NEW n \in Nat, NEW kind \in Credentials \cup Command, Type(n, kind)
    PROVE  /\ script' \in Seq([ size : Nat, kind : Credentials \cup Command ])
           /\ Len(script') = Len(script) + 1 /\ Len(script') <= MaxLines
           /\ \A k \in 1 .. Len(script) : script'[k] = script[k]
           /\ script'[Len(script) + 1] = [ size |-> n, kind |-> kind ]
<1>. DEFINE S == [ size : Nat, kind : Credentials \cup Command ]
            r == [ size |-> n, kind |-> kind ]
<1>1. r \in S /\ script \in Seq(S) /\ Len(script) \in Nat
  BY Typed
<1>2. script' = Append(script, r) /\ Len(script) < MaxLines
  BY DEF Type
<1>. HIDE DEF r, S
<1>3. /\ Append(script, r) \in Seq(S)
      /\ Len(Append(script, r)) = Len(script) + 1
      /\ \A k \in 1 .. Len(script) : Append(script, r)[k] = script[k]
      /\ Append(script, r)[Len(script) + 1] = r
  BY <1>1, AppendProperties
<1>4. Len(script) + 1 <= MaxLines
  BY <1>1, <1>2, MonitorAssumption
<1>. QED
  BY <1>2, <1>3, <1>4 DEF r, S

LEMMA TypeTypes ==
    ASSUME TypeOK, NEW n \in Nat, NEW kind \in Credentials \cup Command, Type(n, kind),
           mode' \in Mode, auth' = auth
    PROVE  TypeOK'
<1>1. /\ script' \in Seq([ size : Nat, kind : Credentials \cup Command ])
      /\ Len(script') = Len(script) + 1 /\ Len(script') <= MaxLines
  BY ScriptType
<1>2. LineByte \subseteq LineByte' /\ Len(script) \in Nat
  BY <1>1, Typed DEF LineByte
<1>3. up' \in Seq(LineByte')
  <2>. DEFINE L == LineBytes(Len(script) + 1, n)
  <2>1. L \in Seq(LineByte')
    <3>1. Len(script) + 1 \in 1 .. Len(script')
      BY <1>1, <1>2
    <3>2. \A i \in 1 .. n + 1 : << Len(script) + 1, i >> \in LineByte'
      BY <3>1 DEF LineByte
    <3>. QED
      BY <3>2 DEF LineBytes
  <2>2. up \in Seq(LineByte')
    BY <1>2, Typed, SeqMonotonic
  <2>. HIDE DEF L
  <2>3. up \o L \in Seq(LineByte')
    BY <2>1, <2>2, ConcatProperties
  <2>. QED
    BY <2>3 DEF Type, L
<1>4. rbuf' \in [ used : Nat, bytes : Seq(LineByte') ]
  <2>1. rbuf \in [ used : Nat, bytes : Seq(LineByte) ]
    BY DEF TypeOK
  <2>2. rbuf.bytes \in Seq(LineByte')
    BY <2>1, <1>2, SeqMonotonic
  <2>3. rbuf' = rbuf
    BY DEF Type, server
  <2>. QED
    BY <2>1, <2>2, <2>3
<1>5. auth' \in 0 .. Len(script')
  BY <1>1, <1>2 DEF TypeOK
<1>6. UNCHANGED << state, interest, rbuf, wbuf, given, ran, down, broken, cuts, got, intact >>
  BY DEF Type, server
<1>. QED
  BY <1>1, <1>3, <1>4, <1>5, <1>6 DEF TypeOK

LEMMA TypesNext == TypeOK /\ [Next]_vars => TypeOK'
<1>. SUFFICES ASSUME TypeOK, [Next]_vars
              PROVE  TypeOK'
  OBVIOUS
<1>1. CASE HandshakeWrite
  <2>1. "HANDSHAKE_READ" \in State
    BY DEF State
  <2>. QED
    BY <1>1, <2>1, SendSomeTypes DEF HandshakeWrite
<1>2. CASE CommandWrite
  <2>1. "COMMAND_READ" \in State
    BY DEF State
  <2>. QED
    BY <1>2, <2>1, SendSomeTypes DEF CommandWrite
<1>3. CASE HandshakeReadPart
  BY <1>3, HandshakeReadPartTypes
<1>4. CASE HandshakeReadLine
  BY <1>4, HandshakeReadLineTypes
<1>5. CASE CommandRead
  BY <1>5, CommandReadTypes
<1>6. CASE CommandReadFails \/ SendFails \/ Sweep
  <2>1. state' \in State /\ interest' \in { "noop", "read", "write" }
    BY <1>6 DEF CommandReadFails, SendFails, Sweep, Goto, State
  <2>2. UNCHANGED << rbuf, wbuf, given, ran, network, client, intact >>
    BY <1>6 DEF CommandReadFails, SendFails, Sweep
  <2>. QED
    BY <2>1, <2>2 DEF TypeOK, LineByte, network, client
<1>7. CASE ClientReads
  <2>1. \A m \in { "login", "typing", "left" } : m \in Mode
    BY DEF Mode
  <2>2. CASE ReadBanner
    BY <2>1, <2>2, ReceiveTypes DEF ReadBanner
  <2>3. CASE ReadVerdict
    <3>1. PICK s \in Pieces : Receive(s, IF SaysOk(s) THEN "typing" ELSE "login")
      BY <2>3 DEF ReadVerdict
    <3>2. (IF SaysOk(s) THEN "typing" ELSE "login") \in Mode
      BY <2>1
    <3>. QED
      BY <3>1, <3>2, ReceiveTypes
  <2>4. CASE ReadAnswer
    <3>1. PICK s \in Pieces : Receive(s, IF SaysGoodbye(s) THEN "left" ELSE "typing")
      BY <2>4 DEF ReadAnswer
    <3>2. (IF SaysGoodbye(s) THEN "left" ELSE "typing") \in Mode
      BY <2>1
    <3>. QED
      BY <3>1, <3>2, ReceiveTypes
  <2>5. CASE SeeClose
    BY <2>1, <2>5 DEF SeeClose, TypeOK, LineByte, server, network
  <2>. QED
    BY <1>7, <2>2, <2>3, <2>4, <2>5 DEF ClientReads
<1>8. CASE TypeCredentials
  <2>1. PICK n \in CredentialSizes, kind \in Credentials : Type(n, kind)
    BY <1>8 DEF TypeCredentials
  <2>2. n \in Nat /\ mode' \in Mode /\ auth' = auth
    BY <1>8, MonitorAssumption DEF TypeCredentials, Mode
  <2>. QED
    BY <2>1, <2>2, TypeTypes
<1>9. CASE TypeCommand
  <2>1. PICK n \in 1 .. LineMax, kind \in Command : Type(n, kind)
    BY <1>9 DEF TypeCommand
  <2>2. n \in Nat /\ mode' \in Mode /\ auth' = auth
    BY <1>9, MonitorAssumption DEF TypeCommand, Mode
  <2>. QED
    BY <2>1, <2>2, TypeTypes
<1>10. CASE Leave
  <2>1. mode' \in Mode /\ broken' \in BOOLEAN /\ down' \in Seq(Nat \X Nat)
    BY <1>10 DEF Leave, Mode
  <2>2. UNCHANGED << server, up, cuts, script, got, auth, intact >>
    BY <1>10 DEF Leave
  <2>. QED
    BY <2>1, <2>2 DEF TypeOK, LineByte, server
<1>11. CASE Over \/ UNCHANGED vars
  BY <1>11 DEF Over, vars, server, network, client, TypeOK, LineByte
<1>. QED
  BY <1>1, <1>2, <1>3, <1>4, <1>5, <1>6, <1>7, <1>8, <1>9, <1>10, <1>11 DEF Next, Serve

LEMMA TypesAlways == Spec => []TypeOK
  BY TypesInit, TypesNext, PTL DEF Spec

\* The state of a session and what it holds have their types: what waits in
\* read_buffer and the answer in write_buffer never exceed the buffers, and the
\* session is in one of the states of monitor_handler.c.
THEOREM MonitorTypeOK == Spec => []TypeOK
  BY TypesAlways
-----------------------------------------------------------------------------
(***************************************************************************)
(* The answers.                                                            *)
(*                                                                         *)
(* What the client has received last, what is under way to it and what     *)
(* waits in write_buffer are one stream.  A handler either passes bytes on *)
(* within it, or adds the next answer at its end; that it may add one that *)
(* is sent at once is because write_buffer is empty whenever the session   *)
(* reads.                                                                  *)
(***************************************************************************)
Stream == << got >> \o (down \o wbuf)

\* The byte after b of the answers g.
Follows(b, g) ==
    IF b[2] < g[b[1]].size THEN << b[1], b[2] + 1 >> ELSE << b[1] + 1, 1 >>

\* q is a stretch of the answers g.
Told(q, g) ==
    /\ \A i \in 1 .. Len(q) : q[i][1] \in 1 .. Len(g) /\ q[i][2] <= g[q[i][1]].size
    /\ \A i \in 1 .. Len(q) - 1 : q[i + 1] = Follows(q[i], g)

\* It ends with the last byte of the last answer.
EndsLast(q, g) == Follows(q[Len(q)], g) = << Len(g) + 1, 1 >>

\* No answer is empty.
Answers == given # << >> /\ \A k \in 1 .. Len(given) : given[k].size # 0

Reading == { "HANDSHAKE_READ", "COMMAND_READ" }

\* Nothing waits to be sent while the session reads, and only a client that is
\* gone resets the connection.
Settled ==
    /\ state \in Reading => wbuf = << >>
    /\ broken => mode = "left"

Delivered ==
    mode # "left" => Told(Stream, given) /\ (~HungUp => EndsLast(Stream, given))

AnswersInv == TypeOK /\ Answers /\ Settled /\ Delivered

AnswerRecord == [ line : Nat, size : Nat, says : Saying ]

LEMMA StreamType ==
    ASSUME TypeOK
    PROVE  /\ down \o wbuf \in Seq(Nat \X Nat) /\ Len(down \o wbuf) = Len(down) + Len(wbuf)
           /\ Stream \in Seq(Nat \X Nat) /\ Len(Stream) = 1 + Len(down) + Len(wbuf)
           /\ Stream = (<< got >> \o down) \o wbuf
<1>1. /\ down \in Seq(Nat \X Nat) /\ wbuf \in Seq(Nat \X Nat)
      /\ Len(down) \in Nat /\ Len(wbuf) \in Nat
  BY Typed
<1>2. got \in Nat \X Nat
  BY DEF TypeOK
<1>. DEFINE g == << got >>
            d == down \o wbuf
<1>3. g \in Seq(Nat \X Nat) /\ Len(g) = 1
  BY <1>2
<1>4. d \in Seq(Nat \X Nat) /\ Len(d) = Len(down) + Len(wbuf)
  BY <1>1, ConcatProperties
<1>5. g \o d \in Seq(Nat \X Nat) /\ Len(g \o d) = 1 + Len(down) + Len(wbuf)
  <2>. HIDE DEF g, d
  <2>1. g \o d \in Seq(Nat \X Nat) /\ Len(g \o d) = Len(g) + Len(d)
    BY <1>3, <1>4, ConcatProperties
  <2>. QED
    BY <1>1, <1>3, <1>4, <2>1
<1>6. (g \o down) \o wbuf = g \o (down \o wbuf)
  <2>. DEFINE S == Nat \X Nat
  <2>1. g \in Seq(S) /\ down \in Seq(S) /\ wbuf \in Seq(S)
    BY <1>1, <1>3
  <2>. HIDE DEF g, S
  <2>2. Sequences(S, g, down, wbuf)
    BY <2>1 DEF Sequences
  <2>. QED
    BY <2>2, Joined
<1>. QED
  BY <1>4, <1>5, <1>6 DEF Stream

\* A later stretch.
LEMMA ToldPart ==
    ASSUME NEW q, NEW g, Told(q, g), Len(q) \in Nat,
           NEW r, Len(r) \in Nat, NEW n \in Nat, n + Len(r) <= Len(q),
           \A i \in 1 .. Len(r) : r[i] = q[n + i]
    PROVE  Told(r, g)
<1>1. ASSUME NEW i \in 1 .. Len(r)
      PROVE  r[i][1] \in 1 .. Len(g) /\ r[i][2] <= g[r[i][1]].size
  <2>1. n + i \in 1 .. Len(q) /\ r[i] = q[n + i]
    OBVIOUS
  <2>. QED
    BY <2>1 DEF Told
<1>2. ASSUME NEW i \in 1 .. Len(r) - 1
      PROVE  r[i + 1] = Follows(r[i], g)
  <2>1. i \in 1 .. Len(r) /\ i + 1 \in 1 .. Len(r) /\ n + i \in 1 .. Len(q) - 1
    OBVIOUS
  <2>2. r[i] = q[n + i] /\ r[i + 1] = q[n + (i + 1)]
    BY <2>1
  <2>3. n + (i + 1) = (n + i) + 1
    BY <2>1
  <2>. QED
    BY <2>1, <2>2, <2>3 DEF Told
<1>. QED
  BY <1>1, <1>2 DEF Told

\* The answers h are those of g, which q tells, and one more of m bytes.
OneAfter(q, g, m, h) ==
    /\ q \in Seq(Nat \X Nat) /\ Len(q) # 0 /\ g \in Seq(AnswerRecord)
    /\ Told(q, g) /\ EndsLast(q, g)
    /\ m \in Nat /\ m # 0
    /\ h \in Seq(AnswerRecord) /\ Len(h) = Len(g) + 1
    /\ \A k \in 1 .. Len(g) : h[k] = g[k]
    /\ h[Len(g) + 1].size = m

LEMMA ToldMore ==
    ASSUME NEW q, NEW g, NEW m, NEW h, OneAfter(q, g, m, h)
    PROVE  LET r == q \o AnswerBytes(Len(g) + 1, m)
           IN  Told(r, h) /\ EndsLast(r, h)
<1>. DEFINE k == Len(g) + 1
            a == AnswerBytes(k, m)
            r == q \o a
<1>a. q \in Seq(Nat \X Nat) /\ g \in Seq(AnswerRecord) /\ m \in Nat /\ m # 0
  BY DEF OneAfter
<1>b. Told(q, g) /\ EndsLast(q, g) /\ Len(q) # 0
  BY DEF OneAfter
<1>c. Len(h) = k /\ h[k].size = m /\ \A j \in 1 .. Len(g) : h[j] = g[j]
  BY DEF OneAfter
<1>1. /\ k \in Nat /\ Len(g) \in Nat /\ Len(q) \in Nat /\ Len(q) # 0
      /\ k = Len(g) + 1 /\ Len(h) = k /\ m \in Nat /\ m # 0
  BY <1>a, <1>b, <1>c
<1>2. /\ a \in Seq(Nat \X Nat) /\ Len(a) = m
      /\ \A i \in 1 .. m : a[i] = << k, i >>
  <2>1. \A i \in 1 .. m : a[i] = << k, i >>
    BY DEF AnswerBytes
  <2>. HIDE DEF k
  <2>. QED
    BY <1>1, <1>a, <2>1, MessageType
<1>. HIDE DEF a
<1>3. /\ r \in Seq(Nat \X Nat) /\ Len(r) = Len(q) + m
      /\ \A i \in 1 .. Len(q) : r[i] = q[i]
      /\ \A i \in Len(q) + 1 .. Len(q) + m : r[i] = << k, i - Len(q) >>
  <2>1. /\ r \in Seq(Nat \X Nat) /\ Len(r) = Len(q) + Len(a)
        /\ \A i \in 1 .. Len(q) + Len(a) :
              r[i] = IF i <= Len(q) THEN q[i] ELSE a[i - Len(q)]
    BY <1>a, <1>2, ConcatProperties
  <2>. HIDE DEF r, k
  <2>2. ASSUME NEW i \in Len(q) + 1 .. Len(q) + m
        PROVE  r[i] = << k, i - Len(q) >>
    <3>1. i \in 1 .. Len(q) + Len(a) /\ ~(i <= Len(q)) /\ i - Len(q) \in 1 .. m
      BY <1>1, <1>2
    <3>. QED
      BY <1>2, <2>1, <3>1
  <2>3. r \in Seq(Nat \X Nat) /\ Len(r) = Len(q) + m
    BY <1>2, <2>1
  <2>4. ASSUME NEW i \in 1 .. Len(q)
        PROVE  r[i] = q[i]
    <3>1. i \in 1 .. Len(q) + Len(a) /\ i <= Len(q)
      BY <1>1, <1>2
    <3>. QED
      BY <2>1, <3>1
  <2>. QED
    BY <2>2, <2>3, <2>4
<1>. HIDE DEF r
<1>8. \A i \in 1 .. Len(q) : r[i] = q[i]
  BY <1>3
<1>9. \A i \in Len(q) + 1 .. Len(q) + m : r[i] = << k, i - Len(q) >>
  BY <1>3
<1>10. Len(r) = Len(q) + m
  BY <1>3
<1>4. ASSUME NEW b, b[1] \in 1 .. Len(g)
      PROVE  h[b[1]] = g[b[1]] /\ Follows(b, h) = Follows(b, g)
  BY <1>4, <1>c DEF Follows
<1>5. ASSUME NEW i \in 1 .. Len(r)
      PROVE  r[i][1] \in 1 .. Len(h) /\ r[i][2] <= h[r[i][1]].size
  <2>1. CASE i <= Len(q)
    <3>1. i \in 1 .. Len(q) /\ r[i] = q[i]
      BY <1>1, <1>8, <2>1
    <3>2. q[i][1] \in 1 .. Len(g) /\ q[i][2] <= g[q[i][1]].size
      BY <1>b, <3>1 DEF Told
    <3>. QED
      BY <1>1, <1>4, <3>1, <3>2, SMTT(60)
  <2>2. CASE ~(i <= Len(q))
    <3>1. i \in Len(q) + 1 .. Len(q) + m
      BY <1>1, <1>10, <2>2
    <3>2. r[i] = << k, i - Len(q) >>
      BY <1>9, <3>1
    <3>3. i - Len(q) <= m /\ k \in 1 .. Len(h)
      BY <1>1, <3>1
    <3>4. h[k].size = m
      BY <1>c
    <3>. HIDE DEF k
    <3>. QED
      BY <3>2, <3>3, <3>4
  <2>. QED
    BY <2>1, <2>2
<1>6. ASSUME NEW i \in 1 .. Len(r) - 1
      PROVE  r[i + 1] = Follows(r[i], h)
  <2>1. CASE i + 1 <= Len(q)
    <3>1. i \in 1 .. Len(q) - 1 /\ i \in 1 .. Len(q) /\ r[i] = q[i] /\ r[i + 1] = q[i + 1]
      <4>1. i \in Int /\ 1 <= i
        BY <1>1, <1>10
      <4>2. i \in 1 .. Len(q) - 1 /\ i \in 1 .. Len(q) /\ i + 1 \in 1 .. Len(q)
        BY <1>1, <2>1, <4>1
      <4>. QED
        BY <1>8, <4>2, Zenon
    <3>2. q[i + 1] = Follows(q[i], g) /\ q[i][1] \in 1 .. Len(g)
      BY <1>b, <3>1 DEF Told
    <3>. QED
      BY <1>4, <3>1, <3>2
  <2>2. CASE i = Len(q)
    <3>1. r[i] = q[i] /\ i \in 1 .. Len(q)
      BY <1>1, <1>8, <2>2
    <3>2. q[i][1] \in 1 .. Len(g)
      BY <1>b, <3>1 DEF Told
    <3>3. Follows(q[i], g) = << k, 1 >>
      BY <1>b, <2>2 DEF EndsLast
    <3>4. i + 1 \in Len(q) + 1 .. Len(q) + m /\ i + 1 - Len(q) = 1
      BY <1>1, <2>2
    <3>5. r[i + 1] = << k, 1 >>
      <4>. HIDE DEF k
      <4>. QED
        BY <1>1, <1>9, <3>4
    <3>. QED
      BY <1>4, <3>1, <3>2, <3>3, <3>5
  <2>3. CASE i > Len(q)
    <3>1. /\ i \in Len(q) + 1 .. Len(q) + m /\ i + 1 \in Len(q) + 1 .. Len(q) + m
          /\ i - Len(q) < m /\ i + 1 - Len(q) = i - Len(q) + 1
      BY <1>1, <1>10, <2>3
    <3>2. h[k].size = m
      BY <1>c
    <3>. HIDE DEF k
    <3>3. r[i] = << k, i - Len(q) >> /\ r[i + 1] = << k, i + 1 - Len(q) >>
      <4>1. r[i] = << k, i - Len(q) >>
        BY <1>9, <3>1, Zenon
      <4>2. PICK j : j = i + 1
        OBVIOUS
      <4>3. j \in Len(q) + 1 .. Len(q) + m
        BY <3>1, <4>2
      <4>4. r[j] = << k, j - Len(q) >>
        BY <1>9, <4>3, Zenon
      <4>. QED
        BY <4>1, <4>2, <4>4
    <3>4. Follows(r[i], h) = << k, (i - Len(q)) + 1 >>
      <4>. DEFINE c == i - Len(q)
      <4>1. r[i] = << k, c >> /\ c < m
        BY <3>1, <3>3
      <4>. HIDE DEF c
      <4>2. r[i][1] = k /\ r[i][2] = c
        BY <4>1
      <4>3. r[i][2] < h[r[i][1]].size
        BY <3>2, <4>1, <4>2
      <4>4. Follows(r[i], h) = << k, c + 1 >>
        BY <4>2, <4>3 DEF Follows
      <4>. QED
        BY <4>4 DEF c
    <3>. QED
      BY <3>1, <3>3, <3>4
  <2>. QED
    BY <1>1, <2>1, <2>2, <2>3
<1>7. EndsLast(r, h)
  <2>1. Len(r) \in Len(q) + 1 .. Len(q) + m /\ Len(r) - Len(q) = m
    BY <1>1, <1>10
  <2>2. h[k].size = m /\ k + 1 = Len(h) + 1
    BY <1>1, <1>c
  <2>. HIDE DEF k
  <2>3. r[Len(r)] = << k, m >>
    BY <1>9, <2>1
  <2>4. Follows(r[Len(r)], h) = << k + 1, 1 >>
    <3>1. r[Len(r)][1] = k /\ r[Len(r)][2] = m
      BY <2>3
    <3>2. ~(r[Len(r)][2] < h[r[Len(r)][1]].size)
      <4>1. ~(m < m) /\ h[k].size = m
        BY <1>1, <2>2
      <4>. QED
        BY <3>1, <4>1, Zenon
    <3>. QED
      BY <3>1, <3>2 DEF Follows
  <2>. QED
    BY <2>2, <2>4 DEF EndsLast
<1>. QED
  BY <1>5, <1>6, <1>7 DEF Told, r, a

LEMMA GivenMore ==
    ASSUME TypeOK, NEW line \in Nat, NEW size \in Nat, NEW says \in Saying,
           given' = Append(given, [ line |-> line, size |-> size, says |-> says ])
    PROVE  /\ given' \in Seq(AnswerRecord) /\ Len(given') = Len(given) + 1
           /\ \A k \in 1 .. Len(given) : given'[k] = given[k]
           /\ given'[Len(given) + 1].line = line
           /\ given'[Len(given) + 1].size = size
           /\ given'[Len(given) + 1].says = says
<1>1. /\ given' \in Seq([ line : Nat, size : Nat, says : Saying ])
      /\ Len(given') = Len(given) + 1
      /\ \A k \in 1 .. Len(given) : given'[k] = given[k]
      /\ given'[Len(given) + 1] = [ line |-> line, size |-> size, says |-> says ]
  BY GivenType, Zenon
<1>. QED
  BY <1>1 DEF AnswerRecord

\* An answer is added behind everything else if nothing waits in write_buffer.
LEMMA StreamGrows ==
    ASSUME TypeOK, NEW a \in Seq(Nat \X Nat), wbuf = << >>, got' = got,
           \/ down' = down \o a /\ wbuf' = << >>
           \/ down' = down /\ wbuf' = a
    PROVE  Stream' = Stream \o a
<1>. DEFINE S == Nat \X Nat
<1>1. down \in Seq(S) /\ a \in Seq(S) /\ << got >> \in Seq(S)
  BY Typed DEF TypeOK
<1>2. down' \o wbuf' = down \o a
  <2>1. down \o a \in Seq(S)
    BY <1>1, ConcatProperties
  <2>2. (down \o a) \o << >> = down \o a
    <3>. DEFINE x == down \o a
    <3>1. x \in Seq(S)
      BY <2>1
    <3>. HIDE DEF x, S
    <3>2. x \o << >> = x
      BY <3>1, ConcatEmptySeq
    <3>. QED
      BY <3>2 DEF x
  <2>. QED
    BY <2>2
<1>3. down \o wbuf = down
  BY <1>1, ConcatEmptySeq
<1>. DEFINE g == << got >>
<1>4. (g \o down) \o a = g \o (down \o a)
  <2>. HIDE DEF g, S
  <2>. QED
    BY <1>1, ConcatAssociative DEF g
<1>. QED
  BY <1>2, <1>3, <1>4 DEF Stream

\* What one more answer leaves of the invariant.
LEMMA OneMore ==
    ASSUME AnswersInv, ~HungUp, mode # "left",
           NEW line \in Nat, NEW size \in Nat, size # 0, NEW says \in Saying,
           given' = Append(given, [ line |-> line, size |-> size, says |-> says ]),
           Stream' = Stream \o AnswerBytes(Len(given) + 1, size)
    PROVE  Told(Stream', given') /\ EndsLast(Stream', given')
<1>1. TypeOK /\ Told(Stream, given) /\ EndsLast(Stream, given)
  BY DEF AnswersInv, Delivered
<1>2. Stream \in Seq(Nat \X Nat) /\ Len(Stream) # 0
  BY <1>1, StreamType, Typed
<1>3. /\ given' \in Seq(AnswerRecord) /\ Len(given') = Len(given) + 1
      /\ \A k \in 1 .. Len(given) : given'[k] = given[k]
      /\ given'[Len(given) + 1].size = size
  BY <1>1, GivenMore, Zenon
<1>4. given \in Seq(AnswerRecord)
  BY <1>1, Typed DEF AnswerRecord
<1>. DEFINE h == given'
            r == Stream'
<1>. HIDE DEF h, r
<1>5. /\ h \in Seq(AnswerRecord) /\ Len(h) = Len(given) + 1
      /\ \A k \in 1 .. Len(given) : h[k] = given[k]
      /\ h[Len(given) + 1].size = size
  BY <1>3 DEF h
<1>6. r = Stream \o AnswerBytes(Len(given) + 1, size)
  BY DEF r
<1>7. Told(r, h) /\ EndsLast(r, h)
  <2>1. OneAfter(Stream, given, size, h)
    BY <1>1, <1>2, <1>4, <1>5, Zenon DEF OneAfter
  <2>. QED
    BY <1>6, <2>1, ToldMore, Zenon
<1>. QED
  BY <1>7 DEF r, h

\* No answer is empty, with one more that is not.
LEMMA AnswersMore ==
    ASSUME TypeOK, Answers,
           NEW line \in Nat, NEW size \in Nat, size # 0, NEW says \in Saying,
           given' = Append(given, [ line |-> line, size |-> size, says |-> says ])
    PROVE  Answers'
<1>1. /\ Len(given') = Len(given) + 1 /\ Len(given) \in Nat
      /\ \A k \in 1 .. Len(given) : given'[k] = given[k]
      /\ given'[Len(given) + 1].size = size
      /\ given' \in Seq(AnswerRecord)
  BY GivenMore, Typed, Zenon
<1>. DEFINE h == given'
<1>2. /\ Len(h) = Len(given) + 1 /\ Len(given) \in Nat
      /\ \A k \in 1 .. Len(given) : h[k] = given[k]
      /\ h[Len(given) + 1].size = size
      /\ h \in Seq(AnswerRecord)
  BY <1>1
<1>. HIDE DEF h
<1>3. h # << >>
  BY <1>2
<1>4. ASSUME NEW k \in 1 .. Len(h)
      PROVE  h[k].size # 0
  <2>1. k \in 1 .. Len(given) \/ k = Len(given) + 1
    BY <1>2
  <2>2. CASE k \in 1 .. Len(given)
    BY <1>2, <2>2 DEF Answers
  <2>3. CASE k = Len(given) + 1
    BY <1>2, <2>3
  <2>. QED
    BY <2>1, <2>2, <2>3
<1>. QED
  BY <1>3, <1>4 DEF Answers, h

LEMMA AnswersInit == Init => AnswersInv
<1>. SUFFICES ASSUME Init PROVE AnswersInv
  OBVIOUS
<1>1. TypeOK
  BY TypesInit
<1>2. /\ given = << [ line |-> 0, size |-> 2, says |-> "banner" ] >>
      /\ got = << 1, 0 >> /\ down = << >> /\ wbuf = AnswerBytes(1, 2)
      /\ state = "HANDSHAKE_WRITE" /\ broken = FALSE
  BY DEF Init
<1>3. Answers /\ Settled
  BY <1>2 DEF Answers, Settled, Reading
<1>4. /\ Stream \in Seq(Nat \X Nat) /\ Len(Stream) = 3
      /\ Stream[1] = << 1, 0 >> /\ Stream[2] = << 1, 1 >> /\ Stream[3] = << 1, 2 >>
  <2>. DEFINE a == AnswerBytes(1, 2)
              g == << got >>
  <2>1. /\ a \in Seq(Nat \X Nat) /\ Len(a) = 2
        /\ a[1] = << 1, 1 >> /\ a[2] = << 1, 2 >>
    BY DEF AnswerBytes
  <2>2. g \in Seq(Nat \X Nat) /\ Len(g) = 1 /\ g[1] = << 1, 0 >>
    BY <1>2
  <2>. HIDE DEF a, g
  <2>3. << >> \o a = a
    BY <2>1, ConcatEmptySeq
  <2>4. /\ g \o a \in Seq(Nat \X Nat) /\ Len(g \o a) = Len(g) + Len(a)
        /\ \A i \in 1 .. Len(g) + Len(a) :
              (g \o a)[i] = IF i <= Len(g) THEN g[i] ELSE a[i - Len(g)]
    BY <2>1, <2>2, ConcatProperties
  <2>5. Stream = g \o a
    BY <1>2, <2>3 DEF Stream, g, a
  <2>6. (g \o a)[1] = g[1] /\ (g \o a)[2] = a[1] /\ (g \o a)[3] = a[2] /\ Len(g \o a) = 3
    BY <2>1, <2>2, <2>4, SMTT(60)
  <2>. QED
    BY <2>1, <2>2, <2>4, <2>5, <2>6
<1>5. Len(given) = 1 /\ given[1].size = 2
  BY <1>2
<1>6. ASSUME NEW i \in 1 .. Len(Stream)
      PROVE  Stream[i][1] \in 1 .. Len(given) /\ Stream[i][2] <= given[Stream[i][1]].size
  <2>1. i = 1 \/ i = 2 \/ i = 3
    BY <1>4
  <2>. QED
    BY <1>4, <1>5, <2>1
<1>7. ASSUME NEW i \in 1 .. Len(Stream) - 1
      PROVE  Stream[i + 1] = Follows(Stream[i], given)
  <2>1. i = 1 \/ i = 2
    BY <1>4
  <2>2. Follows(<< 1, 0 >>, given) = << 1, 1 >>
    BY <1>5 DEF Follows
  <2>3. Follows(<< 1, 1 >>, given) = << 1, 2 >>
    BY <1>5 DEF Follows
  <2>4. CASE i = 1
    <3>1. i + 1 = 2
      BY <2>4
    <3>. QED
      BY <1>4, <2>2, <2>4, <3>1
  <2>5. CASE i = 2
    <3>1. i + 1 = 3
      BY <2>5
    <3>. QED
      BY <1>4, <2>3, <2>5, <3>1
  <2>. QED
    BY <2>1, <2>4, <2>5
<1>8. EndsLast(Stream, given)
  BY <1>4, <1>5 DEF EndsLast, Follows
<1>. QED
  BY <1>1, <1>3, <1>6, <1>7, <1>8 DEF AnswersInv, Delivered, Told
\* A step that leaves the stream and the answers as they are.
LEMMA StreamStays ==
    ASSUME AnswersInv, TypeOK', UNCHANGED << got, given >>,
           down' \o wbuf' = down \o wbuf,
           mode' # "left" => mode # "left",
           HungUp => HungUp',
           state' \in Reading => wbuf' = << >>,
           broken' => mode' = "left"
    PROVE  AnswersInv'
<1>1. Stream' = Stream
  BY DEF Stream
<1>2. Answers'
  BY DEF AnswersInv, Answers
<1>3. Settled'
  BY DEF Settled, Reading
<1>4. Delivered'
  <2>1. SUFFICES ASSUME mode' # "left"
                 PROVE  Told(Stream', given') /\ (~HungUp' => EndsLast(Stream', given'))
    BY DEF Delivered
  <2>2. Told(Stream, given) /\ (~HungUp => EndsLast(Stream, given))
    BY <2>1 DEF AnswersInv, Delivered
  <2>. QED
    BY <1>1, <2>2
<1>. QED
  BY <1>2, <1>3, <1>4 DEF AnswersInv

LEMMA SendSomeDelivers ==
    ASSUME AnswersInv, TypeOK', NEW here \in State \ Reading, NEW next \in State,
           here \notin { "DONE", "CLOSED", "KILLED" }, SendSome(here, next)
    PROVE  AnswersInv'
<1>1. PICK n \in 1 .. Len(wbuf) :
          LET rest == SubSeq(wbuf, n + 1, Len(wbuf))
          IN  /\ Transmit(SubSeq(wbuf, 1, n))
              /\ wbuf' = rest
              /\ AfterSend(rest, next)
  BY DEF SendSome
<1>2. UNCHANGED << got, given, mode >> /\ state = here
  BY DEF SendSome, client
<1>3. state' \in Reading => wbuf' = << >>
  BY <1>1, <1>2 DEF AfterSend, Goto
<1>4. ~HungUp
  BY <1>2 DEF HungUp
<1>5. broken' => mode' = "left"
  BY <1>1, <1>2 DEF Transmit
<1>6. CASE mode = "left"
  <2>1. Answers'
    BY <1>2 DEF AnswersInv, Answers
  <2>. QED
    BY <1>2, <1>3, <1>6, <2>1 DEF AnswersInv, Settled, Delivered
<1>7. CASE mode # "left"
  <2>1. down' = down \o SubSeq(wbuf, 1, n) /\ wbuf' = SubSeq(wbuf, n + 1, Len(wbuf))
    BY <1>1, <1>7 DEF Transmit
  <2>2. n \in 0 .. Len(wbuf)
    OBVIOUS
  <2>3. down' \o wbuf' = down \o wbuf
    <3>1. down \in Seq(Nat \X Nat) /\ wbuf \in Seq(Nat \X Nat)
      BY Typed DEF AnswersInv
    <3>. QED
      BY <2>1, <2>2, <3>1, Moved
  <2>. QED
    BY <1>2, <1>3, <1>4, <1>5, <2>3, StreamStays
<1>. QED
  BY <1>6, <1>7

LEMMA SayDelivers ==
    ASSUME AnswersInv, TypeOK', NEW says \in Saying, NEW line \in Nat, Say(says, line),
           state \in Reading, ~HungUp', UNCHANGED << wbuf, mode, got >>
    PROVE  AnswersInv'
<1>. DEFINE a == AnswerBytes(Len(given) + 1, 2)
<1>1. TypeOK /\ Answers /\ wbuf = << >> /\ ~HungUp
  BY DEF AnswersInv, Settled, Reading, HungUp
<1>2. given' = Append(given, [ line |-> line, size |-> 2, says |-> says ]) /\ Transmit(a)
  BY DEF Say
<1>3. Answers'
  BY <1>1, <1>2, AnswersMore
<1>4. Settled'
  BY <1>1, <1>2 DEF Settled, Transmit
<1>5. ASSUME mode # "left"
      PROVE  Told(Stream', given') /\ EndsLast(Stream', given')
  <2>1. down' = down \o a /\ wbuf' = << >>
    BY <1>1, <1>2, <1>5 DEF Transmit
  <2>2. a \in Seq(Nat \X Nat)
    <3>1. Len(given) + 1 \in Nat /\ 2 \in Nat
      BY <1>1, Typed
    <3>. QED
      BY <3>1, MessageType
  <2>. HIDE DEF a
  <2>3. Stream' = Stream \o a
    BY <1>1, <2>1, <2>2, StreamGrows
  <2>. QED
    BY <1>1, <1>2, <1>5, <2>3, OneMore DEF a
<1>. QED
  BY <1>3, <1>4, <1>5 DEF AnswersInv, Delivered

LEMMA AnswerDelivers ==
    ASSUME AnswersInv, TypeOK', NEW line \in Nat, Answer(line),
           state \in Reading, UNCHANGED << mode, got >>
    PROVE  AnswersInv'
<1>1. PICK size \in AnswerSizes, says \in { "OK", "ERR" } :
        LET fits == Least(size, WriteBuffer)
        IN  /\ given' = Append(given, [ line |-> line, size |-> fits, says |-> says ])
            /\ wbuf' = AnswerBytes(Len(given) + 1, fits)
            /\ Goto("COMMAND_WRITE", "write")
            /\ UNCHANGED << down, broken >>
  BY DEF Answer
<1>. DEFINE fits == Least(size, WriteBuffer)
            a    == AnswerBytes(Len(given) + 1, fits)
<1>2. fits \in Nat /\ fits # 0
  <2>1. size \in Nat /\ WriteBuffer \in Nat /\ size # 0 /\ WriteBuffer # 0
    BY MonitorAssumption
  <2>. QED
    BY <2>1, LeastType
<1>3. TypeOK /\ Answers /\ wbuf = << >> /\ ~HungUp
  BY DEF AnswersInv, Settled, Reading, HungUp
<1>4. /\ given' = Append(given, [ line |-> line, size |-> fits, says |-> says ])
      /\ wbuf' = a /\ state' = "COMMAND_WRITE" /\ UNCHANGED << down, broken >>
      /\ says \in Saying
  BY <1>1 DEF Goto, Saying
<1>. HIDE DEF fits
<1>5. a \in Seq(Nat \X Nat)
  <2>1. Len(given) + 1 \in Nat
    BY <1>3, Typed
  <2>. QED
    BY <1>2, <2>1, MessageType
<1>. HIDE DEF a
<1>6. Stream' = Stream \o a
  BY <1>3, <1>4, <1>5, StreamGrows
<1>7. Answers'
  BY <1>2, <1>3, <1>4, AnswersMore
<1>8. Settled'
  BY <1>4 DEF Settled, Reading, AnswersInv
<1>9. mode # "left" => Told(Stream', given') /\ EndsLast(Stream', given')
  BY <1>2, <1>3, <1>4, <1>6, OneMore DEF a
<1>. QED
  BY <1>7, <1>8, <1>9 DEF AnswersInv, Delivered

LEMMA QuitWithDelivers ==
    ASSUME AnswersInv, TypeOK', NEW line \in Nat, QuitWith(line),
           state \in Reading, UNCHANGED << mode, got >>
    PROVE  AnswersInv'
<1>. DEFINE a == AnswerBytes(Len(given) + 1, 2)
<1>1. TypeOK /\ Answers /\ wbuf = << >> /\ ~HungUp
  BY DEF AnswersInv, Settled, Reading, HungUp
<1>2. /\ given' = Append(given, [ line |-> line, size |-> 2, says |-> "bye" ])
      /\ wbuf' = a /\ state' = "ERROR" /\ UNCHANGED << down, broken >>
      /\ "bye" \in Saying
  BY DEF QuitWith, Goto, Saying
<1>3. a \in Seq(Nat \X Nat)
  <2>1. Len(given) + 1 \in Nat /\ 2 \in Nat
    BY <1>1, Typed
  <2>. QED
    BY <2>1, MessageType
<1>. HIDE DEF a
<1>4. Stream' = Stream \o a
  BY <1>1, <1>2, <1>3, StreamGrows
<1>5. Answers'
  BY <1>1, <1>2, AnswersMore
<1>6. Settled'
  BY <1>2 DEF Settled, Reading, AnswersInv
<1>7. mode # "left" => Told(Stream', given') /\ EndsLast(Stream', given')
  <2>1. 2 \in Nat /\ 2 # 0
    OBVIOUS
  <2>2. Stream' = Stream \o AnswerBytes(Len(given) + 1, 2)
    BY <1>4 DEF a
  <2>. QED
    BY <1>1, <1>2, <2>1, <2>2, OneMore, Zenon
<1>. QED
  BY <1>5, <1>6, <1>7 DEF AnswersInv, Delivered

\* QUIT: the close may cut off the end of the stream, and the answer with it.
LEMMA QuitDelivers ==
    ASSUME AnswersInv, TypeOK', NEW line \in Nat, NEW left, Quit(line, left),
           state \in Reading, UNCHANGED << mode, got >>
    PROVE  AnswersInv'
<1>. DEFINE a   == AnswerBytes(Len(given) + 1, 2)
            all == down \o a
<1>1. TypeOK /\ Answers /\ wbuf = << >> /\ ~HungUp
  BY DEF AnswersInv, Settled, Reading, HungUp
<1>2. /\ given' = Append(given, [ line |-> line, size |-> 2, says |-> "bye" ])
      /\ state' \in { "DONE", "KILLED" } /\ UNCHANGED << wbuf, broken >>
      /\ "bye" \in Saying
  BY DEF Quit, Goto, Saying
<1>3. Answers'
  BY <1>1, <1>2, AnswersMore
<1>4. Settled'
  BY <1>2 DEF Settled, Reading, AnswersInv
<1>5. HungUp'
  BY <1>2 DEF HungUp
<1>6. ASSUME mode # "left"
      PROVE  Told(Stream', given')
  <2>1. ~broken
    BY <1>6 DEF AnswersInv, Settled
  <2>2. PICK n \in 0 .. Len(all) : down' = SubSeq(all, 1, n)
    BY <1>6, <2>1 DEF Quit
  <2>3. a \in Seq(Nat \X Nat) /\ down \in Seq(Nat \X Nat)
    <3>1. Len(given) + 1 \in Nat /\ 2 \in Nat
      BY <1>1, Typed
    <3>. QED
      BY <1>1, <3>1, MessageType, Typed
  <2>4. Stream \o a = << got >> \o all
    <3>. DEFINE S == Nat \X Nat
                g == << got >>
    <3>1. g \in Seq(S)
      BY <1>1 DEF TypeOK
    <3>2. down \o wbuf = down
      BY <1>1, <2>3, ConcatEmptySeq
    <3>3. Stream = g \o down
      BY <3>2 DEF Stream
    <3>4. down \in Seq(S) /\ a \in Seq(S)
      BY <2>3
    <3>. HIDE DEF g, a, S
    <3>5. (g \o down) \o a = g \o (down \o a)
      <4>1. Sequences(S, g, down, a)
        BY <3>1, <3>4 DEF Sequences
      <4>. QED
        BY <4>1, Joined
    <3>6. Stream \o a = g \o (down \o a)
      BY <3>3, <3>5, Zenon
    <3>. QED
      BY <3>6, Zenon DEF g
  <2>. DEFINE q == << got >> \o all
  <2>5. Told(q, given')
    <3>. DEFINE S == Nat \X Nat
                h == given'
    <3>1. TypeOK /\ Told(Stream, given) /\ EndsLast(Stream, given)
      BY <1>1, <1>6 DEF AnswersInv, Delivered
    <3>2. Stream \in Seq(Nat \X Nat) /\ Len(Stream) # 0
      BY <1>1, StreamType, Typed
    <3>3. /\ h \in Seq(AnswerRecord) /\ Len(h) = Len(given) + 1
          /\ \A k \in 1 .. Len(given) : h[k] = given[k]
          /\ h[Len(given) + 1].size = 2
      BY <1>1, <1>2, GivenMore
    <3>4. given \in Seq(AnswerRecord) /\ 2 \in Nat
      BY <1>1, Typed DEF AnswerRecord
    <3>. HIDE DEF h
    <3>5. Told(Stream \o AnswerBytes(Len(given) + 1, 2), h)
      <4>. DEFINE g == given
                  s == Stream
                  m == 2
      <4>1. /\ Told(s, g) /\ EndsLast(s, g)
            /\ s \in Seq(Nat \X Nat) /\ Len(s) # 0
            /\ h \in Seq(AnswerRecord) /\ Len(h) = Len(g) + 1
            /\ \A k \in 1 .. Len(g) : h[k] = g[k]
            /\ h[Len(g) + 1].size = m
            /\ g \in Seq(AnswerRecord) /\ m \in Nat /\ m # 0
        BY <3>1, <3>2, <3>3, <3>4
      <4>. HIDE DEF g, s, m
      <4>2. Told(s \o AnswerBytes(Len(g) + 1, m), h)
        BY <4>1, ToldMore DEF OneAfter
      <4>. QED
        BY <4>2 DEF g, s, m
    <3>. QED
      BY <2>4, <3>5 DEF h
  <2>6. /\ all \in Seq(Nat \X Nat) /\ Len(all) \in Nat
        /\ q \in Seq(Nat \X Nat) /\ Len(q) = 1 + Len(all)
        /\ \A i \in 1 .. 1 + Len(all) : q[i] = IF i <= 1 THEN got ELSE all[i - 1]
    <3>. DEFINE g == << got >>
    <3>1. g \in Seq(Nat \X Nat) /\ Len(g) = 1 /\ g[1] = got
      BY <1>1 DEF TypeOK
    <3>. HIDE DEF g, a
    <3>2. all \in Seq(Nat \X Nat)
      BY <2>3, ConcatProperties
    <3>3. Len(all) \in Nat
      <4>. HIDE DEF all
      <4>. QED
        BY <3>2
    <3>. HIDE DEF all
    <3>4. /\ g \o all \in Seq(Nat \X Nat) /\ Len(g \o all) = Len(g) + Len(all)
          /\ \A i \in 1 .. Len(g) + Len(all) :
                (g \o all)[i] = IF i <= Len(g) THEN g[i] ELSE all[i - Len(g)]
      BY <3>1, <3>2, ConcatProperties, Zenon
    <3>5. ASSUME NEW i \in 1 .. 1 + Len(all)
          PROVE  (g \o all)[i] = IF i <= 1 THEN got ELSE all[i - 1]
      <4>1. Len(g) = 1 /\ (i <= 1 => i = 1)
        BY <3>1, <3>3
      <4>. QED
        BY <3>1, <3>4, <4>1
    <3>. QED
      BY <3>1, <3>2, <3>3, <3>4, <3>5 DEF g
  <2>. HIDE DEF all, q
  <2>. DEFINE d == SubSeq(all, 1, n)
              r == << got >> \o d
  <2>7. /\ d \in Seq(Nat \X Nat) /\ Len(d) = n
        /\ \A i \in 1 .. n : d[i] = all[i]
    <3>1. all \in Seq(Nat \X Nat) /\ n \in 0 .. Len(all)
      BY <2>6
    <3>. QED
      BY <3>1, First, Zenon DEF d
  <2>. HIDE DEF d
  <2>8. /\ Len(r) = 1 + n
        /\ \A i \in 1 .. 1 + n : r[i] = IF i <= 1 THEN got ELSE d[i - 1]
    <3>. DEFINE g == << got >>
    <3>1. g \in Seq(Nat \X Nat) /\ Len(g) = 1 /\ g[1] = got
      BY <1>1 DEF TypeOK
    <3>. HIDE DEF g
    <3>2. /\ Len(g \o d) = Len(g) + Len(d)
          /\ \A i \in 1 .. Len(g) + Len(d) :
                (g \o d)[i] = IF i <= Len(g) THEN g[i] ELSE d[i - Len(g)]
      BY <2>7, <3>1, ConcatProperties
    <3>3. n \in Nat
      BY <2>6
    <3>. QED
      BY <2>7, <3>1, <3>2, <3>3 DEF g
  <2>. HIDE DEF r
  <2>9. Told(r, given')
    <3>. DEFINE h == given'
    <3>1. Len(q) \in Nat /\ Len(r) \in Nat /\ 0 \in Nat /\ 0 + Len(r) <= Len(q)
      BY <2>6, <2>8
    <3>2. ASSUME NEW i \in 1 .. Len(r)
          PROVE  r[i] = q[0 + i]
      <4>1. i \in 1 .. 1 + n /\ i \in 1 .. 1 + Len(all) /\ n \in Nat /\ 0 + i = i
        BY <2>6, <2>8
      <4>2. CASE i <= 1
        BY <2>6, <2>8, <4>1, <4>2
      <4>3. CASE ~(i <= 1)
        <5>1. i - 1 \in 1 .. n
          BY <4>1, <4>3
        <5>2. r[i] = d[i - 1] /\ q[i] = all[i - 1]
          BY <2>6, <2>8, <4>1, <4>3
        <5>. QED
          BY <2>7, <4>1, <5>1, <5>2
      <4>. QED
        BY <4>2, <4>3
    <3>3. Told(q, h)
      BY <2>5
    <3>. HIDE DEF h
    <3>4. Told(r, h)
      BY <3>1, <3>2, <3>3, ToldPart
    <3>. QED
      BY <3>4 DEF h
  <2>10. Stream' = r
    <3>1. down' \o wbuf' = d
      BY <1>1, <1>2, <2>2, <2>7, ConcatEmptySeq DEF d
    <3>. QED
      BY <3>1 DEF Stream, r
  <2>. QED
    BY <2>9, <2>10
<1>. QED
  BY <1>3, <1>4, <1>5, <1>6 DEF AnswersInv, Delivered
LEMMA ReceiveDelivers ==
    ASSUME AnswersInv, TypeOK', NEW s \in Pieces, NEW next, Receive(s, next), mode # "left"
    PROVE  AnswersInv'
<1>. DEFINE n == Len(s)
<1>1. TypeOK /\ Told(Stream, given) /\ (~HungUp => EndsLast(Stream, given))
  BY DEF AnswersInv, Delivered
<1>2. /\ n \in 1 .. Len(down) /\ s[n] = down[n]
      /\ down \in Seq(Nat \X Nat) /\ wbuf \in Seq(Nat \X Nat) /\ got \in Nat \X Nat
      /\ Len(down) \in Nat /\ Len(wbuf) \in Nat
  <2>1. TypeOK
    BY <1>1
  <2>2. n \in 1 .. Len(down) /\ \A i \in 1 .. n : s[i] = down[i]
    BY <2>1, PieceType
  <2>3. got \in Nat \X Nat
    BY <2>1 DEF TypeOK
  <2>4. /\ down \in Seq(Nat \X Nat) /\ wbuf \in Seq(Nat \X Nat)
        /\ Len(down) \in Nat /\ Len(wbuf) \in Nat
    BY <2>1, Typed
  <2>5. n \in 1 .. n
    BY <2>2, <2>4
  <2>. QED
    BY <2>2, <2>3, <2>4, <2>5
<1>3. /\ down' = SubSeq(down, n + 1, Len(down)) /\ got' = down[n]
      /\ UNCHANGED << given, wbuf, state, broken >>
  BY <1>2 DEF Receive, server
<1>. HIDE DEF n
<1>. DEFINE r == Stream'
<1>4. /\ Len(Stream) = 1 + Len(down) + Len(wbuf)
      /\ Len(r) = Len(Stream) - n
      /\ \A i \in 1 .. Len(r) : r[i] = Stream[n + i]
  <2>1. n \in 0 .. Len(down) /\ n # 0
    BY <1>2
  <2>2. r = << down[n] >> \o (SubSeq(down, n + 1, Len(down)) \o wbuf)
    BY <1>3 DEF Stream
  <2>3. Passes(got, down, wbuf, n, down[n], Stream, r)
    BY <1>2, <2>1, <2>2, Zenon DEF Passes, Byte, Stream
  <2>. HIDE DEF r
  <2>. QED
    BY <2>3, Shifted
<1>. HIDE DEF r
<1>5. n \in Nat /\ Len(Stream) \in Nat /\ Len(r) \in Nat /\ n + Len(r) <= Len(Stream)
  BY <1>2, <1>4
<1>6. Told(r, given)
  BY <1>1, <1>4, <1>5, ToldPart
<1>7. ~HungUp => EndsLast(r, given)
  <2>1. Len(r) \in 1 .. Len(r) /\ n + Len(r) = Len(Stream)
    BY <1>2, <1>4, <1>5
  <2>2. r[Len(r)] = Stream[Len(Stream)]
    BY <1>4, <2>1
  <2>. QED
    BY <1>1, <2>2 DEF EndsLast
<1>8. Answers' /\ Settled'
  BY <1>3 DEF AnswersInv, Answers, Settled, Reading
<1>9. Delivered'
  BY <1>3, <1>6, <1>7 DEF Delivered, HungUp, r
<1>. QED
  BY <1>8, <1>9 DEF AnswersInv

LEMMA HandshakeReadLineDelivers == AnswersInv /\ TypeOK' /\ HandshakeReadLine => AnswersInv'
<1>. SUFFICES ASSUME AnswersInv, TypeOK', HandshakeReadLine
              PROVE  AnswersInv'
  OBVIOUS
<1>1. PICK n \in Arrivals :
          LET b    == Received(n)
              text == SubSeq(b.bytes, 1, TextLength(b.bytes, HandshakeMax))
              line == b.bytes[1][1]
          IN  /\ Terminated(b.bytes, HandshakeMax)
              /\ \E verdict \in Verdicts(text) :
                    \/ /\ Say("OK", line)
                       /\ Goto("COMMAND_READ", "read")
                    \/ /\ Say("ERR", line)
                       /\ UNCHANGED << state, interest >>
                    \/ /\ SayNothing
                       /\ UNCHANGED << state, interest >>
                    \/ Killed
              /\ Arrive(n)
  BY DEF HandshakeReadLine
<1>. DEFINE b    == Received(n)
            line == b.bytes[1][1]
<1>2. state = "HANDSHAKE_READ" /\ UNCHANGED << wbuf, mode, got >> /\ TypeOK
  BY DEF HandshakeReadLine, client, AnswersInv
<1>3. line \in Nat
  <2>1. Terminated(b.bytes, HandshakeMax) /\ Arrive(n)
    BY <1>1
  <2>2. b.bytes \in Seq(LineByte) /\ Len(b.bytes) \in Nat /\ HandshakeMax \in Nat
        /\ TextLength(b.bytes, HandshakeMax) \in 0 .. Len(b.bytes)
    BY <1>2, <2>1, Kept, MonitorAssumption
  <2>. HIDE DEF b
  <2>3. TextLength(b.bytes, HandshakeMax) < Len(b.bytes)
    BY <2>1, <2>2, TakenType
  <2>. QED
    BY <1>2, <2>2, <2>3, LineOf
<1>4. \/ /\ Say("OK", line)
         /\ Goto("COMMAND_READ", "read")
      \/ /\ Say("ERR", line)
         /\ UNCHANGED << state, interest >>
      \/ /\ SayNothing
         /\ UNCHANGED << state, interest >>
      \/ Killed
  BY <1>1
<1>. HIDE DEF line
<1>5. state \in Reading /\ "OK" \in Saying /\ "ERR" \in Saying
  BY <1>2 DEF Reading, Saying
<1>6. CASE Say("OK", line) /\ Goto("COMMAND_READ", "read")
  <2>1. ~HungUp'
    BY <1>6 DEF Goto, HungUp
  <2>. QED
    BY <1>2, <1>3, <1>5, <1>6, <2>1, SayDelivers
<1>7. CASE Say("ERR", line) /\ UNCHANGED << state, interest >>
  <2>1. ~HungUp'
    BY <1>2, <1>7 DEF HungUp
  <2>. QED
    BY <1>2, <1>3, <1>5, <1>7, <2>1, SayDelivers
<1>8. CASE SayNothing /\ (UNCHANGED << state, interest >> \/ Killed)
  <2>1. broken /\ UNCHANGED << down, broken, given >>
    BY <1>8 DEF SayNothing
  <2>2. mode = "left" /\ wbuf = << >>
    BY <1>5, <2>1 DEF AnswersInv, Settled
  <2>. QED
    BY <1>2, <2>1, <2>2 DEF AnswersInv, Answers, Settled, Delivered
<1>. QED
  BY <1>4, <1>6, <1>7, <1>8 DEF Killed

LEMMA CommandReadDelivers == AnswersInv /\ TypeOK' /\ CommandRead => AnswersInv'
<1>. SUFFICES ASSUME AnswersInv, TypeOK', CommandRead
              PROVE  AnswersInv'
  OBVIOUS
<1>1. PICK n \in Arrivals :
          LET b     == Received(n)
              text  == SubSeq(b.bytes, 1, TextLength(b.bytes, LineMax))
              rest  == SubSeq(up, n + 1, Len(up))
          IN  /\ \/ UNCHANGED << state, interest, wbuf, given, down, broken >>
                 \/ /\ text # << >>
                    /\ LET line == text[1][1]
                       IN  Answer(line) \/ Quit(line, rest) \/ QuitWith(line)
              /\ Arrive(n)
  BY DEF CommandRead
<1>. DEFINE b    == Received(n)
            text == SubSeq(b.bytes, 1, TextLength(b.bytes, LineMax))
            rest == SubSeq(up, n + 1, Len(up))
<1>2. state = "COMMAND_READ" /\ UNCHANGED << mode, got >> /\ TypeOK
  BY DEF CommandRead, client, AnswersInv
<1>3. text # << >> => text[1][1] \in Nat
  <2>. DEFINE s == b.bytes
              k == TextLength(s, LineMax)
  <2>1. s \in Seq(LineByte) /\ k \in 0 .. Len(s) /\ Len(s) \in Nat
    BY <1>1, <1>2, Kept, MonitorAssumption
  <2>. HIDE DEF s, k
  <2>2. SubSeq(s, 1, k) \in Seq(LineByte) /\ Len(SubSeq(s, 1, k)) = k
    BY <2>1, Part
  <2>3. text = SubSeq(s, 1, k)
    BY DEF s, k
  <2>. HIDE DEF text
  <2>4. text \in Seq(LineByte)
    BY <2>2, <2>3
  <2>. QED
    BY <1>2, <2>4, LineOf
<1>4. \/ UNCHANGED << state, interest, wbuf, given, down, broken >>
      \/ text # << >> /\ (Answer(text[1][1]) \/ Quit(text[1][1], rest) \/ QuitWith(text[1][1]))
  BY <1>1
<1>5. state \in Reading
  BY <1>2 DEF Reading
<1>. HIDE DEF text, rest
<1>6. CASE UNCHANGED << state, interest, wbuf, given, down, broken >>
  <2>1. /\ HungUp => HungUp'
        /\ state' \in Reading => wbuf' = << >>
        /\ broken' => mode' = "left"
        /\ UNCHANGED << got, given >> /\ down' \o wbuf' = down \o wbuf
        /\ mode' # "left" => mode # "left"
    BY <1>2, <1>6 DEF HungUp, AnswersInv, Settled, Reading
  <2>. QED
    BY <2>1, StreamStays
<1>. QED
  BY <1>2, <1>3, <1>4, <1>5, <1>6, AnswerDelivers, QuitDelivers, QuitWithDelivers

LEMMA AnswersNext == AnswersInv /\ [Next]_vars => AnswersInv'
<1>. SUFFICES ASSUME AnswersInv, [Next]_vars
              PROVE  AnswersInv'
  OBVIOUS
<1>0. TypeOK /\ TypeOK'
  BY TypesNext DEF AnswersInv
<1>1. CASE HandshakeWrite
  <2>1. /\ "HANDSHAKE_WRITE" \in State \ Reading /\ "HANDSHAKE_READ" \in State
        /\ "HANDSHAKE_WRITE" \notin { "DONE", "CLOSED", "KILLED" }
    BY DEF State, Reading
  <2>. QED
    BY <1>0, <1>1, <2>1, SendSomeDelivers DEF HandshakeWrite
<1>2. CASE CommandWrite
  <2>1. /\ "COMMAND_WRITE" \in State \ Reading /\ "COMMAND_READ" \in State
        /\ "COMMAND_WRITE" \notin { "DONE", "CLOSED", "KILLED" }
    BY DEF State, Reading
  <2>. QED
    BY <1>0, <1>2, <2>1, SendSomeDelivers DEF CommandWrite
<1>3. CASE HandshakeReadPart
  <2>1. UNCHANGED << state, wbuf, given, got, down, broken, mode >>
    BY <1>3 DEF HandshakeReadPart, client
  <2>. QED
    BY <1>0, <2>1 DEF AnswersInv, Answers, Settled, Delivered, Stream, HungUp, Reading
<1>4. CASE HandshakeReadLine
  BY <1>0, <1>4, HandshakeReadLineDelivers
<1>5. CASE CommandRead
  BY <1>0, <1>5, CommandReadDelivers
<1>6. CASE CommandReadFails \/ SendFails \/ Sweep
  <2>1. /\ UNCHANGED << wbuf, given, got, down, broken, mode >>
        /\ state' \in { "ERROR", "KILLED", "CLOSED" }
        /\ HungUp => broken \/ HungUp'
    BY <1>6 DEF CommandReadFails, SendFails, Sweep, Goto, network, client, HungUp
  <2>2. /\ Answers' /\ Settled'
    BY <2>1 DEF AnswersInv, Answers, Settled, Reading
  <2>3. Delivered'
    BY <2>1 DEF AnswersInv, Delivered, Settled, Stream
  <2>. QED
    BY <1>0, <2>2, <2>3 DEF AnswersInv
<1>7. CASE ReadBanner \/ ReadVerdict \/ ReadAnswer
  <2>1. PICK s \in Pieces : \E next \in Mode : Receive(s, next) /\ mode # "left"
    BY <1>7 DEF ReadBanner, ReadVerdict, ReadAnswer, Mode
  <2>. QED
    BY <1>0, <2>1, ReceiveDelivers
<1>8. CASE SeeClose \/ Leave
  <2>1. mode' = "left" /\ UNCHANGED server
    BY <1>8 DEF SeeClose, Leave
  <2>. QED
    BY <1>0, <2>1 DEF AnswersInv, Answers, Settled, Delivered, server
<1>9. CASE TypeCredentials \/ TypeCommand
  <2>1. /\ UNCHANGED << server, down, broken, got >>
        /\ mode # "left" /\ mode' # "left"
    BY <1>9 DEF TypeCredentials, TypeCommand, Type
  <2>. QED
    BY <1>0, <2>1
       DEF AnswersInv, Answers, Settled, Delivered, server, Stream, HungUp, Reading
<1>10. CASE Over \/ UNCHANGED vars
  <2>1. UNCHANGED << state, wbuf, given, got, down, broken, mode >>
    BY <1>10 DEF Over, vars, server, network, client
  <2>. QED
    BY <1>0, <2>1 DEF AnswersInv, Answers, Settled, Delivered, Stream, HungUp, Reading
<1>. QED
  BY <1>1, <1>2, <1>3, <1>4, <1>5, <1>6, <1>7, <1>8, <1>9, <1>10 DEF Next, Serve, ClientReads

LEMMA AnswersAlways == Spec => []AnswersInv
  BY AnswersInit, AnswersNext, PTL DEF Spec

\* The client receives the answers of monitor_handler.c one after the other and
\* complete: an answer in write_buffer is neither overwritten nor overtaken by one
\* that is sent at once, however sends and receives are split.
THEOREM AnswersArriveWhole == Spec => []AnswersWhole
<1>1. AnswersInv => AnswersWhole
  <2>. SUFFICES ASSUME AnswersInv, mode # "left"
                PROVE  LET q == << got >> \o down \o wbuf
                       IN  /\ \A i \in 1 .. Len(q) - 1 : q[i + 1] = NextByte(q[i])
                           /\ ~HungUp => NextByte(q[Len(q)]) = << Len(given) + 1, 1 >>
    BY DEF AnswersWhole
  <2>1. << got >> \o down \o wbuf = Stream
    BY StreamType DEF AnswersInv
  <2>2. Told(Stream, given) /\ (~HungUp => EndsLast(Stream, given))
    BY DEF AnswersInv, Delivered
  <2>. QED
    BY <2>1, <2>2 DEF Told, EndsLast, Follows, NextByte
<1>. QED
  BY <1>1, AnswersAlways, PTL
-----------------------------------------------------------------------------
(***************************************************************************)
(* The commands.                                                           *)
(*                                                                         *)
(* What the server has run last, what waits in read_buffer and what is     *)
(* under way to it are one stream too, of which the server takes bytes at  *)
(* the front and to which the client adds lines at the end.  The client    *)
(* adds a command only when it has seen an "OK", and there is none before  *)
(* the session has left the handshake.                                     *)
(***************************************************************************)
Lines == << ran >> \o (rbuf.bytes \o up)

\* The byte that follows b when s has been typed.
SentAfter(b, s) ==
    IF b[2] <= s[b[1]].size THEN << b[1], b[2] + 1 >> ELSE << b[1] + 1, 1 >>

\* In q, the bytes of the lines of s after line a are in order, the first of them
\* comes first, and the last of them is at the end.
InOrder(q, s, a) ==
    /\ \A i \in 1 .. Len(q) - 1 :
          q[i + 1][1] > a =>
              IF q[i][1] > a THEN q[i + 1] = SentAfter(q[i], s) ELSE q[i + 1] = << a + 1, 1 >>
    /\ q[Len(q)] = << Len(s), s[Len(s)].size + 1 >>

Entering == { "HANDSHAKE_READ", "HANDSHAKE_WRITE" }

LinesInv ==
    /\ state \in Entering => \A k \in 1 .. Len(given) : given[k].says \in { "banner", "ERR" }
    /\ mode \in { "typing", "waiting" } => state \notin Entering
    /\ ran[1] <= Len(script)
    /\ mode \in { "typing", "waiting" } /\ Len(script) > auth => InOrder(Lines, script, auth)

CommandsInv == AnswersInv /\ LinesInv

LEMMA LinesType ==
    ASSUME TypeOK, ran[1] <= Len(script)
    PROVE  /\ Lines \in Seq((0 .. Len(script)) \X Nat)
           /\ Len(Lines) = 1 + Len(rbuf.bytes) + Len(up)
           /\ Len(Lines) \in Nat \ {0}
           /\ Lines = (<< ran >> \o rbuf.bytes) \o up
<1>. DEFINE S == (0 .. Len(script)) \X Nat
            g == << ran >>
            d == rbuf.bytes \o up
<1>1. /\ rbuf.bytes \in Seq(LineByte) /\ up \in Seq(LineByte) /\ Len(script) \in Nat
      /\ Len(rbuf.bytes) \in Nat /\ Len(up) \in Nat
  BY Typed, BufferFields
<1>2. LineByte \subseteq S
  BY <1>1 DEF LineByte
<1>3. ran \in S
  BY <1>1 DEF TypeOK
<1>. HIDE DEF S
<1>4. rbuf.bytes \in Seq(S) /\ up \in Seq(S)
  BY <1>1, <1>2, SeqMonotonic
<1>5. g \in Seq(S) /\ Len(g) = 1
  BY <1>3
<1>6. d \in Seq(S) /\ Len(d) = Len(rbuf.bytes) + Len(up)
  BY <1>4, ConcatProperties
<1>. HIDE DEF g
<1>7. (g \o rbuf.bytes) \o up = g \o d
  <2>. DEFINE b == rbuf.bytes
  <2>1. g \in Seq(S) /\ b \in Seq(S) /\ up \in Seq(S)
    BY <1>4, <1>5
  <2>. HIDE DEF b
  <2>2. (g \o b) \o up = g \o (b \o up)
    <3>1. Sequences(S, g, b, up)
      BY <2>1 DEF Sequences
    <3>. QED
      BY <3>1, Joined
  <2>. QED
    BY <2>2 DEF b
<1>. HIDE DEF d
<1>8. g \o d \in Seq(S) /\ Len(g \o d) = Len(g) + Len(d)
  BY <1>5, <1>6, ConcatProperties
<1>. QED
  <2>1. Lines = g \o d
    BY DEF Lines, g, d
  <2>2. Len(g \o d) = 1 + Len(rbuf.bytes) + Len(up) /\ Len(g \o d) \in Nat \ {0}
    BY <1>1, <1>5, <1>6, <1>8
  <2>. QED
    BY <1>7, <1>8, <2>1, <2>2 DEF S, g

\* The server takes bytes at the front.
LEMMA InOrderPart ==
    ASSUME NEW q, NEW r, NEW s, NEW a, NEW n \in Nat,
           Len(q) \in Nat, Len(r) \in Nat \ {0}, n + Len(r) = Len(q),
           \A i \in 1 .. Len(r) : r[i] = q[n + i],
           InOrder(q, s, a)
    PROVE  InOrder(r, s, a)
<1>1. ASSUME NEW i \in 1 .. Len(r) - 1, r[i + 1][1] > a
      PROVE  IF r[i][1] > a THEN r[i + 1] = SentAfter(r[i], s) ELSE r[i + 1] = << a + 1, 1 >>
  <2>1. i \in 1 .. Len(r) /\ i + 1 \in 1 .. Len(r) /\ n + i \in 1 .. Len(q) - 1
    OBVIOUS
  <2>2. r[i] = q[n + i] /\ r[i + 1] = q[n + (i + 1)]
    BY <2>1
  <2>3. n + (i + 1) = (n + i) + 1
    BY <2>1
  <2>. QED
    BY <1>1, <2>1, <2>2, <2>3 DEF InOrder
<1>2. r[Len(r)] = << Len(s), s[Len(s)].size + 1 >>
  <2>1. Len(r) \in 1 .. Len(r)
    OBVIOUS
  <2>2. r[Len(r)] = q[Len(q)]
    BY <2>1
  <2>. QED
    BY <2>2 DEF InOrder
<1>. QED
  BY <1>1, <1>2 DEF InOrder

\* The lines t are those of s and one more of n bytes, and q is in the order of s.
LineAfter(s, t, n, a, q) ==
    /\ n \in Nat /\ a \in Nat
    /\ Len(s) \in Nat /\ a <= Len(s) /\ \A k \in 1 .. Len(s) : s[k].size \in Nat
    /\ Len(t) = Len(s) + 1 /\ \A k \in 1 .. Len(s) : t[k] = s[k]
    /\ t[Len(s) + 1].size = n
    /\ q \in Seq((0 .. Len(s)) \X Nat) /\ Len(q) \in Nat \ {0}
    /\ Len(s) > a => InOrder(q, s, a)

\* The client adds a line at the end.
LEMMA InOrderMore ==
    ASSUME NEW s, NEW t, NEW n, NEW a, NEW q, LineAfter(s, t, n, a, q)
    PROVE  InOrder(q \o LineBytes(Len(s) + 1, n), t, a)
<1>. DEFINE S == (0 .. Len(t)) \X Nat
            k == Len(s) + 1
            l == LineBytes(k, n)
            r == q \o l
<1>a. /\ n \in Nat /\ a \in Nat /\ Len(s) \in Nat /\ a <= Len(s)
      /\ Len(q) \in Nat /\ Len(q) # 0 /\ k = Len(s) + 1 /\ Len(t) = k
  BY DEF LineAfter
<1>b. /\ \A j \in 1 .. Len(s) : s[j].size \in Nat
      /\ \A j \in 1 .. Len(s) : t[j] = s[j]
      /\ t[k].size = n
  BY DEF LineAfter
<1>c. q \in Seq((0 .. Len(s)) \X Nat)
  BY DEF LineAfter
<1>d. Len(s) > a => InOrder(q, s, a)
  BY DEF LineAfter
<1>1. k \in Nat /\ k > a
  BY <1>a
<1>2. /\ l \in Seq(S) /\ Len(l) = n + 1
      /\ \A i \in 1 .. n + 1 : l[i] = << k, i >>
  <2>1. \A i \in 1 .. n + 1 : << k, i >> \in S
    BY <1>a
  <2>. HIDE DEF S, k
  <2>2. l \in Seq(S)
    BY <1>a, <2>1 DEF LineBytes
  <2>3. Len(l) = n + 1 /\ \A i \in 1 .. n + 1 : l[i] = << k, i >>
    BY <1>a DEF LineBytes
  <2>. QED
    BY <2>2, <2>3
<1>3. \A i \in 1 .. Len(q) : q[i] \in (0 .. Len(s)) \X Nat
  BY <1>c, ElementOfSeq
<1>4. q \in Seq(S)
  <2>1. (0 .. Len(s)) \X Nat \subseteq S
    BY <1>a
  <2>. HIDE DEF S
  <2>. QED
    BY <1>c, <2>1, SeqMonotonic
<1>. HIDE DEF S, l
<1>5. /\ Len(r) = Len(q) + Len(l)
      /\ \A i \in 1 .. Len(q) + Len(l) :
            r[i] = IF i <= Len(q) THEN q[i] ELSE l[i - Len(q)]
  BY <1>2, <1>4, ConcatProperties, Zenon
<1>. HIDE DEF r, k
<1>6. Len(r) = Len(q) + (n + 1)
  BY <1>2, <1>5
<1>L. Len(l) = n + 1
  BY <1>2
<1>7. ASSUME NEW i \in 1 .. Len(q)
      PROVE  r[i] = q[i]
  <2>1. i \in 1 .. Len(q) + Len(l) /\ i <= Len(q)
    BY <1>a, <1>L
  <2>. QED
    BY <1>5, <2>1
<1>8. ASSUME NEW i \in 1 .. n + 1
      PROVE  r[Len(q) + i] = << k, i >>
  <2>1. /\ Len(q) + i \in 1 .. Len(q) + Len(l) /\ ~(Len(q) + i <= Len(q))
        /\ (Len(q) + i) - Len(q) = i
    BY <1>a, <1>L
  <2>2. r[Len(q) + i] = l[(Len(q) + i) - Len(q)]
    BY <1>5, <2>1
  <2>. QED
    BY <1>2, <2>1, <2>2
<1>9. ASSUME NEW i \in 1 .. Len(r) - 1, r[i + 1][1] > a
      PROVE  IF r[i][1] > a THEN r[i + 1] = SentAfter(r[i], t) ELSE r[i + 1] = << a + 1, 1 >>
  <2>1. CASE i < Len(q)
    <3>1. i \in 1 .. Len(q) - 1 /\ i \in 1 .. Len(q) /\ i + 1 \in 1 .. Len(q)
      BY <1>a, <2>1
    <3>2. r[i] = q[i] /\ r[i + 1] = q[i + 1]
      BY <1>7, <3>1
    <3>3. q[i][1] \in 0 .. Len(s) /\ q[i + 1][1] \in 0 .. Len(s)
      BY <1>3, <3>1
    <3>4. InOrder(q, s, a)
      <4>1. q[i + 1][1] > a
        BY <1>9, <3>2
      <4>2. Len(s) > a
        BY <1>a, <3>3, <4>1
      <4>. QED
        BY <1>d, <4>2
    <3>5. IF q[i][1] > a THEN q[i + 1] = SentAfter(q[i], s) ELSE q[i + 1] = << a + 1, 1 >>
      BY <1>9, <3>1, <3>2, <3>4 DEF InOrder
    <3>6. q[i][1] > a => SentAfter(q[i], t) = SentAfter(q[i], s)
      <4>1. q[i][1] > a => q[i][1] \in 1 .. Len(s)
        BY <1>a, <3>3
      <4>. QED
        BY <1>b, <4>1 DEF SentAfter
    <3>. QED
      BY <3>2, <3>5, <3>6
  <2>2. CASE i = Len(q)
    <3>1. r[i] = q[i] /\ q[i] \in (0 .. Len(s)) \X Nat
      <4>1. i \in 1 .. Len(q)
        BY <1>a, <2>2
      <4>. QED
        BY <1>3, <1>7, <4>1
    <3>2. 1 \in 1 .. n + 1
      BY <1>a
    <3>3. r[i + 1] = << k, 1 >>
      BY <1>8, <2>2, <3>2
    <3>4. CASE Len(s) > a
      <4>1. q[i] = << Len(s), s[Len(s)].size + 1 >>
        BY <1>d, <2>2, <3>4 DEF InOrder
      <4>2. Len(s) \in 1 .. Len(s)
        BY <1>a, <3>4
      <4>3. t[Len(s)].size = s[Len(s)].size /\ s[Len(s)].size \in Nat
        BY <1>b, <4>2
      <4>4. q[i][1] = Len(s) /\ ~(q[i][2] <= t[q[i][1]].size)
        <5>1. q[i][1] = Len(s) /\ q[i][2] = s[Len(s)].size + 1
          BY <4>1
        <5>. QED
          BY <4>3, <5>1
      <4>5. SentAfter(q[i], t) = << k, 1 >>
        BY <1>a, <4>4 DEF SentAfter
      <4>. QED
        BY <3>1, <3>3, <3>4, <4>4, <4>5
    <3>5. CASE ~(Len(s) > a)
      <4>1. q[i][1] \in 0 .. Len(s)
        BY <3>1
      <4>2. k = a + 1 /\ ~(q[i][1] > a)
        BY <1>a, <3>5, <4>1
      <4>. QED
        BY <3>1, <3>3, <4>2
    <3>. QED
      BY <3>4, <3>5
  <2>3. CASE i > Len(q)
    <3>1. PICK j \in 1 .. n : i = Len(q) + j
      <4>1. i - Len(q) \in 1 .. n /\ i = Len(q) + (i - Len(q))
        BY <1>6, <1>a, <2>3
      <4>. QED
        BY <4>1
    <3>2. j \in 1 .. n + 1 /\ j + 1 \in 1 .. n + 1 /\ i + 1 = Len(q) + (j + 1)
      BY <1>a, <3>1
    <3>3. r[i] = << k, j >> /\ r[i + 1] = << k, j + 1 >>
      BY <1>8, <3>1, <3>2
    <3>4. t[k].size = n
      BY <1>b
    <3>5. SentAfter(r[i], t) = << k, j + 1 >>
      <4>1. r[i][1] = k /\ r[i][2] = j /\ j <= n
        BY <3>1, <3>3
      <4>2. r[i][2] <= t[r[i][1]].size
        BY <3>4, <4>1
      <4>. QED
        BY <4>1, <4>2 DEF SentAfter
    <3>. QED
      BY <1>1, <3>3, <3>5
  <2>4. i < Len(q) \/ i = Len(q) \/ i > Len(q)
    BY <1>6, <1>a
  <2>. QED
    BY <2>1, <2>2, <2>3, <2>4
<1>10. r[Len(r)] = << Len(t), t[Len(t)].size + 1 >>
  <2>1. n + 1 \in 1 .. n + 1 /\ Len(r) = Len(q) + (n + 1)
    BY <1>6, <1>a
  <2>2. r[Len(r)] = << k, n + 1 >>
    BY <1>8, <2>1
  <2>. QED
    BY <1>a, <1>b, <2>2
<1>. QED
  BY <1>9, <1>10 DEF InOrder, r, l, k
LEMMA CommandsInit == Init => CommandsInv
<1>. SUFFICES ASSUME Init PROVE CommandsInv
  OBVIOUS
<1>1. AnswersInv
  BY AnswersInit
<1>2. /\ given = << [ line |-> 0, size |-> 2, says |-> "banner" ] >>
      /\ mode = "banner" /\ ran = << 0, 0 >> /\ script = << >>
  BY DEF Init
<1>3. \A k \in 1 .. Len(given) : given[k].says \in { "banner", "ERR" }
  BY <1>2
<1>. QED
  BY <1>1, <1>2, <1>3 DEF CommandsInv, LinesInv

\* The session stays where it was, or leaves the handshake, and the lines are as
\* they were.
LEMMA LinesStay ==
    ASSUME CommandsInv, UNCHANGED << given, mode, script, auth, ran, rbuf, up >>,
           state' \in Entering => state \in Entering
    PROVE  LinesInv'
<1>1. Lines' = Lines
  BY DEF Lines
<1>2. LinesInv
  BY DEF CommandsInv
<1>3. /\ state' \in Entering => \A k \in 1 .. Len(given') : given'[k].says \in { "banner", "ERR" }
      /\ mode' \in { "typing", "waiting" } => state' \notin Entering
      /\ ran'[1] <= Len(script')
  BY <1>2 DEF LinesInv
<1>4. mode' \in { "typing", "waiting" } /\ Len(script') > auth' => InOrder(Lines', script', auth')
  BY <1>1, <1>2 DEF LinesInv
<1>. QED
  BY <1>3, <1>4 DEF LinesInv

LEMMA HandshakeReadLines ==
    CommandsInv /\ (HandshakeReadPart \/ HandshakeReadLine) => LinesInv'
<1>. SUFFICES ASSUME CommandsInv, HandshakeReadPart \/ HandshakeReadLine
              PROVE  LinesInv'
  OBVIOUS
<1>1. /\ TypeOK /\ state \in Entering /\ mode \notin { "typing", "waiting" }
      /\ ran[1] <= Len(script)
      /\ \A k \in 1 .. Len(given) : given[k].says \in { "banner", "ERR" }
  BY DEF CommandsInv, AnswersInv, LinesInv, Entering, HandshakeReadPart, HandshakeReadLine
<1>2. UNCHANGED << ran, mode, script >>
  BY DEF HandshakeReadPart, HandshakeReadLine, client
<1>3. state' \in Entering => \A k \in 1 .. Len(given') : given'[k].says \in { "banner", "ERR" }
  <2>1. CASE given' = given
    BY <1>1, <2>1
  <2>2. CASE HandshakeReadLine /\ given' # given
    <3>1. PICK n \in Arrivals :
            LET b    == Received(n)
                line == b.bytes[1][1]
            IN  /\ Terminated(b.bytes, HandshakeMax)
                /\ \/ Say("OK", line) /\ Goto("COMMAND_READ", "read")
                   \/ Say("ERR", line)
                /\ Arrive(n)
      BY <2>2 DEF HandshakeReadLine, SayNothing, Killed
    <3>. DEFINE b    == Received(n)
                line == b.bytes[1][1]
    <3>2. CASE Goto("COMMAND_READ", "read")
      BY <3>2 DEF Goto, Entering
    <3>3. CASE Say("ERR", line)
      <4>1. line \in Nat /\ 2 \in Nat /\ "ERR" \in Saying
        <5>1. Terminated(b.bytes, HandshakeMax) /\ Arrive(n)
          BY <3>1
        <5>2. /\ b.bytes \in Seq(LineByte) /\ Len(b.bytes) \in Nat /\ HandshakeMax \in Nat
              /\ TextLength(b.bytes, HandshakeMax) \in 0 .. Len(b.bytes)
          BY <1>1, <5>1, Kept, MonitorAssumption
        <5>. HIDE DEF b
        <5>3. TextLength(b.bytes, HandshakeMax) < Len(b.bytes)
          BY <5>1, <5>2, TakenType
        <5>4. line \in Nat
          BY <1>1, <5>2, <5>3, LineOf
        <5>. QED
          BY <5>4 DEF Saying
      <4>. HIDE DEF line
      <4>2. given' = Append(given, [ line |-> line, size |-> 2, says |-> "ERR" ])
        BY <3>3 DEF Say
      <4>3. /\ Len(given') = Len(given) + 1
            /\ \A k \in 1 .. Len(given) : given'[k] = given[k]
            /\ given'[Len(given) + 1].says = "ERR"
        BY <1>1, <4>1, <4>2, GivenMore, Zenon
      <4>4. ASSUME NEW k \in 1 .. Len(given')
            PROVE  given'[k].says \in { "banner", "ERR" }
        <5>1. k \in 1 .. Len(given) \/ k = Len(given) + 1
          BY <1>1, <4>3, Typed
        <5>. QED
          BY <1>1, <4>3, <5>1, Zenon
      <4>. QED
        BY <4>4
    <3>. QED
      BY <3>1, <3>2, <3>3
  <2>3. CASE HandshakeReadPart
    BY <2>1, <2>3 DEF HandshakeReadPart
  <2>. QED
    BY <2>1, <2>2, <2>3
<1>. QED
  BY <1>1, <1>2, <1>3 DEF LinesInv

LEMMA CommandReadLines == CommandsInv /\ CommandRead => LinesInv'
<1>. SUFFICES ASSUME CommandsInv, CommandRead
              PROVE  LinesInv'
  OBVIOUS
<1>1. PICK n \in Arrivals :
          LET b     == Received(n)
              taken == Taken(b.bytes, LineMax)
          IN  /\ rbuf' = Drop(b, taken)
              /\ ran' = IF taken = 0 THEN ran ELSE b.bytes[taken]
              /\ Arrive(n)
  BY DEF CommandRead
<1>. DEFINE b     == Received(n)
            taken == Taken(b.bytes, LineMax)
            rest  == SubSeq(up, n + 1, Len(up))
<1>2. TypeOK /\ LinesInv /\ state = "COMMAND_READ" /\ ran[1] <= Len(script)
  BY DEF CommandsInv, AnswersInv, LinesInv, CommandRead
<1>3. state' \notin Entering
  BY <1>2 DEF CommandRead, Answer, Quit, QuitWith, Goto, Entering
<1>4. UNCHANGED << mode, script, auth >>
  BY DEF CommandRead, client
<1>5. /\ b \in Buffers /\ b.bytes \in Seq(LineByte) /\ Len(b.bytes) \in Nat
      /\ taken \in 0 .. Len(b.bytes)
      /\ rest \in Seq(LineByte)
      /\ n \in 0 .. Len(up)
      /\ b.bytes = rbuf.bytes \o SubSeq(up, 1, n)
  <2>1. b \in Buffers /\ rest \in Seq(LineByte) /\ n \in 0 .. Len(up)
        /\ b.bytes = rbuf.bytes \o SubSeq(up, 1, n)
    BY <1>2, ReceivedType
  <2>2. /\ b.bytes \in Seq(LineByte) /\ Len(b.bytes) \in Nat
        /\ TextLength(b.bytes, LineMax) \in 0 .. Len(b.bytes)
        /\ taken \in TextLength(b.bytes, LineMax) .. Len(b.bytes)
    BY <1>1, <1>2, Kept, MonitorAssumption
  <2>. DEFINE k == TextLength(b.bytes, LineMax)
              m == Len(b.bytes)
  <2>3. k \in 0 .. m /\ taken \in k .. m /\ m \in Nat
    BY <2>2
  <2>. HIDE DEF k, m, taken
  <2>4. taken \in 0 .. m
    BY <2>3
  <2>. HIDE DEF b, rest
  <2>. QED
    BY <2>1, <2>2, <2>4 DEF m
<1>6. /\ ran' = IF taken = 0 THEN ran ELSE b.bytes[taken]
      /\ rbuf'.bytes = SubSeq(b.bytes, taken + 1, Len(b.bytes))
      /\ up' = rest
  <2>1. /\ rbuf' = Drop(b, taken) /\ ran' = IF taken = 0 THEN ran ELSE b.bytes[taken]
        /\ Arrive(n)
    BY <1>1
  <2>2. up' = rest
    BY <2>1 DEF Arrive
  <2>. HIDE DEF b, taken, rest
  <2>3. Drop(b, taken).bytes = SubSeq(b.bytes, taken + 1, Len(b.bytes))
    BY <1>5, DropType
  <2>. QED
    BY <2>1, <2>2, <2>3
<1>7. Lines = << ran >> \o (b.bytes \o rest)
  <2>1. rbuf.bytes \in Seq(LineByte) /\ up \in Seq(LineByte)
    BY <1>2, Typed, BufferFields
  <2>2. (rbuf.bytes \o SubSeq(up, 1, n)) \o SubSeq(up, n + 1, Len(up)) = rbuf.bytes \o up
    BY <1>5, <2>1, Moved
  <2>. QED
    BY <1>5, <2>2 DEF Lines
<1>. HIDE DEF b, taken, rest
<1>8. Lines' = << ran' >> \o (SubSeq(b.bytes, taken + 1, Len(b.bytes)) \o rest)
  BY <1>6 DEF Lines
<1>9. Passes(ran, b.bytes, rest, taken, ran', Lines, Lines')
  <2>1. LineByte \subseteq Byte
    BY DEF LineByte, Byte
  <2>2. b.bytes \in Seq(Byte) /\ rest \in Seq(Byte)
    BY <1>5, <2>1, SeqMonotonic
  <2>3. ran \in Byte
    BY <1>2 DEF TypeOK, Byte
  <2>. QED
    BY <1>5, <1>6, <1>7, <1>8, <2>2, <2>3 DEF Passes
<1>. DEFINE r == Lines'
<1>10. /\ Len(Lines) = 1 + Len(b.bytes) + Len(rest) /\ Len(r) = Len(Lines) - taken
       /\ \A i \in 1 .. Len(r) : r[i] = Lines[taken + i]
  <2>. HIDE DEF r
  <2>1. Passes(ran, b.bytes, rest, taken, ran', Lines, r)
    BY <1>9 DEF r
  <2>. QED
    BY <2>1, Shifted
<1>11. ran'[1] <= Len(script')
  <2>1. CASE taken = 0
    BY <1>2, <1>4, <1>6, <2>1
  <2>2. CASE taken # 0
    <3>1. b.bytes[taken] \in LineByte
      <4>. DEFINE s == b.bytes
      <4>1. s \in Seq(LineByte) /\ taken \in 1 .. Len(s)
        <5>1. s \in Seq(LineByte) /\ Len(s) \in Nat /\ taken \in 0 .. Len(s)
          BY <1>5
        <5>. HIDE DEF s
        <5>. QED
          BY <2>2, <5>1
      <4>. HIDE DEF s
      <4>2. s[taken] \in LineByte
        BY <4>1, ElementOfSeq
      <4>. QED
        BY <4>2 DEF s
    <3>2. ran' = b.bytes[taken]
      BY <1>6, <2>2
    <3>. QED
      BY <1>2, <1>4, <3>1, <3>2, Typed DEF LineByte
  <2>. QED
    BY <2>1, <2>2
<1>. HIDE DEF r
<1>12. ASSUME mode' \in { "typing", "waiting" }, Len(script') > auth'
       PROVE  InOrder(r, script, auth)
  <2>1. InOrder(Lines, script, auth)
    BY <1>2, <1>4, <1>12 DEF LinesInv
  <2>2. taken \in Nat /\ Len(Lines) \in Nat /\ Len(r) \in Nat \ {0} /\ taken + Len(r) = Len(Lines)
    <3>1. Len(rest) \in Nat
      BY <1>5
    <3>. DEFINE m == Len(b.bytes)
    <3>2. /\ m \in Nat /\ taken \in 0 .. m
          /\ Len(Lines) = 1 + m + Len(rest) /\ Len(r) = Len(Lines) - taken
      BY <1>5, <1>10
    <3>. HIDE DEF m
    <3>. QED
      BY <3>1, <3>2
  <2>. QED
    BY <1>10, <2>1, <2>2, InOrderPart
<1>. QED
  BY <1>3, <1>4, <1>11, <1>12 DEF LinesInv, r

LEMMA TypeLines ==
    ASSUME CommandsInv, TypeOK', NEW n \in Nat, NEW kind \in Credentials \cup Command,
           Type(n, kind), auth' = auth,
           \/ mode' = "verdict"
           \/ mode = "typing" /\ mode' = "waiting"
    PROVE  LinesInv'
<1>1. /\ TypeOK /\ LinesInv /\ ran[1] <= Len(script)
      /\ Len(script) \in Nat /\ auth \in 0 .. Len(script)
  BY Typed DEF CommandsInv, AnswersInv, LinesInv, TypeOK
<1>2. UNCHANGED << state, given, ran, rbuf >> /\ up' = up \o LineBytes(Len(script) + 1, n)
  BY DEF Type, server
<1>3. /\ Len(script') = Len(script) + 1
      /\ \A k \in 1 .. Len(script) : script'[k] = script[k]
      /\ script'[Len(script) + 1].size = n
  <2>1. script'[Len(script) + 1] = [ size |-> n, kind |-> kind ]
    BY <1>1, ScriptType
  <2>. QED
    BY <1>1, <2>1, ScriptType
<1>4. /\ state' \in Entering => \A k \in 1 .. Len(given') : given'[k].says \in { "banner", "ERR" }
      /\ ran'[1] <= Len(script')
  <2>1. ran[1] \in Nat
    BY <1>1 DEF TypeOK
  <2>2. ran'[1] <= Len(script')
    BY <1>1, <1>2, <1>3, <2>1
  <2>. QED
    BY <1>1, <1>2, <2>2 DEF LinesInv
<1>5. mode' \in { "typing", "waiting" } => state' \notin Entering
  BY <1>1, <1>2 DEF LinesInv
<1>6. ASSUME mode' \in { "typing", "waiting" }
      PROVE  InOrder(Lines', script', auth')
  <2>1. mode = "typing"
    BY <1>6
  <2>2. Len(script) > auth => InOrder(Lines, script, auth)
    BY <1>1, <2>1 DEF LinesInv
  <2>3. /\ Lines \in Seq((0 .. Len(script)) \X Nat) /\ Len(Lines) \in Nat \ {0}
    BY <1>1, LinesType
  <2>. DEFINE l == LineBytes(Len(script) + 1, n)
  <2>4. Lines' = << ran >> \o (rbuf.bytes \o (up \o l))
    BY <1>2 DEF Lines
  <2>5. Lines' = Lines \o l
    <3>. DEFINE g == << ran >>
                d == rbuf.bytes
                x == d \o up
    <3>1. l \in Seq(Byte)
      <4>1. Len(script) + 1 \in Nat
        BY <1>1
      <4>. QED
        BY <4>1, MessageType DEF Byte
    <3>2. g \in Seq(Byte) /\ d \in Seq(Byte) /\ up \in Seq(Byte)
      <4>1. LineByte \subseteq Byte
        BY DEF LineByte, Byte
      <4>2. d \in Seq(LineByte) /\ up \in Seq(LineByte)
        BY <1>1, Typed, BufferFields
      <4>3. d \in Seq(Byte) /\ up \in Seq(Byte)
        BY <4>1, <4>2, SeqMonotonic
      <4>4. g \in Seq(Byte)
        BY <1>1 DEF TypeOK, Byte
      <4>. QED
        BY <4>3, <4>4
    <3>3. Lines = g \o x /\ Lines' = g \o (d \o (up \o l))
      BY <2>4 DEF Lines
    <3>. HIDE DEF l, g, d
    <3>4. (d \o up) \o l = d \o (up \o l)
      <4>1. d \in Seq(Byte) /\ up \in Seq(Byte) /\ l \in Seq(Byte)
        BY <3>1, <3>2
      <4>2. Sequences(Byte, d, up, l)
        BY <4>1 DEF Sequences
      <4>. QED
        BY <4>2, Joined
    <3>5. x \in Seq(Byte)
      BY <3>2, ConcatProperties
    <3>. HIDE DEF x
    <3>6. (g \o x) \o l = g \o (x \o l)
      <4>1. g \in Seq(Byte) /\ x \in Seq(Byte) /\ l \in Seq(Byte)
        BY <3>1, <3>2, <3>5
      <4>2. Sequences(Byte, g, x, l)
        BY <4>1 DEF Sequences
      <4>. QED
        BY <4>2, Joined
    <3>. QED
      BY <3>3, <3>4, <3>6 DEF x
  <2>6. \A k \in 1 .. Len(script) : script[k].size \in Nat
    <3>1. script \in Seq([ size : Nat, kind : Credentials \cup Command ])
      BY <1>1, Typed
    <3>2. \A k \in 1 .. Len(script) : script[k] \in [ size : Nat, kind : Credentials \cup Command ]
      BY <3>1, ElementOfSeq
    <3>. QED
      BY <3>2
  <2>. DEFINE t == script'
              s == script
              q == Lines
              a == auth
  <2>7. /\ Len(s) \in Nat /\ a \in Nat /\ a <= Len(s)
        /\ \A k \in 1 .. Len(s) : s[k].size \in Nat
        /\ Len(t) = Len(s) + 1
        /\ \A k \in 1 .. Len(s) : t[k] = s[k]
        /\ t[Len(s) + 1].size = n
        /\ q \in Seq((0 .. Len(s)) \X Nat) /\ Len(q) \in Nat \ {0}
        /\ Len(s) > a => InOrder(q, s, a)
    BY <1>1, <1>3, <2>2, <2>3, <2>6
  <2>. HIDE DEF t, s, q, a
  <2>8. InOrder(q \o LineBytes(Len(s) + 1, n), t, a)
    BY <2>7, InOrderMore DEF LineAfter
  <2>. QED
    BY <2>5, <2>8 DEF t, s, q, a
<1>. QED
  BY <1>4, <1>5, <1>6 DEF LinesInv

\* The client goes on to commands when it sees an "OK", which no answer says that
\* was given in the handshake.
LEMMA ReceiveLines ==
    CommandsInv /\ (ReadBanner \/ ReadVerdict \/ ReadAnswer) => LinesInv'
<1>. SUFFICES ASSUME CommandsInv, ReadBanner \/ ReadVerdict \/ ReadAnswer
              PROVE  LinesInv'
  OBVIOUS
<1>1. TypeOK /\ LinesInv /\ AnswersInv
  BY DEF CommandsInv, AnswersInv
<1>2. PICK s \in Pieces : \E next \in Mode :
          /\ Receive(s, next)
          /\ \/ next \in { "login", "left" }
             \/ mode = "verdict" /\ next = "typing" /\ SaysOk(s)
             \/ mode = "waiting" /\ next = "typing"
          /\ mode # "left"
  <2>1. CASE ReadBanner
    BY <2>1 DEF ReadBanner, Mode
  <2>2. CASE ReadVerdict
    BY <2>2 DEF ReadVerdict, Mode
  <2>3. CASE ReadAnswer
    BY <2>3 DEF ReadAnswer, Mode
  <2>. QED
    BY <2>1, <2>2, <2>3
<1>3. PICK next \in Mode :
          /\ Receive(s, next)
          /\ \/ next \in { "login", "left" }
             \/ mode = "verdict" /\ next = "typing" /\ SaysOk(s)
             \/ mode = "waiting" /\ next = "typing"
          /\ mode # "left"
  BY <1>2
<1>4. /\ UNCHANGED << state, given, ran, rbuf, up, script >> /\ mode' = next
      /\ auth' = IF mode = "verdict" /\ next = "typing" THEN Len(script) ELSE auth
  BY <1>3 DEF Receive, server
<1>5. /\ state' \in Entering => \A k \in 1 .. Len(given') : given'[k].says \in { "banner", "ERR" }
      /\ ran'[1] <= Len(script')
  BY <1>1, <1>4 DEF LinesInv
<1>6. CASE next \in { "login", "left" }
  BY <1>4, <1>5, <1>6 DEF LinesInv
<1>7. CASE mode = "verdict" /\ next = "typing" /\ SaysOk(s)
  <2>1. given[s[1][1]].says \in { "OK", "bye" }
    BY <1>7 DEF SaysOk
  <2>2. s[1][1] \in 1 .. Len(given)
    <3>1. Told(Stream, given)
      BY <1>1, <1>3 DEF AnswersInv, Delivered
    <3>2. /\ Len(s) \in 1 .. Len(down) /\ s[1] = down[1]
      <4>1. Len(s) \in 1 .. Len(down) /\ \A i \in 1 .. Len(s) : s[i] = down[i]
        BY <1>1, PieceType
      <4>2. 1 \in 1 .. Len(s)
        BY <1>1, <4>1, Typed
      <4>. QED
        BY <4>1, <4>2
    <3>3. Stream[2] = down[1] /\ 2 \in 1 .. Len(Stream)
      <4>. DEFINE S == Nat \X Nat
                  g == << got >>
                  d == down \o wbuf
      <4>1. /\ down \in Seq(S) /\ wbuf \in Seq(S) /\ g \in Seq(S) /\ Len(g) = 1
            /\ Len(down) \in Nat /\ Len(wbuf) \in Nat /\ Len(down) # 0
        BY <1>1, <3>2, Typed DEF TypeOK
      <4>. HIDE DEF S, g
      <4>2. /\ d \in Seq(S) /\ Len(d) = Len(down) + Len(wbuf)
            /\ \A i \in 1 .. Len(down) + Len(wbuf) :
                  d[i] = IF i <= Len(down) THEN down[i] ELSE wbuf[i - Len(down)]
        BY <4>1, ConcatProperties
      <4>. HIDE DEF d
      <4>3. /\ Len(g \o d) = Len(g) + Len(d)
            /\ \A i \in 1 .. Len(g) + Len(d) :
                  (g \o d)[i] = IF i <= Len(g) THEN g[i] ELSE d[i - Len(g)]
        BY <4>1, <4>2, ConcatProperties
      <4>4. (g \o d)[2] = d[1] /\ d[1] = down[1] /\ 2 \in 1 .. Len(g \o d)
        BY <4>1, <4>2, <4>3
      <4>. QED
        BY <4>4 DEF Stream, g, d
    <3>. QED
      BY <3>1, <3>2, <3>3 DEF Told
  <2>3. state' \notin Entering
    BY <1>4, <1>5, <2>1, <2>2
  <2>4. ~(Len(script') > auth')
    BY <1>1, <1>4, <1>7, Typed
  <2>. QED
    BY <1>5, <2>3, <2>4 DEF LinesInv
<1>8. CASE mode = "waiting" /\ next = "typing"
  <2>1. state' \notin Entering
    BY <1>1, <1>4, <1>8 DEF LinesInv
  <2>2. auth' = auth
    BY <1>4, <1>8
  <2>3. Lines' = Lines
    BY <1>4 DEF Lines
  <2>4. Len(script) > auth => InOrder(Lines, script, auth)
    BY <1>1, <1>8 DEF LinesInv
  <2>. QED
    BY <1>4, <1>5, <2>1, <2>2, <2>3, <2>4 DEF LinesInv
<1>. QED
  BY <1>3, <1>6, <1>7, <1>8

LEMMA CommandsNext == CommandsInv /\ [Next]_vars => CommandsInv'
<1>. SUFFICES ASSUME CommandsInv, [Next]_vars
              PROVE  CommandsInv'
  OBVIOUS
<1>1. AnswersInv' /\ TypeOK'
  BY AnswersNext DEF CommandsInv, AnswersInv
<1>. SUFFICES LinesInv'
  BY <1>1 DEF CommandsInv
<1>2. CASE HandshakeWrite \/ CommandWrite
  <2>1. UNCHANGED << given, mode, script, auth, ran, rbuf, up >>
    BY <1>2 DEF HandshakeWrite, CommandWrite, SendSome, client
  <2>2. state' \in Entering => state \in Entering
    BY <1>2 DEF HandshakeWrite, CommandWrite, SendSome, AfterSend, Goto, Entering
  <2>. QED
    BY <2>1, <2>2, LinesStay
<1>3. CASE HandshakeReadPart \/ HandshakeReadLine
  BY <1>3, HandshakeReadLines
<1>4. CASE CommandRead
  BY <1>4, CommandReadLines
<1>5. CASE CommandReadFails \/ SendFails \/ Sweep
  <2>1. UNCHANGED << given, mode, script, auth, ran, rbuf, up >>
    BY <1>5 DEF CommandReadFails, SendFails, Sweep, network, client
  <2>2. state' \notin Entering
    BY <1>5 DEF CommandReadFails, SendFails, Sweep, Goto, Entering
  <2>. QED
    BY <2>1, <2>2, LinesStay
<1>6. CASE ReadBanner \/ ReadVerdict \/ ReadAnswer
  BY <1>6, ReceiveLines
<1>7. CASE SeeClose \/ Leave
  <2>1. mode' = "left" /\ UNCHANGED << state, given, ran, script >>
    BY <1>7 DEF SeeClose, Leave, server
  <2>. QED
    BY <2>1 DEF CommandsInv, LinesInv
<1>8. CASE TypeCredentials
  <2>1. PICK n \in CredentialSizes, kind \in Credentials : Type(n, kind)
    BY <1>8 DEF TypeCredentials
  <2>2. n \in Nat /\ auth' = auth /\ mode' = "verdict"
    BY <1>8, MonitorAssumption DEF TypeCredentials
  <2>. QED
    BY <1>1, <2>1, <2>2, TypeLines
<1>9. CASE TypeCommand
  <2>1. PICK n \in 1 .. LineMax, kind \in Command : Type(n, kind)
    BY <1>9 DEF TypeCommand
  <2>2. n \in Nat /\ auth' = auth /\ mode = "typing" /\ mode' = "waiting"
    BY <1>9, MonitorAssumption DEF TypeCommand
  <2>. QED
    BY <1>1, <2>1, <2>2, TypeLines
<1>10. CASE Over \/ UNCHANGED vars
  <2>1. UNCHANGED << state, given, mode, script, auth, ran, rbuf, up >>
    BY <1>10 DEF Over, vars, server, network, client
  <2>. QED
    BY <2>1, LinesStay
<1>. QED
  BY <1>2, <1>3, <1>4, <1>5, <1>6, <1>7, <1>8, <1>9, <1>10 DEF Next, Serve, ClientReads

LEMMA CommandsAlways == Spec => []CommandsInv
  BY CommandsInit, CommandsNext, PTL DEF Spec

\* Every byte of every command that the client sends is run by
\* handle_monitor_command_read once and in order, however the lines are cut: what
\* has been run, what waits in read_buffer and what is under way is all of it.
THEOREM CommandsAreRunOnce == Spec => []CommandsArriveOnce
<1>1. CommandsInv => CommandsArriveOnce
  <2>. SUFFICES ASSUME CommandsInv, mode \in { "typing", "waiting" }
                PROVE  LET q == << ran >> \o rbuf.bytes \o up
                       IN  /\ state \notin { "HANDSHAKE_READ", "HANDSHAKE_WRITE" }
                           /\ Len(script) > auth =>
                               /\ \A i \in 1 .. Len(q) - 1 :
                                     q[i + 1][1] > auth =>
                                         IF q[i][1] > auth THEN q[i + 1] = NextSent(q[i])
                                                           ELSE q[i + 1] = << auth + 1, 1 >>
                               /\ q[Len(q)] = << Len(script), script[Len(script)].size + 1 >>
    BY DEF CommandsArriveOnce
  <2>1. TypeOK /\ LinesInv /\ ran[1] <= Len(script)
    BY DEF CommandsInv, AnswersInv, LinesInv
  <2>2. << ran >> \o rbuf.bytes \o up = Lines
    BY <2>1, LinesType
  <2>3. state \notin Entering /\ (Len(script) > auth => InOrder(Lines, script, auth))
    BY <2>1 DEF LinesInv
  <2>. QED
    BY <2>2, <2>3 DEF Entering, InOrder, SentAfter, NextSent
<1>. QED
  BY <1>1, CommandsAlways, PTL
-----------------------------------------------------------------------------
(***************************************************************************)
(* Lines and answers in turn.                                              *)
(*                                                                         *)
(* While every message arrives whole, one message at a time is on its way: *)
(* a line, the answer to it, or nothing, when the answer is on the screen  *)
(* or when the line had none.                                              *)
(***************************************************************************)
LastLine   == LineBytes(Len(script), script[Len(script)].size)
LastAnswer == AnswerBytes(Len(given), given[Len(given)].size)

NothingDown == down = << >> /\ wbuf = << >>

Asked ==
    /\ mode \in { "verdict", "waiting" }
    /\ script # << >>
    /\ up = LastLine
    /\ NothingDown

Answered ==
    /\ mode \in { "banner", "verdict", "waiting" }
    /\ up = << >>
    /\ down \o wbuf = LastAnswer
    /\ given[Len(given)].line = Len(script)

Shown ==
    /\ mode \in { "login", "typing" }
    /\ up = << >>
    /\ NothingDown
    /\ got[1] = Len(given)
    /\ given[Len(given)].line = Len(script)

Unanswered ==
    /\ mode \in { "verdict", "waiting" }
    /\ up = << >>
    /\ NothingDown

InTurn ==
    intact /\ mode # "left" =>
        rbuf = Empty /\ (Asked \/ Answered \/ Shown \/ Unanswered)

TurnInv == AnswersInv /\ InTurn

LEMMA TurnInit == Init => TurnInv
<1>. SUFFICES ASSUME Init PROVE TurnInv
  OBVIOUS
<1>1. /\ mode = "banner" /\ up = << >> /\ down = << >> /\ wbuf = AnswerBytes(1, 2)
      /\ given = << [ line |-> 0, size |-> 2, says |-> "banner" ] >>
      /\ script = << >> /\ rbuf = Empty
  BY DEF Init
<1>2. down \o wbuf = AnswerBytes(1, 2)
  <2>1. wbuf \in Seq(Nat \X Nat)
    BY TypesInit, Typed
  <2>2. << >> \o wbuf = wbuf
    BY <2>1, ConcatEmptySeq
  <2>. QED
    BY <1>1, <2>2
<1>3. LastAnswer = AnswerBytes(1, 2) /\ given[Len(given)].line = Len(script)
  BY <1>1 DEF LastAnswer
<1>4. Answered
  BY <1>1, <1>2, <1>3 DEF Answered
<1>. QED
  BY <1>1, <1>4, AnswersInit DEF TurnInv, InTurn

\* The server receives only what is under way.
LEMMA NothingArrives ==
    ASSUME up = << >>, mode # "left"
    PROVE  Arrivals = {}
  BY DEF Arrivals

\* A line that arrives whole and is not too long is taken completely.
LEMMA LineArrives ==
    ASSUME TypeOK, rbuf = Empty, Asked, NEW n \in Arrivals, NEW max \in Nat,
           ArrivesWhole(n, max)
    PROVE  LET b == Received(n)
           IN  /\ n = Len(up)
               /\ b.bytes = LastLine
               /\ Terminated(b.bytes, max)
               /\ TextLength(b.bytes, max) = script[Len(script)].size
               /\ Drop(b, Taken(b.bytes, max)) = Empty
               /\ SubSeq(up, n + 1, Len(up)) = << >>
               /\ b.bytes[1] = << Len(script), 1 >>
<1>. DEFINE k == Len(script)
            size == script[k].size
            b == Received(n)
<1>1. k \in 1 .. Len(script) /\ size \in Nat
  <2>1. script \in Seq([ size : Nat, kind : Credentials \cup Command ]) /\ Len(script) \in Nat
    BY Typed
  <2>2. script # << >>
    BY DEF Asked
  <2>3. k \in 1 .. Len(script)
    BY <2>1, <2>2
  <2>4. script[k] \in [ size : Nat, kind : Credentials \cup Command ]
    BY <2>1, <2>3, ElementOfSeq
  <2>. QED
    BY <2>3, <2>4
<1>2. /\ up = LineBytes(k, size) /\ Len(up) = size + 1
      /\ \A i \in 1 .. size + 1 : up[i] = << k, i >>
      /\ up \in Seq(LineByte)
  <2>1. up = LineBytes(k, size)
    BY DEF Asked, LastLine
  <2>. HIDE DEF k, size
  <2>2. Len(up) = size + 1 /\ \A i \in 1 .. size + 1 : up[i] = << k, i >>
    BY <1>1, <2>1 DEF LineBytes
  <2>. QED
    BY <2>1, <2>2, Typed
<1>3. n # 0
  <2>1. Room = ReadBuffer /\ ReadBuffer \in Nat /\ ReadBuffer # 0
    <3>1. rbuf.used = 0 /\ Len(rbuf.bytes) = 0
      BY DEF Empty
    <3>. QED
      BY <3>1, MonitorAssumption DEF Room
  <2>2. up # << >> /\ Len(up) \in Nat /\ Len(up) # 0
    <3>. HIDE DEF size
    <3>. QED
      BY <1>1, <1>2
  <2>3. Least(Len(up), Room) \in Nat /\ Least(Len(up), Room) # 0
    BY <2>1, <2>2, LeastType
  <2>4. n \in IF cuts < MaxCuts THEN 1 .. Least(Len(up), Room) ELSE { Least(Len(up), Room) }
    BY <2>1, <2>2 DEF Arrivals
  <2>. QED
    BY <2>3, <2>4
<1>4. n = Len(up) /\ n <= max /\ size < max
  <2>1. n \in 0 .. Len(up)
    BY ReceivedType
  <2>2. n > 0
    BY <1>2, <1>3, <2>1
  <2>3. n = script[up[1][1]].size + 1 /\ n <= max
    BY <2>2 DEF ArrivesWhole
  <2>4. up[1] = << k, 1 >>
    <3>1. 1 \in 1 .. size + 1
      BY <1>1
    <3>. QED
      BY <1>2, <3>1
  <2>5. n = size + 1
    BY <2>3, <2>4
  <2>. HIDE DEF size
  <2>. QED
    BY <1>1, <1>2, <2>3, <2>5
<1>5. b.bytes = up
  <2>1. b.bytes = rbuf.bytes \o SubSeq(up, 1, n)
    BY ReceivedType
  <2>2. rbuf.bytes = << >>
    BY DEF Empty
  <2>3. SubSeq(up, 1, n) = up
    BY <1>2, <1>4, SubSeqFull
  <2>4. << >> \o up = up
    BY <1>2, ConcatEmptySeq
  <2>. QED
    BY <2>1, <2>2, <2>3, <2>4
<1>6. /\ TextLength(up, max) = size /\ Terminated(up, max) /\ Taken(up, max) = Len(up)
  BY <1>1, <1>2, <1>4, WholeLine, Zenon
<1>7. Drop(b, Taken(b.bytes, max)) = Empty
  BY <1>5, <1>6 DEF Drop
<1>8. SubSeq(up, n + 1, Len(up)) = << >>
  <2>1. n + 1 \in Int /\ Len(up) \in Int /\ Len(up) < n + 1
    BY <1>2, <1>4
  <2>. QED
    BY <2>1, SubSeqEmpty
<1>9. up[1] = << k, 1 >>
  <2>1. 1 \in 1 .. size + 1
    BY <1>1
  <2>. QED
    BY <1>2, <2>1
<1>. QED
  BY <1>2, <1>4, <1>5, <1>6, <1>7, <1>8, <1>9 DEF LastLine

\* What a read handler finds when it receives anything in turn.
LEMMA Arriving ==
    ASSUME TurnInv, NEW n \in Arrivals, NEW max, intact' = (intact /\ ArrivesWhole(n, max)),
           intact', mode # "left"
    PROVE  TypeOK /\ rbuf = Empty /\ Asked /\ ArrivesWhole(n, max) /\ ~broken
<1>1. TypeOK /\ intact /\ ArrivesWhole(n, max) /\ rbuf = Empty /\ ~broken
  BY DEF TurnInv, InTurn, AnswersInv, Settled
<1>2. up # << >>
  BY NothingArrives
<1>. QED
  BY <1>1, <1>2 DEF TurnInv, InTurn, Answered, Shown, Unanswered

\* Nothing else is under way when an answer is given.
LEMMA AnswerAlone ==
    ASSUME TypeOK, NEW line \in Nat, NEW size \in Nat, NEW says \in Saying,
           given' = Append(given, [ line |-> line, size |-> size, says |-> says ])
    PROVE  /\ given'[Len(given')].line = line
           /\ LastAnswer' = AnswerBytes(Len(given) + 1, size)
           /\ << >> \o LastAnswer' = LastAnswer' /\ LastAnswer' \o << >> = LastAnswer'
<1>1. /\ Len(given') = Len(given) + 1
      /\ given'[Len(given) + 1].line = line
      /\ given'[Len(given) + 1].size = size
  BY GivenMore, Zenon
<1>2. LastAnswer' = AnswerBytes(Len(given) + 1, size)
  BY <1>1 DEF LastAnswer
<1>3. LastAnswer' \in Seq(Nat \X Nat)
  <2>1. Len(given) + 1 \in Nat
    BY Typed
  <2>. QED
    BY <1>2, <2>1, MessageType
<1>4. << >> \o LastAnswer' = LastAnswer' /\ LastAnswer' \o << >> = LastAnswer'
  <2>. DEFINE a == LastAnswer'
  <2>. HIDE DEF a
  <2>1. a \in Seq(Nat \X Nat)
    BY <1>3 DEF a
  <2>2. << >> \o a = a /\ a \o << >> = a
    BY <2>1, ConcatEmptySeq
  <2>. QED
    BY <2>2 DEF a
<1>. QED
  BY <1>1, <1>2, <1>4

LEMMA HandshakeReadInTurn == TurnInv /\ (HandshakeReadPart \/ HandshakeReadLine) => InTurn'
<1>. SUFFICES ASSUME TurnInv, HandshakeReadPart \/ HandshakeReadLine, intact', mode' # "left"
              PROVE  rbuf' = Empty /\ Answered'
  BY DEF InTurn
<1>1. HandshakeMax \in Nat
  BY MonitorAssumption
<1>2. UNCHANGED << mode, script >> /\ mode # "left"
  BY DEF HandshakeReadPart, HandshakeReadLine, client
<1>3. CASE HandshakeReadPart
  <2>1. PICK n \in Arrivals :
          /\ ~Terminated(Received(n).bytes, HandshakeMax)
          /\ intact' = (intact /\ ArrivesWhole(n, HandshakeMax))
    BY <1>3 DEF HandshakeReadPart
  <2>2. TypeOK /\ rbuf = Empty /\ Asked /\ ArrivesWhole(n, HandshakeMax)
    BY <1>2, <2>1, Arriving
  <2>. QED
    BY <1>1, <2>1, <2>2, LineArrives
<1>4. CASE HandshakeReadLine
  <2>1. PICK n \in Arrivals :
            LET b    == Received(n)
                line == b.bytes[1][1]
                rest == Drop(b, Taken(b.bytes, HandshakeMax))
            IN  /\ \/ broken
                   \/ /\ \E says \in { "OK", "ERR" } : Say(says, line)
                      /\ rbuf' \in { AfterWelcome, Empty, rest }
                /\ up' = SubSeq(up, n + 1, Len(up))
                /\ intact' = (intact /\ ArrivesWhole(n, HandshakeMax))
    BY <1>4 DEF HandshakeReadLine, SayNothing, Killed, Arrive
  <2>. DEFINE b    == Received(n)
              line == b.bytes[1][1]
              rest == Drop(b, Taken(b.bytes, HandshakeMax))
  <2>2. /\ intact' = (intact /\ ArrivesWhole(n, HandshakeMax))
        /\ \/ broken
           \/ /\ \E says \in { "OK", "ERR" } : Say(says, line)
              /\ rbuf' \in { AfterWelcome, Empty, rest }
        /\ up' = SubSeq(up, n + 1, Len(up))
    BY <2>1, Zenon
  <2>3. TypeOK /\ rbuf = Empty /\ Asked /\ ArrivesWhole(n, HandshakeMax) /\ ~broken
    BY <1>2, <2>2, Arriving
  <2>4. rest = Empty /\ up' = << >> /\ b.bytes[1] = << Len(script), 1 >>
    BY <1>1, <2>2, <2>3, LineArrives, Zenon
  <2>5. rbuf' = Empty
    BY <2>2, <2>3, <2>4 DEF AfterWelcome
  <2>6. line = Len(script) /\ line \in Nat
    BY <2>3, <2>4, Typed
  <2>7. PICK says \in { "OK", "ERR" } : Say(says, line)
    BY <2>2, <2>3
  <2>. HIDE DEF line
  <2>8. /\ given' = Append(given, [ line |-> line, size |-> 2, says |-> says ])
        /\ down' = down \o AnswerBytes(Len(given) + 1, 2)
        /\ says \in Saying /\ 2 \in Nat
    BY <1>2, <2>7 DEF Say, Transmit, Saying
  <2>9. /\ given'[Len(given')].line = line
        /\ LastAnswer' = AnswerBytes(Len(given) + 1, 2)
        /\ << >> \o LastAnswer' = LastAnswer' /\ LastAnswer' \o << >> = LastAnswer'
    BY <2>3, <2>6, <2>8, AnswerAlone, Zenon
  <2>10. down = << >> /\ wbuf' = << >> /\ mode \in { "verdict", "waiting" }
    BY <1>4, <2>3 DEF HandshakeReadLine, Asked, NothingDown
  <2>11. down' \o wbuf' = LastAnswer'
    BY <2>8, <2>9, <2>10
  <2>. QED
    BY <1>2, <2>4, <2>5, <2>6, <2>9, <2>10, <2>11 DEF Answered
<1>. QED
  BY <1>3, <1>4
\* A command that is run is answered, and the answer is all that is under way.
LEMMA AnswerInTurn ==
    ASSUME TypeOK, mode \in { "verdict", "waiting" }, ~broken, NothingDown, up' = << >>,
           UNCHANGED << mode, script >>, NEW line, line = Len(script),
           Answer(line) \/ Quit(line, << >>) \/ QuitWith(line)
    PROVE  Answered'
<1>1. line \in Nat /\ Len(given) + 1 \in Nat
  BY Typed
<1>. HIDE DEF Answered, NothingDown
<1>2. CASE Answer(line)
  <2>1. PICK size \in AnswerSizes, says \in { "OK", "ERR" } :
            /\ given' = Append(given, [ line |-> line, size |-> Least(size, WriteBuffer),
                                        says |-> says ])
            /\ wbuf' = AnswerBytes(Len(given) + 1, Least(size, WriteBuffer))
            /\ down' = down
    BY <1>2 DEF Answer
  <2>. DEFINE fits == Least(size, WriteBuffer)
  <2>2. fits \in Nat /\ says \in Saying
    <3>1. size \in Nat /\ WriteBuffer \in Nat
      BY MonitorAssumption
    <3>. QED
      BY <3>1, LeastType DEF Saying
  <2>. HIDE DEF fits
  <2>3. /\ given' = Append(given, [ line |-> line, size |-> fits, says |-> says ])
        /\ wbuf' = AnswerBytes(Len(given) + 1, fits) /\ down' = << >>
    BY <2>1 DEF fits, NothingDown
  <2>4. /\ given'[Len(given')].line = line
        /\ LastAnswer' = AnswerBytes(Len(given) + 1, fits)
        /\ << >> \o LastAnswer' = LastAnswer'
    BY <1>1, <2>2, <2>3, AnswerAlone, Zenon
  <2>. QED
    BY <2>3, <2>4 DEF Answered
<1>3. CASE Quit(line, << >>)
  <2>. DEFINE a == AnswerBytes(Len(given) + 1, 2)
              all == down \o a
  <2>1. /\ given' = Append(given, [ line |-> line, size |-> 2, says |-> "bye" ])
        /\ wbuf' = wbuf /\ down' = SubSeq(all, 1, Len(all))
    BY <1>3 DEF Quit
  <2>2. /\ given'[Len(given')].line = line
        /\ LastAnswer' = a
        /\ << >> \o LastAnswer' = LastAnswer' /\ LastAnswer' \o << >> = LastAnswer'
    <3>1. 2 \in Nat /\ "bye" \in Saying
      BY DEF Saying
    <3>. QED
      BY <1>1, <2>1, <3>1, AnswerAlone, Zenon
  <2>3. a \in Seq(Nat \X Nat)
    BY <1>1, MessageType
  <2>. HIDE DEF a
  <2>4. all = a
    BY <2>2 DEF NothingDown
  <2>5. SubSeq(all, 1, Len(all)) = a
    BY <2>3, <2>4, SubSeqFull, Zenon
  <2>6. down' \o wbuf' = LastAnswer'
    BY <2>1, <2>2, <2>5 DEF NothingDown
  <2>. QED
    BY <2>2, <2>6 DEF Answered
<1>4. CASE QuitWith(line)
  <2>1. /\ given' = Append(given, [ line |-> line, size |-> 2, says |-> "bye" ])
        /\ wbuf' = AnswerBytes(Len(given) + 1, 2) /\ down' = << >>
    BY <1>4 DEF QuitWith, NothingDown
  <2>2. /\ given'[Len(given')].line = line
        /\ LastAnswer' = AnswerBytes(Len(given) + 1, 2)
        /\ << >> \o LastAnswer' = LastAnswer'
    <3>1. 2 \in Nat /\ "bye" \in Saying
      BY DEF Saying
    <3>. QED
      BY <1>1, <2>1, <3>1, AnswerAlone, Zenon
  <2>. QED
    BY <2>1, <2>2 DEF Answered
<1>. QED
  BY <1>2, <1>3, <1>4

LEMMA CommandReadInTurn == TurnInv /\ CommandRead => InTurn'
<1>. SUFFICES ASSUME TurnInv, CommandRead, intact', mode' # "left"
              PROVE  rbuf' = Empty /\ (Answered' \/ Unanswered')
  BY DEF InTurn
<1>1. LineMax \in Nat
  BY MonitorAssumption
<1>2. UNCHANGED << mode, script >> /\ mode # "left" /\ state = "COMMAND_READ"
  BY DEF CommandRead, client
<1>3. PICK n \in Arrivals :
          LET b    == Received(n)
              text == SubSeq(b.bytes, 1, TextLength(b.bytes, LineMax))
              rest == SubSeq(up, n + 1, Len(up))
          IN  /\ \/ UNCHANGED << wbuf, down >>
                 \/ /\ text # << >>
                    /\ \/ Answer(text[1][1])
                       \/ Quit(text[1][1], rest)
                       \/ QuitWith(text[1][1])
              /\ rbuf' = Drop(b, Taken(b.bytes, LineMax))
              /\ up' = rest
              /\ intact' = (intact /\ ArrivesWhole(n, LineMax))
  BY DEF CommandRead, Arrive
<1>. DEFINE b    == Received(n)
            text == SubSeq(b.bytes, 1, TextLength(b.bytes, LineMax))
            rest == SubSeq(up, n + 1, Len(up))
<1>4. /\ rbuf' = Drop(b, Taken(b.bytes, LineMax))
      /\ up' = rest
      /\ intact' = (intact /\ ArrivesWhole(n, LineMax))
  BY <1>3, Zenon
<1>5. TypeOK /\ rbuf = Empty /\ Asked /\ ArrivesWhole(n, LineMax) /\ ~broken
  BY <1>2, <1>4, Arriving
<1>6. /\ n = Len(up) /\ b.bytes = LastLine /\ rest = << >>
      /\ Drop(b, Taken(b.bytes, LineMax)) = Empty
      /\ TextLength(b.bytes, LineMax) = script[Len(script)].size
  BY <1>1, <1>5, LineArrives, Zenon
<1>7. rbuf' = Empty /\ up' = << >> /\ NothingDown /\ mode \in { "verdict", "waiting" }
  BY <1>4, <1>5, <1>6 DEF Asked
<1>8. CASE UNCHANGED << wbuf, down >>
  BY <1>2, <1>7, <1>8 DEF Unanswered, NothingDown
<1>9. CASE /\ text # << >>
           /\ Answer(text[1][1]) \/ Quit(text[1][1], rest) \/ QuitWith(text[1][1])
  <2>1. text[1][1] = Len(script)
    <3>. DEFINE k == Len(script)
                size == script[k].size
    <3>1. size \in Nat /\ k \in Nat
      <4>1. script \in Seq([ size : Nat, kind : Credentials \cup Command ])
        BY <1>5, Typed
      <4>2. k \in 1 .. Len(script)
        BY <1>5, <4>1 DEF Asked
      <4>3. script[k] \in [ size : Nat, kind : Credentials \cup Command ]
        BY <4>1, <4>2, ElementOfSeq
      <4>. QED
        BY <4>2, <4>3
    <3>2. text = SubSeq(LineBytes(k, size), 1, size)
      BY <1>6 DEF LastLine
    <3>. HIDE DEF k, size, text
    <3>3. text = [i \in 1 .. size |-> << k, i >>] /\ size # 0
      BY <1>9, <3>1, <3>2 DEF LineBytes
    <3>4. text[1] = << k, 1 >>
      BY <3>1, <3>3
    <3>. QED
      BY <3>4 DEF k
  <2>. HIDE DEF text
  <2>2. Answer(text[1][1]) \/ Quit(text[1][1], << >>) \/ QuitWith(text[1][1])
    BY <1>6, <1>9
  <2>3. Answered'
    BY <1>2, <1>5, <1>7, <2>1, <2>2, AnswerInTurn, Zenon
  <2>. QED
    BY <1>7, <2>3
<1>10. \/ UNCHANGED << wbuf, down >>
       \/ /\ text # << >>
          /\ Answer(text[1][1]) \/ Quit(text[1][1], rest) \/ QuitWith(text[1][1])
  BY <1>3, Zenon
<1>. QED
  BY <1>8, <1>9, <1>10
\* An answer that is sent in parts stays the same answer.
LEMMA SendSomeInTurn ==
    ASSUME TurnInv, NEW here, NEW next, SendSome(here, next)
    PROVE  InTurn'
<1>. SUFFICES ASSUME intact', mode' # "left"
              PROVE  rbuf' = Empty /\ Answered'
  BY DEF InTurn
<1>1. PICK n \in 1 .. Len(wbuf) :
          /\ Transmit(SubSeq(wbuf, 1, n))
          /\ wbuf' = SubSeq(wbuf, n + 1, Len(wbuf))
  BY DEF SendSome
<1>2. UNCHANGED << rbuf, given, up, mode, script, intact >>
  BY DEF SendSome, client
<1>3. TypeOK /\ wbuf # << >>
  BY DEF TurnInv, AnswersInv
<1>4. rbuf = Empty /\ Answered
  BY <1>2, <1>3 DEF TurnInv, InTurn, Asked, Shown, Unanswered, NothingDown
<1>5. down' \o wbuf' = down \o wbuf
  <2>1. down' = down \o SubSeq(wbuf, 1, n)
    BY <1>1, <1>2 DEF Transmit
  <2>2. n \in 0 .. Len(wbuf)
    OBVIOUS
  <2>. QED
    BY <1>1, <1>3, <2>1, <2>2, Typed, Moved
<1>. QED
  BY <1>2, <1>4, <1>5 DEF Answered, LastAnswer

\* A whole answer that is received is the last one, and nothing is left of it.
LEMMA ReceiveInTurn ==
    ASSUME TurnInv, NEW s \in Pieces, NEW next \in { "login", "typing" }, Receive(s, next),
           mode # "left"
    PROVE  InTurn'
<1>. SUFFICES ASSUME intact'
              PROVE  rbuf' = Empty /\ Shown'
  BY DEF InTurn
<1>. DEFINE k == Len(given)
            size == given[k].size
<1>1. TypeOK /\ intact /\ IsWholeAnswer(s) /\ mode' = next
  BY DEF TurnInv, AnswersInv, Receive
<1>2. UNCHANGED << rbuf, wbuf, given, up, script >>
  BY DEF Receive, server
<1>3. /\ Len(s) \in 1 .. Len(down) /\ \A i \in 1 .. Len(s) : s[i] = down[i]
      /\ Len(down) \in Nat /\ Len(wbuf) \in Nat
      /\ down \in Seq(Nat \X Nat) /\ wbuf \in Seq(Nat \X Nat)
  BY <1>1, PieceType, Typed
<1>4. rbuf = Empty /\ Answered
  BY <1>1, <1>3 DEF TurnInv, InTurn, Asked, Shown, Unanswered, NothingDown
<1>5. k \in Nat /\ size \in Nat
  <2>1. given \in Seq(AnswerRecord) /\ k \in 1 .. Len(given)
    BY <1>1, Typed DEF TurnInv, AnswersInv, Answers, AnswerRecord
  <2>2. given[k] \in AnswerRecord
    BY <2>1, ElementOfSeq
  <2>. QED
    BY <2>1, <2>2 DEF AnswerRecord
<1>6. /\ Len(down) + Len(wbuf) = size
      /\ \A i \in 1 .. Len(down) : down[i] = << k, i >>
  <2>1. down \o wbuf = AnswerBytes(k, size)
    BY <1>4 DEF Answered, LastAnswer
  <2>. HIDE DEF k, size
  <2>2. /\ Len(AnswerBytes(k, size)) = size
        /\ \A i \in 1 .. size : AnswerBytes(k, size)[i] = << k, i >>
    BY <1>5 DEF AnswerBytes
  <2>3. /\ Len(down \o wbuf) = Len(down) + Len(wbuf)
        /\ \A i \in 1 .. Len(down) : (down \o wbuf)[i] = down[i]
    BY <1>3, ConcatProperties
  <2>. DEFINE a == AnswerBytes(k, size)
              c == down \o wbuf
  <2>. HIDE DEF a, c
  <2>4. Len(c) = size /\ Len(c) = Len(down) + Len(wbuf)
    BY <2>1, <2>2, <2>3 DEF a, c
  <2>5. ASSUME NEW i \in 1 .. Len(down)
        PROVE  down[i] = << k, i >>
    <3>1. i \in 1 .. size
      BY <1>3, <2>4
    <3>2. a[i] = << k, i >> /\ c[i] = down[i] /\ a = c
      BY <2>1, <2>2, <2>3, <3>1 DEF a, c
    <3>. QED
      BY <3>2
  <2>. QED
    BY <2>4, <2>5
<1>. HIDE DEF k, size
<1>7. Len(s) = size /\ s[Len(s)] = << k, size >>
  <2>1. s[1] = << k, 1 >> /\ s[Len(s)] = << k, Len(s) >>
    <3>1. /\ 1 \in 1 .. Len(s) /\ Len(s) \in 1 .. Len(s)
          /\ 1 \in 1 .. Len(down) /\ Len(s) \in 1 .. Len(down)
      BY <1>3
    <3>. QED
      BY <1>3, <1>6, <3>1, Zenon
  <2>2. s = [i \in 1 .. given[k].size |-> << k, i >>]
    BY <1>1, <2>1 DEF IsWholeAnswer
  <2>3. Len(s) = size
    BY <1>5, <2>2 DEF size
  <2>. QED
    BY <2>1, <2>3
<1>8. Len(down) = Len(s) /\ Len(wbuf) = 0
  BY <1>3, <1>6, <1>7
<1>9. wbuf = << >> /\ SubSeq(down, Len(s) + 1, Len(down)) = << >>
  <2>1. wbuf = << >>
    BY <1>3, <1>8
  <2>2. Len(s) + 1 \in Int /\ Len(down) \in Int /\ Len(down) < Len(s) + 1
    BY <1>3, <1>8
  <2>. QED
    BY <2>1, <2>2, SubSeqEmpty
<1>10. down' = << >> /\ got'[1] = k
  BY <1>7, <1>9 DEF Receive
<1>. QED
  BY <1>1, <1>2, <1>4, <1>9, <1>10 DEF Shown, NothingDown, Answered, k

\* A line is typed only when the answer to the one before is on the screen.
LEMMA TypeInTurn ==
    ASSUME TurnInv, NEW n \in Nat, NEW kind \in Credentials \cup Command, Type(n, kind),
           mode \in { "login", "typing" }, mode' \in { "verdict", "waiting" }
    PROVE  InTurn'
<1>. SUFFICES ASSUME intact'
              PROVE  rbuf' = Empty /\ Asked'
  BY DEF InTurn
<1>1. TypeOK /\ intact /\ UNCHANGED << rbuf, wbuf, down >>
  BY DEF TurnInv, AnswersInv, Type, server
<1>2. rbuf = Empty /\ Shown
  BY <1>1 DEF TurnInv, InTurn, Asked, Answered, Unanswered
<1>3. /\ Len(script') = Len(script) + 1
      /\ script'[Len(script) + 1] = [ size |-> n, kind |-> kind ]
      /\ script' \in Seq([ size : Nat, kind : Credentials \cup Command ])
  BY <1>1, ScriptType
<1>4. Len(script) \in Nat
  BY <1>1, Typed
<1>5. LastLine' = LineBytes(Len(script) + 1, n)
  BY <1>3 DEF LastLine, LineBytes
<1>6. up' = LineBytes(Len(script) + 1, n)
  <2>. DEFINE L == LineBytes(Len(script) + 1, n)
  <2>1. L \in Seq(Nat \X Nat)
    BY <1>4, MessageType
  <2>2. up' = << >> \o L
    BY <1>2 DEF Type, Shown
  <2>. HIDE DEF L
  <2>. QED
    BY <2>1, <2>2, ConcatEmptySeq DEF L
<1>7. script' # << >>
  BY <1>3, <1>4
<1>. QED
  BY <1>1, <1>2, <1>5, <1>6, <1>7 DEF Asked, Shown, NothingDown

LEMMA TurnNext == TurnInv /\ [Next]_vars => TurnInv'
<1>. SUFFICES ASSUME TurnInv, [Next]_vars PROVE InTurn'
  BY AnswersNext DEF TurnInv
<1>1. AnswersInv /\ InTurn
  BY DEF TurnInv
<1>2. CASE HandshakeWrite \/ CommandWrite
  BY <1>2, SendSomeInTurn DEF HandshakeWrite, CommandWrite
<1>3. CASE HandshakeReadPart \/ HandshakeReadLine
  BY <1>3, HandshakeReadInTurn
<1>4. CASE CommandRead
  BY <1>4, CommandReadInTurn
<1>5. CASE CommandReadFails \/ SendFails \/ Sweep \/ Over \/ UNCHANGED vars
  <2>1. UNCHANGED << rbuf, wbuf, given, up, down, mode, script, got, intact >>
    BY <1>5 DEF CommandReadFails, SendFails, Sweep, Over, vars, server, network, client
  <2>. QED
    BY <1>1, <2>1 DEF InTurn, Asked, Answered, Shown, Unanswered, NothingDown, LastLine,
                      LastAnswer
<1>6. CASE ReadBanner \/ ReadVerdict \/ ReadAnswer
  <2>1. PICK s \in Pieces, next \in { "login", "typing", "left" } :
            Receive(s, next) /\ mode # "left"
    BY <1>6 DEF ReadBanner, ReadVerdict, ReadAnswer
  <2>2. CASE next = "left"
    BY <2>1, <2>2 DEF Receive, InTurn
  <2>3. CASE next # "left"
    BY <2>1, <2>3, ReceiveInTurn
  <2>. QED
    BY <2>2, <2>3
<1>7. CASE SeeClose \/ Leave
  BY <1>7 DEF SeeClose, Leave, InTurn
<1>8. CASE TypeCredentials
  BY <1>8, TypeInTurn, MonitorAssumption DEF TypeCredentials
<1>9. CASE TypeCommand
  BY <1>9, TypeInTurn, MonitorAssumption DEF TypeCommand
<1>. QED
  BY <1>2, <1>3, <1>4, <1>5, <1>6, <1>7, <1>8, <1>9 DEF Next, Serve, ClientReads

LEMMA TurnAlways == Spec => []TurnInv
  BY TurnInit, TurnNext, PTL DEF Spec

\* As long as messages arrive whole and lines are shorter than what the server
\* reads, the answer that the client shows is that of the line just typed: the
\* loops of monitor_client.c and monitor_handler.c never run apart by one.
THEOREM AnswersMatchLines == Spec => []InStep
<1>1. TurnInv => InStep
  <2>. SUFFICES ASSUME TurnInv, intact, mode = "typing"
                PROVE  given[got[1]].line = Len(script)
    BY DEF InStep
  <2>1. Shown
    BY DEF TurnInv, InTurn, Asked, Answered, Unanswered
  <2>. QED
    BY <2>1 DEF Shown
<1>. QED
  BY <1>1, TurnAlways, PTL
=============================================================================
