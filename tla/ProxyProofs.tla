---------------------------- MODULE ProxyProofs ----------------------------
(***************************************************************************)
(* Proofs about Proxy.tla, for any number of connections, threads and      *)
(* descriptors and any behaviour of the peers.                             *)
(*                                                                         *)
(* The handlers are functions from a process state p to the set of process *)
(* states they can leave, so most lemmas are about such states: Sound(p)   *)
(* is the part of the inductive invariant that speaks of p, and Follows    *)
(* says that a state is sound again and has forgotten no client_fd.        *)
(***************************************************************************)
EXTENDS Proxy, FiniteSetTheorems, WellFoundedInduction, TLAPS

RefsCount(p)    == \A c \in Conns : p.conn[c].refs = Cardinality(Held(p, c))
TableIsOpen(p)  == p.crash = "no" => p.open = { f \in Fds : Registered(p, f) }
ClientsKnown(p) == \A c \in Conns : Live(p, c) => p.conn[c].client \in Fds
OwnersKnow(p)   ==
    p.crash = "no" => \A c \in Conns :
        Held(p, c) \subseteq { p.conn[c].client, p.conn[c].origin }

\* The list that goes with an origin, or with addresses to try, was assigned.
Assigned(r)      == r.origin # NoFd \/ r.addrs > 0 => r.res # "junk"
ListsAssigned(p) == \A c \in Conns : Assigned(p.conn[c])

Sound(p) ==
    /\ p \in Process
    /\ RefsCount(p)
    /\ TableIsOpen(p)
    /\ ClientsKnown(p)
    /\ OwnersKnow(p)
    /\ ListsAssigned(p)

Follows(p, q) ==
    /\ Sound(q)
    /\ \A c \in Conns : p.conn[c].client \in Fds => q.conn[c].client \in Fds

\* q differs from p only in what the table and the references do not show.
Alike(p, q) ==
    /\ q \in Process
    /\ q.open = p.open
    /\ q.crash = p.crash
    /\ \A f \in Fds : q.item[f].owner = p.item[f].owner
    /\ \A c \in Conns : /\ q.conn[c].refs = p.conn[c].refs
                        /\ q.conn[c].client = p.conn[c].client
                        /\ q.conn[c].origin = p.conn[c].origin
                        /\ Assigned(p.conn[c]) => Assigned(q.conn[c])

-----------------------------------------------------------------------------
LEMMA FdsFinite ==
    /\ IsFiniteSet(Fds)
    /\ \A p, c : Held(p, c) \subseteq Fds /\ IsFiniteSet(Held(p, c))
  <1>1. IsFiniteSet(Fds)
    BY FS_Interval, ProxyAssumption DEF Fds
  <1>2. QED
    BY <1>1, FS_Subset DEF Held

\* The processes, field by field.
LEMMA Fields ==
    ASSUME NEW p, p \in Process
    PROVE  /\ p.conn \in [Conns -> Connection]
           /\ p.item \in [Fds -> Item]
           /\ p.open \in SUBSET Fds
           /\ p.current \in 0 .. MaxConnections
           /\ p.active \in SUBSET Names
           /\ p.crash \in { "no", "abort", "sigpipe", "undefined" }
  BY DEF Process

\* A state that looks alike is as sound.
LEMMA AlikeFollows ==
    ASSUME NEW p, Sound(p), NEW q, Alike(p, q)
    PROVE  Follows(p, q)
  <1>1. \A c : Held(q, c) = Held(p, c)
    BY DEF Alike, Held
  <1>2. \A f : Registered(q, f) <=> Registered(p, f)
    BY DEF Alike, Registered
  <1>3. RefsCount(q)
    BY <1>1 DEF Alike, Sound, RefsCount
  <1>4. TableIsOpen(q)
    BY <1>2 DEF Alike, Sound, TableIsOpen
  <1>5. ClientsKnown(q)
    BY DEF Alike, Sound, ClientsKnown, Live
  <1>6. OwnersKnow(q) /\ ListsAssigned(q)
    BY <1>1 DEF Alike, Sound, OwnersKnow, ListsAssigned
  <1>7. QED
    BY <1>3, <1>4, <1>5, <1>6 DEF Follows, Sound, Alike

LEMMA FollowsTrans ==
    ASSUME NEW p, NEW q, NEW r, Follows(p, q), Follows(q, r)
    PROVE  Follows(p, r)
  BY DEF Follows

LEMMA CrashFollows ==
    ASSUME NEW p, Sound(p), NEW why \in { "abort", "sigpipe", "undefined" }
    PROVE  Follows(p, Crash(p, why))
  <1>1. Crash(p, why) \in Process
    BY DEF Sound, Process, Crash
  <1>2. \A c : Held(Crash(p, why), c) = Held(p, c)
    BY <1>1 DEF Sound, Process, Crash, Held
  <1>3. Crash(p, why).crash = why /\ Crash(p, why).conn = p.conn
    BY DEF Sound, Process, Crash
  <1>4. QED
    BY <1>1, <1>2, <1>3
       DEF Sound, Follows, RefsCount, TableIsOpen, ClientsKnown, Live,
           OwnersKnow, ListsAssigned

LEMMA SetInterestAlike ==
    ASSUME NEW p, p \in Process, NEW f \in Fds, NEW i \in Interest
    PROVE  Alike(p, SetInterest(p, f, i))
  <1> DEFINE e == [ owner |-> p.item[f].owner, interest |-> i,
                    late |-> IF i = "noop" THEN p.item[f].late ELSE FALSE ]
  <1>1. e \in Item
    BY DEF Process, Item
  <1>2. SetInterest(p, f, i) = [p EXCEPT !.item[f] = e]
    BY DEF SetInterest
  <1> HIDE DEF e
  <1>3. e.owner = p.item[f].owner
    BY DEF e
  <1>4. QED
    BY <1>1, <1>2, <1>3 DEF Alike, Process

LEMMA StampAlike ==
    ASSUME NEW p, p \in Process, NEW f
    PROVE  Alike(p, Stamp(p, f))
  <1>1. CASE Registered(p, f)
    BY <1>1, ZenonT(60) DEF Alike, Stamp, Registered, Process, Item
  <1>2. CASE ~Registered(p, f)
    BY <1>2 DEF Alike, Stamp
  <1>3. QED
    BY <1>1, <1>2

-----------------------------------------------------------------------------
(***************************************************************************)
(* Unregistering and closing.                                              *)
(***************************************************************************)
LEMMA DroppedType ==
    ASSUME NEW p, Sound(p), NEW fs \in SUBSET Fds
    PROVE  /\ Dropped(p, fs) \in [Conns -> Connection]
           /\ \A c \in Conns :
                /\ Dropped(p, fs)[c].refs = Cardinality(Held(p, c) \ fs)
                /\ Dropped(p, fs)[c].client = p.conn[c].client
           /\ \A c \in Conns :
                Dropped(p, fs)[c].refs = 0 \/ Dropped(p, fs)[c].origin = p.conn[c].origin
           /\ \A c \in Conns : Assigned(Dropped(p, fs)[c])
  <1> SUFFICES ASSUME NEW c \in Conns
               PROVE  /\ Dropped(p, fs)[c] \in Connection
                      /\ Dropped(p, fs)[c].refs = Cardinality(Held(p, c) \ fs)
                      /\ Dropped(p, fs)[c].client = p.conn[c].client
                      /\ \/ Dropped(p, fs)[c].refs = 0
                         \/ Dropped(p, fs)[c].origin = p.conn[c].origin
                      /\ Assigned(Dropped(p, fs)[c])
    BY DEF Dropped
  <1> DEFINE k == Cardinality(Held(p, c) \cap fs)
             r == p.conn[c]
  <1>1. r \in Connection /\ r.refs = Cardinality(Held(p, c)) /\ Assigned(r)
    BY DEF Sound, Process, RefsCount, ListsAssigned
  <1>2. /\ Cardinality(Held(p, c) \ fs) = Cardinality(Held(p, c)) - k
        /\ k \in Nat /\ Cardinality(Held(p, c) \ fs) \in Nat
        /\ Cardinality(Held(p, c)) \in Nat
    BY FdsFinite, FS_Difference, FS_Intersection, FS_CardinalityType
  <1>3. Dropped(p, fs)[c] = IF k = 0 THEN r
                            ELSE IF r.refs > k
                                 THEN [r EXCEPT !.refs = @ - k, !.res = "null"]
                                 ELSE Freed(r)
    BY DEF Dropped
  <1> HIDE DEF k, r
  <1>4. CASE k = 0
    BY <1>1, <1>2, <1>3, <1>4 DEF r
  <1>5. CASE k # 0 /\ r.refs > k
    <2>1. r.refs - k \in Nat
      BY <1>1, <1>2, <1>5
    <2>2. QED
      BY <1>1, <1>2, <1>3, <1>5, <2>1, ZenonT(60) DEF r, Connection, Assigned
  <1>6. CASE k # 0 /\ ~(r.refs > k)
    <2>1. /\ Freed(r) \in Connection /\ Freed(r).refs = 0 /\ Freed(r).client = r.client
          /\ Assigned(Freed(r))
      BY <1>1, ProxyAssumption DEF Freed, Connection, States, Names, NoFd, Assigned
    <2>2. QED
      BY <1>1, <1>2, <1>3, <1>6, <2>1 DEF r
  <1>7. QED
    BY <1>4, <1>5, <1>6

LEMMA ClosedFollows ==
    ASSUME NEW p, Sound(p), NEW fs \in SUBSET Fds
    PROVE  /\ Follows(p, Closed(p, fs))
           /\ Closed(p, fs).crash = p.crash
           /\ \A f \in Fds : f \in fs => ~Registered(Closed(p, fs), f)
  <1> DEFINE q == Closed(p, fs)
             D == Dropped(p, fs)
             I == [f \in Fds |-> IF f \in fs THEN Unused ELSE p.item[f]]
  <1>1. q = [p EXCEPT !.conn = D, !.item = I, !.open = @ \ fs]
    BY DEF Closed
  <1>2. I \in [Fds -> Item]
    BY DEF Sound, Process, Item, Unused, Interest
  <1>3. /\ D \in [Conns -> Connection]
        /\ \A c \in Conns : /\ D[c].refs = Cardinality(Held(p, c) \ fs)
                             /\ D[c].client = p.conn[c].client
    BY DroppedType
  <1>0. /\ \A c \in Conns : D[c].refs = 0 \/ D[c].origin = p.conn[c].origin
        /\ \A c \in Conns : Assigned(D[c])
    BY DroppedType
  <1>4. /\ q \in Process /\ q.conn = D /\ q.item = I
        /\ q.open = p.open \ fs /\ q.crash = p.crash
    <2> HIDE DEF D, I, q
    <2>1. QED
      BY <1>1, <1>2, <1>3 DEF Sound, Process
  <1>5. \A c \in Conns : Held(q, c) = Held(p, c) \ fs
    BY <1>4, ProxyAssumption DEF Held, Unused
  <1>6. \A f \in Fds : Registered(q, f) <=> Registered(p, f) /\ f \notin fs
    BY <1>4 DEF Registered, Unused
  <1> HIDE DEF q, D, I
  <1>7. RefsCount(q)
    BY <1>3, <1>4, <1>5 DEF RefsCount
  <1>8. TableIsOpen(q)
    BY <1>4, <1>6 DEF Sound, TableIsOpen
  <1>9. ClientsKnown(q)
    <2> SUFFICES ASSUME NEW c \in Conns, D[c].refs > 0
                 PROVE  p.conn[c].client \in Fds
      BY <1>3, <1>4 DEF ClientsKnown, Live
    <2>1. /\ Held(p, c) \ fs \in SUBSET Held(p, c)
          /\ Cardinality(Held(p, c)) \in Nat
          /\ Cardinality(Held(p, c) \ fs) \in Nat
          /\ Cardinality(Held(p, c) \ fs) <= Cardinality(Held(p, c))
      BY FdsFinite, FS_Subset, FS_CardinalityType
    <2>2. p.conn[c].refs > 0
      BY <1>3, <2>1 DEF Sound, RefsCount
    <2>3. QED
      BY <2>2 DEF Sound, ClientsKnown, Live
  <1>10. OwnersKnow(q)
    <2> SUFFICES ASSUME q.crash = "no", NEW c \in Conns, NEW f \in Held(q, c)
                 PROVE  f \in { q.conn[c].client, q.conn[c].origin }
      BY DEF OwnersKnow
    <2>1. f \in Held(p, c) \ fs /\ IsFiniteSet(Held(p, c) \ fs)
      BY <1>5, FdsFinite, FS_Difference
    <2>2. q.conn[c].refs # 0
      BY <1>3, <1>4, <2>1, FS_EmptySet
    <2>3. f \in { p.conn[c].client, p.conn[c].origin }
      BY <1>4, <2>1 DEF Sound, OwnersKnow
    <2>4. QED
      BY <1>0, <1>3, <1>4, <2>2, <2>3
  <1>11. ListsAssigned(q)
    BY <1>0, <1>4 DEF ListsAssigned
  <1>12. QED
    BY <1>3, <1>4, <1>6, <1>7, <1>8, <1>9, <1>10, <1>11 DEF Follows, Sound, q

LEMMA GaugesAlike ==
    ASSUME NEW p, p \in Process,
           NEW n \in 0 .. MaxConnections, NEW s \in SUBSET Names
    PROVE  Alike(p, [p EXCEPT !.current = n, !.active = s])
  BY DEF Alike, Process

LEMMA FinishFollows ==
    ASSUME NEW p, Sound(p), NEW c \in Conns
    PROVE  Follows(p, Finish(p, c))
  <1> DEFINE fs == { p.conn[c].client, p.conn[c].origin } \ {NoFd}
             n  == IF p.current > 0 THEN p.current - 1 ELSE 0
             s  == p.active \ { p.conn[c].user }
             q  == [p EXCEPT !.current = n, !.active = s]
  <1>1. p \in Process
    BY DEF Sound
  <1>2. n \in 0 .. MaxConnections /\ s \in SUBSET Names
    BY <1>1, ProxyAssumption DEF Process
  <1>3. fs \in SUBSET Fds
    BY <1>1 DEF Process, Connection
  <1>4. Finish(p, c) = IF \A f \in fs : Registered(p, f) THEN Closed(q, fs)
                                                        ELSE Crash(q, "abort")
    BY DEF Finish
  <1> HIDE DEF n, s, fs
  <1>5. Follows(p, q)
    BY <1>1, <1>2, GaugesAlike, AlikeFollows
  <1> HIDE DEF q
  <1>6. Follows(q, Closed(q, fs)) /\ Follows(q, Crash(q, "abort"))
    BY <1>3, <1>5, ClosedFollows, CrashFollows DEF Follows
  <1>7. QED
    BY <1>4, <1>5, <1>6, FollowsTrans

-----------------------------------------------------------------------------
(***************************************************************************)
(* The handlers before an origin descriptor exists.                        *)
(***************************************************************************)
\* Only the given fields of one connection change.
LEMMA ConnAlike ==
    ASSUME NEW p, p \in Process, NEW c \in Conns, NEW r \in Connection,
           r.refs = p.conn[c].refs, r.client = p.conn[c].client,
           r.origin = p.conn[c].origin, Assigned(p.conn[c]) => Assigned(r),
           NEW q, q = [p EXCEPT !.conn[c] = r]
    PROVE  Alike(p, q)
  BY DEF Alike, Process

LEMMA ConnFollows ==
    ASSUME NEW p, Sound(p), NEW c \in Conns, NEW r \in Connection,
           r.refs = p.conn[c].refs, r.client = p.conn[c].client,
           r.origin = p.conn[c].origin, Assigned(p.conn[c]) => Assigned(r)
    PROVE  Follows(p, [p EXCEPT !.conn[c] = r])
  BY ConnAlike, AlikeFollows DEF Sound

LEMMA StateFollows ==
    ASSUME NEW p, Sound(p), NEW c \in Conns, NEW v \in States
    PROVE  Follows(p, [p EXCEPT !.conn[c].state = v])
  <1>1. p.conn[c] \in Connection
    BY DEF Sound, Process
  <1>2. /\ [p.conn[c] EXCEPT !.state = v] \in Connection
        /\ [p.conn[c] EXCEPT !.state = v].refs = p.conn[c].refs
        /\ [p.conn[c] EXCEPT !.state = v].client = p.conn[c].client
        /\ [p.conn[c] EXCEPT !.state = v].origin = p.conn[c].origin
        /\ Assigned(p.conn[c]) => Assigned([p.conn[c] EXCEPT !.state = v])
    BY <1>1 DEF Connection, Assigned
  <1>3. QED
    BY <1>2, ConnFollows

Replies == { "none", "method", "auth", "granted", "refused", "data" }

LEMMA ReplyFollows ==
    ASSUME NEW p, Sound(p), NEW c \in Conns, NEW v \in Replies
    PROVE  Follows(p, [p EXCEPT !.conn[c].reply = v])
  <1>1. p.conn[c] \in Connection
    BY DEF Sound, Process
  <1>2. /\ [p.conn[c] EXCEPT !.reply = v] \in Connection
        /\ [p.conn[c] EXCEPT !.reply = v].refs = p.conn[c].refs
        /\ [p.conn[c] EXCEPT !.reply = v].client = p.conn[c].client
        /\ [p.conn[c] EXCEPT !.reply = v].origin = p.conn[c].origin
        /\ Assigned(p.conn[c]) => Assigned([p.conn[c] EXCEPT !.reply = v])
    BY <1>1 DEF Connection, Assigned, Replies
  <1>3. QED
    BY <1>2, ConnFollows

LEMMA SendFailuresFollow ==
    ASSUME NEW p, Sound(p), NEW c \in Conns
    PROVE  \A q \in SendFailures(p, c) : Follows(p, q)
  <1>1. Follows(p, Finish(p, c)) /\ Follows(p, Crash(p, "sigpipe"))
    BY FinishFollows, CrashFollows
  <1>2. QED
    BY <1>1 DEF SendFailures

LEMMA HangUpFollows ==
    ASSUME NEW p, Sound(p), NEW c \in Conns
    PROVE  \A q \in HangUp(p, c) : Follows(p, q)
  BY FinishFollows DEF HangUp

LEMMA SelfFollows ==
    ASSUME NEW p, Sound(p)
    PROVE  Follows(p, p)
  BY DEF Follows

LEMMA RespondFollows ==
    ASSUME NEW p, Sound(p), NEW f \in Fds, NEW c \in Conns,
           NEW current \in States, NEW next \in States, NEW i \in Interest
    PROVE  \A q \in Respond(p, f, c, current, next, i) : Follows(p, q)
  <1> DEFINE sent == [p EXCEPT !.conn[c].reply = "none", !.conn[c].state = next]
             kept == [p EXCEPT !.conn[c].state = current]
  <1>1. p \in Process
    BY DEF Sound
  <1>2. Follows(p, sent)
    <2> DEFINE m == [p EXCEPT !.conn[c].reply = "none"]
    <2>1. Follows(p, m)
      BY ReplyFollows DEF Replies
    <2>2. sent = [m EXCEPT !.conn[c].state = next]
      OBVIOUS
    <2> HIDE DEF m
    <2>3. Follows(m, [m EXCEPT !.conn[c].state = next])
      BY <2>1, StateFollows DEF Follows
    <2>4. QED
      BY <2>1, <2>2, <2>3, FollowsTrans
  <1>3. Follows(p, kept)
    BY StateFollows
  <1>4. Follows(p, SetInterest(sent, f, i))
    <2> HIDE DEF sent
    <2>1. Follows(sent, SetInterest(sent, f, i))
      BY <1>2, SetInterestAlike, AlikeFollows DEF Follows, Sound
    <2>2. QED
      BY <1>2, <2>1, FollowsTrans
  <1>6. \A q \in SendFailures(p, c) : Follows(p, q)
    BY SendFailuresFollow
  <1>7. Follows(p, p)
    BY SelfFollows
  <1>8. Respond(p, f, c, current, next, i) \subseteq
           {p, SetInterest(sent, f, i), kept} \cup SendFailures(p, c)
    BY DEF Respond
  <1> HIDE DEF sent, kept
  <1>9. QED
    BY <1>3, <1>4, <1>6, <1>7, <1>8

LEMMA HelloWritesFollow ==
    ASSUME NEW p, Sound(p), NEW f \in Fds, NEW c \in Conns
    PROVE  /\ \A q \in HelloWrite(p, f, c) : Follows(p, q)
           /\ \A q \in HelloToAuthWrite(p, f, c) : Follows(p, q)
           /\ \A q \in AuthWrite(p, f, c) : Follows(p, q)
           /\ \A q \in AuthFailedWrite(p, f, c) : Follows(p, q)
  <1>1. /\ {"hello", "request", "hello_to_auth", "auth", "auth_failed"} \subseteq States
        /\ {"read", "write"} \subseteq Interest
    BY DEF States, Interest
  <1>2. \A q \in HelloWrite(p, f, c) : Follows(p, q)
    BY <1>1, RespondFollows DEF HelloWrite
  <1>3. \A q \in HelloToAuthWrite(p, f, c) : Follows(p, q)
    BY <1>1, RespondFollows DEF HelloToAuthWrite
  <1>4. \A q \in AuthWrite(p, f, c) : Follows(p, q)
    BY <1>1, RespondFollows DEF AuthWrite
  <1>5. \A q \in AuthFailedWrite(p, f, c) : Follows(p, q)
    <2>1. CASE p.conn[c].reply = "none"
      <3>1. Follows(p, [p EXCEPT !.conn[c].state = "auth"])
        BY StateFollows DEF States
      <3>2. QED
        BY <2>1, <3>1 DEF AuthFailedWrite
    <2>2. CASE p.conn[c].reply # "none"
      BY <1>1, <2>2, RespondFollows DEF AuthFailedWrite
    <2>3. QED
      BY <2>1, <2>2
  <1>6. QED
    BY <1>2, <1>3, <1>4, <1>5

LEMMA ReplyingFollows ==
    ASSUME NEW p, Sound(p), NEW f \in Fds, NEW c \in Conns,
           NEW r \in { "method", "auth", "refused" }
    PROVE  Follows(p, Replying(p, f, c, r))
  <1> DEFINE q == [p EXCEPT !.conn[c].reply = r]
  <1>1. Follows(p, q)
    BY ReplyFollows DEF Replies
  <1> HIDE DEF q
  <1>2. Follows(q, SetInterest(q, f, "write"))
    BY <1>1, SetInterestAlike, AlikeFollows DEF Follows, Sound, Interest
  <1>3. QED
    BY <1>1, <1>2, FollowsTrans DEF Replying, q

LEMMA NamedFollows ==
    ASSUME NEW p, Sound(p), NEW c \in Conns, NEW u \in Names
    PROVE  Follows(p, Named(p, c, u))
  <1> DEFINE r == [p.conn[c] EXCEPT !.user = u]
             q == [p EXCEPT !.conn[c] = r]
  <1>1. p.conn[c] \in Connection
    BY DEF Sound, Process
  <1>2. /\ r \in Connection /\ r.refs = p.conn[c].refs /\ r.client = p.conn[c].client
        /\ r.origin = p.conn[c].origin
        /\ Assigned(p.conn[c]) => Assigned(r)
    BY <1>1 DEF Connection, Assigned
  <1>3. Named(p, c, u) = [q EXCEPT !.active = p.active \cup {u}]
    BY DEF Named, Sound, Process
  <1> HIDE DEF r
  <1>4. Follows(p, q)
    BY <1>2, ConnFollows
  <1> HIDE DEF q
  <1>5. Alike(q, [q EXCEPT !.active = p.active \cup {u}])
    BY <1>4 DEF Follows, Sound, Process, Alike
  <1>6. QED
    BY <1>3, <1>4, <1>5, AlikeFollows, FollowsTrans DEF Follows

LEMMA HelloReadFollows ==
    ASSUME NEW p, Sound(p), NEW f \in Fds, NEW c \in Conns
    PROVE  \A q \in HelloRead(p, f, c) : Follows(p, q)
  <1> DEFINE w == Replying(p, f, c, "method")
             n == Named(w, c, Anonymous)
  <1>1. Follows(p, w)
    BY ReplyingFollows
  <1> HIDE DEF w
  <1>2. Follows(w, n)
    BY <1>1, NamedFollows DEF Follows, Names
  <1> HIDE DEF n
  <1>3. Follows(p, n)
    BY <1>1, <1>2, FollowsTrans
  <1>4. \A q \in HelloWrite(n, f, c) : Follows(p, q)
    BY <1>3, HelloWritesFollow, FollowsTrans DEF Follows
  <1>5. \A q \in HelloToAuthWrite(w, f, c) : Follows(p, q)
    BY <1>1, HelloWritesFollow, FollowsTrans DEF Follows
  <1>6. HelloRead(p, f, c) \subseteq {p} \cup HangUp(p, c)
            \cup HelloWrite(n, f, c) \cup HelloToAuthWrite(w, f, c)
    BY DEF HelloRead, n, w
  <1>7. QED
    BY <1>4, <1>5, <1>6, HangUpFollows, SelfFollows

LEMMA AuthReadFollows ==
    ASSUME NEW p, Sound(p), NEW f \in Fds, NEW c \in Conns
    PROVE  \A q \in AuthRead(p, f, c) : Follows(p, q)
  <1> DEFINE w == Replying(p, f, c, "auth")
  <1>1. Follows(p, w)
    BY ReplyingFollows
  <1> HIDE DEF w
  <1>2. ASSUME NEW u \in Users, NEW q \in AuthWrite(Named(w, c, u), f, c)
        PROVE  Follows(p, q)
    <2>1. Follows(w, Named(w, c, u))
      BY <1>1, NamedFollows DEF Follows, Names
    <2>2. Follows(Named(w, c, u), q)
      BY <1>2, <2>1, HelloWritesFollow DEF Follows
    <2>3. QED
      BY <1>1, <2>1, <2>2, FollowsTrans
  <1>3. \A q \in AuthFailedWrite(w, f, c) : Follows(p, q)
    BY <1>1, HelloWritesFollow, FollowsTrans DEF Follows
  <1>4. Follows(p, Crash(p, "abort"))
    BY CrashFollows
  <1>5. AuthRead(p, f, c) \subseteq HangUp(p, c) \cup {Crash(p, "abort")}
            \cup AuthFailedWrite(w, f, c)
            \cup UNION { AuthWrite(Named(w, c, u), f, c) : u \in Users }
    BY DEF AuthRead, w
  <1>6. QED
    BY <1>2, <1>3, <1>4, <1>5, HangUpFollows

-----------------------------------------------------------------------------
(***************************************************************************)
(* Connecting to the origin.                                               *)
(***************************************************************************)
LEMMA NatMinimum ==
    ASSUME NEW S \in SUBSET Nat, S # {}
    PROVE  \E f \in S : \A g \in S : f <= g
  <1> DEFINE R == { ss \in Nat \X Nat : ss[1] < ss[2] }
  <1>1. IsWellFoundedOn(R, Nat)
    BY NatLessThanWellFounded DEF OpToRel
  <1> HIDE DEF R
  <1>2. \E f \in S : \A g \in S : << g, f >> \notin R
    BY <1>1, WFMin
  <1>3. ASSUME NEW f \in S, NEW g \in S, << g, f >> \notin R
        PROVE  f <= g
    <2>1. << g, f >> \in Nat \X Nat /\ << g, f >>[1] = g /\ << g, f >>[2] = f
      OBVIOUS
    <2>2. ~(g < f)
      BY <1>3, <2>1 DEF R
    <2>3. QED
      BY <2>2
  <1>4. QED
    BY <1>2, <1>3

\* The kernel hands out a descriptor that was free.
LEMMA NewFdIsFree ==
    ASSUME NEW p, FreeFds(p) # {}
    PROVE  NewFd(p) \in Fds /\ NewFd(p) \notin p.open
  <1> DEFINE S == FreeFds(p)
  <1>1. S \in SUBSET Nat /\ S # {}
    BY ProxyAssumption DEF FreeFds, Fds
  <1> HIDE DEF S
  <1>2. \E f \in S : \A g \in S : f <= g
    BY <1>1, NatMinimum
  <1>3. NewFd(p) \in FreeFds(p)
    BY <1>2 DEF NewFd, S
  <1>4. QED
    BY <1>3 DEF FreeFds

\* Registering a free slot for connection c gives c one descriptor more.
LEMMA HeldOneMore ==
    ASSUME NEW p, Sound(p), NEW c \in Conns, NEW g \in Fds, ~Registered(p, g),
           NEW e \in Item, e.owner = c,
           NEW q, q.item = [p.item EXCEPT ![g] = e]
    PROVE  /\ Cardinality(Held(q, c)) = Cardinality(Held(p, c)) + 1
           /\ \A d \in Conns \ {c} : Held(q, d) = Held(p, d)
           /\ \A f \in Fds : Registered(q, f) <=> Registered(p, f) \/ f = g
  <1>1. p.item \in [Fds -> Item] /\ p.item[g].owner = NoConn
    BY DEF Sound, Process, Registered
  <1>2. \A f \in Fds : q.item[f].owner = IF f = g THEN c ELSE p.item[f].owner
    BY <1>1
  <1>3. Held(q, c) = Held(p, c) \cup {g} /\ g \notin Held(p, c)
    BY <1>1, <1>2, ProxyAssumption DEF Held
  <1>4. Cardinality(Held(q, c)) = Cardinality(Held(p, c)) + 1
    BY <1>3, FdsFinite, FS_AddElement
  <1>5. \A d \in Conns \ {c} : Held(q, d) = Held(p, d)
    BY <1>1, <1>2, ProxyAssumption DEF Held
  <1>6. \A f \in Fds : Registered(q, f) <=> Registered(p, f) \/ f = g
    BY <1>2, ProxyAssumption DEF Registered
  <1>7. QED
    BY <1>4, <1>5, <1>6

\* A connection with one more descriptor, and one more reference.
LEMMA AttachedFollows ==
    ASSUME NEW p, Sound(p), NEW c \in Conns,
           NEW g \in Fds, ~Registered(p, g),
           NEW e \in Item, e.owner = c,
           NEW r \in Connection, r.refs = p.conn[c].refs + 1, r.client \in Fds,
           g \in { r.client, r.origin },
           p.crash = "no" => Held(p, c) \subseteq { r.client, r.origin },
           Assigned(r),
           NEW q \in Process, q.crash = p.crash, q.open = p.open \cup {g},
           q.item = [p.item EXCEPT ![g] = e],
           q.conn = [p.conn EXCEPT ![c] = r]
    PROVE  Follows(p, q)
  <1>1. /\ Cardinality(Held(q, c)) = Cardinality(Held(p, c)) + 1
        /\ \A d \in Conns \ {c} : Held(q, d) = Held(p, d)
        /\ \A f \in Fds : Registered(q, f) <=> Registered(p, f) \/ f = g
    BY HeldOneMore
  <1>2. /\ q.conn[c] = r
        /\ \A d \in Conns \ {c} : q.conn[d] = p.conn[d]
    BY DEF Sound, Process
  <1>3. RefsCount(q)
    BY <1>1, <1>2 DEF Sound, RefsCount
  <1>4. TableIsOpen(q)
    BY <1>1 DEF Sound, TableIsOpen
  <1>5. ClientsKnown(q)
    BY <1>2 DEF Sound, ClientsKnown, Live
  <1>6. OwnersKnow(q)
    <2>1. Held(q, c) \subseteq Held(p, c) \cup {g}
      BY DEF Held, Sound, Process
    <2>2. QED
      BY <1>1, <1>2, <2>1 DEF Sound, OwnersKnow
  <1>7. ListsAssigned(q)
    BY <1>2 DEF Sound, ListsAssigned
  <1>8. QED
    BY <1>2, <1>3, <1>4, <1>5, <1>6, <1>7 DEF Follows, Sound

LEMMA OpenedFollows ==
    ASSUME NEW p, Sound(p), NEW c \in Conns, p.conn[c].client \in Fds,
           p.conn[c].origin = NoFd, p.conn[c].addrs > 0,
           FreeFds(p) # {}, NEW left \in 0 .. MaxAddrs
    PROVE  Follows(p, Opened(p, c, left))
  <1> DEFINE g == NewFd(p)
             a == [p.conn[c] EXCEPT !.addrs = left]
             q == [p EXCEPT !.conn[c] = a]
             e == [ owner |-> c, interest |-> "write", late |-> FALSE ]
             r == [q.conn[c] EXCEPT !.origin = g, !.refs = @ + 1, !.state = "connect"]
             s == [q EXCEPT !.open = @ \cup {g}, !.item[g] = e, !.conn[c] = r]
  <1>1. p.conn[c] \in Connection /\ g \in Fds
    BY NewFdIsFree DEF Sound, Process
  <1>2. /\ a \in Connection /\ a.refs = p.conn[c].refs /\ a.client = p.conn[c].client
        /\ a.origin = NoFd /\ a.res = p.conn[c].res
    BY <1>1 DEF Connection
  <1>0. Assigned(a) /\ a.res # "junk"
    BY <1>2 DEF Sound, ListsAssigned, Assigned
  <1>3. Follows(p, q)
    BY <1>0, <1>2, ConnFollows
  <1>4. e \in Item /\ e.owner = c
    BY DEF Item, Interest
  <1>5. /\ r \in Connection /\ r.refs = a.refs + 1 /\ r.client = a.client
        /\ r.origin = g /\ Assigned(r)
    <2>1. q.conn[c] = a
      BY DEF Sound, Process
    <2> HIDE DEF a, g, q
    <2>2. a.refs + 1 \in Nat
      BY <1>2 DEF Connection
    <2>3. QED
      <3>1. /\ r = [a EXCEPT !.origin = g, !.refs = a.refs + 1, !.state = "connect"]
            /\ g \in Fds \cup {NoFd} /\ "connect" \in States
        BY <1>1, <1>2, <2>1 DEF Connection, States
      <3>2. QED
        BY <1>0, <1>2, <2>2, <3>1 DEF Connection, Assigned
  <1>6. Opened(p, c, left) = IF g > MaxItem \/ Registered(p, g) THEN Finish(q, c) ELSE s
    BY DEF Opened
  <1>7. Follows(q, Finish(q, c))
    BY <1>3, FinishFollows DEF Follows
  <1>8. ASSUME ~Registered(p, g)
        PROVE  Follows(q, s)
    <2>1. /\ Sound(q) /\ q \in Process /\ q.conn[c] = a
          /\ ~Registered(q, g)
      BY <1>3, <1>8 DEF Follows, Sound, Process, Registered
    <2> HIDE DEF a, e, q, g
    <2>0. s = [q EXCEPT !.open = q.open \cup {g}, !.item[g] = e, !.conn[c] = r]
      OBVIOUS
    <2> HIDE DEF r, s
    <2>2. s \in Process
      BY <1>1, <1>4, <1>5, <2>0, <2>1 DEF Process
    <2>3. /\ s.crash = q.crash /\ s.open = q.open \cup {g}
          /\ s.item = [q.item EXCEPT ![g] = e] /\ s.conn = [q.conn EXCEPT ![c] = r]
      BY <2>0, <2>1 DEF Process
    <2>4. q.crash = "no" => Held(q, c) \subseteq { r.client, r.origin }
      BY <1>2, <1>5, <2>1 DEF Sound, OwnersKnow, Held, NoFd, Fds
    <2>5. QED
      BY <1>1, <1>2, <1>4, <1>5, <2>1, <2>2, <2>3, <2>4, AttachedFollows
  <1>9. QED
    BY <1>3, <1>6, <1>7, <1>8, FollowsTrans

\* Both ends of connect_write leave such a connection.
LEMMA RequestAgain ==
    ASSUME NEW r \in Connection, NEW v \in Replies,
           NEW s, s = [r EXCEPT !.reply = v, !.res = "null", !.addrs = 0, !.state = "request"]
    PROVE  /\ s \in Connection /\ s.refs = r.refs /\ s.client = r.client
           /\ s.origin = r.origin /\ Assigned(s)
  <1>1. 0 \in 0 .. MaxAddrs /\ "request" \in States /\ "null" \in { "junk", "null", "list" }
    BY ProxyAssumption DEF States
  <1> DEFINE A == 0 .. MaxAddrs
             N == { "junk", "null", "list" }
  <1> HIDE DEF A, N
  <1>2. 0 \in A /\ "null" \in N
    BY <1>1 DEF A, N
  <1>3. Connection = [ state : States, client : Fds \cup {NoFd}, origin : Fds \cup {NoFd},
                       refs : Nat, res : N, addrs : A,
                       status : { "pending", "ok", "fail" }, reply : Replies,
                       upload : BOOLEAN, user : Names ]
    BY DEF Connection, Replies, A, N
  <1>4. QED
    BY <1>1, <1>2, <1>3 DEF Assigned

LEMMA ExhaustedFollows ==
    ASSUME NEW p, Sound(p), NEW f \in Fds, NEW c \in Conns
    PROVE  Follows(p, Exhausted(p, f, c))
  <1> DEFINE r == [p.conn[c] EXCEPT !.reply = "refused", !.res = "null",
                                    !.addrs = 0, !.state = "request"]
             q == [p EXCEPT !.conn[c] = r]
  <1>1. p.conn[c] \in Connection
    BY SMTT(60) DEF Sound, Process
  <1>2. /\ r \in Connection /\ r.refs = p.conn[c].refs /\ r.client = p.conn[c].client
        /\ r.origin = p.conn[c].origin /\ Assigned(r)
    BY <1>1, RequestAgain DEF Replies
  <1>3. Exhausted(p, f, c) = IF Registered(p, f) THEN SetInterest(q, f, "write") ELSE q
    BY DEF Exhausted
  <1> HIDE DEF r
  <1>4. Follows(p, q)
    BY <1>2, ConnFollows
  <1> HIDE DEF q
  <1>5. Follows(q, SetInterest(q, f, "write"))
    BY <1>4, SetInterestAlike, AlikeFollows DEF Follows, Sound, Interest
  <1>6. QED
    BY <1>3, <1>4, <1>5, FollowsTrans

LEMMA TryAddressesFollow ==
    ASSUME NEW p, Sound(p), NEW f \in Fds, NEW c \in Conns, p.conn[c].client \in Fds,
           p.conn[c].addrs = 0 \/ p.conn[c].origin = NoFd
    PROVE  \A q \in TryAddresses(p, f, c) : Follows(p, q)
  <1> DEFINE n == p.conn[c].addrs
  <1>1. 1 .. n \subseteq 0 .. MaxAddrs /\ n \in Nat
    BY ProxyAssumption DEF Sound, Process, Connection
  <1>2. ASSUME FreeFds(p) # {}, NEW left \in 1 .. n
        PROVE  Follows(p, Opened(p, c, left))
    <2>1. n > 0 /\ n # 0
      BY <1>1
    <2>2. QED
      BY <1>1, <1>2, <2>1, OpenedFollows
  <1>3. Follows(p, Exhausted(p, f, c)) /\ Follows(p, Crash(p, "undefined"))
    BY ExhaustedFollows, CrashFollows
  <1>4. ASSUME NEW q \in TryAddresses(p, f, c)
        PROVE  \/ q = Exhausted(p, f, c)
               \/ q = Crash(p, "undefined")
               \/ FreeFds(p) # {} /\ \E left \in 1 .. n : q = Opened(p, c, left)
    BY <1>4 DEF TryAddresses
  <1>5. QED
    BY <1>2, <1>3, <1>4

\* What Live says of a connection after descriptors were closed.
LEMMA ClosedKeepsLive ==
    ASSUME NEW p, Sound(p), NEW fs \in SUBSET Fds, NEW c \in Conns,
           Live(Closed(p, fs), c)
    PROVE  /\ Closed(p, fs).conn[c].addrs = p.conn[c].addrs
           /\ Closed(p, fs).conn[c].origin = p.conn[c].origin
  <1> DEFINE k == Cardinality(Held(p, c) \cap fs)
             r == p.conn[c]
  <1>1. r \in Connection
    BY DEF Sound, Process
  <1>2. Closed(p, fs).conn = Dropped(p, fs)
    BY DEF Closed, Sound, Process
  <1>3. Dropped(p, fs)[c] = IF k = 0 THEN r
                            ELSE IF r.refs > k
                                 THEN [r EXCEPT !.refs = @ - k, !.res = "null"]
                                 ELSE Freed(r)
    BY DEF Dropped
  <1>4. Freed(r).refs = 0
    BY DEF Freed
  <1> HIDE DEF k, r
  <1>5. Dropped(p, fs)[c].addrs = r.addrs /\ Dropped(p, fs)[c].origin = r.origin
    BY <1>1, <1>2, <1>3, <1>4 DEF Live, Connection
  <1>6. QED
    BY <1>2, <1>5 DEF r

\* An origin that is not registered any more is forgotten, and the next address
\* becomes the first.
LEMMA ForgottenFollows ==
    ASSUME NEW p, Sound(p), NEW c \in Conns, NEW r \in Connection,
           r.refs = p.conn[c].refs, r.client = p.conn[c].client, r.origin = NoFd,
           ~Registered(p, p.conn[c].origin),
           Assigned(p.conn[c]) => Assigned(r)
    PROVE  Follows(p, [p EXCEPT !.conn[c] = r])
  <1> DEFINE q == [p EXCEPT !.conn[c] = r]
  <1>1. /\ q \in Process /\ q.item = p.item /\ q.open = p.open /\ q.crash = p.crash
        /\ q.conn[c] = r
        /\ \A d \in Conns \ {c} : q.conn[d] = p.conn[d]
    BY DEF Sound, Process
  <1> HIDE DEF q
  <1>2. \A d : Held(q, d) = Held(p, d)
    BY <1>1 DEF Held
  <1>3. \A f : Registered(q, f) <=> Registered(p, f)
    BY <1>1 DEF Registered
  <1>4. RefsCount(q)
    BY <1>1, <1>2 DEF Sound, RefsCount
  <1>5. TableIsOpen(q)
    BY <1>1, <1>3 DEF Sound, TableIsOpen
  <1>6. ClientsKnown(q)
    BY <1>1 DEF Sound, ClientsKnown, Live
  <1>7. OwnersKnow(q)
    <2>1. p.conn[c].origin \notin Held(p, c)
      BY ProxyAssumption DEF Held, Registered
    <2>2. QED
      BY <1>1, <1>2, <2>1 DEF Sound, OwnersKnow
  <1>8. ListsAssigned(q)
    BY <1>1 DEF Sound, ListsAssigned
  <1>9. QED
    BY <1>1, <1>4, <1>5, <1>6, <1>7, <1>8 DEF Follows, Sound, q

LEMMA NextAddressFollows ==
    ASSUME NEW p, Sound(p), NEW f \in Fds, NEW c \in Conns,
           p.conn[c].addrs # 0, p.conn[c].origin # NoFd
    PROVE  \A q \in NextAddress(p, f, c) : Follows(p, q)
  <1> DEFINE o == p.conn[c].origin
             q == Closed(p, {o})
             r == [q.conn[c] EXCEPT !.origin = NoFd, !.addrs = @ - 1]
             s == [q EXCEPT !.conn[c] = r]
  <1>1. /\ {o} \in SUBSET Fds /\ p.conn[c].addrs \in 1 .. MaxAddrs
    BY ProxyAssumption DEF Sound, Process, Connection
  <1>2. Follows(p, q) /\ ~Registered(q, o)
    BY <1>1, ClosedFollows
  <1>3. NextAddress(p, f, c) = {Crash(q, "undefined")} \cup
                               IF Live(q, c) THEN TryAddresses(s, f, c) ELSE {}
    BY DEF NextAddress
  <1>4. Live(q, c) => q.conn[c].addrs = p.conn[c].addrs /\ q.conn[c].origin = o
    BY <1>1, ClosedKeepsLive
  <1> HIDE DEF q
  <1>5. Follows(p, Crash(q, "undefined"))
    BY <1>2, CrashFollows, FollowsTrans DEF Follows
  <1>6. ASSUME Live(q, c)
        PROVE  \A t \in TryAddresses(s, f, c) : Follows(p, t)
    <2>1. q.conn[c] \in Connection /\ q.conn[c].client \in Fds
      BY <1>2, <1>6 DEF Follows, Sound, Process, ClientsKnown
    <2>2. q.conn[c].addrs - 1 \in 0 .. MaxAddrs
      BY <1>1, <1>4, <1>6, ProxyAssumption
    <2>3. /\ r \in Connection /\ r.refs = q.conn[c].refs /\ r.client = q.conn[c].client
          /\ r.origin = NoFd
          /\ Assigned(q.conn[c]) => Assigned(r)
      BY <1>1, <1>4, <1>6, <2>1, <2>2 DEF Connection, Assigned
    <2> HIDE DEF r, o
    <2>4. Follows(q, s)
      BY <1>2, <1>4, <1>6, <2>3, ForgottenFollows DEF Follows
    <2>5. s.conn[c].client \in Fds /\ Sound(s) /\ s.conn[c].origin = NoFd
      BY <1>2, <2>1, <2>3, <2>4 DEF Follows, Sound, Process
    <2> HIDE DEF s
    <2>6. \A t \in TryAddresses(s, f, c) : Follows(s, t)
      BY <2>5, TryAddressesFollow
    <2>7. QED
      BY <1>2, <2>4, <2>6, FollowsTrans
  <1>7. QED
    BY <1>3, <1>5, <1>6

LEMMA ConnectedFollows ==
    ASSUME NEW p, Sound(p), NEW c \in Conns,
           p.conn[c].client \in Fds, p.conn[c].origin # NoFd
    PROVE  Follows(p, Connected(p, c))
  <1> DEFINE cl == p.conn[c].client
             r == [p.conn[c] EXCEPT !.reply = "granted", !.res = "null",
                                    !.addrs = 0, !.state = "request"]
             q == [p EXCEPT !.conn[c] = r]
             s == [p EXCEPT !.conn[c].origin = NoFd, !.open = @ \ {p.conn[c].origin}]
  <1>1. p.conn[c] \in Connection
    BY DEF Sound, Process
  <1>2. Connected(p, c) = IF Registered(p, cl) THEN SetInterest(q, cl, "write")
                                               ELSE Finish(s, c)
    BY SMTT(60) DEF Connected
  <1>3. /\ r \in Connection /\ r.refs = p.conn[c].refs /\ r.client = p.conn[c].client
        /\ r.origin = p.conn[c].origin /\ Assigned(r)
    BY <1>1, RequestAgain DEF Replies
  <1>4. Follows(p, SetInterest(q, cl, "write"))
    <2> HIDE DEF r
    <2>1. Follows(p, q)
      BY <1>3, ConnFollows
    <2> HIDE DEF q, cl
    <2>2. Follows(q, SetInterest(q, cl, "write"))
      BY <2>1, SetInterestAlike, AlikeFollows DEF Follows, Sound, Interest, cl
    <2>3. QED
      BY <2>1, <2>2, FollowsTrans
  <1>5. ASSUME ~Registered(p, cl)
        PROVE  Follows(p, Finish(s, c))
    <2>1. /\ s \in Process
          /\ s.item = p.item
          /\ \A d \in Conns : /\ s.conn[d].refs = p.conn[d].refs
                              /\ s.conn[d].client = p.conn[d].client
      BY <1>1 DEF Sound, Process, Connection
    <2>0. ListsAssigned(s)
      BY <1>1 DEF Sound, Process, Connection, ListsAssigned, Assigned
    <2> HIDE DEF s
    <2> DEFINE n == IF s.current > 0 THEN s.current - 1 ELSE 0
               a == s.active \ { s.conn[c].user }
               fs == { s.conn[c].client, s.conn[c].origin } \ {NoFd}
               t == [s EXCEPT !.current = n, !.active = a]
    <2>2. n \in 0 .. MaxConnections /\ a \in SUBSET Names
      BY <2>1, ProxyAssumption DEF Process
    <2>3. Finish(s, c) = IF \A f \in fs : Registered(s, f) THEN Closed(t, fs)
                                                           ELSE Crash(t, "abort")
      BY DEF Finish
    <2>4. cl \in fs /\ ~Registered(s, cl)
      BY <1>5, <2>1 DEF Registered, Fds, NoFd
    <2>5. Finish(s, c) = Crash(t, "abort")
      BY <2>3, <2>4
    <2> HIDE DEF n, a, fs
    <2>6. /\ Crash(t, "abort") \in Process
          /\ Crash(t, "abort").crash = "abort"
          /\ Crash(t, "abort").item = p.item
          /\ \A d \in Conns : /\ Crash(t, "abort").conn[d].refs = p.conn[d].refs
                              /\ Crash(t, "abort").conn[d].client = p.conn[d].client
          /\ Crash(t, "abort").conn = s.conn
      BY <2>1, <2>2 DEF Crash, Process
    <2> DEFINE u == Crash(t, "abort")
    <2> HIDE DEF t
    <2>7. \A d : Held(u, d) = Held(p, d)
      BY <2>6 DEF Held
    <2> HIDE DEF u
    <2>8. Follows(p, u)
      BY <2>0, <2>6, <2>7 DEF Follows, Sound, RefsCount, TableIsOpen, ClientsKnown, Live,
                              OwnersKnow, ListsAssigned, u
    <2>9. QED
      BY <2>5, <2>8 DEF u
  <1>6. QED
    BY <1>2, <1>4, <1>5

LEMMA ConnectWriteFollows ==
    ASSUME NEW p, Sound(p), NEW f \in Fds, NEW c \in Conns, p.conn[c].client \in Fds
    PROVE  \A q \in ConnectWrite(p, f, c) : Follows(p, q)
  <1>1. CASE p.conn[c].addrs = 0 \/ p.conn[c].origin = NoFd
    BY <1>1, TryAddressesFollow DEF ConnectWrite
  <1>2. CASE p.conn[c].addrs # 0 /\ p.conn[c].origin # NoFd
    <2>1. ConnectWrite(p, f, c) \subseteq {Connected(p, c)} \cup NextAddress(p, f, c)
      BY <1>2 DEF ConnectWrite
    <2>2. QED
      BY <1>2, <2>1, ConnectedFollows, NextAddressFollows
  <1>3. QED
    BY <1>1, <1>2

LEMMA ConnectFollows ==
    ASSUME NEW p, Sound(p), NEW f \in Fds, NEW c \in Conns, p.conn[c].client \in Fds,
           NEW n \in 1 .. MaxAddrs
    PROVE  \A q \in Connect(p, f, c, n) : Follows(p, q)
  <1> DEFINE r == [p.conn[c] EXCEPT !.res = "list", !.addrs = n]
             q == [p EXCEPT !.conn[c] = r]
             s == SetInterest(q, f, "noop")
  <1>1. p.conn[c] \in Connection /\ n \in 0 .. MaxAddrs
    BY ProxyAssumption DEF Sound, Process
  <1>2. /\ r \in Connection /\ r.refs = p.conn[c].refs /\ r.client = p.conn[c].client
        /\ r.origin = p.conn[c].origin /\ Assigned(r)
    BY <1>1 DEF Connection, Assigned
  <1>3. Connect(p, f, c, n) = ConnectWrite(s, f, c)
    BY DEF Connect
  <1> HIDE DEF r
  <1>4. Follows(p, q)
    BY <1>2, ConnFollows
  <1> HIDE DEF q
  <1>5. Follows(q, s)
    BY <1>4, SetInterestAlike, AlikeFollows DEF Follows, Sound, Interest
  <1> HIDE DEF s
  <1>6. Follows(p, s)
    BY <1>4, <1>5, FollowsTrans
  <1>7. \A t \in ConnectWrite(s, f, c) : Follows(s, t)
    BY <1>6, ConnectWriteFollows DEF Follows
  <1>8. QED
    BY <1>3, <1>6, <1>7, FollowsTrans

-----------------------------------------------------------------------------
(***************************************************************************)
(* The request, its answer, and the relay.                                 *)
(***************************************************************************)
LEMMA UploadFollows ==
    ASSUME NEW p, Sound(p), NEW c \in Conns, NEW b \in BOOLEAN
    PROVE  Follows(p, [p EXCEPT !.conn[c].upload = b])
  <1>1. p.conn[c] \in Connection
    BY DEF Sound, Process
  <1>2. /\ [p.conn[c] EXCEPT !.upload = b] \in Connection
        /\ [p.conn[c] EXCEPT !.upload = b].refs = p.conn[c].refs
        /\ [p.conn[c] EXCEPT !.upload = b].client = p.conn[c].client
        /\ [p.conn[c] EXCEPT !.upload = b].origin = p.conn[c].origin
        /\ Assigned(p.conn[c]) => Assigned([p.conn[c] EXCEPT !.upload = b])
    BY <1>1 DEF Connection, Assigned
  <1>3. QED
    BY <1>2, ConnFollows

LEMMA SetWaitingFollows ==
    ASSUME NEW p, Sound(p), NEW f, NEW c \in Conns, NEW b \in BOOLEAN
    PROVE  Follows(p, SetWaiting(p, f, c, b))
  <1>1. Follows(p, [p EXCEPT !.conn[c].upload = b])
    BY UploadFollows
  <1>2. (IF b THEN "data" ELSE "none") \in Replies
    BY DEF Replies
  <1>3. Follows(p, [p EXCEPT !.conn[c].reply = IF b THEN "data" ELSE "none"])
    BY <1>2, ReplyFollows
  <1>4. QED
    BY <1>1, <1>3 DEF SetWaiting

LEMMA BothInterestsFollow ==
    ASSUME NEW p, Sound(p), NEW c \in Conns,
           NEW f, NEW i \in Interest, NEW g, NEW j \in Interest
    PROVE  Follows(p, BothInterests(p, c, f, i, g, j))
  <1>1. CASE Registered(p, f) /\ Registered(p, g)
    <2> DEFINE q == SetInterest(p, f, i)
    <2>1. f \in Fds /\ g \in Fds
      BY <1>1 DEF Registered
    <2>2. Follows(p, q)
      BY <2>1, SetInterestAlike, AlikeFollows DEF Sound
    <2> HIDE DEF q
    <2>3. Follows(q, SetInterest(q, g, j))
      BY <2>1, <2>2, SetInterestAlike, AlikeFollows DEF Follows, Sound
    <2>4. BothInterests(p, c, f, i, g, j) = SetInterest(q, g, j)
      BY <1>1 DEF BothInterests, q
    <2>5. QED
      BY <2>2, <2>3, <2>4, FollowsTrans
  <1>2. CASE ~(Registered(p, f) /\ Registered(p, g))
    BY <1>2, FinishFollows DEF BothInterests
  <1>3. QED
    BY <1>1, <1>2

LEMMA RequestOtherFollows ==
    ASSUME NEW p, Sound(p), NEW f \in Fds, NEW c \in Conns, p.conn[c].client \in Fds
    PROVE  \A q \in RequestOther(p, f, c) : Follows(p, q)
  <1>1. 1 \in 1 .. MaxAddrs
    BY ProxyAssumption
  <1>2. \A q \in Connect(p, f, c, 1) : Follows(p, q)
    BY <1>1, ConnectFollows
  <1>3. Follows(p, Replying(p, f, c, "refused"))
    BY ReplyingFollows
  <1>4. RequestOther(p, f, c) \subseteq HangUp(p, c) \cup {p}
            \cup {Replying(p, f, c, "refused")} \cup Connect(p, f, c, 1)
    BY DEF RequestOther
  <1>5. QED
    BY <1>2, <1>3, <1>4, HangUpFollows, SelfFollows

LEMMA ResolutionBlockFollows ==
    ASSUME NEW p, Sound(p), NEW f \in Fds, NEW c \in Conns, p.conn[c].client \in Fds
    PROVE  \A q \in ResolutionBlock(p, f, c) : Follows(p, q)
  <1> DEFINE w == Replying(p, f, c, "refused")
             s == [w EXCEPT !.conn[c].state = "request"]
  <1>1. Follows(p, w)
    BY ReplyingFollows
  <1> HIDE DEF w
  <1>2. Follows(p, s)
    BY <1>1, StateFollows, FollowsTrans DEF Follows, States
  <1> HIDE DEF s
  <1>3. \A n \in 1 .. MaxAddrs : \A q \in Connect(p, f, c, n) : Follows(p, q)
    BY ConnectFollows
  <1>4. ResolutionBlock(p, f, c) \subseteq
            {s} \cup UNION { Connect(p, f, c, n) : n \in 1 .. MaxAddrs }
    BY DEF ResolutionBlock, w, s
  <1>5. QED
    BY <1>2, <1>3, <1>4

LEMMA RequestWriteFollows ==
    ASSUME NEW p, Sound(p), NEW f \in Fds, NEW c \in Conns
    PROVE  \A q \in RequestWrite(p, f, c) : Follows(p, q)
  <1> DEFINE r == p.conn[c]
             m == [p EXCEPT !.conn[c].reply = "none"]
             q == [p EXCEPT !.conn[c].reply = "none", !.conn[c].state = "forwarding"]
             e == IF r.origin = NoFd THEN Finish(p, c)
                  ELSE BothInterests(q, c, r.client, "read", r.origin, "read")
  <1>1. Follows(p, m)
    BY ReplyFollows DEF Replies
  <1>2. q = [m EXCEPT !.conn[c].state = "forwarding"]
    OBVIOUS
  <1> HIDE DEF m
  <1>3. Follows(p, q)
    BY <1>1, <1>2, StateFollows, FollowsTrans DEF Follows, States
  <1>4. RequestWrite(p, f, c) \subseteq SendFailures(p, c) \cup {p, e}
    BY DEF RequestWrite
  <1> HIDE DEF q
  <1>5. Follows(q, BothInterests(q, c, r.client, "read", r.origin, "read"))
    BY <1>3, BothInterestsFollow DEF Follows, Interest
  <1>6. Follows(p, e)
    BY <1>3, <1>5, FinishFollows, FollowsTrans
  <1>7. QED
    BY <1>4, <1>6, SendFailuresFollow, SelfFollows

LEMMA ForwardReadFollows ==
    ASSUME NEW p, Sound(p), NEW f \in Fds, NEW c \in Conns
    PROVE  \A q \in ForwardRead(p, f, c) : Follows(p, q)
  <1> DEFINE g == Other(p.conn[c], f)
             full == BothInterests(p, c, f, "noop", g, "write")
             moved(b) == BothInterests(SetWaiting(p, f, c, b), c, f, "read",
                                       g, IF b THEN "write" ELSE "read")
  <1>1. Follows(p, full)
    BY BothInterestsFollow DEF Interest
  <1>2. ASSUME NEW b \in BOOLEAN
        PROVE  Follows(p, moved(b))
    <2> DEFINE q == SetWaiting(p, f, c, b)
               j == IF b THEN "write" ELSE "read"
    <2>1. Follows(p, q)
      BY SetWaitingFollows
    <2>2. j \in Interest /\ "read" \in Interest
      BY DEF Interest
    <2> HIDE DEF q, j, g
    <2>3. Follows(q, BothInterests(q, c, f, "read", g, j))
      BY <2>1, <2>2, BothInterestsFollow DEF Follows
    <2>4. QED
      BY <2>1, <2>3, FollowsTrans DEF q, j
  <1>3. ForwardRead(p, f, c) \subseteq {p, full} \cup HangUp(p, c) \cup SendFailures(p, c)
                                       \cup { moved(b) : b \in BOOLEAN }
    BY DEF ForwardRead
  <1> HIDE DEF full, moved
  <1>4. QED
    BY <1>1, <1>2, <1>3, HangUpFollows, SendFailuresFollow, SelfFollows

LEMMA ForwardWriteFollows ==
    ASSUME NEW p, Sound(p), NEW f \in Fds, NEW c \in Conns
    PROVE  \A q \in ForwardWrite(p, f, c) : Follows(p, q)
  <1> DEFINE g == Other(p.conn[c], f)
             empty == BothInterests(p, c, f, "read", g, "read")
             moved(b) == BothInterests(SetWaiting(p, g, c, b), c,
                                       f, IF b THEN "write" ELSE "read",
                                       g, IF Waiting(p, f, c) THEN "write" ELSE "read")
  <1>1. Follows(p, empty)
    BY BothInterestsFollow DEF Interest
  <1>2. ASSUME NEW b \in BOOLEAN
        PROVE  Follows(p, moved(b))
    <2> DEFINE q == SetWaiting(p, g, c, b)
               i == IF b THEN "write" ELSE "read"
               j == IF Waiting(p, f, c) THEN "write" ELSE "read"
    <2>1. Follows(p, q)
      BY SetWaitingFollows
    <2>2. i \in Interest /\ j \in Interest
      BY DEF Interest
    <2> HIDE DEF q, i, j, g
    <2>3. Follows(q, BothInterests(q, c, f, i, g, j))
      BY <2>1, <2>2, BothInterestsFollow DEF Follows
    <2>4. QED
      BY <2>1, <2>3, FollowsTrans DEF q, i, j
  <1>3. ForwardWrite(p, f, c) \subseteq {p, empty} \cup SendFailures(p, c)
                                        \cup { moved(b) : b \in BOOLEAN }
    BY DEF ForwardWrite
  <1> HIDE DEF empty, moved
  <1>4. QED
    BY <1>1, <1>2, <1>3, SendFailuresFollow, SelfFollows

-----------------------------------------------------------------------------
(***************************************************************************)
(* The inductive invariant.  Beside the soundness of the process state it  *)
(* needs the descriptor a resolver thread will name, which is client_fd of *)
(* a block that may have been freed since, and, for the wake-up, that no   *)
(* answer is queued when the loop comes back to the sweep without a signal *)
(* under way.                                                              *)
(***************************************************************************)
LoopTypeOK ==
    /\ phase \in { "sweep", "poll", "iterate", "block" }
    /\ ready \in [Fds \cup {Listener} -> Interest]
    /\ jobs \in Seq(Fds)
    /\ alarm \in BOOLEAN
    /\ resolver \in [Threads -> [ pc   : { "idle", "lookup", "notify", "signal" },
                                  conn : Conns \cup {NoConn} ]]

ThreadsKnow ==
    \A t \in Threads : resolver[t].pc \in { "lookup", "notify" } =>
        /\ resolver[t].conn \in Conns
        /\ proc.conn[resolver[t].conn].client \in Fds

WakeUp ==
    Running /\ phase \in { "sweep", "poll" } /\ jobs # << >> =>
        alarm \/ \E t \in Threads : resolver[t].pc = "signal"

ProxyInv ==
    /\ Sound(proc)
    /\ LoopTypeOK
    /\ ThreadsKnow
    /\ WakeUp

LEMMA ProxyInvInit == Init => ProxyInv
  <1> SUFFICES ASSUME Init PROVE ProxyInv
    OBVIOUS
  <1> DEFINE r == Freed([client |-> NoFd, user |-> NoName])
  <1>1. r \in Connection /\ r.refs = 0 /\ Assigned(r)
    BY ProxyAssumption DEF Freed, Connection, States, Names, Assigned, NoFd
  <1>2. Unused \in Item /\ Unused.owner = NoConn
    BY DEF Unused, Item, Interest
  <1> HIDE DEF r
  <1>3. /\ proc \in Process
        /\ \A c \in Conns : proc.conn[c].refs = 0
        /\ \A f \in Fds : proc.item[f].owner = NoConn
        /\ proc.open = {}
    BY <1>1, <1>2, ProxyAssumption DEF Init, Process, r
  <1>4. \A c \in Conns : Held(proc, c) = {}
    BY <1>3, ProxyAssumption DEF Held
  <1>5. Sound(proc)
    <2>1. RefsCount(proc)
      BY <1>3, <1>4, FS_EmptySet DEF RefsCount
    <2>2. TableIsOpen(proc)
      BY <1>3 DEF TableIsOpen, Registered
    <2>3. ClientsKnown(proc)
      BY <1>3 DEF ClientsKnown, Live
    <2>4. OwnersKnow(proc)
      BY <1>4 DEF OwnersKnow
    <2>5. ListsAssigned(proc)
      <3>1. \A c \in Conns : proc.conn[c] = r
        BY DEF Init, r
      <3>2. QED
        BY <1>1, <3>1 DEF ListsAssigned
    <2>6. QED
      BY <1>3, <2>1, <2>2, <2>3, <2>4, <2>5 DEF Sound
  <1>6. LoopTypeOK /\ ThreadsKnow /\ WakeUp
    <2>1. /\ phase = "sweep" /\ jobs = << >> /\ alarm = FALSE
          /\ ready \in [Fds \cup {Listener} -> Interest]
      BY DEF Init, NothingReady, Interest
    <2>2. /\ resolver \in [Threads -> [ pc   : { "idle", "lookup", "notify", "signal" },
                                        conn : Conns \cup {NoConn} ]]
          /\ \A t \in Threads : resolver[t].pc = "idle"
      BY DEF Init
    <2>3. LoopTypeOK
      <3>1. << >> \in Seq(Fds) /\ FALSE \in BOOLEAN
        OBVIOUS
      <3>2. QED
        BY <2>1, <2>2, <3>1 DEF LoopTypeOK
    <2>4. ThreadsKnow
      BY <2>2 DEF ThreadsKnow
    <2>5. WakeUp
      BY <2>1 DEF WakeUp
    <2>6. QED
      BY <2>3, <2>4, <2>5
  <1>7. QED
    BY <1>5, <1>6 DEF ProxyInv

LEMMA ThreadsStillKnow ==
    ASSUME ThreadsKnow, Follows(proc, proc'), UNCHANGED resolver
    PROVE  ThreadsKnow'
  BY DEF ThreadsKnow, Follows

\* What a handler leaves follows, and so it does after the stamp.
LEMMA HandledFollows ==
    ASSUME Sound(proc), NEW f, NEW outcomes,
           \A q \in outcomes : Follows(proc, q),
           Handled(f, outcomes)
    PROVE  Follows(proc, proc')
  <1>1. PICK p \in outcomes : proc' = Stamp(p, f)
    BY DEF Handled
  <1>2. Follows(proc, p) /\ Follows(p, Stamp(p, f))
    BY StampAlike, AlikeFollows DEF Follows, Sound
  <1>3. QED
    BY <1>1, <1>2, FollowsTrans

\* The connection that a visited descriptor is registered for.
LEMMA OwnerKnown ==
    ASSUME Sound(proc), NEW f \in Fds, Registered(proc, f)
    PROVE  Owner(f) \in Conns /\ proc.conn[Owner(f)].client \in Fds
  <1>1. Owner(f) \in Conns
    BY DEF Sound, Process, Item, Registered, Owner
  <1>2. f \in Held(proc, Owner(f)) /\ IsFiniteSet(Held(proc, Owner(f)))
    BY FdsFinite DEF Held, Owner
  <1>3. Cardinality(Held(proc, Owner(f))) > 0
    BY <1>2, FS_EmptySet, FS_CardinalityType
  <1>4. QED
    BY <1>1, <1>3 DEF Sound, RefsCount, ClientsKnown, Live

LEMMA AcceptedFollows ==
    ASSUME Sound(proc), Running, FreeFds(proc) # {},
           NEW c \in Conns, ~Live(proc, c),
           NEW name \in { proc.conn[c].user, NoName }
    PROVE  Follows(proc, Accepted(c, name))
  <1> DEFINE f == NewFd(proc)
             n == IF proc.current < MaxConnections THEN proc.current + 1 ELSE proc.current
             e == [ owner |-> c, interest |-> "read", late |-> FALSE ]
             r == [ proc.conn[c] EXCEPT !.client = f, !.refs = 1, !.user = name ]
             q == [ proc EXCEPT !.open = @ \cup {f}, !.item[f] = e,
                                !.conn[c] = r, !.current = n ]
  <1>1. f \in Fds /\ f \notin proc.open
    BY NewFdIsFree
  <1>2. ~Registered(proc, f)
    BY <1>1 DEF Sound, TableIsOpen, Running
  <1>3. e \in Item /\ e.owner = c
    BY DEF Item, Interest
  <1>4. /\ proc.conn[c] \in Connection /\ proc.conn[c].refs = 0
        /\ proc.conn[c].user \in Names /\ name \in Names
    BY DEF Sound, Process, Connection, Names, Live
  <1>0. Assigned(proc.conn[c]) /\ Held(proc, c) = {}
    BY <1>4, FdsFinite, FS_EmptySet DEF Sound, ListsAssigned, RefsCount
  <1>5. /\ r \in Connection /\ r.refs = proc.conn[c].refs + 1 /\ r.client = f
        /\ Assigned(r)
    <2> HIDE DEF f
    <2>1. f \in Fds \cup {NoFd} /\ 1 \in Nat
      BY <1>1
    <2>2. r \in Connection /\ r.refs = 1 /\ r.client = f /\ Assigned(r)
      BY <1>0, <1>4, <2>1 DEF Connection, Assigned
    <2>3. QED
      BY <1>4, <2>2
  <1>6. n \in 0 .. MaxConnections
    BY ProxyAssumption DEF Sound, Process
  <1>7. Accepted(c, name) = IF f > MaxItem THEN proc ELSE q
    BY DEF Accepted
  <1> HIDE DEF f, n, e, r
  <1>8. /\ q \in Process
        /\ q.crash = proc.crash
        /\ q.open = proc.open \cup {f}
        /\ q.item = [proc.item EXCEPT ![f] = e]
        /\ q.conn = [proc.conn EXCEPT ![c] = r]
    BY <1>1, <1>3, <1>5, <1>6 DEF Sound, Process
  <1> HIDE DEF q
  <1>9. Follows(proc, q)
    BY <1>0, <1>1, <1>2, <1>3, <1>5, <1>8, AttachedFollows
  <1>10. QED
    BY <1>7, <1>9, SelfFollows

-----------------------------------------------------------------------------
(***************************************************************************)
(* Every step keeps the invariant.                                         *)
(***************************************************************************)
\* The steps of handle_iteration that only run a handler.
LEMMA VisitKeepsInv ==
    ASSUME ProxyInv, NEW f \in Fds, phase = "iterate",
           NEW outcomes, \A q \in outcomes : Follows(proc, q),
           Handled(f, outcomes), UNCHANGED resolver
    PROVE  ProxyInv'
  <1>1. Follows(proc, proc')
    BY HandledFollows DEF ProxyInv
  <1>2. Sound(proc)'
    BY <1>1 DEF Follows
  <1>3. LoopTypeOK'
    BY DEF ProxyInv, LoopTypeOK, Handled, Interest
  <1>4. ThreadsKnow'
    BY <1>1, ThreadsStillKnow DEF ProxyInv
  <1>5. WakeUp'
    BY DEF WakeUp, Handled
  <1>6. QED
    BY <1>2, <1>3, <1>4, <1>5 DEF ProxyInv

LEMMA SweepKeepsInv == ProxyInv /\ Sweep => ProxyInv'
  <1> SUFFICES ASSUME ProxyInv, Sweep PROVE ProxyInv'
    OBVIOUS
  <1>1. Follows(proc, proc')
    <2> DEFINE fs == { f \in Fds : Registered(proc, f) /\ proc.item[f].late }
    <2>1. fs \in SUBSET Fds /\ proc' = Closed(proc, fs)
      BY DEF Sweep
    <2>2. QED
      BY <2>1, ClosedFollows DEF ProxyInv
  <1>2. Sound(proc)'
    BY <1>1 DEF Follows
  <1>3. LoopTypeOK'
    BY DEF ProxyInv, LoopTypeOK, Sweep
  <1>4. ThreadsKnow'
    BY <1>1, ThreadsStillKnow DEF ProxyInv, Sweep
  <1>5. WakeUp'
    BY DEF ProxyInv, WakeUp, Sweep, Running
  <1>6. QED
    BY <1>2, <1>3, <1>4, <1>5 DEF ProxyInv

\* The steps of the loop that touch no connection.
LEMMA PhasesKeepInv ==
    ProxyInv /\ (Poll \/ Interrupted \/ EndIteration \/ EndBlock) => ProxyInv'
  <1> SUFFICES ASSUME ProxyInv, Poll \/ Interrupted \/ EndIteration \/ EndBlock
               PROVE  ProxyInv'
    OBVIOUS
  <1>1. UNCHANGED << proc, resolver, jobs >>
    BY DEF Poll, Interrupted, EndIteration, EndBlock
  <1>2. Sound(proc)' /\ ThreadsKnow'
    BY <1>1 DEF ProxyInv, ThreadsKnow
  <1>3. ready' \in [Fds \cup {Listener} -> Interest]
    <2>1. CASE Poll
      <3>1. proc.item \in [Fds -> Item] /\ Listener \notin Fds
        BY ProxyAssumption DEF ProxyInv, Sound, Process, Listener, Fds
      <3>2. QED
        BY <2>1, <3>1 DEF Poll, Item, Interest
    <2>2. CASE EndIteration
      BY <2>2 DEF EndIteration, NothingReady, Interest
    <2>3. CASE Interrupted \/ EndBlock
      BY <2>3 DEF Interrupted, EndBlock, ProxyInv, LoopTypeOK
    <2>4. QED
      BY <2>1, <2>2, <2>3
  <1>4. phase' \in { "sweep", "poll", "iterate", "block" } /\ alarm' \in BOOLEAN
    BY DEF Poll, Interrupted, EndIteration, EndBlock, ProxyInv, LoopTypeOK
  <1>5. LoopTypeOK'
    BY <1>1, <1>3, <1>4 DEF ProxyInv, LoopTypeOK
  <1>6. WakeUp'
    BY <1>1 DEF WakeUp, Poll, Interrupted, EndIteration, EndBlock
  <1>7. QED
    BY <1>2, <1>5, <1>6 DEF ProxyInv

LEMMA TickKeepsInv == \A f \in Fds : ProxyInv /\ Tick(f) => ProxyInv'
  <1> SUFFICES ASSUME NEW f \in Fds, ProxyInv, Tick(f) PROVE ProxyInv'
    OBVIOUS
  <1>1. Alike(proc, proc')
    <2>1. proc' = [proc EXCEPT !.item[f].late = TRUE]
      BY DEF Tick
    <2>2. proc.item[f] \in Item /\ [proc.item[f] EXCEPT !.late = TRUE] \in Item
      BY DEF ProxyInv, Sound, Process, Item
    <2>3. QED
      BY <2>1, <2>2 DEF Alike, ProxyInv, Sound, Process, Item
  <1>2. Follows(proc, proc')
    BY <1>1, AlikeFollows DEF ProxyInv
  <1>3. Sound(proc)'
    BY <1>2 DEF Follows
  <1>4. LoopTypeOK'
    BY DEF ProxyInv, LoopTypeOK, Tick
  <1>5. ThreadsKnow'
    BY <1>2, ThreadsStillKnow DEF ProxyInv, Tick
  <1>6. WakeUp'
    BY DEF ProxyInv, WakeUp, Tick, Running
  <1>7. QED
    BY <1>3, <1>4, <1>5, <1>6 DEF ProxyInv

LEMMA AcceptKeepsInv == ProxyInv /\ AcceptConnection => ProxyInv'
  <1> SUFFICES ASSUME ProxyInv, AcceptConnection PROVE ProxyInv'
    OBVIOUS
  <1>1. Follows(proc, proc')
    <2>1. CASE proc' = proc
      BY <2>1, SelfFollows DEF ProxyInv
    <2>2. CASE /\ FreeFds(proc) # {}
               /\ \E c \in Conns : /\ ~Live(proc, c)
                                   /\ \E name \in { proc.conn[c].user, NoName } :
                                         proc' = Accepted(c, name)
      BY <2>2, AcceptedFollows DEF ProxyInv, AcceptConnection
    <2>3. QED
      BY <2>1, <2>2 DEF AcceptConnection
  <1>2. Sound(proc)'
    BY <1>1 DEF Follows
  <1>3. LoopTypeOK'
    BY DEF ProxyInv, LoopTypeOK, AcceptConnection, Interest
  <1>4. ThreadsKnow'
    BY <1>1, ThreadsStillKnow DEF ProxyInv, AcceptConnection
  <1>5. WakeUp'
    BY DEF WakeUp, AcceptConnection
  <1>6. QED
    BY <1>2, <1>3, <1>4, <1>5 DEF ProxyInv

LEMMA ReadReadyKeepsInv == \A f \in Fds : ProxyInv /\ ReadReady(f) => ProxyInv'
  <1> SUFFICES ASSUME NEW f \in Fds, ProxyInv, ReadReady(f) PROVE ProxyInv'
    OBVIOUS
  <1> DEFINE c == Owner(f)
  <1>1. Sound(proc) /\ phase = "iterate" /\ Registered(proc, f) /\ UNCHANGED resolver
    BY DEF ProxyInv, ReadReady, Visit, Registered
  <1>2. c \in Conns /\ proc.conn[c].client \in Fds
    BY <1>1, OwnerKnown
  <1>3. PICK outcomes \in { HelloRead(proc, f, c), AuthRead(proc, f, c),
                            RequestOther(proc, f, c), ForwardRead(proc, f, c),
                            {Crash(proc, "abort")} } : Handled(f, outcomes)
    BY DEF ReadReady
  <1>4. \A q \in outcomes : Follows(proc, q)
    <2> HIDE DEF c
    <2>1. QED
      BY <1>1, <1>2, <1>3, HelloReadFollows, AuthReadFollows, RequestOtherFollows,
         ForwardReadFollows, CrashFollows
  <1>5. QED
    BY <1>1, <1>3, <1>4, VisitKeepsInv

LEMMA WriteReadyKeepsInv == \A f \in Fds : ProxyInv /\ WriteReady(f) => ProxyInv'
  <1> SUFFICES ASSUME NEW f \in Fds, ProxyInv, WriteReady(f) PROVE ProxyInv'
    OBVIOUS
  <1> DEFINE c == Owner(f)
  <1>1. Sound(proc) /\ phase = "iterate" /\ Registered(proc, f) /\ UNCHANGED resolver
    BY DEF ProxyInv, WriteReady, Visit, Registered
  <1>2. c \in Conns /\ proc.conn[c].client \in Fds
    BY <1>1, OwnerKnown
  <1>3. PICK outcomes \in { HelloWrite(proc, f, c), HelloToAuthWrite(proc, f, c),
                            AuthWrite(proc, f, c), AuthFailedWrite(proc, f, c),
                            RequestWrite(proc, f, c), ConnectWrite(proc, f, c),
                            ForwardWrite(proc, f, c), {Crash(proc, "abort")} } :
              Handled(f, outcomes)
    BY DEF WriteReady
  <1>4. \A q \in outcomes : Follows(proc, q)
    <2> HIDE DEF c
    <2>1. QED
      BY <1>1, <1>2, <1>3, HelloWritesFollow, RequestWriteFollows, ConnectWriteFollows,
         ForwardWriteFollows, CrashFollows
  <1>5. QED
    BY <1>1, <1>3, <1>4, VisitKeepsInv

LEMMA RequestDomainKeepsInv == \A f \in Fds : ProxyInv /\ RequestDomain(f) => ProxyInv'
  <1> SUFFICES ASSUME NEW f \in Fds, ProxyInv, RequestDomain(f) PROVE ProxyInv'
    OBVIOUS
  <1> DEFINE c == Owner(f)
             s == [proc EXCEPT !.conn[c].status = "pending", !.conn[c].state = "resolve"]
             r == [proc.conn[c] EXCEPT !.status = "pending"]
             m == [proc EXCEPT !.conn[c] = r]
  <1>1. Sound(proc) /\ phase = "iterate" /\ Registered(proc, f)
    BY DEF ProxyInv, RequestDomain, Visit, Registered
  <1>2. c \in Conns /\ proc.conn[c].client \in Fds
    BY <1>1, OwnerKnown
  <1>3. Follows(proc, s)
    <2>1. proc.conn[c] \in Connection
      BY <1>1, <1>2 DEF Sound, Process
    <2>2. /\ r \in Connection /\ r.refs = proc.conn[c].refs
          /\ r.client = proc.conn[c].client /\ r.origin = proc.conn[c].origin
          /\ Assigned(proc.conn[c]) => Assigned(r)
      BY <2>1 DEF Connection, Assigned
    <2>3. s = [m EXCEPT !.conn[c].state = "resolve"]
      OBVIOUS
    <2> HIDE DEF c, r, s
    <2>4. Follows(proc, m)
      BY <1>1, <1>2, <2>2, ConnFollows
    <2> HIDE DEF m
    <2>5. QED
      BY <1>2, <2>3, <2>4, StateFollows, FollowsTrans DEF Follows, States
  <1>4. CASE \E t \in Threads :
               /\ resolver[t].pc = "idle"
               /\ resolver' = [resolver EXCEPT ![t] = [ pc |-> "lookup", conn |-> c ]]
               /\ Handled(f, {s})
    <2>1. PICK t \in Threads :
               /\ resolver' = [resolver EXCEPT ![t] = [ pc |-> "lookup", conn |-> c ]]
               /\ Handled(f, {s})
      BY <1>4
    <2> HIDE DEF c, s
    <2>2. Follows(proc, proc')
      BY <1>1, <1>3, <2>1, HandledFollows
    <2>3. LoopTypeOK'
      <3>1. resolver' \in [Threads -> [ pc   : { "idle", "lookup", "notify", "signal" },
                                        conn : Conns \cup {NoConn} ]]
        BY <1>2, <2>1 DEF ProxyInv, LoopTypeOK
      <3>2. QED
        BY <2>1, <3>1 DEF ProxyInv, LoopTypeOK, Handled, Interest
    <2>4. ThreadsKnow'
      BY <1>2, <2>1, <2>2 DEF ProxyInv, LoopTypeOK, ThreadsKnow, Follows
    <2>5. WakeUp'
      BY <1>1, <2>1 DEF WakeUp, Handled
    <2>6. QED
      BY <2>2, <2>3, <2>4, <2>5 DEF ProxyInv, Follows
  <1>5. CASE Handled(f, {Finish(proc, c)}) /\ UNCHANGED resolver
    <2> HIDE DEF c
    <2>1. QED
      BY <1>1, <1>2, <1>5, FinishFollows, VisitKeepsInv
  <1>6. QED
    BY <1>4, <1>5 DEF RequestDomain

LEMMA NotifyBlockKeepsInv == ProxyInv /\ NotifyBlock => ProxyInv'
  <1> SUFFICES ASSUME ProxyInv, NotifyBlock PROVE ProxyInv'
    OBVIOUS
  <1> DEFINE f == Head(jobs)
             c == Owner(f)
  <1>1. /\ Sound(proc) /\ f \in Fds /\ jobs' = Tail(jobs) /\ jobs' \in Seq(Fds)
        /\ phase = "block" /\ UNCHANGED << phase, ready, alarm, resolver >>
    BY DEF ProxyInv, LoopTypeOK, NotifyBlock
  <1>2. Follows(proc, proc')
    <2>1. CASE Registered(proc, f)
      <3>1. c \in Conns /\ proc.conn[c].client \in Fds
        BY <1>1, <2>1, OwnerKnown
      <3>2. proc' \in ResolutionBlock(proc, f, c) \cup {Crash(proc, "abort")}
        BY <2>1 DEF NotifyBlock
      <3> HIDE DEF c, f
      <3>3. QED
        BY <1>1, <3>1, <3>2, ResolutionBlockFollows, CrashFollows
    <2>2. CASE ~Registered(proc, f)
      BY <1>1, <2>2, SelfFollows DEF NotifyBlock
    <2>3. QED
      BY <2>1, <2>2
  <1>3. LoopTypeOK'
    BY <1>1 DEF ProxyInv, LoopTypeOK
  <1>4. ThreadsKnow'
    BY <1>1, <1>2, ThreadsStillKnow DEF ProxyInv
  <1>5. WakeUp'
    BY <1>1 DEF WakeUp
  <1>6. QED
    BY <1>2, <1>3, <1>4, <1>5 DEF ProxyInv, Follows

LEMMA LookupKeepsInv == \A t \in Threads : ProxyInv /\ Lookup(t) => ProxyInv'
  <1> SUFFICES ASSUME NEW t \in Threads, ProxyInv, Lookup(t) PROVE ProxyInv'
    OBVIOUS
  <1> DEFINE c  == resolver[t].conn
             r0 == proc.conn[c]
             ok == [r0 EXCEPT !.res = "list", !.status = "ok"]
             ko == [r0 EXCEPT !.status = "fail"]
  <1>1. /\ Sound(proc) /\ c \in Conns /\ resolver[t].pc = "lookup"
        /\ resolver' = [resolver EXCEPT ![t].pc = "notify"]
        /\ UNCHANGED << phase, ready, jobs, alarm >>
    BY DEF ProxyInv, ThreadsKnow, Lookup
  <1>2. r0 \in Connection
    BY <1>1 DEF Sound, Process
  <1>3. /\ ok \in Connection /\ ok.refs = r0.refs /\ ok.client = r0.client
        /\ ko \in Connection /\ ko.refs = r0.refs /\ ko.client = r0.client
        /\ ok.origin = r0.origin /\ Assigned(ok)
        /\ ko.origin = r0.origin
        /\ Assigned(r0) => Assigned(ko)
    BY <1>2, ZenonT(60) DEF Connection, Assigned
  <1>4. proc' \in { [proc EXCEPT !.conn[c] = ok], [proc EXCEPT !.conn[c] = ko],
                    proc, Crash(proc, "undefined") }
    <2>1. /\ [proc EXCEPT !.conn[c].res = "list", !.conn[c].status = "ok"]
                = [proc EXCEPT !.conn[c] = ok]
          /\ [proc EXCEPT !.conn[c].status = "fail"] = [proc EXCEPT !.conn[c] = ko]
      OBVIOUS
    <2>2. \/ proc' = [proc EXCEPT !.conn[c].res = "list", !.conn[c].status = "ok"]
          \/ proc' = [proc EXCEPT !.conn[c].status = "fail"]
          \/ proc' = proc
          \/ proc' = Crash(proc, "undefined")
      BY DEF Lookup
    <2> HIDE DEF c, r0, ok, ko
    <2>3. QED
      BY <2>1, <2>2
  <1> HIDE DEF ok, ko
  <1>5. Follows(proc, proc')
    <2> HIDE DEF c
    <2>1. QED
      BY <1>1, <1>3, <1>4, ConnFollows, SelfFollows, CrashFollows
  <1>6. LoopTypeOK'
    BY <1>1 DEF ProxyInv, LoopTypeOK
  <1>7. ThreadsKnow'
    BY <1>1, <1>5 DEF ProxyInv, LoopTypeOK, ThreadsKnow, Follows
  <1>8. WakeUp'
    <2>1. Running' => Running
      <3>1. proc'.crash = proc.crash \/ proc'.crash = "undefined"
        BY <1>1, <1>4 DEF Sound, Process, Crash
      <3>2. QED
        BY <3>1 DEF Running
    <2>2. QED
      BY <1>1, <2>1 DEF ProxyInv, LoopTypeOK, WakeUp
  <1>9. QED
    BY <1>5, <1>6, <1>7, <1>8 DEF ProxyInv, Follows

LEMMA PushJobKeepsInv == \A t \in Threads : ProxyInv /\ PushJob(t) => ProxyInv'
  <1> SUFFICES ASSUME NEW t \in Threads, ProxyInv, PushJob(t) PROVE ProxyInv'
    OBVIOUS
  <1> DEFINE f == proc.conn[resolver[t].conn].client
  <1>1. /\ f \in Fds /\ jobs' = << f >> \o jobs
        /\ resolver' = [resolver EXCEPT ![t].pc = "signal"]
        /\ UNCHANGED << proc, phase, ready, alarm >>
    BY DEF ProxyInv, ThreadsKnow, PushJob
  <1> HIDE DEF f
  <1>2. LoopTypeOK'
    <2>1. jobs' \in Seq(Fds)
      BY <1>1 DEF ProxyInv, LoopTypeOK
    <2>2. QED
      BY <1>1, <2>1 DEF ProxyInv, LoopTypeOK
  <1>3. Sound(proc)' /\ ThreadsKnow'
    BY <1>1 DEF ProxyInv, LoopTypeOK, ThreadsKnow
  <1>4. WakeUp'
    <2>1. resolver'[t].pc = "signal"
      BY <1>1 DEF ProxyInv, LoopTypeOK
    <2>2. QED
      BY <2>1 DEF WakeUp
  <1>5. QED
    BY <1>2, <1>3, <1>4 DEF ProxyInv

LEMMA SignalKeepsInv == \A t \in Threads : ProxyInv /\ Signal(t) => ProxyInv'
  <1> SUFFICES ASSUME NEW t \in Threads, ProxyInv, Signal(t) PROVE ProxyInv'
    OBVIOUS
  <1>1. /\ alarm' = TRUE
        /\ resolver' = [resolver EXCEPT ![t] = [ pc |-> "idle", conn |-> NoConn ]]
        /\ UNCHANGED << proc, phase, ready, jobs >>
    BY DEF Signal
  <1>2. LoopTypeOK'
    BY <1>1 DEF ProxyInv, LoopTypeOK
  <1>3. Sound(proc)' /\ ThreadsKnow'
    BY <1>1 DEF ProxyInv, LoopTypeOK, ThreadsKnow
  <1>4. WakeUp'
    BY <1>1 DEF WakeUp
  <1>5. QED
    BY <1>2, <1>3, <1>4 DEF ProxyInv

LEMMA ProxyInvStep == ProxyInv /\ [Next]_vars => ProxyInv'
  <1> SUFFICES ASSUME ProxyInv, [Next]_vars PROVE ProxyInv'
    OBVIOUS
  <1>1. CASE Loop
    BY <1>1, SweepKeepsInv, PhasesKeepInv, AcceptKeepsInv, ReadReadyKeepsInv,
       RequestDomainKeepsInv, WriteReadyKeepsInv, NotifyBlockKeepsInv DEF Loop
  <1>2. CASE \E f \in Fds : Tick(f)
    BY <1>2, TickKeepsInv
  <1>3. CASE \E t \in Threads : Resolving(t)
    BY <1>3, LookupKeepsInv, PushJobKeepsInv, SignalKeepsInv DEF Resolving
  <1>4. CASE UNCHANGED vars
    BY <1>4 DEF vars, ProxyInv, LoopTypeOK, ThreadsKnow, WakeUp, Running
  <1>5. QED
    BY <1>1, <1>2, <1>3, <1>4 DEF Next, Dead

LEMMA ProxyInvAlways == Spec => []ProxyInv
  <1>1. QED
    BY ProxyInvInit, ProxyInvStep, PTL DEF Spec

-----------------------------------------------------------------------------
(***************************************************************************)
(* Without timeouts.                                                       *)
(*                                                                         *)
(* Only the sweep takes one descriptor of a connection and leaves the      *)
(* other.  Where no time passes a handler either keeps its connection      *)
(* whole or ends it with both descriptors and its share of the gauges, and *)
(* touches nothing of the others: Whole, Goes, Ends and Elsewhere.         *)
(***************************************************************************)
NoTime == "time" \notin Env

\* The gauge never meets its ceiling.
Roomy == IsFiniteSet(Conns) /\ Cardinality(Conns) <= MaxConnections

Negotiating == { "hello", "hello_to_auth", "auth", "auth_failed" }

\* What RelayHasDriver asks of the interests of both legs, and that only the
\* leg that bytes wait for is asked whether it can be written.
DrivenBy(r, client, origin) ==
    /\ ~(r.upload /\ r.reply = "data")
    /\ r.upload => origin = "write"
    /\ r.reply = "data" => client = "write"
    /\ ~r.upload /\ r.reply # "data" => client = "read" /\ origin = "read"
    /\ client = "write" => r.reply = "data"
    /\ origin = "write" => r.upload

Driven(p, c) ==
    DrivenBy(p.conn[c], p.item[p.conn[c].client].interest,
                        p.item[p.conn[c].origin].interest)

\* A connection that has all it names, and nothing that its state does not use.
Whole(p, c) ==
    LET r == p.conn[c]
    IN  /\ r.client \in Fds /\ p.item[r.client].owner = c
        /\ r.origin # NoFd => p.item[r.origin].owner = c
        /\ r.origin # r.client
        /\ r.state \in Negotiating => r.origin = NoFd
        /\ r.upload => r.state = "forwarding"
        /\ r.state = "forwarding" => r.origin # NoFd /\ Driven(p, c)

\* A free block.
Blank(p, c) ==
    LET r == p.conn[c] IN r.origin = NoFd /\ ~r.upload /\ r.state = "hello"

\* The connection has its name for good: no further hello or auth will be read.
Entered(p, c) ==
    LET r == p.conn[c]
    IN  \/ r.state \in { "request", "resolve", "connect", "forwarding" }
        \/ r.state \in { "hello", "auth" } /\ p.item[r.client].interest = "write"

Bears(p, c, u) == Entered(p, c) /\ p.conn[c].user = u

\* A handler of c leaves the other connections and their descriptors alone.
Elsewhere(p, c, q) ==
    /\ \A d \in Conns \ {c} : q.conn[d] = p.conn[d]
    /\ \A g \in Fds : p.item[g].owner \notin {c, NoConn} => q.item[g] = p.item[g]
    /\ \A g \in Fds : q.item[g].late => p.item[g].late

Goes(p, c, q) ==
    /\ Live(q, c)
    /\ q.crash = "no" => Whole(q, c)
    /\ q.conn[c].client = p.conn[c].client
    /\ q.current = p.current
    /\ \A u \in q.active : Bears(q, c, u) \/ (u \in p.active /\ ~Bears(p, c, u))

Ends(p, c, q) ==
    /\ ~Live(q, c)
    /\ Blank(q, c)
    /\ q.current = IF p.current > 0 THEN p.current - 1 ELSE 0
    /\ \A u \in q.active : u \in p.active /\ ~Bears(p, c, u)

Moves(p, c, q) == Elsewhere(p, c, q) /\ Goes(p, c, q)

\* What a handler can leave.
Result(p, c, q) ==
    /\ Elsewhere(p, c, q)
    /\ \/ Ends(p, c, q)
       \/ Goes(p, c, q) /\ (q.crash = "no" => q.conn[c].state # "resolve")

LiveOnes(p) == { c \in Conns : Live(p, c) }

Parts(p)   == \A c \in Conns : IF Live(p, c) THEN p.crash = "no" => Whole(p, c)
                                             ELSE Blank(p, c)
Fresh(p)   == \A f \in Fds : ~p.item[f].late
Counted(p) == Roomy => p.current = Cardinality(LiveOnes(p))
Listed(p)  == \A u \in p.active : \E c \in Conns : Live(p, c) /\ Bears(p, c, u)

\* The threads at work and the queued answers belong to the connections that
\* wait for a resolution, one to each.
AtWork == { t \in Threads : resolver[t].pc \in { "lookup", "notify" } }

Awaits(c, f) ==
    /\ Live(proc, c)
    /\ proc.conn[c].state = "resolve"
    /\ proc.conn[c].client = f

Resolutions ==
    Running =>
    /\ \A t \in AtWork : LET f == proc.conn[resolver[t].conn].client
                         IN  /\ resolver[t].conn \in Conns
                             /\ Awaits(resolver[t].conn, f)
                             /\ \A i \in 1 .. Len(jobs) : jobs[i] # f
    /\ \A s, t \in AtWork : resolver[s].conn = resolver[t].conn => s = t
    /\ \A i \in 1 .. Len(jobs) : \E c \in Conns : Awaits(c, jobs[i])
    /\ \A i, j \in 1 .. Len(jobs) : jobs[i] = jobs[j] => i = j
    /\ \A c \in Conns : Awaits(c, proc.conn[c].client) =>
          \/ \E t \in AtWork : resolver[t].conn = c
          \/ \E i \in 1 .. Len(jobs) : jobs[i] = proc.conn[c].client

CalmInv ==
    /\ Parts(proc)
    /\ Fresh(proc)
    /\ Counted(proc)
    /\ Listed(proc)
    /\ Resolutions

-----------------------------------------------------------------------------
\* A handler is called for a connection like this.
Calm(p, c) ==
    /\ Sound(p)
    /\ p.crash = "no"
    /\ c \in Conns
    /\ Live(p, c)
    /\ Whole(p, c)

LEMMA CalmFacts ==
    ASSUME NEW p, NEW c, Calm(p, c)
    PROVE  /\ p \in Process /\ c \in Conns /\ p.conn[c] \in Connection
           /\ p.conn[c].client \in Fds /\ p.conn[c].client # NoFd
           /\ Registered(p, p.conn[c].client)
           /\ p.conn[c].origin # NoFd => /\ p.conn[c].origin \in Fds
                                         /\ Registered(p, p.conn[c].origin)
           /\ Held(p, c) = { p.conn[c].client, p.conn[c].origin } \ {NoFd}
  <1>1. p \in Process /\ c \in Conns /\ p.conn[c] \in Connection /\ NoFd \notin Fds
    BY DEF Calm, Sound, Process, NoFd, Fds
  <1>2. p.conn[c].client \in Fds /\ p.item[p.conn[c].client].owner = c
    BY DEF Calm, Whole
  <1>3. p.conn[c].origin # NoFd => /\ p.conn[c].origin \in Fds
                                   /\ p.item[p.conn[c].origin].owner = c
    BY <1>1 DEF Calm, Whole, Connection
  <1>4. Held(p, c) \subseteq { p.conn[c].client, p.conn[c].origin }
    BY DEF Calm, Sound, OwnersKnow
  <1>5. Held(p, c) \subseteq Fds
    BY DEF Held
  <1>6. QED
    BY <1>1, <1>2, <1>3, <1>4, <1>5, ProxyAssumption DEF Held, Registered

LEMMA SetInterestFacts ==
    ASSUME NEW p, p \in Process, NEW f \in Fds, NEW i \in Interest
    PROVE  LET q == SetInterest(p, f, i)
           IN  /\ q.conn = p.conn /\ q.active = p.active
               /\ q.current = p.current /\ q.crash = p.crash
               /\ q.item[f].interest = i /\ q.item[f].owner = p.item[f].owner
               /\ q.item[f].late => p.item[f].late
               /\ \A g \in Fds \ {f} : q.item[g] = p.item[g]
  <1> DEFINE e == [ owner |-> p.item[f].owner, interest |-> i,
                    late |-> IF i = "noop" THEN p.item[f].late ELSE FALSE ]
             q == SetInterest(p, f, i)
  <1>1. q = [p EXCEPT !.item[f] = e]
    BY DEF SetInterest
  <1>2. /\ e.interest = i /\ e.owner = p.item[f].owner
        /\ e.late => p.item[f].late
    OBVIOUS
  <1> HIDE DEF e
  <1>3. /\ q.conn = p.conn /\ q.active = p.active
        /\ q.current = p.current /\ q.crash = p.crash
        /\ q.item = [p.item EXCEPT ![f] = e]
    BY <1>1 DEF Process
  <1>4. p.item \in [Fds -> Item]
    BY DEF Process
  <1> HIDE DEF q
  <1>5. q.item[f] = e /\ \A g \in Fds \ {f} : q.item[g] = p.item[g]
    BY <1>3, <1>4
  <1>6. QED
    BY <1>2, <1>3, <1>5 DEF q

LEMMA StampFacts ==
    ASSUME NEW p, p \in Process, NEW f
    PROVE  LET q == Stamp(p, f)
           IN  /\ q.conn = p.conn /\ q.active = p.active
               /\ q.current = p.current /\ q.crash = p.crash
               /\ \A g \in Fds : /\ q.item[g].owner = p.item[g].owner
                                 /\ q.item[g].interest = p.item[g].interest
                                 /\ q.item[g].late => p.item[g].late
                                 /\ g # f => q.item[g] = p.item[g]
  <1>1. CASE Registered(p, f)
    BY <1>1 DEF Stamp, Registered, Process, Item
  <1>2. CASE ~Registered(p, f)
    BY <1>2 DEF Stamp
  <1>3. QED
    BY <1>1, <1>2

LEMMA ElsewhereTrans ==
    ASSUME NEW p, NEW c, NEW m, NEW q, Elsewhere(p, c, m), Elsewhere(m, c, q)
    PROVE  Elsewhere(p, c, q)
  BY DEF Elsewhere

\* A handler that goes on from a whole intermediate state.
LEMMA ThenResult ==
    ASSUME NEW p, NEW c, NEW m, NEW q, Moves(p, c, m), Result(m, c, q)
    PROVE  Result(p, c, q)
  <1>1. Elsewhere(p, c, q)
    BY ElsewhereTrans DEF Moves, Result
  <1>2. ASSUME Ends(m, c, q) PROVE Ends(p, c, q)
    BY <1>2 DEF Ends, Moves, Goes
  <1>3. ASSUME Goes(m, c, q) PROVE Goes(p, c, q)
    BY <1>3 DEF Moves, Goes
  <1>4. QED
    BY <1>1, <1>2, <1>3 DEF Result

LEMMA ThenMoves ==
    ASSUME NEW p, NEW c, NEW m, NEW q, Moves(p, c, m), Moves(m, c, q)
    PROVE  Moves(p, c, q)
  <1>1. Elsewhere(p, c, q)
    BY ElsewhereTrans DEF Moves
  <1>2. Goes(p, c, q)
    BY DEF Moves, Goes
  <1>3. QED
    BY <1>1, <1>2 DEF Moves

\* q differs from p in the record of c, and in the interests of its descriptors.
Touches(p, c, q) ==
    /\ \A d \in Conns \ {c} : q.conn[d] = p.conn[d]
    /\ q.conn[c].refs = p.conn[c].refs
    /\ q.conn[c].client = p.conn[c].client
    /\ q.conn[c].origin = p.conn[c].origin
    /\ q.current = p.current
    /\ q.crash = p.crash
    /\ \A g \in Fds : q.item[g].owner = p.item[g].owner
    /\ \A g \in Fds : q.item[g].late => p.item[g].late
    /\ \A g \in Fds : p.item[g].owner # c => q.item[g] = p.item[g]

LEMMA TouchesTrans ==
    ASSUME NEW p, NEW c, NEW m, NEW q, Touches(p, c, m), Touches(m, c, q)
    PROVE  Touches(p, c, q)
  BY DEF Touches

LEMMA RecordTouches ==
    ASSUME NEW p, p \in Process, NEW c \in Conns,
           NEW r, r.refs = p.conn[c].refs, r.client = p.conn[c].client,
           r.origin = p.conn[c].origin
    PROVE  LET q == [p EXCEPT !.conn[c] = r]
           IN  /\ Touches(p, c, q)
               /\ q.conn[c] = r /\ q.item = p.item /\ q.active = p.active
  BY DEF Touches, Process

LEMMA InterestTouches ==
    ASSUME NEW p, p \in Process, NEW c, NEW f \in Fds, p.item[f].owner = c,
           NEW i \in Interest
    PROVE  Touches(p, c, SetInterest(p, f, i))
  <1> DEFINE q == SetInterest(p, f, i)
  <1>1. /\ q.conn = p.conn /\ q.active = p.active
        /\ q.current = p.current /\ q.crash = p.crash
        /\ q.item[f].owner = p.item[f].owner
        /\ q.item[f].late => p.item[f].late
        /\ \A g \in Fds \ {f} : q.item[g] = p.item[g]
    BY SetInterestFacts
  <1> HIDE DEF q
  <1>2. QED
    BY <1>1 DEF Touches, q

\* Then it is enough that the new record fits its state.
LEMMA TouchMoves ==
    ASSUME NEW p, NEW c, Calm(p, c), NEW q, Touches(p, c, q),
           q.conn[c].state \in Negotiating => q.conn[c].origin = NoFd,
           q.conn[c].upload => q.conn[c].state = "forwarding",
           q.conn[c].state = "forwarding" => q.conn[c].origin # NoFd /\ Driven(q, c),
           \A u \in q.active : Bears(q, c, u) \/ (u \in p.active /\ ~Bears(p, c, u))
    PROVE  Moves(p, c, q)
  <1>1. Elsewhere(p, c, q)
    BY CalmFacts DEF Elsewhere, Touches
  <1>2. Live(q, c)
    BY DEF Calm, Live, Touches
  <1>3. Whole(q, c)
    <2>1. LET r == p.conn[c]
          IN  /\ r.client \in Fds /\ p.item[r.client].owner = c
              /\ r.origin # NoFd => r.origin \in Fds /\ p.item[r.origin].owner = c
              /\ r.origin # r.client
      BY CalmFacts DEF Calm, Whole
    <2>2. QED
      BY <2>1 DEF Whole, Touches
  <1>4. QED
    BY <1>1, <1>2, <1>3 DEF Moves, Goes, Touches

LEMMA MovesCalm ==
    ASSUME NEW p, NEW c, Calm(p, c), NEW q, Moves(p, c, q), Sound(q), q.crash = "no"
    PROVE  Calm(q, c)
  BY DEF Calm, Moves, Goes

LEMMA MovesResult ==
    ASSUME NEW p, NEW c, NEW q, Moves(p, c, q), q.conn[c].state # "resolve"
    PROVE  Result(p, c, q)
  BY DEF Moves, Result

\* finish closes what the connection holds, which frees it.
LEMMA FinishEnds ==
    ASSUME NEW p, NEW c, Calm(p, c)
    PROVE  Elsewhere(p, c, Finish(p, c)) /\ Ends(p, c, Finish(p, c))
  <1> DEFINE r  == p.conn[c]
             fs == { p.conn[c].client, p.conn[c].origin } \ {NoFd}
             n  == IF p.current > 0 THEN p.current - 1 ELSE 0
             s  == p.active \ { p.conn[c].user }
             q  == [p EXCEPT !.current = n, !.active = s]
             t  == Closed(q, fs)
             I  == [f \in Fds |-> IF f \in fs THEN Unused ELSE q.item[f]]
  <1>1. /\ p \in Process /\ c \in Conns /\ r \in Connection
        /\ Held(p, c) = fs /\ r.client \in fs
        /\ \A f \in fs : Registered(p, f)
    BY CalmFacts
  <1>0. r.refs > 0 /\ r.refs = Cardinality(fs) /\ r.refs \in Nat
    <2> HIDE DEF fs
    <2>1. QED
      BY <1>1 DEF Calm, Sound, RefsCount, Live, Connection
  <1>2. /\ q.conn = p.conn /\ q.item = p.item /\ q.current = n /\ q.active = s
    BY <1>1 DEF Process
  <1>2a. Finish(p, c) = IF \A f \in fs : Registered(p, f) THEN Closed(q, fs)
                                                        ELSE Crash(q, "abort")
    BY DEF Finish
  <1>3. Finish(p, c) = t
    <2> HIDE DEF fs, q, t
    <2>1. QED
      BY <1>1, <1>2a DEF t
  <1>4. \A d : Held(q, d) = Held(p, d)
    BY <1>2 DEF Held
  <1>5. t = [q EXCEPT !.conn = Dropped(q, fs), !.item = I, !.open = @ \ fs]
    BY DEF Closed
  <1> HIDE DEF q, t, n, s, fs
  <1>6. t.conn = Dropped(q, fs) /\ t.item = I /\ t.current = n /\ t.active = s
    <2>1. q \in [ conn : {q.conn}, item : {q.item}, open : {q.open},
                  current : {q.current}, active : {q.active}, crash : {q.crash} ]
      BY <1>1 DEF Process, q
    <2> HIDE DEF I, fs
    <2>2. QED
      BY <1>2, <1>5, <2>1
  <1>7. \A d \in Conns \ {c} : t.conn[d] = p.conn[d]
    <2> SUFFICES ASSUME NEW d \in Conns \ {c} PROVE t.conn[d] = p.conn[d]
      OBVIOUS
    <2>1. Held(q, d) \cap fs = {}
      BY <1>1, <1>4 DEF Held
    <2>2. QED
      BY <1>2, <1>6, <2>1, FS_EmptySet DEF Dropped
  <1>8. t.conn[c] = Freed(r)
    <2>1. Held(q, c) \cap fs = fs
      BY <1>1, <1>4
    <2>2. Cardinality(Held(q, c) \cap fs) # 0 /\ ~(q.conn[c].refs > Cardinality(Held(q, c) \cap fs))
      BY <1>0, <1>1, <1>2, <2>1
    <2>3. Dropped(q, fs)[c] = IF Cardinality(Held(q, c) \cap fs) = 0 THEN q.conn[c]
                              ELSE IF q.conn[c].refs > Cardinality(Held(q, c) \cap fs)
                                   THEN [q.conn[c] EXCEPT
                                          !.refs = @ - Cardinality(Held(q, c) \cap fs),
                                          !.res = "null"]
                                   ELSE Freed(q.conn[c])
      BY <1>1 DEF Dropped
    <2>4. QED
      BY <1>2, <1>6, <2>2, <2>3
  <1>9. Elsewhere(p, c, t)
    <2>1. \A g \in Fds : p.item[g].owner \notin {c, NoConn} => t.item[g] = p.item[g]
      BY <1>1, <1>2, <1>6 DEF Held
    <2>2. \A g \in Fds : t.item[g].late => p.item[g].late
      BY <1>2, <1>6 DEF Unused
    <2>3. QED
      BY <1>7, <2>1, <2>2 DEF Elsewhere
  <1>10. Ends(p, c, t)
    <2>1. ~Live(t, c) /\ Blank(t, c)
      BY <1>8 DEF Live, Blank, Freed
    <2>2. \A u \in t.active : u \in p.active /\ ~Bears(p, c, u)
      BY <1>6 DEF Bears, s
    <2>3. QED
      BY <1>6, <2>1, <2>2 DEF Ends, n
  <1>11. QED
    BY <1>3, <1>9, <1>10

LEMMA FinishResults ==
    ASSUME NEW p, NEW c, Calm(p, c)
    PROVE  Result(p, c, Finish(p, c))
  BY FinishEnds DEF Result

LEMMA StaysWhole ==
    ASSUME NEW p, NEW c, Calm(p, c)
    PROVE  Moves(p, c, p)
  BY DEF Calm, Moves, Elsewhere, Goes

LEMMA CrashResults ==
    ASSUME NEW p, NEW c, Calm(p, c), NEW why \in { "abort", "sigpipe", "undefined" }
    PROVE  Result(p, c, Crash(p, why))
  <1> DEFINE q == Crash(p, why)
  <1>1. /\ q.conn = p.conn /\ q.item = p.item /\ q.current = p.current
        /\ q.active = p.active /\ q.crash = why
    BY DEF Calm, Sound, Process, Crash
  <1> HIDE DEF q
  <1>2. Elsewhere(p, c, q)
    BY <1>1 DEF Elsewhere
  <1>3. Goes(p, c, q)
    BY <1>1 DEF Goes, Calm, Live, Bears, Entered
  <1>4. QED
    BY <1>1, <1>2, <1>3 DEF Result, q

-----------------------------------------------------------------------------
(***************************************************************************)
(* The negotiation.  p is what the handler found, m what its reading part  *)
(* made of it.                                                             *)
(***************************************************************************)
LEMMA SendFailuresResult ==
    ASSUME NEW p, NEW c, Calm(p, c)
    PROVE  /\ \A q \in SendFailures(p, c) : Result(p, c, q)
           /\ \A q \in HangUp(p, c) : Result(p, c, q)
  <1>1. Result(p, c, Finish(p, c)) /\ Result(p, c, Crash(p, "sigpipe"))
    BY FinishResults, CrashResults
  <1>2. QED
    BY <1>1 DEF SendFailures, HangUp

LEMMA RespondResults ==
    ASSUME NEW p, NEW c, Calm(p, c), NEW m, Touches(p, c, m), Sound(m),
           m.conn[c].state \in Negotiating, ~m.conn[c].upload,
           m.conn[c].origin = NoFd,
           NEW current \in Negotiating, NEW next \in { "request", "auth", "hello_to_auth" },
           m.conn[c].reply = "none" => m.conn[c].state = current,
           NEW i \in Interest,
           \A u \in m.active :
               \/ u \in p.active /\ ~Bears(p, c, u)
               \/ Bears(m, c, u) /\ next = "request" /\ m.conn[c].state = current
    PROVE  \A q \in Respond(m, m.conn[c].client, c, current, next, i) : Result(p, c, q)
  <1> DEFINE r    == m.conn[c]
             f    == r.client
             rn   == [r EXCEPT !.reply = "none", !.state = next]
             rk   == [r EXCEPT !.state = current]
             none == [m EXCEPT !.conn[c] = rn]
             sent == SetInterest(none, f, i)
             kept == [m EXCEPT !.conn[c] = rk]
  <1>1. /\ c \in Conns /\ m \in Process /\ r \in Connection /\ m.crash = "no"
        /\ f \in Fds /\ m.item[f].owner = c
    BY CalmFacts DEF Calm, Sound, Process, Touches, Whole
  <1>2. Moves(p, c, m)
    <2>1. "forwarding" \notin Negotiating
      BY DEF Negotiating
    <2>2. QED
      BY <2>1, TouchMoves
  <1>3. Calm(m, c)
    BY <1>1, <1>2, MovesCalm
  <1>4. \A q \in SendFailures(m, c) : Result(p, c, q)
    BY <1>2, <1>3, SendFailuresResult, ThenResult
  <1>5. m.conn[c].reply = "none" => Result(p, c, m)
    BY <1>2, MovesResult DEF Negotiating
  <1>6. /\ rn.refs = r.refs /\ rn.client = f /\ rn.origin = NoFd
        /\ rn.state = next /\ rn.upload = FALSE /\ rn.user = r.user
        /\ rk.refs = r.refs /\ rk.client = f /\ rk.origin = NoFd
        /\ rk.state = current /\ rk.upload = FALSE /\ rk.user = r.user
    BY <1>1 DEF Connection
  <1>7. Respond(m, f, c, current, next, i)
          \subseteq (IF r.reply = "none" THEN {m} ELSE {sent, kept}) \cup SendFailures(m, c)
    <2>1. none = [m EXCEPT !.conn[c].reply = "none", !.conn[c].state = next]
      BY <1>1 DEF Process
    <2>2. kept = [m EXCEPT !.conn[c].state = current]
      BY <1>1 DEF Process
    <2> HIDE DEF none, kept, f
    <2>3. QED
      BY <2>1, <2>2 DEF Respond
  <1> HIDE DEF rn, rk
  <1>8. Result(p, c, sent)
    <2>1. /\ Touches(m, c, none) /\ none.conn[c] = rn /\ none.item = m.item
          /\ none.active = m.active /\ none \in Process
      <3>1. rn \in Connection
        BY <1>1 DEF rn, Connection, States
      <3>2. none \in Process
        BY <1>1, <3>1 DEF Process
      <3>3. QED
        BY <1>1, <1>6, <3>2, RecordTouches
    <2> HIDE DEF none
    <2>2. /\ Touches(none, c, sent) /\ sent.conn = none.conn
          /\ sent.active = none.active
      BY <1>1, <2>1, InterestTouches, SetInterestFacts
    <2> HIDE DEF sent
    <2>3. Touches(p, c, sent)
      BY <2>1, <2>2, TouchesTrans
    <2>4. \A u \in sent.active : Bears(sent, c, u) \/ (u \in p.active /\ ~Bears(p, c, u))
      BY <1>6, <2>1, <2>2 DEF Bears, Entered
    <2>5. Moves(p, c, sent)
      BY <1>6, <2>1, <2>2, <2>3, <2>4, TouchMoves
    <2>6. QED
      BY <1>6, <2>1, <2>2, <2>5, MovesResult
  <1>9. Result(p, c, kept)
    <2>1. /\ Touches(m, c, kept) /\ kept.conn[c] = rk /\ kept.item = m.item
          /\ kept.active = m.active
      BY <1>1, <1>6, RecordTouches
    <2> HIDE DEF kept
    <2>2. Touches(p, c, kept)
      BY <2>1, TouchesTrans
    <2>3. \A u \in kept.active : Bears(kept, c, u) \/ (u \in p.active /\ ~Bears(p, c, u))
      BY <1>6, <2>1 DEF Bears, Entered
    <2>4. current # "forwarding" /\ current # "resolve"
      BY DEF Negotiating
    <2>5. Moves(p, c, kept)
      BY <1>6, <2>1, <2>2, <2>3, <2>4, TouchMoves
    <2>6. QED
      BY <1>6, <2>1, <2>4, <2>5, MovesResult
  <1> HIDE DEF sent, kept, f, r
  <1>10. QED
    BY <1>4, <1>5, <1>7, <1>8, <1>9 DEF f, r

LEMMA NegotiationFacts ==
    ASSUME NEW p, NEW c, Calm(p, c), p.conn[c].state \in Negotiating
    PROVE  p.conn[c].origin = NoFd /\ ~p.conn[c].upload
  BY DEF Calm, Whole, Negotiating

LEMMA NegotiationWrites ==
    ASSUME NEW p, NEW c, Calm(p, c), NEW f, f = p.conn[c].client
    PROVE  /\ p.conn[c].state = "hello" =>
                 \A q \in HelloWrite(p, f, c) : Result(p, c, q)
           /\ p.conn[c].state = "hello_to_auth" =>
                 \A q \in HelloToAuthWrite(p, f, c) : Result(p, c, q)
           /\ p.conn[c].state = "auth" =>
                 \A q \in AuthWrite(p, f, c) : Result(p, c, q)
           /\ p.conn[c].state = "auth_failed" =>
                 \A q \in AuthFailedWrite(p, f, c) : Result(p, c, q)
  <1>1. /\ {"hello", "hello_to_auth", "auth", "auth_failed"} \subseteq Negotiating
        /\ {"read", "write"} \subseteq Interest
        /\ Sound(p) /\ Touches(p, c, p)
    BY DEF Negotiating, Interest, Calm, Touches
  <1>2. CASE p.conn[c].state = "hello"
    BY <1>1, <1>2, NegotiationFacts, RespondResults DEF HelloWrite
  <1>3. CASE p.conn[c].state = "hello_to_auth"
    <2>1. \A u : ~Bears(p, c, u)
      BY <1>3 DEF Bears, Entered
    <2>2. QED
      BY <1>1, <1>3, <2>1, NegotiationFacts, RespondResults DEF HelloToAuthWrite
  <1>4. CASE p.conn[c].state = "auth"
    BY <1>1, <1>4, NegotiationFacts, RespondResults DEF AuthWrite
  <1>5. CASE p.conn[c].state = "auth_failed"
    <2>1. \A u : ~Bears(p, c, u)
      BY <1>5 DEF Bears, Entered
    <2>2. CASE p.conn[c].reply # "none"
      <3>1. AuthFailedWrite(p, f, c) = Respond(p, f, c, "auth_failed", "hello_to_auth", "write")
        BY <2>2 DEF AuthFailedWrite
      <3>2. QED
        BY <1>1, <1>5, <2>1, <3>1, NegotiationFacts, RespondResults
    <2>3. CASE p.conn[c].reply = "none"
      <3> DEFINE r == [p.conn[c] EXCEPT !.state = "auth"]
                 q == [p EXCEPT !.conn[c] = r]
      <3>1. AuthFailedWrite(p, f, c) = {q}
        BY <2>3 DEF AuthFailedWrite
      <3>2. /\ p \in Process /\ c \in Conns
            /\ r.refs = p.conn[c].refs /\ r.client = p.conn[c].client
            /\ r.origin = p.conn[c].origin /\ r.state = "auth"
            /\ r.upload = p.conn[c].upload
        BY CalmFacts DEF Connection
      <3> HIDE DEF r
      <3>3. Touches(p, c, q) /\ q.conn[c] = r /\ q.active = p.active
        BY <3>2, RecordTouches
      <3> HIDE DEF q
      <3>4. Moves(p, c, q)
        BY <1>1, <1>5, <2>1, <3>2, <3>3, NegotiationFacts, TouchMoves
      <3>5. QED
        BY <1>5, <3>1, <3>2, <3>3, <3>4, MovesResult
    <2>4. QED
      BY <1>5, <2>2, <2>3
  <1>6. QED
    BY <1>2, <1>3, <1>4, <1>5

LEMMA ReplyingTouches ==
    ASSUME NEW p, NEW c, Calm(p, c), NEW f \in Fds, p.item[f].owner = c,
           NEW v \in Replies
    PROVE  LET w == Replying(p, f, c, v)
           IN  /\ Touches(p, c, w)
               /\ w.conn[c] = [p.conn[c] EXCEPT !.reply = v]
               /\ w.active = p.active
               /\ w.item[f].interest = "write"
  <1> DEFINE r == [p.conn[c] EXCEPT !.reply = v]
             m == [p EXCEPT !.conn[c] = r]
             w == SetInterest(m, f, "write")
  <1>1. p \in Process /\ c \in Conns /\ p.conn[c] \in Connection
    BY CalmFacts
  <1>2. /\ r.refs = p.conn[c].refs /\ r.client = p.conn[c].client
        /\ r.origin = p.conn[c].origin /\ r \in Connection
    BY <1>1 DEF Connection, Replies
  <1>3. Replying(p, f, c, v) = w
    BY DEF Replying
  <1> HIDE DEF r
  <1>4. /\ Touches(p, c, m) /\ m.conn[c] = r /\ m.item = p.item /\ m.active = p.active
        /\ m \in Process
    <2>1. m \in Process
      BY <1>1, <1>2 DEF Process
    <2>2. QED
      BY <1>1, <1>2, <2>1, RecordTouches
  <1> HIDE DEF m
  <1>5. /\ Touches(m, c, w) /\ w.conn = m.conn /\ w.active = m.active
        /\ w.item[f].interest = "write"
    BY <1>4, InterestTouches, SetInterestFacts DEF Interest
  <1> HIDE DEF w
  <1>6. QED
    BY <1>3, <1>4, <1>5, TouchesTrans DEF r

LEMMA NamedTouches ==
    ASSUME NEW p, p \in Process, NEW c \in Conns, NEW u
    PROVE  LET n == Named(p, c, u)
           IN  /\ Touches(p, c, n)
               /\ n.conn[c] = [p.conn[c] EXCEPT !.user = u]
               /\ n.active = p.active \cup {u}
               /\ n.item = p.item
  <1> DEFINE r == [p.conn[c] EXCEPT !.user = u]
             n == [p EXCEPT !.conn[c] = r, !.active = p.active \cup {u}]
  <1>1. /\ r.refs = p.conn[c].refs /\ r.client = p.conn[c].client
        /\ r.origin = p.conn[c].origin
    <2>1. p.conn[c] \in Connection
      BY DEF Process
    <2>2. QED
      BY <2>1 DEF Connection
  <1>2. Named(p, c, u) = n
    BY DEF Named, Process
  <1> HIDE DEF r
  <1>3. Touches(p, c, n) /\ n.conn[c] = r /\ n.active = p.active \cup {u} /\ n.item = p.item
    BY <1>1 DEF Touches, Process
  <1>4. QED
    BY <1>2, <1>3 DEF r, n

\* A hello or an auth request is taken in: the answer waits, and the connection
\* may have its name.
LEMMA TakenIn ==
    ASSUME NEW p, NEW c, Calm(p, c), p.conn[c].state \in { "hello", "auth" },
           p.item[p.conn[c].client].interest = "read",
           NEW v \in { "method", "auth" }
    PROVE  LET f == p.conn[c].client
               w == Replying(p, f, c, v)
           IN  /\ \A q \in HelloToAuthWrite(w, f, c) : Result(p, c, q)
               /\ \A q \in AuthFailedWrite(w, f, c) : Result(p, c, q)
               /\ \A u \in Names :
                    /\ p.conn[c].state = "hello" =>
                          \A q \in HelloWrite(Named(w, c, u), f, c) : Result(p, c, q)
                    /\ p.conn[c].state = "auth" =>
                          \A q \in AuthWrite(Named(w, c, u), f, c) : Result(p, c, q)
  <1> DEFINE f == p.conn[c].client
             w == Replying(p, f, c, v)
             r == [p.conn[c] EXCEPT !.reply = v]
  <1>1. /\ f \in Fds /\ p.item[f].owner = c /\ p \in Process /\ c \in Conns
        /\ p.conn[c] \in Connection /\ Sound(p)
    BY CalmFacts DEF Calm, Whole
  <1>2. v \in Replies /\ v \in { "method", "auth", "refused" }
    BY DEF Replies
  <1>3. /\ Touches(p, c, w) /\ w.conn[c] = r /\ w.active = p.active
        /\ w.item[f].interest = "write"
    BY <1>1, <1>2, ReplyingTouches
  <1>4. Sound(w)
    BY <1>1, <1>2, ReplyingFollows DEF Follows
  <1>5. /\ r.state = p.conn[c].state /\ r.reply = v /\ r.upload = FALSE
        /\ r.origin = NoFd /\ r.client = f
    BY <1>1, NegotiationFacts DEF Connection, Negotiating
  <1>6. \A u : ~Bears(p, c, u)
    BY DEF Bears, Entered
  <1>7. /\ {"hello", "hello_to_auth", "auth", "auth_failed"} \subseteq Negotiating
        /\ {"read", "write"} \subseteq Interest
    BY DEF Negotiating, Interest
  <1> HIDE DEF w, r, f
  <1>8. \A q \in HelloToAuthWrite(w, f, c) : Result(p, c, q)
    <2>1. \A q \in Respond(w, w.conn[c].client, c, "hello_to_auth", "auth", "read") :
             Result(p, c, q)
      BY <1>3, <1>4, <1>5, <1>6, <1>7, RespondResults
    <2>2. QED
      BY <1>3, <1>5, <2>1 DEF HelloToAuthWrite
  <1>9. \A q \in AuthFailedWrite(w, f, c) : Result(p, c, q)
    <2>1. \A q \in Respond(w, w.conn[c].client, c, "auth_failed", "hello_to_auth", "write") :
             Result(p, c, q)
      BY <1>3, <1>4, <1>5, <1>6, <1>7, RespondResults
    <2>2. AuthFailedWrite(w, f, c) = Respond(w, f, c, "auth_failed", "hello_to_auth", "write")
      BY <1>3, <1>5 DEF AuthFailedWrite
    <2>3. QED
      BY <1>3, <1>5, <2>1, <2>2
  <1>10. ASSUME NEW u \in Names
         PROVE  /\ p.conn[c].state = "hello" =>
                      \A q \in HelloWrite(Named(w, c, u), f, c) : Result(p, c, q)
                /\ p.conn[c].state = "auth" =>
                      \A q \in AuthWrite(Named(w, c, u), f, c) : Result(p, c, q)
    <2> DEFINE n == Named(w, c, u)
               s == [r EXCEPT !.user = u]
    <2>1. w \in Process /\ w.conn[c] \in Connection
      BY <1>1, <1>4 DEF Sound, Process
    <2>2. /\ Touches(w, c, n) /\ n.conn[c] = s /\ n.active = p.active \cup {u}
          /\ n.item[f].interest = "write"
      BY <1>1, <1>3, <2>1, NamedTouches
    <2>3. Sound(n)
      BY <1>1, <1>4, NamedFollows DEF Follows
    <2>4. /\ s.state = p.conn[c].state /\ s.reply = v /\ s.upload = FALSE
          /\ s.origin = NoFd /\ s.client = f /\ s.user = u
      BY <1>3, <1>5, <2>1 DEF Connection
    <2> HIDE DEF n, s
    <2>5. Touches(p, c, n)
      BY <1>3, <2>2, TouchesTrans
    <2>6. Bears(n, c, u)
      BY <2>2, <2>4 DEF Bears, Entered
    <2>7. CASE p.conn[c].state = "hello"
      <3>1. \A q \in Respond(n, n.conn[c].client, c, "hello", "request", "read") :
               Result(p, c, q)
        BY <1>6, <1>7, <2>2, <2>3, <2>4, <2>5, <2>6, <2>7, RespondResults
      <3>2. QED
        BY <2>2, <2>4, <2>7, <3>1 DEF HelloWrite, n
    <2>8. CASE p.conn[c].state = "auth"
      <3>1. \A q \in Respond(n, n.conn[c].client, c, "auth", "request", "read") :
               Result(p, c, q)
        BY <1>6, <1>7, <2>2, <2>3, <2>4, <2>5, <2>6, <2>8, RespondResults
      <3>2. QED
        BY <2>2, <2>4, <2>8, <3>1 DEF AuthWrite, n
    <2>9. QED
      BY <2>7, <2>8
  <1>11. QED
    BY <1>8, <1>9, <1>10 DEF f, w

LEMMA NegotiationReads ==
    ASSUME NEW p, NEW c, Calm(p, c), NEW f, f = p.conn[c].client,
           p.item[f].interest = "read"
    PROVE  /\ p.conn[c].state = "hello" =>
                 \A q \in HelloRead(p, f, c) : Result(p, c, q)
           /\ p.conn[c].state = "auth" =>
                 \A q \in AuthRead(p, f, c) : Result(p, c, q)
  <1>1. CASE p.conn[c].state = "hello"
    <2> DEFINE w == Replying(p, f, c, "method")
    <2>1. Result(p, c, p)
      BY <1>1, StaysWhole, MovesResult
    <2>2. HelloRead(p, f, c) \subseteq {p} \cup HangUp(p, c)
              \cup HelloWrite(Named(w, c, Anonymous), f, c) \cup HelloToAuthWrite(w, f, c)
      BY DEF HelloRead
    <2>3. /\ \A q \in HelloWrite(Named(w, c, Anonymous), f, c) : Result(p, c, q)
          /\ \A q \in HelloToAuthWrite(w, f, c) : Result(p, c, q)
      BY <1>1, TakenIn DEF Names
    <2> HIDE DEF w
    <2>4. QED
      BY <1>1, <2>1, <2>2, <2>3, SendFailuresResult
  <1>2. CASE p.conn[c].state = "auth"
    <2> DEFINE w == Replying(p, f, c, "auth")
    <2>1. Result(p, c, Crash(p, "abort"))
      BY CrashResults
    <2>2. AuthRead(p, f, c) \subseteq HangUp(p, c) \cup {Crash(p, "abort")}
              \cup AuthFailedWrite(w, f, c)
              \cup UNION { AuthWrite(Named(w, c, u), f, c) : u \in Users }
      BY DEF AuthRead
    <2>3. /\ \A q \in AuthFailedWrite(w, f, c) : Result(p, c, q)
          /\ \A u \in Users : \A q \in AuthWrite(Named(w, c, u), f, c) : Result(p, c, q)
      BY <1>2, TakenIn DEF Names
    <2> HIDE DEF w
    <2>4. QED
      BY <1>2, <2>1, <2>2, <2>3, SendFailuresResult
  <1>3. QED
    BY <1>1, <1>2

-----------------------------------------------------------------------------
(***************************************************************************)
(* The request and the connection to the origin.                           *)
(***************************************************************************)
Requesting == { "request", "resolve", "connect" }

LEMMA RequestingFacts ==
    ASSUME NEW p, NEW c, Calm(p, c), p.conn[c].state \in Requesting
    PROVE  /\ ~p.conn[c].upload
           /\ \A u : Bears(p, c, u) <=> p.conn[c].user = u
  BY DEF Calm, Whole, Requesting, Bears, Entered

\* The connection keeps its name, and its state is one of these.
LEMMA RequestingMoves ==
    ASSUME NEW p, NEW c, Calm(p, c), p.conn[c].state \in Requesting,
           NEW q, Touches(p, c, q), q.conn[c].state \in Requesting,
           q.conn[c].upload = p.conn[c].upload, q.conn[c].user = p.conn[c].user,
           q.active = p.active
    PROVE  Moves(p, c, q)
  <1>1. \A u \in q.active : Bears(q, c, u) \/ (u \in p.active /\ ~Bears(p, c, u))
    BY RequestingFacts DEF Bears, Entered, Requesting
  <1>2. q.conn[c].state \notin Negotiating /\ q.conn[c].state # "forwarding"
    BY DEF Requesting, Negotiating
  <1>3. QED
    BY <1>1, <1>2, RequestingFacts, TouchMoves

LEMMA ExhaustedResult ==
    ASSUME NEW p, NEW c, Calm(p, c), p.conn[c].state \in Requesting,
           NEW f \in Fds, p.item[f].owner \in {c, NoConn}
    PROVE  Result(p, c, Exhausted(p, f, c))
  <1> DEFINE r == [p.conn[c] EXCEPT !.reply = "refused", !.res = "null",
                                    !.addrs = 0, !.state = "request"]
             q == [p EXCEPT !.conn[c] = r]
             t == SetInterest(q, f, "write")
  <1>1. p \in Process /\ c \in Conns /\ p.conn[c] \in Connection
    BY CalmFacts
  <1>2. /\ r.refs = p.conn[c].refs /\ r.client = p.conn[c].client
        /\ r.origin = p.conn[c].origin /\ r.state = "request"
        /\ r.upload = p.conn[c].upload /\ r.user = p.conn[c].user
    BY <1>1, SMTT(60) DEF Connection
  <1>3. r \in Connection
    BY <1>1, RequestAgain DEF Replies
  <1>4. Exhausted(p, f, c) = IF Registered(p, f) THEN t ELSE q
    BY DEF Exhausted
  <1> HIDE DEF r
  <1>5. /\ Touches(p, c, q) /\ q.conn[c] = r /\ q.item = p.item /\ q.active = p.active
        /\ q \in Process
    <2>1. q \in Process
      BY <1>1, <1>3 DEF Process
    <2>2. QED
      BY <1>1, <1>2, <2>1, RecordTouches
  <1> HIDE DEF q
  <1>6. Result(p, c, q)
    BY <1>2, <1>5, RequestingMoves, MovesResult DEF Requesting
  <1>7. ASSUME Registered(p, f) PROVE Result(p, c, t)
    <2>1. q.item[f].owner = c
      BY <1>5, <1>7 DEF Registered
    <2>2. Touches(q, c, t) /\ t.conn = q.conn /\ t.active = q.active
      BY <1>5, <2>1, InterestTouches, SetInterestFacts DEF Interest
    <2> HIDE DEF t
    <2>3. Touches(p, c, t)
      BY <1>5, <2>2, TouchesTrans
    <2>4. QED
      BY <1>2, <1>5, <2>2, <2>3, RequestingMoves, MovesResult DEF Requesting
  <1>8. QED
    BY <1>4, <1>6, <1>7

LEMMA OpenedResult ==
    ASSUME NEW p, NEW c, Calm(p, c), p.conn[c].state \in Requesting,
           p.conn[c].origin = NoFd, p.conn[c].addrs > 0,
           FreeFds(p) # {}, NEW left \in 0 .. MaxAddrs
    PROVE  Result(p, c, Opened(p, c, left))
  <1> DEFINE g == NewFd(p)
             a == [p.conn[c] EXCEPT !.addrs = left]
             q == [p EXCEPT !.conn[c] = a]
             e == [ owner |-> c, interest |-> "write", late |-> FALSE ]
             r == [q.conn[c] EXCEPT !.origin = g, !.refs = @ + 1, !.state = "connect"]
             s == [q EXCEPT !.open = @ \cup {g}, !.item[g] = e, !.conn[c] = r]
  <1>1. /\ p \in Process /\ c \in Conns /\ p.conn[c] \in Connection /\ g \in Fds
        /\ Sound(p)
    BY CalmFacts, NewFdIsFree DEF Calm
  <1>2. /\ a \in Connection /\ a.refs = p.conn[c].refs /\ a.client = p.conn[c].client
        /\ a.origin = p.conn[c].origin /\ a.res = p.conn[c].res
        /\ a.state = p.conn[c].state
        /\ a.upload = p.conn[c].upload /\ a.user = p.conn[c].user
    BY <1>1 DEF Connection
  <1>3. Assigned(a)
    BY <1>1, <1>2 DEF Sound, ListsAssigned, Assigned
  <1>4. Opened(p, c, left) = IF g > MaxItem \/ Registered(p, g) THEN Finish(q, c) ELSE s
    BY DEF Opened
  <1> HIDE DEF a
  <1>5. /\ Touches(p, c, q) /\ q.conn[c] = a /\ q.item = p.item /\ q.active = p.active
        /\ Sound(q) /\ q \in Process /\ q.crash = "no"
    <2>1. Touches(p, c, q) /\ q.conn[c] = a /\ q.item = p.item /\ q.active = p.active
      BY <1>1, <1>2, RecordTouches
    <2>2. Sound(q)
      BY <1>1, <1>2, <1>3, ConnFollows DEF Follows
    <2> HIDE DEF q
    <2>3. QED
      BY <2>1, <2>2 DEF Sound, Touches, Calm
  <1>6. Moves(p, c, q)
    <2> HIDE DEF q
    <2>1. QED
      BY <1>2, <1>5, RequestingMoves
  <1>7. Result(p, c, Finish(q, c))
    <2> HIDE DEF q
    <2>1. QED
      BY <1>5, <1>6, MovesCalm, FinishResults, ThenResult
  <1>8. ASSUME ~Registered(p, g)
        PROVE  Result(p, c, s)
    <2>1. p.item[g].owner = NoConn /\ g # p.conn[c].client /\ p.item \in [Fds -> Item]
          /\ p.conn[c].client \in Fds /\ p.item[p.conn[c].client].owner = c
      BY <1>1, <1>8, CalmFacts DEF Registered, Process, Calm, Whole
    <2>2. /\ s.item = [p.item EXCEPT ![g] = e] /\ s.conn = [q.conn EXCEPT ![c] = r]
          /\ s.current = q.current /\ s.active = q.active /\ s.crash = "no"
      BY <1>5 DEF Process
    <2>3. /\ r.refs = a.refs + 1 /\ r.client = a.client /\ r.origin = g
          /\ r.state = "connect" /\ r.upload = a.upload /\ r.user = a.user
      BY <1>2, <1>5 DEF Connection
    <2> HIDE DEF r, s, e
    <2>4. s.conn[c] = r /\ \A d \in Conns \ {c} : s.conn[d] = p.conn[d]
      BY <1>1, <1>5, <2>2 DEF Process, Touches
    <2>5. s.item[g] = e /\ \A h \in Fds \ {g} : s.item[h] = p.item[h]
      BY <1>1, <2>1, <2>2
    <2> HIDE DEF g, q
    <2>6. Elsewhere(p, c, s)
      BY <2>1, <2>4, <2>5 DEF Elsewhere, e
    <2>7. Live(s, c)
      BY <1>2, <2>3, <2>4 DEF Live, Connection
    <2>8. Whole(s, c)
      <3>1. ~r.upload
        BY <1>2, <2>3, RequestingFacts
      <3>2. s.item[r.client].owner = c /\ s.item[g].owner = c /\ r.client \in Fds
        BY <1>2, <2>1, <2>3, <2>5 DEF e
      <3>3. QED
        BY <1>2, <2>1, <2>3, <2>4, <3>1, <3>2 DEF Whole, Negotiating
    <2>9. \A u \in s.active : Bears(s, c, u) \/ (u \in p.active /\ ~Bears(p, c, u))
      BY <1>2, <1>5, <2>2, <2>3, <2>4, RequestingFacts DEF Bears, Entered
    <2>10. Goes(p, c, s) /\ s.conn[c].state # "resolve"
      BY <1>2, <1>5, <2>2, <2>3, <2>4, <2>7, <2>8, <2>9 DEF Goes, Touches
    <2>11. QED
      BY <2>6, <2>10 DEF Result
  <1>9. QED
    BY <1>4, <1>7, <1>8

LEMMA TryAddressesResult ==
    ASSUME NEW p, NEW c, Calm(p, c), p.conn[c].state \in Requesting,
           NEW f \in Fds, p.item[f].owner \in {c, NoConn},
           p.conn[c].addrs = 0 \/ p.conn[c].origin = NoFd
    PROVE  \A q \in TryAddresses(p, f, c) : Result(p, c, q)
  <1> DEFINE n == p.conn[c].addrs
  <1>1. 1 .. n \subseteq 0 .. MaxAddrs /\ n \in Nat
    BY CalmFacts, ProxyAssumption DEF Connection
  <1>2. ASSUME FreeFds(p) # {}, NEW left \in 1 .. n
        PROVE  Result(p, c, Opened(p, c, left))
    <2>1. n > 0 /\ n # 0
      BY <1>1
    <2>2. QED
      BY <1>1, <1>2, <2>1, OpenedResult
  <1>3. Result(p, c, Exhausted(p, f, c)) /\ Result(p, c, Crash(p, "undefined"))
    BY ExhaustedResult, CrashResults
  <1>4. ASSUME NEW q \in TryAddresses(p, f, c)
        PROVE  \/ q = Exhausted(p, f, c)
               \/ q = Crash(p, "undefined")
               \/ FreeFds(p) # {} /\ \E left \in 1 .. n : q = Opened(p, c, left)
    BY <1>4 DEF TryAddresses
  <1>5. QED
    BY <1>2, <1>3, <1>4

LEMMA TwoElements ==
    ASSUME NEW a, NEW b, a # b
    PROVE  Cardinality({a, b}) = 2
  <1>1. Cardinality({a}) = 1 /\ IsFiniteSet({a})
    BY FS_Singleton
  <1>2. {a, b} = {a} \cup {b} /\ b \notin {a}
    OBVIOUS
  <1>3. Cardinality({a} \cup {b}) = 1 + 1
    BY <1>1, <1>2, FS_AddElement, SMTT(60)
  <1>4. QED
    BY <1>2, <1>3

\* Closing the origin of a whole connection leaves it with its client.
LEMMA OriginClosed ==
    ASSUME NEW p, NEW c, Calm(p, c), p.conn[c].origin # NoFd,
           NEW e, e = p.conn[c].origin, NEW u, u = Closed(p, {e})
    PROVE  /\ Sound(u) /\ u.crash = "no" /\ ~Registered(u, e)
           /\ u.conn[c] \in Connection /\ u.conn[c].refs = 1
           /\ u.conn[c].client = p.conn[c].client /\ u.conn[c].origin = e
           /\ u.conn[c].res = "null" /\ u.conn[c].addrs = p.conn[c].addrs
           /\ u.conn[c].state = p.conn[c].state
           /\ u.conn[c].upload = p.conn[c].upload
           /\ u.conn[c].user = p.conn[c].user
           /\ \A d \in Conns \ {c} : u.conn[d] = p.conn[d]
           /\ \A f \in Fds : u.item[f] = IF f = e THEN Unused ELSE p.item[f]
           /\ u.current = p.current /\ u.active = p.active
  <1> DEFINE r == p.conn[c]
             o == r.origin
             q == Closed(p, {o})
             I == [f \in Fds |-> IF f \in {o} THEN Unused ELSE p.item[f]]
  <1>1. /\ p \in Process /\ c \in Conns /\ r \in Connection /\ Sound(p)
        /\ o \in Fds /\ r.client \in Fds /\ o # r.client
        /\ Held(p, c) = { r.client, o }
        /\ p.item[o].owner = c
    BY CalmFacts DEF Calm, Whole
  <1>2. r.refs = 2
    <2>1. Cardinality({ r.client, o }) = 2
      BY <1>1, TwoElements
    <2>2. QED
      BY <1>1, <2>1 DEF Sound, RefsCount
  <1>3. Sound(q) /\ q.crash = "no" /\ ~Registered(q, o)
    BY <1>1, ClosedFollows DEF Follows, Calm
  <1>4. q = [p EXCEPT !.conn = Dropped(p, {o}), !.item = I, !.open = @ \ {o}]
    BY DEF Closed
  <1>5. /\ q.conn = Dropped(p, {o}) /\ q.item = I
        /\ q.current = p.current /\ q.active = p.active
    <2> HIDE DEF I, o, q
    <2>1. QED
      BY <1>1, <1>4 DEF Process
  <1> HIDE DEF q
  <1>6. \A d \in Conns \ {c} : q.conn[d] = p.conn[d]
    <2> SUFFICES ASSUME NEW d \in Conns \ {c} PROVE q.conn[d] = p.conn[d]
      OBVIOUS
    <2>1. Held(p, d) \cap {o} = {}
      BY <1>1 DEF Held
    <2>2. QED
      BY <1>5, <2>1, FS_EmptySet DEF Dropped
  <1>7. q.conn[c] = [r EXCEPT !.refs = 1, !.res = "null"]
    <2> DEFINE k == Cardinality(Held(p, c) \cap {o})
    <2>1. Held(p, c) \cap {o} = {o}
      BY <1>1
    <2>2. k = 1
      BY <2>1, FS_Singleton
    <2>3. Dropped(p, {o})[c] = IF k = 0 THEN r
                               ELSE IF r.refs > k
                                    THEN [r EXCEPT !.refs = @ - k, !.res = "null"]
                                    ELSE Freed(r)
      BY <1>1 DEF Dropped
    <2> HIDE DEF k, r, o
    <2>4. Dropped(p, {o})[c] = [r EXCEPT !.refs = r.refs - k, !.res = "null"]
      BY <1>2, <2>2, <2>3
    <2>5. r.refs - k = 1
      BY <1>2, <2>2
    <2>6. QED
      BY <1>5, <2>4, <2>5
  <1>8. \A f \in Fds : q.item[f] = IF f = o THEN Unused ELSE p.item[f]
    BY <1>5
  <1> DEFINE n == [r EXCEPT !.refs = 1, !.res = "null"]
  <1>9a. /\ n \in Connection /\ n.refs = 1 /\ n.res = "null"
         /\ n.client = r.client /\ n.origin = r.origin /\ n.addrs = r.addrs
         /\ n.state = r.state /\ n.upload = r.upload /\ n.user = r.user
    <2>1. r \in Connection
      BY <1>1
    <2> HIDE DEF r
    <2>2. QED
      BY <2>1 DEF Connection
  <1>9b. q.conn[c] = n
    BY <1>7
  <1> HIDE DEF r, o, n
  <1>9. /\ q.conn[c] \in Connection /\ q.conn[c].refs = 1
        /\ q.conn[c].client = r.client /\ q.conn[c].origin = r.origin
        /\ q.conn[c].res = "null" /\ q.conn[c].addrs = r.addrs
        /\ q.conn[c].state = r.state
        /\ q.conn[c].upload = r.upload /\ q.conn[c].user = r.user
    BY <1>9a, <1>9b
  <1>10. QED
    BY <1>1, <1>3, <1>5, <1>6, <1>8, <1>9 DEF q, r, o

LEMMA NextAddressResult ==
    ASSUME NEW p, NEW c, Calm(p, c), p.conn[c].state \in Requesting,
           p.conn[c].addrs # 0, p.conn[c].origin # NoFd,
           NEW f \in Fds, p.item[f].owner = c
    PROVE  \A q \in NextAddress(p, f, c) : Result(p, c, q)
  <1> DEFINE a == p.conn[c]
             o == a.origin
             q == Closed(p, {o})
             r == [q.conn[c] EXCEPT !.origin = NoFd, !.addrs = @ - 1]
             s == [q EXCEPT !.conn[c] = r]
             d == Crash(q, "undefined")
  <1>1. /\ p \in Process /\ c \in Conns /\ a \in Connection /\ Sound(p)
        /\ a.client \in Fds /\ o \in Fds /\ o # a.client
        /\ p.item[o].owner = c /\ p.item[a.client].owner = c
        /\ a.addrs \in 1 .. MaxAddrs
    BY CalmFacts, ProxyAssumption DEF Calm, Whole, Connection
  <1>2. /\ Sound(q) /\ q.crash = "no" /\ ~Registered(q, o)
        /\ \A b \in Conns \ {c} : q.conn[b] = p.conn[b]
        /\ q.current = p.current /\ q.active = p.active
    BY OriginClosed
  <1>4. /\ q.conn[c] \in Connection /\ q.conn[c].refs = 1
        /\ q.conn[c].client = a.client /\ q.conn[c].origin = o
        /\ q.conn[c].res = "null" /\ q.conn[c].addrs = a.addrs
        /\ q.conn[c].state = a.state
        /\ q.conn[c].upload = a.upload /\ q.conn[c].user = a.user
    BY OriginClosed
  <1>5. /\ \A g \in Fds : g # o => q.item[g] = p.item[g]
        /\ q.item[o] = Unused
    <2> HIDE DEF a, q
    <2>1. a.origin # NoFd /\ o = p.conn[c].origin /\ q = Closed(p, {o})
      BY DEF a, q
    <2> HIDE DEF o
    <2>2. \A g \in Fds : q.item[g] = IF g = o THEN Unused ELSE p.item[g]
      BY <2>1, OriginClosed
    <2>4. QED
      BY <1>1, <2>2
  <1>3. NextAddress(p, f, c) = {d} \cup IF Live(q, c) THEN TryAddresses(s, f, c) ELSE {}
    BY DEF NextAddress
  <1> HIDE DEF q, a
  <1>6. Result(p, c, d)
    <2>1. /\ d.conn = q.conn /\ d.item = q.item /\ d.current = q.current
          /\ d.active = q.active /\ d.crash = "undefined"
      BY <1>2 DEF Sound, Process, Crash
    <2> HIDE DEF d
    <2>2. Elsewhere(p, c, d)
      BY <1>1, <1>2, <1>5, <2>1 DEF Elsewhere, Unused
    <2>3. \A u \in d.active : Bears(d, c, u) \/ (u \in p.active /\ ~Bears(p, c, u))
      BY <1>2, <1>4, <2>1, RequestingFacts DEF Bears, Entered, Requesting, a
    <2>4. Goes(p, c, d)
      BY <1>2, <1>4, <2>1, <2>3 DEF Goes, Live, a
    <2>5. QED
      BY <2>1, <2>2, <2>4 DEF Result
  <1>7. \A t \in TryAddresses(s, f, c) : Result(p, c, t)
    <2>1. a.addrs - 1 \in 0 .. MaxAddrs
      BY <1>1, ProxyAssumption
    <2>2. /\ r \in Connection /\ r.refs = 1 /\ r.client = a.client /\ r.origin = NoFd
          /\ r.state = a.state /\ r.upload = a.upload /\ r.user = a.user
          /\ Assigned(r)
      BY <1>4, <2>1 DEF Connection, Assigned
    <2> HIDE DEF r
    <2>3. Sound(s)
      BY <1>1, <1>2, <1>4, <2>2, ForgottenFollows DEF Follows
    <2>4. /\ s.conn[c] = r /\ \A b \in Conns \ {c} : s.conn[b] = p.conn[b]
          /\ s.item = q.item /\ s.current = p.current /\ s.active = p.active
          /\ s.crash = "no"
      BY <1>1, <1>2 DEF Sound, Process
    <2> HIDE DEF s
    <2>5. Elsewhere(p, c, s)
      BY <1>1, <1>2, <1>5, <2>4 DEF Elsewhere, Unused
    <2>6. Live(s, c)
      BY <2>2, <2>4 DEF Live
    <2>7. Whole(s, c)
      <3>1. ~r.upload /\ r.state \notin Negotiating /\ r.state # "forwarding"
        BY <2>2, RequestingFacts DEF a, Requesting, Negotiating
      <3>2. r.client \in Fds /\ s.item[r.client].owner = c /\ r.origin # r.client
        BY <1>1, <1>5, <2>2, <2>4 DEF Fds, NoFd
      <3>3. QED
        BY <2>2, <2>4, <3>1, <3>2 DEF Whole
    <2>8. \A u \in s.active : Bears(s, c, u) \/ (u \in p.active /\ ~Bears(p, c, u))
      BY <2>2, <2>4, RequestingFacts DEF Bears, Entered, Requesting, a
    <2>9. Moves(p, c, s)
      BY <2>2, <2>4, <2>5, <2>6, <2>7, <2>8 DEF Moves, Goes, a
    <2>10. Calm(s, c)
      BY <2>3, <2>4, <2>9, MovesCalm
    <2>11. s.item[f].owner \in {c, NoConn}
      BY <1>5, <2>4 DEF Unused
    <2>12. \A t \in TryAddresses(s, f, c) : Result(s, c, t)
      BY <2>2, <2>4, <2>10, <2>11, TryAddressesResult DEF a
    <2>13. QED
      BY <2>9, <2>12, ThenResult
  <1>8. QED
    BY <1>3, <1>6, <1>7

LEMMA ConnectedResult ==
    ASSUME NEW p, NEW c, Calm(p, c), p.conn[c].state \in Requesting
    PROVE  Result(p, c, Connected(p, c))
  <1> DEFINE cl == p.conn[c].client
             r == [p.conn[c] EXCEPT !.reply = "granted", !.res = "null",
                                    !.addrs = 0, !.state = "request"]
             q == [p EXCEPT !.conn[c] = r]
             t == SetInterest(q, cl, "write")
  <1>1. /\ p \in Process /\ c \in Conns /\ p.conn[c] \in Connection
        /\ cl \in Fds /\ p.item[cl].owner = c /\ Registered(p, cl)
    BY CalmFacts DEF Calm, Whole
  <1>2. Connected(p, c) = t
    BY <1>1 DEF Connected
  <1>3. /\ r.refs = p.conn[c].refs /\ r.client = p.conn[c].client
        /\ r.origin = p.conn[c].origin /\ r.state = "request"
        /\ r.upload = p.conn[c].upload /\ r.user = p.conn[c].user
    BY <1>1, SMTT(60) DEF Connection
  <1>4. r \in Connection
    BY <1>1, RequestAgain DEF Replies
  <1> HIDE DEF r, cl
  <1>5. /\ Touches(p, c, q) /\ q.conn[c] = r /\ q.item = p.item /\ q.active = p.active
        /\ q \in Process
    <2>1. q \in Process
      BY <1>1, <1>4 DEF Process
    <2>2. QED
      BY <1>1, <1>3, <2>1, RecordTouches
  <1> HIDE DEF q
  <1>6. Touches(q, c, t) /\ t.conn = q.conn /\ t.active = q.active
    BY <1>1, <1>5, InterestTouches, SetInterestFacts DEF Interest
  <1> HIDE DEF t
  <1>7. Touches(p, c, t)
    BY <1>5, <1>6, TouchesTrans
  <1>8. QED
    BY <1>2, <1>3, <1>5, <1>6, <1>7, RequestingMoves, MovesResult DEF Requesting

LEMMA ConnectWriteResult ==
    ASSUME NEW p, NEW c, Calm(p, c), p.conn[c].state \in Requesting,
           NEW f \in Fds, p.item[f].owner = c
    PROVE  \A q \in ConnectWrite(p, f, c) : Result(p, c, q)
  <1>1. CASE p.conn[c].addrs = 0 \/ p.conn[c].origin = NoFd
    BY <1>1, TryAddressesResult DEF ConnectWrite
  <1>2. CASE p.conn[c].addrs # 0 /\ p.conn[c].origin # NoFd
    <2>1. ConnectWrite(p, f, c) \subseteq {Connected(p, c)} \cup NextAddress(p, f, c)
      BY <1>2 DEF ConnectWrite
    <2>2. QED
      BY <1>2, <2>1, ConnectedResult, NextAddressResult
  <1>3. QED
    BY <1>1, <1>2

LEMMA ConnectResult ==
    ASSUME NEW p, NEW c, Calm(p, c), p.conn[c].state \in Requesting,
           NEW f \in Fds, p.item[f].owner = c, NEW n \in 1 .. MaxAddrs
    PROVE  \A q \in Connect(p, f, c, n) : Result(p, c, q)
  <1> DEFINE r == [p.conn[c] EXCEPT !.res = "list", !.addrs = n]
             q == [p EXCEPT !.conn[c] = r]
             s == SetInterest(q, f, "noop")
  <1>1. /\ p \in Process /\ c \in Conns /\ p.conn[c] \in Connection /\ Sound(p)
        /\ n \in 0 .. MaxAddrs
    BY CalmFacts, ProxyAssumption DEF Calm
  <1>2. /\ r \in Connection /\ r.refs = p.conn[c].refs /\ r.client = p.conn[c].client
        /\ r.origin = p.conn[c].origin /\ Assigned(r)
        /\ r.state = p.conn[c].state
        /\ r.upload = p.conn[c].upload /\ r.user = p.conn[c].user
    BY <1>1 DEF Connection, Assigned
  <1>3. Connect(p, f, c, n) = ConnectWrite(s, f, c)
    BY DEF Connect
  <1> HIDE DEF r
  <1>4. Sound(q) /\ q \in Process
    BY <1>1, <1>2, ConnFollows DEF Follows, Sound
  <1>5. Touches(p, c, q) /\ q.conn[c] = r /\ q.item = p.item /\ q.active = p.active
    BY <1>1, <1>2, RecordTouches
  <1> HIDE DEF q
  <1>6. Touches(q, c, s) /\ s.conn = q.conn /\ s.active = q.active
    BY <1>4, <1>5, InterestTouches, SetInterestFacts DEF Interest
  <1>7. Sound(s)
    BY <1>4, SetInterestAlike, AlikeFollows DEF Follows, Interest
  <1> HIDE DEF s
  <1>8. Touches(p, c, s)
    BY <1>5, <1>6, TouchesTrans
  <1>9. Moves(p, c, s)
    BY <1>2, <1>5, <1>6, <1>8, RequestingMoves
  <1>10. Calm(s, c)
    BY <1>7, <1>8, <1>9, MovesCalm DEF Touches, Calm
  <1>11. s.item[f].owner = c
    BY <1>8 DEF Touches
  <1>12. \A t \in ConnectWrite(s, f, c) : Result(s, c, t)
    BY <1>2, <1>5, <1>6, <1>10, <1>11, ConnectWriteResult
  <1>13. QED
    BY <1>3, <1>9, <1>12, ThenResult

LEMMA RequestOtherResult ==
    ASSUME NEW p, NEW c, Calm(p, c), p.conn[c].state = "request",
           NEW f \in Fds, p.item[f].owner = c
    PROVE  \A q \in RequestOther(p, f, c) : Result(p, c, q)
  <1> DEFINE w == Replying(p, f, c, "refused")
  <1>1. 1 \in 1 .. MaxAddrs
    BY ProxyAssumption
  <1>2. \A q \in Connect(p, f, c, 1) : Result(p, c, q)
    BY <1>1, ConnectResult DEF Requesting
  <1>3. Result(p, c, p)
    BY StaysWhole, MovesResult
  <1>4. Result(p, c, w)
    <2>1. p.conn[c] \in Connection
      BY CalmFacts
    <2>2. /\ Touches(p, c, w) /\ w.conn[c] = [p.conn[c] EXCEPT !.reply = "refused"]
          /\ w.active = p.active
      <3>1. "refused" \in Replies
        BY DEF Replies
      <3>2. QED
        BY <3>1, ReplyingTouches
    <2> HIDE DEF w
    <2>3. /\ w.conn[c].state = "request" /\ w.conn[c].upload = p.conn[c].upload
          /\ w.conn[c].user = p.conn[c].user
      BY <2>1, <2>2 DEF Connection
    <2>4. QED
      BY <2>2, <2>3, RequestingMoves, MovesResult DEF Requesting
  <1>5. RequestOther(p, f, c) \subseteq HangUp(p, c) \cup {p} \cup {w} \cup Connect(p, f, c, 1)
    BY DEF RequestOther
  <1> HIDE DEF w
  <1>6. QED
    BY <1>2, <1>3, <1>4, <1>5, SendFailuresResult

LEMMA ResolutionBlockResult ==
    ASSUME NEW p, NEW c, Calm(p, c), p.conn[c].state = "resolve",
           NEW f \in Fds, p.item[f].owner = c
    PROVE  \A q \in ResolutionBlock(p, f, c) : Result(p, c, q)
  <1> DEFINE w == Replying(p, f, c, "refused")
             r == [w.conn[c] EXCEPT !.state = "request"]
             s == [w EXCEPT !.conn[c] = r]
  <1>1. \A n \in 1 .. MaxAddrs : \A q \in Connect(p, f, c, n) : Result(p, c, q)
    BY ConnectResult DEF Requesting
  <1>2. Result(p, c, s)
    <2>1. p.conn[c] \in Connection /\ c \in Conns /\ Sound(p)
      BY CalmFacts DEF Calm
    <2>2. /\ Touches(p, c, w) /\ w.conn[c] = [p.conn[c] EXCEPT !.reply = "refused"]
          /\ w.active = p.active
      <3>1. "refused" \in Replies
        BY DEF Replies
      <3>2. QED
        BY <3>1, ReplyingTouches
    <2>3. w \in Process
      BY <2>1, ReplyingFollows DEF Follows, Sound
    <2> HIDE DEF w
    <2>5. /\ r.refs = w.conn[c].refs /\ r.client = w.conn[c].client
          /\ r.origin = w.conn[c].origin /\ r.state = "request"
          /\ r.upload = p.conn[c].upload /\ r.user = p.conn[c].user
      BY <2>1, <2>2, <2>3 DEF Process, Connection
    <2> HIDE DEF r
    <2>6. Touches(w, c, s) /\ s.conn[c] = r /\ s.active = w.active
      BY <2>1, <2>3, <2>5, RecordTouches
    <2> HIDE DEF s
    <2>7. Touches(p, c, s)
      BY <2>2, <2>6, TouchesTrans
    <2>8. QED
      BY <2>2, <2>5, <2>6, <2>7, RequestingMoves, MovesResult DEF Requesting
  <1>3. ResolutionBlock(p, f, c) \subseteq
            {s} \cup UNION { Connect(p, f, c, n) : n \in 1 .. MaxAddrs }
    BY DEF ResolutionBlock
  <1> HIDE DEF s
  <1>4. QED
    BY <1>1, <1>2, <1>3

-----------------------------------------------------------------------------
(***************************************************************************)
(* The relay.                                                              *)
(***************************************************************************)
LEMMA TwoInterests ==
    ASSUME NEW m, m \in Process, NEW c, NEW f \in Fds, NEW g \in Fds, f # g,
           m.item[f].owner = c, m.item[g].owner = c,
           NEW i \in Interest, NEW j \in Interest,
           NEW q, q = SetInterest(SetInterest(m, f, i), g, j)
    PROVE  /\ Touches(m, c, q) /\ q.conn = m.conn /\ q.active = m.active
           /\ q.item[f].interest = i /\ q.item[g].interest = j
  <1> DEFINE n == SetInterest(m, f, i)
  <1>1. /\ Touches(m, c, n) /\ n \in Process
        /\ n.conn = m.conn /\ n.active = m.active /\ n.item[f].interest = i
    BY InterestTouches, SetInterestAlike, SetInterestFacts DEF Alike
  <1> HIDE DEF n
  <1>2. q = SetInterest(n, g, j) /\ n.item[g].owner = c
    BY <1>1 DEF Touches, n
  <1>3. /\ Touches(n, c, q) /\ q.conn = n.conn /\ q.active = n.active
        /\ q.item[g].interest = j /\ \A h \in Fds \ {g} : q.item[h] = n.item[h]
    BY <1>1, <1>2, InterestTouches, SetInterestFacts
  <1>4. Touches(m, c, q)
    BY <1>1, <1>3, TouchesTrans
  <1>5. QED
    BY <1>1, <1>3, <1>4

LEMMA BothTouch ==
    ASSUME NEW m, m \in Process, NEW c, c # NoConn, NEW f \in Fds, NEW g \in Fds, f # g,
           m.item[f].owner = c, m.item[g].owner = c,
           NEW i \in Interest, NEW j \in Interest
    PROVE  LET q == BothInterests(m, c, f, i, g, j)
           IN  /\ Touches(m, c, q) /\ q.conn = m.conn /\ q.active = m.active
               /\ q.item[f].interest = i /\ q.item[g].interest = j
  <1> DEFINE q == BothInterests(m, c, f, i, g, j)
  <1>1. q = SetInterest(SetInterest(m, f, i), g, j)
    BY DEF BothInterests, Registered
  <1> HIDE DEF q
  <1>2. /\ Touches(m, c, q) /\ q.conn = m.conn /\ q.active = m.active
        /\ q.item[f].interest = i /\ q.item[g].interest = j
    BY <1>1, TwoInterests, SMTT(60)
  <1>3. QED
    BY <1>2 DEF q

LEMMA RecordStays ==
    ASSUME NEW p, p \in Process, NEW c \in Conns,
           NEW r \in Connection, r.refs = p.conn[c].refs, r.client = p.conn[c].client,
           r.origin = p.conn[c].origin,
           NEW m, m = [p EXCEPT !.conn[c] = r]
    PROVE  /\ m \in Process /\ Touches(p, c, m) /\ m.conn[c] = r
           /\ m.item = p.item /\ m.active = p.active
  <1>1. m \in Process
    BY DEF Process
  <1>2. QED
    BY <1>1, RecordTouches

\* A handler that leaves the record r and gives both legs an interest.
LEMMA RelayResult ==
    ASSUME NEW p, NEW c, Calm(p, c), p.conn[c].state \in { "request", "forwarding" },
           NEW r \in Connection, r.refs = p.conn[c].refs, r.client = p.conn[c].client,
           r.origin = p.conn[c].origin, r.origin # NoFd, r.user = p.conn[c].user,
           r.state = "forwarding",
           NEW f, NEW g, NEW i \in Interest, NEW j \in Interest,
           \/ f = r.client /\ g = r.origin /\ DrivenBy(r, i, j)
           \/ f = r.origin /\ g = r.client /\ DrivenBy(r, j, i),
           NEW m, m \in Process, Touches(p, c, m), m.conn[c] = r,
           m.item = p.item, m.active = p.active
    PROVE  Result(p, c, BothInterests(m, c, f, i, g, j))
  <1> DEFINE q == BothInterests(m, c, f, i, g, j)
  <1>1. /\ f \in Fds /\ g \in Fds /\ f # g /\ c # NoConn
        /\ m.item[f].owner = c /\ m.item[g].owner = c
    BY CalmFacts, ProxyAssumption DEF Calm, Whole
  <1>4. /\ Touches(m, c, q) /\ q.conn = m.conn /\ q.active = m.active
        /\ q.item[f].interest = i /\ q.item[g].interest = j
    BY <1>1, BothTouch
  <1> HIDE DEF q
  <1>6. Touches(p, c, q)
    BY <1>4, TouchesTrans
  <1>7. Driven(q, c)
    BY <1>4 DEF Driven
  <1>8. \A u \in q.active : Bears(q, c, u) \/ (u \in p.active /\ ~Bears(p, c, u))
    BY <1>4 DEF Bears, Entered
  <1>9. Moves(p, c, q)
    BY <1>4, <1>6, <1>7, <1>8, TouchMoves DEF Negotiating
  <1>10. QED
    BY <1>4, <1>9, MovesResult DEF q

LEMMA RequestWriteResult ==
    ASSUME NEW p, NEW c, Calm(p, c), p.conn[c].state = "request", NEW f
    PROVE  \A q \in RequestWrite(p, f, c) : Result(p, c, q)
  <1> DEFINE a == p.conn[c]
             r == [a EXCEPT !.reply = "none", !.state = "forwarding"]
             m == [p EXCEPT !.conn[c] = r]
             b == BothInterests(m, c, a.client, "read", a.origin, "read")
  <1>1. p \in Process /\ c \in Conns /\ a \in Connection /\ "read" \in Interest
    BY CalmFacts DEF Interest
  <1>2. Result(p, c, p) /\ Result(p, c, Finish(p, c))
    BY StaysWhole, MovesResult, FinishResults
  <1>3. ASSUME a.origin # NoFd PROVE Result(p, c, b)
    <2>1. /\ r \in Connection /\ r.refs = a.refs /\ r.client = a.client
          /\ r.origin = a.origin /\ r.user = a.user /\ r.state = "forwarding"
          /\ r.reply = "none" /\ r.upload = a.upload
      BY <1>1 DEF Connection, States
    <2>2. ~a.upload
      BY RequestingFacts DEF Requesting
    <2> HIDE DEF r
    <2>3. DrivenBy(r, "read", "read")
      BY <2>1, <2>2 DEF DrivenBy
    <2>4. /\ m \in Process /\ Touches(p, c, m) /\ m.conn[c] = r
          /\ m.item = p.item /\ m.active = p.active
      BY <1>1, <2>1, RecordStays
    <2> HIDE DEF m
    <2>5. QED
      BY <1>1, <1>3, <2>1, <2>3, <2>4, RelayResult
  <1>4. m = [p EXCEPT !.conn[c].reply = "none", !.conn[c].state = "forwarding"]
    BY <1>1 DEF Process
  <1>5. RequestWrite(p, f, c) \subseteq SendFailures(p, c) \cup {p} \cup
            { IF a.origin = NoFd THEN Finish(p, c) ELSE b }
    <2> HIDE DEF m
    <2>1. QED
      BY <1>4 DEF RequestWrite
  <1> HIDE DEF b
  <1>6. QED
    BY <1>2, <1>3, <1>5, SendFailuresResult

\* Which leg f is, and what of the relay its handler finds.
LEMMA RelayFacts ==
    ASSUME NEW p, NEW c, Calm(p, c), p.conn[c].state = "forwarding",
           NEW f \in Fds, p.item[f].owner = c
    PROVE  LET r == p.conn[c]
           IN  /\ r.origin # NoFd /\ r.origin # r.client
               /\ DrivenBy(r, p.item[r.client].interest, p.item[r.origin].interest)
               /\ \/ f = r.client /\ Other(r, f) = r.origin
                  \/ f = r.origin /\ Other(r, f) = r.client
               /\ r.upload \in BOOLEAN
  <1>1. f \in Held(p, c)
    BY DEF Held
  <1>2. f \in { p.conn[c].client, p.conn[c].origin }
    BY <1>1, CalmFacts
  <1>3. p.conn[c].upload \in BOOLEAN
    BY CalmFacts DEF Connection
  <1>4. QED
    BY <1>2, <1>3 DEF Calm, Whole, Driven, Other

\* The record that SetWaiting leaves.
WithWaiting(r, f, b) ==
    IF f = r.client THEN [r EXCEPT !.upload = b]
                    ELSE [r EXCEPT !.reply = IF b THEN "data" ELSE "none"]

LEMMA WithWaitingFacts ==
    ASSUME NEW a \in Connection, NEW f, NEW b \in BOOLEAN
    PROVE  LET r == WithWaiting(a, f, b)
           IN  /\ r \in Connection
               /\ r.refs = a.refs /\ r.client = a.client /\ r.origin = a.origin
               /\ r.user = a.user /\ r.state = a.state
               /\ r.upload = IF f = a.client THEN b ELSE a.upload
               /\ r.reply = IF f = a.client THEN a.reply
                            ELSE IF b THEN "data" ELSE "none"
  <1>1. CASE f = a.client
    BY <1>1 DEF WithWaiting, Connection
  <1>2. CASE f # a.client
    <2> DEFINE v == IF b THEN "data" ELSE "none"
    <2>1. v \in { "data", "none" } /\ WithWaiting(a, f, b) = [a EXCEPT !.reply = v]
      BY <1>2 DEF WithWaiting
    <2> HIDE DEF v
    <2>2. LET r == [a EXCEPT !.reply = v]
          IN  /\ r \in Connection
              /\ r.refs = a.refs /\ r.client = a.client /\ r.origin = a.origin
              /\ r.user = a.user /\ r.state = a.state
              /\ r.upload = a.upload /\ r.reply = v
      BY <2>1 DEF Connection
    <2>3. QED
      BY <1>2, <2>1, <2>2 DEF v
  <1>3. QED
    BY <1>1, <1>2

LEMMA SetWaitingStays ==
    ASSUME NEW p, p \in Process, NEW c \in Conns, NEW f, NEW b \in BOOLEAN
    PROVE  LET m == SetWaiting(p, f, c, b)
           IN  /\ m \in Process /\ Touches(p, c, m)
               /\ m.conn[c] = WithWaiting(p.conn[c], f, b)
               /\ m.item = p.item /\ m.active = p.active
  <1> DEFINE m == SetWaiting(p, f, c, b)
             r == WithWaiting(p.conn[c], f, b)
  <1>1. m = [p EXCEPT !.conn[c] = r]
    <2>1. CASE f = p.conn[c].client
      BY <2>1 DEF SetWaiting, WithWaiting, Process
    <2>2. CASE f # p.conn[c].client
      BY <2>2 DEF SetWaiting, WithWaiting, Process
    <2>3. QED
      BY <2>1, <2>2
  <1>2. p.conn[c] \in Connection
    BY DEF Process
  <1>3. /\ r \in Connection /\ r.refs = p.conn[c].refs
        /\ r.client = p.conn[c].client /\ r.origin = p.conn[c].origin
    BY <1>2, WithWaitingFacts
  <1> HIDE DEF m, r
  <1>4. /\ m \in Process /\ Touches(p, c, m) /\ m.conn[c] = r
        /\ m.item = p.item /\ m.active = p.active
    <2> DEFINE s == [p EXCEPT !.conn[c] = r]
    <2>1. m \in Process
      BY <1>1, <1>3 DEF Process
    <2>2. /\ Touches(p, c, s) /\ s.conn[c] = r
          /\ s.item = p.item /\ s.active = p.active
      BY <1>3, RecordTouches
    <2> HIDE DEF s
    <2>3. QED
      BY <1>1, <2>1, <2>2 DEF s
  <1>5. QED
    BY <1>4 DEF m, r

\* The record stays, both legs get an interest.
LEMMA SameRecordResult ==
    ASSUME NEW p, NEW c, Calm(p, c), p.conn[c].state = "forwarding",
           p.conn[c].origin # NoFd,
           NEW f, NEW g, NEW i \in Interest, NEW j \in Interest,
           LET r == p.conn[c]
           IN  \/ f = r.client /\ g = r.origin /\ DrivenBy(r, i, j)
               \/ f = r.origin /\ g = r.client /\ DrivenBy(r, j, i)
    PROVE  Result(p, c, BothInterests(p, c, f, i, g, j))
  <1>1. p \in Process /\ p.conn[c] \in Connection
    BY CalmFacts
  <1>2. Touches(p, c, p)
    BY DEF Touches
  <1>3. QED
    BY <1>1, <1>2, RelayResult

LEMMA ForwardReadResult ==
    ASSUME NEW p, NEW c, Calm(p, c), p.conn[c].state = "forwarding",
           NEW f \in Fds, p.item[f].owner = c, p.item[f].interest = "read"
    PROVE  \A q \in ForwardRead(p, f, c) : Result(p, c, q)
  <1> DEFINE g == Other(p.conn[c], f)
  <1>1. /\ p \in Process /\ c \in Conns
        /\ "read" \in Interest /\ "write" \in Interest /\ "noop" \in Interest
    BY CalmFacts DEF Interest
  <1>2. Result(p, c, p)
    BY StaysWhole, MovesResult
  <1>3. ASSUME Waiting(p, f, c)
        PROVE  Result(p, c, BothInterests(p, c, f, "noop", g, "write"))
    <2>1. LET r == p.conn[c]
          IN  \/ f = r.client /\ g = r.origin /\ DrivenBy(r, "noop", "write")
              \/ f = r.origin /\ g = r.client /\ DrivenBy(r, "write", "noop")
      BY <1>3, RelayFacts DEF Waiting, DrivenBy
    <2>2. QED
      BY <1>1, <2>1, RelayFacts, SameRecordResult
  <1>4. ASSUME NEW b \in BOOLEAN
        PROVE  Result(p, c, BothInterests(SetWaiting(p, f, c, b), c,
                                f, "read", g, IF b THEN "write" ELSE "read"))
    <2> DEFINE j == IF b THEN "write" ELSE "read"
               r == WithWaiting(p.conn[c], f, b)
               m == SetWaiting(p, f, c, b)
    <2>0. j \in Interest
      BY <1>1
    <2>1. /\ r \in Connection
          /\ r.refs = p.conn[c].refs /\ r.client = p.conn[c].client
          /\ r.origin = p.conn[c].origin /\ r.user = p.conn[c].user
          /\ r.state = p.conn[c].state
          /\ r.upload = IF f = p.conn[c].client THEN b ELSE p.conn[c].upload
          /\ r.reply = IF f = p.conn[c].client THEN p.conn[c].reply
                       ELSE IF b THEN "data" ELSE "none"
      BY CalmFacts, WithWaitingFacts
    <2>1b. /\ m \in Process /\ Touches(p, c, m) /\ m.conn[c] = r
           /\ m.item = p.item /\ m.active = p.active
      BY <1>1, SetWaitingStays, SMTT(60)
    <2> HIDE DEF r, m
    <2>2. \/ f = r.client /\ g = r.origin /\ DrivenBy(r, "read", j)
          \/ f = r.origin /\ g = r.client /\ DrivenBy(r, j, "read")
      BY <2>1, RelayFacts DEF DrivenBy
    <2> HIDE DEF j, g
    <2>3. Result(p, c, BothInterests(m, c, f, "read", g, j))
      BY <1>1, <2>0, <2>1, <2>1b, <2>2, RelayFacts, RelayResult
    <2>4. QED
      BY <2>3 DEF j, g, m, m
  <1> HIDE DEF g
  <1>5. ASSUME NEW q \in ForwardRead(p, f, c)
        PROVE  \/ q \in {p} \cup HangUp(p, c) \cup SendFailures(p, c)
               \/ Waiting(p, f, c) /\ q = BothInterests(p, c, f, "noop", g, "write")
               \/ \E b \in BOOLEAN :
                     q = BothInterests(SetWaiting(p, f, c, b), c,
                                f, "read", g, IF b THEN "write" ELSE "read")
    BY <1>5 DEF ForwardRead, g
  <1>6. QED
    BY <1>2, <1>3, <1>4, <1>5, SendFailuresResult

LEMMA ForwardWriteResult ==
    ASSUME NEW p, NEW c, Calm(p, c), p.conn[c].state = "forwarding",
           NEW f \in Fds, p.item[f].owner = c, p.item[f].interest = "write"
    PROVE  \A q \in ForwardWrite(p, f, c) : Result(p, c, q)
  <1> DEFINE g == Other(p.conn[c], f)
             j == IF Waiting(p, f, c) THEN "write" ELSE "read"
  <1>1. /\ p \in Process /\ c \in Conns
        /\ "read" \in Interest /\ "write" \in Interest
    BY CalmFacts DEF Interest
  <1>2. Result(p, c, p)
    BY StaysWhole, MovesResult
  <1>3. Waiting(p, g, c) /\ j = "read"
    BY RelayFacts DEF Waiting, DrivenBy
  <1>4. ASSUME NEW b \in BOOLEAN
        PROVE  Result(p, c, BothInterests(SetWaiting(p, g, c, b), c,
                                f, IF b THEN "write" ELSE "read", g, j))
    <2> DEFINE i == IF b THEN "write" ELSE "read"
               r == WithWaiting(p.conn[c], g, b)
               m == SetWaiting(p, g, c, b)
    <2>0. i \in Interest
      BY <1>1
    <2>1. /\ r \in Connection
          /\ r.refs = p.conn[c].refs /\ r.client = p.conn[c].client
          /\ r.origin = p.conn[c].origin /\ r.user = p.conn[c].user
          /\ r.state = p.conn[c].state
          /\ r.upload = IF g = p.conn[c].client THEN b ELSE p.conn[c].upload
          /\ r.reply = IF g = p.conn[c].client THEN p.conn[c].reply
                       ELSE IF b THEN "data" ELSE "none"
      BY CalmFacts, WithWaitingFacts
    <2>1b. /\ m \in Process /\ Touches(p, c, m) /\ m.conn[c] = r
           /\ m.item = p.item /\ m.active = p.active
      BY <1>1, SetWaitingStays, SMTT(60)
    <2> HIDE DEF r, m
    <2>2. \/ f = r.client /\ g = r.origin /\ DrivenBy(r, i, "read")
          \/ f = r.origin /\ g = r.client /\ DrivenBy(r, "read", i)
      BY <2>1, RelayFacts DEF DrivenBy
    <2> HIDE DEF i, g, j
    <2>3. Result(p, c, BothInterests(m, c, f, i, g, "read"))
      BY <1>1, <2>0, <2>1, <2>1b, <2>2, RelayFacts, RelayResult
    <2>4. QED
      BY <1>3, <2>3 DEF i, m, m
  <1> HIDE DEF g, j
  <1>5. ASSUME NEW q \in ForwardWrite(p, f, c)
        PROVE  \/ q \in {p} \cup SendFailures(p, c)
               \/ \E b \in BOOLEAN :
                     q = BothInterests(SetWaiting(p, g, c, b), c,
                                f, IF b THEN "write" ELSE "read", g, j)
    BY <1>3, <1>5 DEF ForwardWrite, g, j
  <1>6. QED
    BY <1>2, <1>4, <1>5, SendFailuresResult

-----------------------------------------------------------------------------
(***************************************************************************)
(* What a handler of one connection leaves of the others.                  *)
(***************************************************************************)
\* The stamp changes nothing that matters.
LEMMA StampedResult ==
    ASSUME NEW p, NEW c, Calm(p, c), NEW q, q \in Process, NEW f \in Fds,
           p.item[f].owner = c, NEW s, s = Stamp(q, f)
    PROVE  /\ Elsewhere(p, c, q) => Elsewhere(p, c, s)
           /\ Goes(p, c, q) => Goes(p, c, s)
           /\ Ends(p, c, q) => Ends(p, c, s)
           /\ s.conn = q.conn /\ s.crash = q.crash
  <1>1. /\ s.conn = q.conn /\ s.active = q.active
        /\ s.current = q.current /\ s.crash = q.crash
        /\ \A g \in Fds : /\ s.item[g].owner = q.item[g].owner
                          /\ s.item[g].interest = q.item[g].interest
                          /\ s.item[g].late => q.item[g].late
                          /\ g # f => s.item[g] = q.item[g]
    BY StampFacts
  <1>2. c \in Conns /\ q.conn[c].origin \in Fds \cup {NoFd} /\ q.conn[c].client \in Fds \cup {NoFd}
    BY DEF Calm, Process, Connection
  <1>3. Elsewhere(p, c, q) => Elsewhere(p, c, s)
    BY <1>1 DEF Elsewhere
  <1>4. Whole(q, c) => Whole(s, c)
    <2>1. SUFFICES ASSUME Whole(q, c) PROVE Whole(s, c)
      OBVIOUS
    <2>2. q.conn[c].client \in Fds
      BY <2>1, SMTT(60) DEF Whole
    <2>3. Driven(q, c) /\ q.conn[c].origin # NoFd => Driven(s, c)
      BY <1>1, <1>2, <2>2 DEF Driven
    <2>4. QED
      BY <1>1, <1>2, <2>1, <2>2, <2>3 DEF Whole
  <1>5. ASSUME Goes(p, c, q) PROVE Goes(p, c, s)
    <2>1. q.conn[c].client \in Fds
      BY <1>5, CalmFacts DEF Goes
    <2>2. \A u : Bears(q, c, u) => Bears(s, c, u)
      BY <1>1, <2>1 DEF Bears, Entered
    <2>3. QED
      BY <1>1, <1>4, <1>5, <2>2 DEF Goes, Live
  <1>6. Ends(p, c, q) => Ends(p, c, s)
    BY <1>1 DEF Ends, Live, Blank
  <1>7. QED
    BY <1>1, <1>3, <1>5, <1>6

LEMMA OthersStayWhole ==
    ASSUME NEW p, NEW c, NEW q, Elsewhere(p, c, q), NEW d \in Conns \ {c},
           p.conn[d] \in Connection, Whole(p, d)
    PROVE  /\ Whole(q, d)
           /\ \A u : Bears(p, d, u) => Bears(q, d, u)
  <1>1. /\ q.conn[d] = p.conn[d]
        /\ \A g \in Fds : p.item[g].owner = d => q.item[g] = p.item[g]
    BY ProxyAssumption DEF Elsewhere
  <1>2. LET r == p.conn[d]
        IN  /\ r.client \in Fds /\ p.item[r.client].owner = d
            /\ r.origin # NoFd => r.origin \in Fds /\ p.item[r.origin].owner = d
    BY DEF Whole, Connection
  <1>3. LET r == p.conn[d]
        IN  /\ q.item[r.client] = p.item[r.client]
            /\ r.origin # NoFd => q.item[r.origin] = p.item[r.origin]
    BY <1>1, <1>2, SMTT(60)
  <1>4. Driven(p, d) /\ p.conn[d].origin # NoFd => Driven(q, d)
    BY <1>1, <1>3 DEF Driven
  <1>5. Whole(q, d)
    BY <1>1, <1>2, <1>3, <1>4 DEF Whole
  <1>6. QED
    BY <1>1, <1>3, <1>5 DEF Bears, Entered

Settled(p) == Parts(p) /\ Fresh(p) /\ Counted(p) /\ Listed(p)

LEMMA CurrentNat ==
    ASSUME NEW p, p \in Process
    PROVE  p.current \in Nat
  BY ProxyAssumption DEF Process

LEMMA HandlerKeeps ==
    ASSUME NEW p, NEW c, Calm(p, c), Settled(p), NEW q,
           Elsewhere(p, c, q), Goes(p, c, q) \/ Ends(p, c, q)
    PROVE  Settled(q)
  <1>1. p \in Process /\ c \in Conns /\ p.crash = "no" /\ Live(p, c)
    BY DEF Calm, Sound
  <1>2. \A d \in Conns \ {c} :
            /\ q.conn[d] = p.conn[d]
            /\ Live(q, d) <=> Live(p, d)
            /\ Live(p, d) => Whole(p, d) /\ p.conn[d] \in Connection
    BY <1>1 DEF Elsewhere, Live, Settled, Parts, Process
  <1>3. \A d \in Conns \ {c} :
            Live(p, d) => /\ Whole(q, d)
                          /\ \A u : Bears(p, d, u) => Bears(q, d, u)
    BY <1>2, OthersStayWhole
  <1>4. Parts(q)
    <2>1. \A d \in Conns \ {c} : ~Live(q, d) => Blank(q, d)
      BY <1>2 DEF Settled, Parts, Blank
    <2>2. IF Live(q, c) THEN q.crash = "no" => Whole(q, c) ELSE Blank(q, c)
      BY DEF Goes, Ends
    <2>3. QED
      BY <1>2, <1>3, <2>1, <2>2 DEF Parts
  <1>5. Fresh(q)
    BY DEF Fresh, Settled, Elsewhere
  <1>6. Counted(q)
    <2> SUFFICES ASSUME Roomy PROVE q.current = Cardinality(LiveOnes(q))
      BY DEF Counted
    <2>1. /\ p.current = Cardinality(LiveOnes(p)) /\ p.current \in Nat
          /\ IsFiniteSet(LiveOnes(p)) /\ c \in LiveOnes(p)
      BY <1>1, CurrentNat, FS_Subset DEF Settled, Counted, LiveOnes, Roomy
    <2>2. CASE Goes(p, c, q)
      <3>1. LiveOnes(q) = LiveOnes(p)
        BY <1>1, <1>2, <2>2 DEF LiveOnes, Goes
      <3>2. QED
        BY <2>1, <2>2, <3>1 DEF Goes
    <2>3. CASE Ends(p, c, q)
      <3>1. LiveOnes(q) = LiveOnes(p) \ {c}
        BY <1>1, <1>2, <2>3 DEF LiveOnes, Ends
      <3>2. Cardinality(LiveOnes(p) \ {c}) = Cardinality(LiveOnes(p)) - 1
        BY <2>1, FS_RemoveElement
      <3>3. p.current > 0
        BY <2>1, FS_EmptySet
      <3>4. QED
        BY <2>1, <2>3, <3>1, <3>2, <3>3 DEF Ends
    <2>4. QED
      BY <2>2, <2>3
  <1>7. Listed(q)
    <2> SUFFICES ASSUME NEW u \in q.active
                 PROVE  \E d \in Conns : Live(q, d) /\ Bears(q, d, u)
      BY DEF Listed
    <2>1. CASE Bears(q, c, u) /\ Live(q, c)
      BY <1>1, <2>1
    <2>2. CASE u \in p.active /\ ~Bears(p, c, u)
      <3>1. PICK d \in Conns : Live(p, d) /\ Bears(p, d, u)
        BY <2>2 DEF Settled, Listed
      <3>2. d # c
        BY <2>2, <3>1
      <3>3. QED
        BY <1>2, <1>3, <3>1, <3>2
    <2>3. QED
      BY <2>1, <2>2 DEF Goes, Ends
  <1>8. QED
    BY <1>4, <1>5, <1>6, <1>7 DEF Settled

\* The connection that a visited descriptor belongs to.
LEMMA VisitedCalm ==
    ASSUME Sound(proc), Running, Parts(proc), NEW f \in Fds, Registered(proc, f)
    PROVE  /\ Calm(proc, Owner(f)) /\ proc.item[f].owner = Owner(f)
           /\ State(f) \in Negotiating => f = proc.conn[Owner(f)].client
  <1> DEFINE c == Owner(f)
  <1>1. c \in Conns /\ f \in Held(proc, c)
    BY OwnerKnown DEF Held, Owner
  <1>2. Live(proc, c)
    <2>1. Cardinality(Held(proc, c)) \in Nat /\ Cardinality(Held(proc, c)) # 0
      BY <1>1, FdsFinite, FS_EmptySet, FS_CardinalityType
    <2> HIDE DEF c
    <2>2. QED
      BY <1>1, <2>1 DEF Live, Sound, RefsCount
  <1>3. Calm(proc, c)
    BY <1>1, <1>2 DEF Calm, Parts, Running
  <1>4. State(f) \in Negotiating => f = proc.conn[c].client
    <2>1. Held(proc, c) = { proc.conn[c].client, proc.conn[c].origin } \ {NoFd}
      BY <1>3, CalmFacts
    <2>2. QED
      BY <1>1, <1>3, <2>1, NegotiationFacts DEF State
  <1>5. QED
    BY <1>3, <1>4 DEF Owner

-----------------------------------------------------------------------------
(***************************************************************************)
(* The resolutions.                                                        *)
(***************************************************************************)
\* Two connections of which neither has lost a leg have different clients.
LEMMA ClientsDiffer ==
    ASSUME Parts(proc), Running, NEW c \in Conns, NEW d \in Conns,
           Live(proc, c), Live(proc, d),
           proc.conn[c].client = proc.conn[d].client
    PROVE  c = d
  BY DEF Parts, Whole, Running

\* Steps that end no wait and start none.
LEMMA ResolutionsKept ==
    ASSUME Resolutions, Running,
           \A c \in Conns :
              \/ proc'.conn[c] = proc.conn[c]
              \/ proc'.crash # "no"
              \/ /\ ~Awaits(c, proc.conn[c].client)
                 /\ ~Awaits(c, proc.conn[c].client)',
           UNCHANGED << jobs, resolver >>
    PROVE  Resolutions'
  <1> SUFFICES ASSUME Running' PROVE Resolutions'
    BY DEF Resolutions
  <1>1. proc'.crash = "no"
    BY DEF Running
  <1>2. \A c \in Conns : \A f : Awaits(c, f) <=> Awaits(c, f)'
    BY <1>1 DEF Awaits, Live
  <1>3. \A c \in Conns : \A f : Awaits(c, f) => proc'.conn[c].client = proc.conn[c].client
    BY <1>1 DEF Awaits
  <1>4. AtWork' = AtWork
    BY DEF AtWork
  <1>5. \A c \in Conns : Awaits(c, proc.conn[c].client)' =>
            /\ Awaits(c, proc.conn[c].client)
            /\ proc'.conn[c].client = proc.conn[c].client
    BY <1>1 DEF Awaits, Live
  <1>6. QED
    BY <1>2, <1>3, <1>4, <1>5 DEF Resolutions

LEMMA VisitKeepsResolutions ==
    ASSUME Resolutions, Running, NEW c, Calm(proc, c), 
           proc'.crash # "no" \/ (proc.conn[c].state # "resolve" /\ Result(proc, c, proc')),
           UNCHANGED << jobs, resolver >>
    PROVE  Resolutions'
  <1>1. proc'.crash = "no" => /\ \A d \in Conns \ {c} : proc'.conn[d] = proc.conn[d]
                              /\ ~Awaits(c, proc.conn[c].client)
                              /\ ~Awaits(c, proc.conn[c].client)'
    BY DEF Result, Elsewhere, Goes, Ends, Awaits
  <1>2. QED
    BY <1>1, ResolutionsKept

CalmStep == ProxyInv /\ ProxyInv' /\ CalmInv /\ Running

LEMMA SettledInv == CalmInv <=> Settled(proc) /\ Resolutions
  BY DEF CalmInv, Settled

\* handle_iteration ran a handler for f.
LEMMA VisitKeepsCalm ==
    ASSUME CalmStep, NEW f \in Fds, Registered(proc, f),
           NEW outcomes,
           \A q \in outcomes :
              /\ q \in Process
              /\ Result(proc, Owner(f), q)
              /\ q.crash = "no" => State(f) # "resolve",
           Handled(f, outcomes), UNCHANGED resolver
    PROVE  CalmInv'
  <1> DEFINE c == Owner(f)
  <1>1. /\ Sound(proc) /\ Running /\ Settled(proc) /\ Resolutions /\ Parts(proc)
    BY SettledInv DEF CalmStep, ProxyInv, Settled
  <1>2. Calm(proc, c) /\ proc.item[f].owner = c
    BY <1>1, VisitedCalm
  <1>3. PICK q \in outcomes : proc' = Stamp(q, f)
    BY DEF Handled
  <1>4. /\ q \in Process /\ Result(proc, c, q)
        /\ q.crash = "no" => proc.conn[c].state # "resolve"
    BY <1>3 DEF State
  <1>5. /\ Elsewhere(proc, c, q) => Elsewhere(proc, c, proc')
        /\ Goes(proc, c, q) => Goes(proc, c, proc')
        /\ Ends(proc, c, q) => Ends(proc, c, proc')
        /\ proc'.conn = q.conn /\ proc'.crash = q.crash
    BY <1>2, <1>3, <1>4, StampedResult
  <1> HIDE DEF c
  <1>6. Result(proc, c, proc')
    BY <1>4, <1>5 DEF Result
  <1>7. Settled(proc')
    BY <1>1, <1>2, <1>6, HandlerKeeps DEF Result
  <1>8. Resolutions'
    BY <1>1, <1>2, <1>4, <1>5, <1>6, VisitKeepsResolutions DEF Handled
  <1>9. QED
    BY <1>7, <1>8, SettledInv DEF CalmInv, Settled

LEMMA ReadReadyKeepsCalm ==
    ASSUME CalmStep, NEW f \in Fds, ReadReady(f)
    PROVE  CalmInv'
  <1> DEFINE c == Owner(f)
  <1>1. /\ Sound(proc) /\ Registered(proc, f) /\ UNCHANGED resolver
        /\ proc.item[f].interest = "read" /\ Running /\ Parts(proc)
    BY DEF CalmStep, ProxyInv, CalmInv, ReadReady, Visit, Registered
  <1>2. /\ Calm(proc, c) /\ c \in Conns /\ proc.item[f].owner = c
        /\ proc.conn[c].client \in Fds
        /\ State(f) \in Negotiating => f = proc.conn[c].client
        /\ State(f) = proc.conn[c].state
    BY <1>1, OwnerKnown, VisitedCalm DEF State
  <1>3. PICK outcomes :
           /\ Handled(f, outcomes)
           /\ \/ State(f) = "hello" /\ outcomes = HelloRead(proc, f, c)
              \/ State(f) = "auth" /\ outcomes = AuthRead(proc, f, c)
              \/ State(f) = "request" /\ outcomes = RequestOther(proc, f, c)
              \/ State(f) = "forwarding" /\ outcomes = ForwardRead(proc, f, c)
              \/ outcomes = {Crash(proc, "abort")}
    BY DEF ReadReady
  <1> HIDE DEF c
  <1>4. \A q \in outcomes : Result(proc, c, q)
    BY <1>1, <1>2, <1>3, NegotiationReads, RequestOtherResult, ForwardReadResult,
       CrashResults DEF Negotiating
  <1>5. \A q \in outcomes : q \in Process
    <2>1. \A q \in outcomes : Follows(proc, q)
      BY <1>1, <1>2, <1>3, HelloReadFollows, AuthReadFollows, RequestOtherFollows,
         ForwardReadFollows, CrashFollows
    <2>2. QED
      BY <2>1 DEF Follows, Sound
  <1>6. \A q \in outcomes : q.crash = "no" => State(f) # "resolve"
    <2>1. Crash(proc, "abort").crash = "abort"
      BY <1>1 DEF Sound, Process, Crash
    <2>2. QED
      BY <1>3, <2>1
  <1>7. QED
    BY <1>1, <1>3, <1>4, <1>5, <1>6, VisitKeepsCalm DEF c

LEMMA WriteReadyKeepsCalm ==
    ASSUME CalmStep, NEW f \in Fds, WriteReady(f)
    PROVE  CalmInv'
  <1> DEFINE c == Owner(f)
  <1>1. /\ Sound(proc) /\ Registered(proc, f) /\ UNCHANGED resolver
        /\ proc.item[f].interest = "write" /\ Running /\ Parts(proc)
    BY DEF CalmStep, ProxyInv, CalmInv, WriteReady, Visit, Registered
  <1>2. /\ Calm(proc, c) /\ c \in Conns /\ proc.item[f].owner = c
        /\ proc.conn[c].client \in Fds
        /\ State(f) \in Negotiating => f = proc.conn[c].client
        /\ State(f) = proc.conn[c].state
    BY <1>1, OwnerKnown, VisitedCalm DEF State
  <1>3. PICK outcomes :
           /\ Handled(f, outcomes)
           /\ \/ State(f) = "hello" /\ outcomes = HelloWrite(proc, f, c)
              \/ State(f) = "hello_to_auth" /\ outcomes = HelloToAuthWrite(proc, f, c)
              \/ State(f) = "auth" /\ outcomes = AuthWrite(proc, f, c)
              \/ State(f) = "auth_failed" /\ outcomes = AuthFailedWrite(proc, f, c)
              \/ State(f) = "request" /\ outcomes = RequestWrite(proc, f, c)
              \/ State(f) = "connect" /\ outcomes = ConnectWrite(proc, f, c)
              \/ State(f) = "forwarding" /\ outcomes = ForwardWrite(proc, f, c)
              \/ outcomes = {Crash(proc, "abort")}
    BY DEF WriteReady
  <1> HIDE DEF c
  <1>4. \A q \in outcomes : Result(proc, c, q)
    BY <1>1, <1>2, <1>3, NegotiationWrites, RequestWriteResult, ConnectWriteResult,
       ForwardWriteResult, CrashResults DEF Negotiating, Requesting
  <1>5. \A q \in outcomes : q \in Process
    <2>1. \A q \in outcomes : Follows(proc, q)
      BY <1>1, <1>2, <1>3, HelloWritesFollow, RequestWriteFollows, ConnectWriteFollows,
         ForwardWriteFollows, CrashFollows
    <2>2. QED
      BY <2>1 DEF Follows, Sound
  <1>6. \A q \in outcomes : q.crash = "no" => State(f) # "resolve"
    <2>1. Crash(proc, "abort").crash = "abort"
      BY <1>1 DEF Sound, Process, Crash
    <2>2. QED
      BY <1>3, <2>1
  <1>7. QED
    BY <1>1, <1>3, <1>4, <1>5, <1>6, VisitKeepsCalm DEF c

\* Nothing is late, so that the sweep takes nothing.
LEMMA SweepKeepsCalm ==
    ASSUME CalmStep, Sweep
    PROVE  CalmInv'
  <1> DEFINE fs == { f \in Fds : Registered(proc, f) /\ proc.item[f].late }
             q == Closed(proc, fs)
             D == Dropped(proc, fs)
             I == [f \in Fds |-> IF f \in fs THEN Unused ELSE proc.item[f]]
  <1>1. fs = {}
    BY DEF CalmStep, CalmInv, Fresh
  <1>2. proc \in Process
    BY DEF CalmStep, ProxyInv, Sound
  <1>3. D = proc.conn
    <2>1. \A c \in Conns : Cardinality(Held(proc, c) \cap fs) = 0
      BY <1>1, FS_EmptySet
    <2>2. \A c \in Conns : D[c] = proc.conn[c]
      BY <2>1 DEF Dropped
    <2>3. D = [c \in Conns |-> D[c]]
      BY DEF Dropped
    <2> HIDE DEF D
    <2>4. QED
      BY <1>2, <2>2, <2>3 DEF Process
  <1>4. I = proc.item
    BY <1>1, <1>2 DEF Process
  <1>5. q = [proc EXCEPT !.conn = D, !.item = I, !.open = @ \ fs]
    BY DEF Closed
  <1>6. proc' = q /\ UNCHANGED << resolver, jobs >>
    BY DEF Sweep
  <1> HIDE DEF fs, q, D, I
  <1>7. proc' = proc
    BY <1>1, <1>2, <1>3, <1>4, <1>5, <1>6 DEF Process
  <1>8. Resolutions'
    BY <1>6, <1>7, ResolutionsKept DEF CalmStep, CalmInv
  <1>9. QED
    BY <1>7, <1>8 DEF CalmStep, CalmInv

\* The steps of the loop that touch no connection.
LEMMA PhasesKeepCalm ==
    ASSUME CalmStep, UNCHANGED << proc, jobs, resolver >>
    PROVE  CalmInv'
  <1>1. Resolutions'
    BY ResolutionsKept DEF CalmStep, CalmInv
  <1>2. QED
    BY <1>1 DEF CalmStep, CalmInv

\* A new connection: it has its client, and is counted.
LEMMA AcceptedSettled ==
    ASSUME Sound(proc), Running, Settled(proc), FreeFds(proc) # {},
           NEW c \in Conns, ~Live(proc, c), NEW name,
           NEW q, q = Accepted(c, name)
    PROVE  /\ Settled(q)
           /\ \A d \in Conns \ {c} : q.conn[d] = proc.conn[d]
           /\ q.conn[c].state # "resolve"
  <1> DEFINE f == NewFd(proc)
             n == IF proc.current < MaxConnections THEN proc.current + 1 ELSE proc.current
             e == [ owner |-> c, interest |-> "read", late |-> FALSE ]
             r == [ proc.conn[c] EXCEPT !.client = f, !.refs = 1, !.user = name ]
             s == [ proc EXCEPT !.open = @ \cup {f}, !.item[f] = e,
                                !.conn[c] = r, !.current = n ]
  <1>1. /\ f \in Fds /\ proc \in Process /\ proc.item[f].owner = NoConn
        /\ proc.conn[c] \in Connection /\ Blank(proc, c) /\ NoFd \notin Fds
    <2>1. f \in Fds /\ f \notin proc.open
      BY NewFdIsFree
    <2>2. ~Registered(proc, f)
      BY <2>1 DEF Sound, TableIsOpen, Running
    <2>3. QED
      BY <2>1, <2>2 DEF Registered, Sound, Process, Settled, Parts, NoFd, Fds
  <1>2. q = IF f > MaxItem THEN proc ELSE s
    BY DEF Accepted
  <1>3. CASE q = proc
    BY <1>1, <1>3 DEF Blank
  <1>4. CASE q = s
    <2>1. /\ e.owner = c /\ e.late = FALSE
          /\ r.client = f /\ r.refs = 1 /\ r.origin = NoFd /\ ~r.upload /\ r.state = "hello"
      BY <1>1 DEF Connection, Blank
    <2> HIDE DEF f, n, e, r
    <2>2. /\ q.item = [proc.item EXCEPT ![f] = e] /\ q.conn = [proc.conn EXCEPT ![c] = r]
          /\ q.current = n /\ q.active = proc.active /\ q.crash = proc.crash
      BY <1>1, <1>4 DEF Process
    <2> HIDE DEF s
    <2>3. /\ q.conn[c] = r /\ \A d \in Conns \ {c} : q.conn[d] = proc.conn[d]
          /\ q.item[f] = e /\ \A g \in Fds \ {f} : q.item[g] = proc.item[g]
      BY <1>1, <2>2 DEF Process
    <2>4. Elsewhere(proc, c, q)
      BY <1>1, <2>1, <2>3 DEF Elsewhere
    <2>5. \A d \in Conns \ {c} :
            /\ Live(q, d) <=> Live(proc, d)
            /\ Live(proc, d) => /\ Whole(q, d)
                                /\ \A u : Bears(proc, d, u) => Bears(q, d, u)
      <3> SUFFICES ASSUME NEW d \in Conns \ {c}
                   PROVE  /\ Live(q, d) <=> Live(proc, d)
                          /\ Live(proc, d) =>
                                /\ Whole(q, d)
                                /\ \A u : Bears(proc, d, u) => Bears(q, d, u)
        OBVIOUS
      <3>1. Live(q, d) <=> Live(proc, d)
        BY <2>3 DEF Live
      <3>2. proc.conn[d] \in Connection
        BY <1>1 DEF Process
      <3>3. Live(proc, d) => Whole(proc, d)
        BY DEF Settled, Parts, Running
      <3>4. QED
        BY <2>4, <3>1, <3>2, <3>3, OthersStayWhole
    <2>6. Live(q, c) /\ Whole(q, c)
      BY <1>1, <2>1, <2>3 DEF Live, Whole, Negotiating
    <2>7. Parts(q)
      <3>1. \A d \in Conns \ {c} : ~Live(q, d) => Blank(q, d)
        BY <2>3, <2>5 DEF Settled, Parts, Blank
      <3>2. QED
        BY <2>5, <2>6, <3>1 DEF Parts
    <2>8. Fresh(q)
      BY <2>4 DEF Fresh, Settled, Elsewhere
    <2>9. Counted(q)
      <3> SUFFICES ASSUME Roomy PROVE q.current = Cardinality(LiveOnes(q))
        BY DEF Counted
      <3>1. /\ proc.current = Cardinality(LiveOnes(proc)) /\ proc.current \in Nat
            /\ IsFiniteSet(LiveOnes(proc)) /\ c \notin LiveOnes(proc)
        BY <1>1, CurrentNat, FS_Subset DEF Settled, Counted, LiveOnes, Roomy
      <3>2. LiveOnes(q) = LiveOnes(proc) \cup {c}
        BY <2>5, <2>6 DEF LiveOnes
      <3>3. Cardinality(LiveOnes(q)) = proc.current + 1
        BY <3>1, <3>2, FS_AddElement, ZenonT(60)
      <3>4. Cardinality(LiveOnes(q)) <= Cardinality(Conns)
        BY FS_Subset DEF LiveOnes, Roomy
      <3>5. Cardinality(Conns) \in Nat /\ MaxConnections \in Nat
        BY FS_CardinalityType, ProxyAssumption DEF Roomy
      <3>6. proc.current < MaxConnections
        BY <3>1, <3>3, <3>4, <3>5 DEF Roomy
      <3>7. QED
        BY <2>2, <3>3, <3>6 DEF n
    <2>10. Listed(q)
      <3> SUFFICES ASSUME NEW u \in q.active
                   PROVE  \E d \in Conns : Live(q, d) /\ Bears(q, d, u)
        BY DEF Listed
      <3>1. PICK d \in Conns : Live(proc, d) /\ Bears(proc, d, u)
        BY <2>2 DEF Settled, Listed
      <3>2. QED
        BY <2>5, <3>1
    <2>11. QED
      BY <2>1, <2>3, <2>7, <2>8, <2>9, <2>10 DEF Settled
  <1>5. QED
    BY <1>2, <1>3, <1>4

LEMMA AcceptKeepsCalm ==
    ASSUME CalmStep, AcceptConnection
    PROVE  CalmInv'
  <1>1. CASE proc' = proc
    BY <1>1, PhasesKeepCalm DEF AcceptConnection
  <1>2. CASE /\ FreeFds(proc) # {}
             /\ \E c \in Conns : /\ ~Live(proc, c)
                                 /\ \E name \in { proc.conn[c].user, NoName } :
                                       proc' = Accepted(c, name)
    <2>1. PICK c \in Conns : /\ ~Live(proc, c)
                             /\ \E name \in { proc.conn[c].user, NoName } :
                                   proc' = Accepted(c, name)
      BY <1>2
    <2>2. PICK name \in { proc.conn[c].user, NoName } : proc' = Accepted(c, name)
      BY <2>1
    <2>3. /\ Settled(proc')
          /\ \A d \in Conns \ {c} : proc'.conn[d] = proc.conn[d]
          /\ proc'.conn[c].state # "resolve"
      BY <1>2, <2>1, <2>2, SettledInv, AcceptedSettled DEF CalmStep, ProxyInv
    <2>4. ~Awaits(c, proc.conn[c].client) /\ ~Awaits(c, proc.conn[c].client)'
      BY <2>1, <2>3 DEF Awaits
    <2>5. Resolutions'
      BY <2>3, <2>4, ResolutionsKept DEF CalmStep, CalmInv, AcceptConnection
    <2>6. QED
      BY <2>3, <2>5 DEF CalmInv, Settled
  <1>3. QED
    BY <1>1, <1>2 DEF AcceptConnection

\* A thread starts to work for a connection, which waits for it from now on.
LEMMA ResolutionStarts ==
    ASSUME CalmStep, NEW c, Calm(proc, c), proc.conn[c].state # "resolve",
           \A d \in Conns \ {c} : proc'.conn[d] = proc.conn[d],
           proc'.conn[c].client = proc.conn[c].client,
           proc'.conn[c].refs = proc.conn[c].refs,
           proc'.conn[c].state = "resolve",
           NEW t \in Threads, resolver[t].pc = "idle",
           resolver' = [resolver EXCEPT ![t] = [ pc |-> "lookup", conn |-> c ]],
           jobs' = jobs
    PROVE  Resolutions'
  <1>1. Running /\ Parts(proc) /\ Resolutions /\ c \in Conns /\ Live(proc, c)
    BY DEF CalmStep, CalmInv, Calm
  <1>2. /\ resolver'[t].pc = "lookup" /\ resolver'[t].conn = c
        /\ \A u \in Threads \ {t} : resolver'[u] = resolver[u]
        /\ AtWork' = AtWork \cup {t} /\ t \notin AtWork
    BY DEF CalmStep, ProxyInv, LoopTypeOK, AtWork
  <1>3. \A d \in Conns : \A g :
           Awaits(d, g) => d # c /\ Awaits(d, g)' /\ g # proc.conn[c].client
    BY <1>1, ClientsDiffer DEF Awaits, Live
  <1>4. Awaits(c, proc.conn[c].client)' /\ proc'.conn[c].client = proc.conn[c].client
    BY <1>1 DEF Awaits, Live
  <1>5. \A d \in Conns : \A g : Awaits(d, g)' => d = c \/ Awaits(d, g)
    BY DEF Awaits, Live
  <1>6. QED
    BY <1>1, <1>2, <1>3, <1>4, <1>5 DEF Resolutions

LEMMA RequestDomainKeepsCalm ==
    ASSUME CalmStep, NEW f \in Fds, RequestDomain(f)
    PROVE  CalmInv'
  <1> DEFINE c == Owner(f)
             r == [proc.conn[c] EXCEPT !.status = "pending", !.state = "resolve"]
             s == [proc EXCEPT !.conn[c].status = "pending", !.conn[c].state = "resolve"]
  <1>1. /\ Sound(proc) /\ Registered(proc, f) /\ Running /\ Settled(proc)
        /\ Parts(proc) /\ Resolutions /\ proc \in Process
    BY SettledInv
       DEF CalmStep, ProxyInv, Settled, Sound, RequestDomain, Visit, Registered
  <1>2. /\ Calm(proc, c) /\ c \in Conns /\ proc.item[f].owner = c
        /\ proc.conn[c].state = "request" /\ proc.conn[c] \in Connection
    BY <1>1, VisitedCalm, CalmFacts DEF State, RequestDomain
  <1>3. CASE Handled(f, {Finish(proc, c)}) /\ UNCHANGED resolver
    <2>1. Result(proc, c, Finish(proc, c)) /\ Finish(proc, c) \in Process
      <3> HIDE DEF c
      <3>1. QED
        BY <1>1, <1>2, FinishResults, FinishFollows DEF Follows, Sound
    <2>2. State(f) # "resolve"
      BY <1>2 DEF State
    <2>3. QED
      BY <1>1, <1>3, <2>1, <2>2, VisitKeepsCalm
  <1>4. CASE \E t \in Threads :
               /\ resolver[t].pc = "idle"
               /\ resolver' = [resolver EXCEPT ![t] = [ pc |-> "lookup", conn |-> c ]]
               /\ Handled(f, {s})
    <2>1. PICK t \in Threads :
               /\ resolver[t].pc = "idle"
               /\ resolver' = [resolver EXCEPT ![t] = [ pc |-> "lookup", conn |-> c ]]
               /\ Handled(f, {s})
      BY <1>4
    <2>2. /\ r \in Connection /\ r.refs = proc.conn[c].refs
          /\ r.client = proc.conn[c].client /\ r.origin = proc.conn[c].origin
          /\ r.state = "resolve" /\ r.upload = proc.conn[c].upload
          /\ r.user = proc.conn[c].user
      BY <1>2 DEF Connection, States
    <2>3. s = [proc EXCEPT !.conn[c] = r]
      BY <1>1, <1>2 DEF Process
    <2> HIDE DEF c, r, s
    <2>4. /\ s \in Process /\ Touches(proc, c, s) /\ s.conn[c] = r
          /\ s.item = proc.item /\ s.active = proc.active
      BY <1>1, <1>2, <2>2, <2>3, RecordStays
    <2>5. Moves(proc, c, s)
      BY <1>2, <2>2, <2>4, RequestingMoves DEF Requesting
    <2>6. proc' = Stamp(s, f)
      BY <2>1 DEF Handled
    <2>7. /\ Elsewhere(proc, c, proc') /\ Goes(proc, c, proc')
          /\ proc'.conn = s.conn /\ proc'.crash = s.crash
      BY <1>2, <2>4, <2>5, <2>6, StampedResult DEF Moves
    <2>8. Settled(proc')
      BY <1>1, <1>2, <2>7, HandlerKeeps
    <2>9. /\ \A d \in Conns \ {c} : proc'.conn[d] = proc.conn[d]
          /\ proc'.conn[c] = r
      BY <2>4, <2>7 DEF Touches
    <2>14. Resolutions'
      BY <1>1, <1>2, <2>1, <2>2, <2>9, ResolutionStarts DEF Handled
    <2>15. QED
      BY <2>8, <2>14 DEF CalmInv, Settled
  <1>5. QED
    BY <1>3, <1>4 DEF RequestDomain

\* The first queued answer finds the connection that waits for it.
LEMMA NotifyBlockKeepsCalm ==
    ASSUME CalmStep, NotifyBlock
    PROVE  CalmInv'
  <1>1. /\ Sound(proc) /\ Running /\ Settled(proc) /\ Parts(proc) /\ Resolutions
        /\ jobs \in Seq(Fds) /\ jobs # << >> /\ jobs' = Tail(jobs)
        /\ resolver' = resolver
    BY SettledInv DEF CalmStep, ProxyInv, LoopTypeOK, Settled, NotifyBlock
  <1>2. PICK f \in Fds : f = Head(jobs) /\ f = jobs[1] /\ 1 \in 1 .. Len(jobs)
    BY <1>1
  <1>3. PICK c \in Conns : Awaits(c, f)
    BY <1>1, <1>2 DEF Resolutions
  <1>4. /\ Live(proc, c) /\ Calm(proc, c) /\ proc.conn[c].state = "resolve"
        /\ proc.conn[c].client = f /\ proc.item[f].owner = c
        /\ Registered(proc, f) /\ Owner(f) = c
    <2>1. Live(proc, c) /\ proc.conn[c].state = "resolve" /\ proc.conn[c].client = f
      BY <1>3 DEF Awaits
    <2>2. Calm(proc, c)
      BY <1>1, <2>1 DEF Calm, Parts, Running
    <2>3. QED
      BY <2>1, <2>2, CalmFacts DEF Calm, Whole, Owner
  <1>5. proc' \in ResolutionBlock(proc, f, c)
    BY <1>2, <1>4 DEF NotifyBlock, State
  <1>6. Result(proc, c, proc')
    BY <1>4, <1>5, ResolutionBlockResult
  <1>7. Settled(proc')
    BY <1>1, <1>4, <1>6, HandlerKeeps DEF Result
  <1>8. Resolutions'
    <2> SUFFICES ASSUME Running' PROVE Resolutions'
      BY DEF Resolutions
    <2> DEFINE Waits(d, g) == /\ Live(proc', d) /\ proc'.conn[d].state = "resolve"
                              /\ proc'.conn[d].client = g
    <2>0. \A d, g : Awaits(d, g)' <=> Waits(d, g)
      BY DEF Awaits, Live
    <2>1. /\ \A d \in Conns \ {c} : proc'.conn[d] = proc.conn[d]
          /\ \A g : ~Waits(c, g)
      BY <1>6 DEF Result, Elsewhere, Ends, Goes, Running
    <2>2. \A d \in Conns : \A g : Waits(d, g) <=> d # c /\ Awaits(d, g)
      BY <2>1 DEF Awaits, Live
    <2>2a. \A d \in Conns : \A g : Waits(d, g) => g = proc'.conn[d].client
      OBVIOUS
    <2> HIDE DEF Waits
    <2>3. \A d \in Conns : d # c /\ Live(proc, d) => proc.conn[d].client # f
      BY <1>1, <1>4, ClientsDiffer
    <2>4. /\ Len(jobs') = Len(jobs) - 1 /\ Len(jobs) \in Nat
          /\ \A i \in 1 .. Len(jobs') : jobs'[i] = jobs[i + 1] /\ i + 1 \in 2 .. Len(jobs)
          /\ \A i \in 2 .. Len(jobs) : i - 1 \in 1 .. Len(jobs') /\ jobs'[i - 1] = jobs[i]
      BY <1>1
    <2>5. \A i \in 2 .. Len(jobs) : i \in 1 .. Len(jobs) /\ i # 1 /\ jobs[i] # f
      BY <1>1, <1>2, <2>4 DEF Resolutions
    <2>6. \A t \in AtWork : resolver[t].conn # c
      BY <1>1, <1>2, <1>4 DEF Resolutions
    <2>7. AtWork' = AtWork /\ resolver' = resolver
      BY <1>1 DEF AtWork
    <2>8. \A t \in AtWork : LET g == proc'.conn[resolver[t].conn].client
                            IN  /\ resolver[t].conn \in Conns
                                /\ Waits(resolver[t].conn, g)
                                /\ \A i \in 1 .. Len(jobs') : jobs'[i] # g
      <3> SUFFICES ASSUME NEW t \in AtWork, NEW d, d = resolver[t].conn
                   PROVE  /\ d \in Conns
                          /\ Waits(d, proc'.conn[d].client)
                          /\ \A i \in 1 .. Len(jobs') : jobs'[i] # proc'.conn[d].client
        OBVIOUS
      <3>1. /\ d \in Conns /\ d # c /\ Awaits(d, proc.conn[d].client)
            /\ \A i \in 1 .. Len(jobs) : jobs[i] # proc.conn[d].client
        BY <1>1, <2>6 DEF Resolutions
      <3>2. proc'.conn[d] = proc.conn[d]
        BY <2>1, <3>1
      <3>3. \A i \in 1 .. Len(jobs') : jobs'[i] # proc.conn[d].client
        <4>1. \A i \in 1 .. Len(jobs') : jobs'[i] = jobs[i + 1] /\ i + 1 \in 1 .. Len(jobs)
          BY <2>4, <2>5
        <4>2. QED
          BY <3>1, <4>1
      <3>4. QED
        BY <2>2, <3>1, <3>2, <3>3 DEF Awaits
    <2>9. \A i \in 1 .. Len(jobs') : \E d \in Conns : Waits(d, jobs'[i])
      BY <1>1, <1>4, <2>2, <2>4, <2>5 DEF Resolutions, Awaits
    <2>10. \A i, j \in 1 .. Len(jobs') : jobs'[i] = jobs'[j] => i = j
      <3> SUFFICES ASSUME NEW i \in 1 .. Len(jobs'), NEW j \in 1 .. Len(jobs'),
                          jobs'[i] = jobs'[j]
                   PROVE  i = j
        OBVIOUS
      <3>1. /\ i + 1 \in 1 .. Len(jobs) /\ j + 1 \in 1 .. Len(jobs)
            /\ jobs[i + 1] = jobs[j + 1]
        BY <2>4, <2>5
      <3>2. i + 1 = j + 1
        BY <1>1, <3>1 DEF Resolutions
      <3>3. QED
        BY <3>2
    <2>11. \A d \in Conns : Waits(d, proc'.conn[d].client) =>
              \/ \E t \in AtWork : resolver[t].conn = d
              \/ \E i \in 1 .. Len(jobs') : jobs'[i] = proc'.conn[d].client
      <3> SUFFICES ASSUME NEW d \in Conns, Waits(d, proc'.conn[d].client)
                   PROVE  \/ \E t \in AtWork : resolver[t].conn = d
                          \/ \E i \in 1 .. Len(jobs') : jobs'[i] = proc'.conn[d].client
        OBVIOUS
      <3>1. d # c
        BY <2>1
      <3>2. proc'.conn[d] = proc.conn[d] /\ Awaits(d, proc.conn[d].client)
        BY <2>1, <2>2, <3>1
      <3>3. CASE \E t \in AtWork : resolver[t].conn = d
        BY <3>3
      <3>4. CASE \E i \in 1 .. Len(jobs) : jobs[i] = proc.conn[d].client
        <4>1. PICK i \in 1 .. Len(jobs) : jobs[i] = proc.conn[d].client
          BY <3>4
        <4>2. i # 1
          BY <1>2, <2>3, <3>1, <3>2, <4>1 DEF Awaits
        <4>3. i \in 2 .. Len(jobs)
          BY <2>4, <4>1, <4>2
        <4>4. QED
          BY <2>4, <3>2, <4>1, <4>3
      <3>5. QED
        BY <1>1, <3>2, <3>3, <3>4 DEF Resolutions
    <2>12. (\A t \in AtWork : LET g == proc.conn[resolver[t].conn].client
                             IN  /\ resolver[t].conn \in Conns
                                 /\ Awaits(resolver[t].conn, g)
                                 /\ \A i \in 1 .. Len(jobs) : jobs[i] # g)'
      BY <2>0, <2>7, <2>8
    <2>13. (\A s, t \in AtWork : resolver[s].conn = resolver[t].conn => s = t)'
      BY <1>1, <2>7 DEF Resolutions
    <2>14. (\A i \in 1 .. Len(jobs) : \E d \in Conns : Awaits(d, jobs[i]))'
      BY <2>0, <2>9
    <2>15. (\A d \in Conns : Awaits(d, proc.conn[d].client) =>
              \/ \E t \in AtWork : resolver[t].conn = d
              \/ \E i \in 1 .. Len(jobs) : jobs[i] = proc.conn[d].client)'
      BY <2>0, <2>7, <2>11
    <2>16. QED
      BY <2>10, <2>12, <2>13, <2>14, <2>15 DEF Resolutions
  <1>9. QED
    BY <1>7, <1>8 DEF CalmInv, Settled

\* The results are stored in a connection that is there and waits.
LEMMA LookupKeepsCalm ==
    ASSUME CalmStep, NEW t \in Threads, Lookup(t)
    PROVE  CalmInv'
  <1>1. /\ Sound(proc) /\ Running /\ Settled(proc) /\ Parts(proc) /\ Resolutions
        /\ resolver[t].pc = "lookup" /\ t \in AtWork /\ jobs' = jobs
        /\ resolver' = [resolver EXCEPT ![t].pc = "notify"]
        /\ proc \in Process
    BY SettledInv DEF CalmStep, ProxyInv, Sound, Settled, AtWork, Lookup
  <1>2. PICK c \in Conns : c = resolver[t].conn /\ Awaits(c, proc.conn[c].client)
    BY <1>1 DEF Resolutions
  <1>3. /\ Live(proc, c) /\ Calm(proc, c) /\ proc.conn[c].state = "resolve"
        /\ proc.conn[c] \in Connection
    BY <1>1, <1>2 DEF Calm, Parts, Running, Awaits, Process
  <1>4. PICK r \in Connection :
           /\ proc' = [proc EXCEPT !.conn[c] = r]
           /\ r.refs = proc.conn[c].refs /\ r.client = proc.conn[c].client
           /\ r.origin = proc.conn[c].origin /\ r.state = "resolve"
           /\ r.upload = proc.conn[c].upload /\ r.user = proc.conn[c].user
    <2> DEFINE ok == [proc.conn[c] EXCEPT !.res = "list", !.status = "ok"]
               ko == [proc.conn[c] EXCEPT !.status = "fail"]
    <2>1. \/ proc' = [proc EXCEPT !.conn[c].res = "list", !.conn[c].status = "ok"]
          \/ proc' = [proc EXCEPT !.conn[c].status = "fail"]
      BY <1>2, <1>3 DEF Lookup
    <2>2. /\ [proc EXCEPT !.conn[c].res = "list", !.conn[c].status = "ok"]
                = [proc EXCEPT !.conn[c] = ok]
          /\ [proc EXCEPT !.conn[c].status = "fail"] = [proc EXCEPT !.conn[c] = ko]
      BY <1>1 DEF Process
    <2>3. \A r \in { ok, ko } :
           /\ r \in Connection
           /\ r.refs = proc.conn[c].refs /\ r.client = proc.conn[c].client
           /\ r.origin = proc.conn[c].origin /\ r.state = "resolve"
           /\ r.upload = proc.conn[c].upload /\ r.user = proc.conn[c].user
      BY <1>3, ZenonT(60) DEF Connection
    <2> HIDE DEF ok, ko
    <2>4. QED
      BY <2>1, <2>2, <2>3
  <1>5. /\ Touches(proc, c, proc') /\ proc'.conn[c] = r
        /\ proc'.item = proc.item /\ proc'.active = proc.active
    <2> DEFINE s == [proc EXCEPT !.conn[c] = r]
    <2>1. /\ Touches(proc, c, s) /\ s.conn[c] = r
          /\ s.item = proc.item /\ s.active = proc.active
      BY <1>1, <1>4, RecordTouches
    <2> HIDE DEF s
    <2>2. QED
      BY <1>4, <2>1 DEF s
  <1>6. Moves(proc, c, proc')
    BY <1>3, <1>4, <1>5, RequestingMoves DEF Requesting
  <1>7. Settled(proc')
    BY <1>1, <1>3, <1>6, HandlerKeeps DEF Moves
  <1>8. Resolutions'
    <2>1. \A d \in Conns : /\ proc'.conn[d].client = proc.conn[d].client
                           /\ \A g : Awaits(d, g)' <=> Awaits(d, g)
      BY <1>3, <1>4, <1>5 DEF Touches, Awaits, Live
    <2>2. AtWork' = AtWork /\ \A u \in Threads : resolver'[u].conn = resolver[u].conn
      BY <1>1 DEF CalmStep, ProxyInv, LoopTypeOK, AtWork
    <2>3. \A u \in AtWork : u \in Threads
      BY DEF AtWork
    <2>4. QED
      BY <1>1, <2>1, <2>2, <2>3 DEF Resolutions
  <1>9. QED
    BY <1>7, <1>8 DEF CalmInv, Settled

\* The answer is queued, and the thread is done with the connection.
LEMMA PushJobKeepsCalm ==
    ASSUME CalmStep, NEW t \in Threads, PushJob(t)
    PROVE  CalmInv'
  <1>1. /\ Running /\ Parts(proc) /\ Resolutions /\ t \in AtWork /\ proc' = proc
        /\ resolver' = [resolver EXCEPT ![t].pc = "signal"] /\ jobs \in Seq(Fds)
    BY DEF CalmStep, CalmInv, ProxyInv, LoopTypeOK, AtWork, PushJob
  <1>2. PICK c \in Conns : c = resolver[t].conn /\ Awaits(c, proc.conn[c].client)
    BY <1>1 DEF Resolutions
  <1>3. PICK f \in Fds : f = proc.conn[c].client /\ jobs' = << f >> \o jobs
    BY <1>1, <1>2 DEF PushJob, Awaits, Parts, Whole, Running
  <1>4. /\ AtWork' = AtWork \ {t}
        /\ \A u \in Threads : resolver'[u].conn = resolver[u].conn
        /\ \A u \in AtWork : u \in Threads
    BY <1>1 DEF CalmStep, ProxyInv, LoopTypeOK, AtWork
  <1>5. /\ Len(jobs') = Len(jobs) + 1 /\ Len(jobs) \in Nat /\ jobs'[1] = f
        /\ 1 \in 1 .. Len(jobs')
        /\ \A i \in 1 .. Len(jobs') :
              i # 1 => jobs'[i] = jobs[i - 1] /\ i - 1 \in 1 .. Len(jobs)
        /\ \A i \in 1 .. Len(jobs) : jobs'[i + 1] = jobs[i] /\ i + 1 \in 1 .. Len(jobs')
    BY <1>1, <1>3
  <1>6. \A d \in Conns : \A g : Awaits(d, g)' <=> Awaits(d, g)
    BY <1>1 DEF Awaits
  <1>7. \A i \in 1 .. Len(jobs) : jobs[i] # f
    BY <1>1, <1>2, <1>3 DEF Resolutions
  <1>8. \A d \in Conns : d # c /\ Live(proc, d) => proc.conn[d].client # f
    BY <1>1, <1>2, <1>3, ClientsDiffer DEF Awaits
  <1>9. Resolutions'
    <2>1. \A u \in AtWork' : LET g == proc.conn[resolver[u].conn].client
                             IN  /\ resolver[u].conn \in Conns
                                 /\ Awaits(resolver[u].conn, g)
                                 /\ \A i \in 1 .. Len(jobs') : jobs'[i] # g
      <3> SUFFICES ASSUME NEW u \in AtWork', NEW d, d = resolver[u].conn
                   PROVE  /\ d \in Conns
                          /\ Awaits(d, proc.conn[d].client)
                          /\ \A i \in 1 .. Len(jobs') : jobs'[i] # proc.conn[d].client
        OBVIOUS
      <3>1. u \in AtWork /\ u # t
        BY <1>4
      <3>2. /\ d \in Conns /\ Awaits(d, proc.conn[d].client)
            /\ \A i \in 1 .. Len(jobs) : jobs[i] # proc.conn[d].client
        BY <1>1, <3>1 DEF Resolutions
      <3>3. d # c
        BY <1>1, <1>2, <3>1 DEF Resolutions
      <3>4. proc.conn[d].client # f
        BY <1>8, <3>2, <3>3 DEF Awaits
      <3>5. QED
        BY <1>5, <3>2, <3>4
    <2>2. \A u, v \in AtWork' : resolver[u].conn = resolver[v].conn => u = v
      BY <1>1, <1>4 DEF Resolutions
    <2>3. \A i \in 1 .. Len(jobs') : \E d \in Conns : Awaits(d, jobs'[i])
      <3> SUFFICES ASSUME NEW i \in 1 .. Len(jobs')
                   PROVE  \E d \in Conns : Awaits(d, jobs'[i])
        OBVIOUS
      <3>1. CASE i = 1
        BY <1>2, <1>3, <1>5, <3>1
      <3>2. CASE i # 1
        BY <1>1, <1>5, <3>2 DEF Resolutions
      <3>3. QED
        BY <3>1, <3>2
    <2>4. \A i, j \in 1 .. Len(jobs') : jobs'[i] = jobs'[j] => i = j
      <3> SUFFICES ASSUME NEW i \in 1 .. Len(jobs'), NEW j \in 1 .. Len(jobs'),
                          jobs'[i] = jobs'[j]
                   PROVE  i = j
        OBVIOUS
      <3>1. CASE i = 1 \/ j = 1
        BY <1>5, <1>7, <3>1
      <3>2. CASE i # 1 /\ j # 1
        <4>1. /\ i - 1 \in 1 .. Len(jobs) /\ j - 1 \in 1 .. Len(jobs)
              /\ jobs[i - 1] = jobs[j - 1]
          BY <1>5, <3>2
        <4>2. i - 1 = j - 1
          BY <1>1, <4>1 DEF Resolutions
        <4>3. QED
          BY <1>5, <4>2
      <3>3. QED
        BY <3>1, <3>2
    <2>5. \A d \in Conns : Awaits(d, proc.conn[d].client) =>
              \/ \E u \in AtWork' : resolver[u].conn = d
              \/ \E i \in 1 .. Len(jobs') : jobs'[i] = proc.conn[d].client
      <3> SUFFICES ASSUME NEW d \in Conns, Awaits(d, proc.conn[d].client)
                   PROVE  \/ \E u \in AtWork' : resolver[u].conn = d
                          \/ \E i \in 1 .. Len(jobs') : jobs'[i] = proc.conn[d].client
        OBVIOUS
      <3>1. CASE d = c
        BY <1>3, <1>5, <3>1
      <3>2. CASE d # c /\ \E u \in AtWork : resolver[u].conn = d
        BY <1>2, <1>4, <3>2
      <3>3. CASE \E i \in 1 .. Len(jobs) : jobs[i] = proc.conn[d].client
        BY <1>5, <3>3
      <3>4. QED
        BY <1>1, <3>1, <3>2, <3>3 DEF Resolutions
    <2>6. \A u \in AtWork' : u \in Threads
      BY <1>4
    <2>7. QED
      BY <1>1, <1>4, <1>6, <2>1, <2>2, <2>3, <2>4, <2>5, <2>6 DEF Resolutions
  <1>10. QED
    BY <1>1, <1>9 DEF CalmStep, CalmInv

LEMMA SignalKeepsCalm ==
    ASSUME CalmStep, NEW t \in Threads, Signal(t)
    PROVE  CalmInv'
  <1>1. /\ UNCHANGED << proc, jobs >> /\ Resolutions
        /\ resolver[t].pc = "signal"
        /\ resolver' = [resolver EXCEPT ![t] = [ pc |-> "idle", conn |-> NoConn ]]
    BY DEF CalmStep, CalmInv, Signal
  <1>2. AtWork' = AtWork /\ \A u \in AtWork : resolver'[u] = resolver[u]
    BY <1>1 DEF CalmStep, ProxyInv, LoopTypeOK, AtWork
  <1>3. \A d \in Conns : \A g : Awaits(d, g)' <=> Awaits(d, g)
    BY <1>1 DEF Awaits
  <1>4. Resolutions'
    BY <1>1, <1>2, <1>3 DEF Resolutions, Running
  <1>5. QED
    BY <1>1, <1>4 DEF CalmStep, CalmInv

-----------------------------------------------------------------------------
LEMMA CalmInit == Init => CalmInv
  <1> SUFFICES ASSUME Init PROVE CalmInv
    OBVIOUS
  <1> DEFINE r == Freed([client |-> NoFd, user |-> NoName])
  <1>1. /\ proc.conn = [c \in Conns |-> r] /\ proc.item = [f \in Fds |-> Unused]
        /\ proc.current = 0 /\ proc.active = {} /\ jobs = << >>
        /\ \A t \in Threads : resolver[t].pc = "idle"
    BY DEF Init
  <1>2. r.refs = 0 /\ r.origin = NoFd /\ ~r.upload /\ r.state = "hello"
    BY DEF Freed
  <1> HIDE DEF r
  <1>3. \A c \in Conns : ~Live(proc, c) /\ Blank(proc, c)
    BY <1>1, <1>2 DEF Live, Blank
  <1>4. Parts(proc) /\ Fresh(proc) /\ Listed(proc)
    BY <1>1, <1>3 DEF Parts, Fresh, Listed, Unused
  <1>5. Counted(proc)
    <2>1. LiveOnes(proc) = {}
      BY <1>3 DEF LiveOnes
    <2>2. QED
      BY <1>1, <2>1, FS_EmptySet DEF Counted
  <1>6. Resolutions
    BY <1>1, <1>3 DEF Resolutions, AtWork, Awaits
  <1>7. QED
    BY <1>4, <1>5, <1>6 DEF CalmInv

LEMMA CalmNext ==
    ASSUME NoTime, ProxyInv, ProxyInv', CalmInv, [Next]_vars
    PROVE  CalmInv'
  <1>1. CASE UNCHANGED vars
    <2>1. UNCHANGED << proc, jobs, resolver >>
      BY <1>1 DEF vars
    <2>2. CASE Running
      BY <2>1, <2>2, PhasesKeepCalm DEF CalmStep
    <2>3. CASE ~Running
      BY <2>1, <2>3 DEF CalmInv, Resolutions, Running
    <2>4. QED
      BY <2>2, <2>3
  <1>2. CASE Next /\ ~Dead
    <2>1. Running
      BY <1>2 DEF Next, Loop, Resolving, Sweep, Poll, Interrupted, AcceptConnection,
                  ReadReady, RequestDomain, WriteReady, Visit, EndIteration,
                  NotifyBlock, EndBlock, Tick, Lookup, PushJob, Signal
    <2>2. CalmStep
      BY <2>1 DEF CalmStep
    <2>3. CASE Loop
      <3>1. CASE Poll \/ Interrupted \/ EndIteration \/ EndBlock
        BY <2>2, <3>1, PhasesKeepCalm DEF Poll, Interrupted, EndIteration, EndBlock
      <3>2. CASE Sweep \/ AcceptConnection \/ NotifyBlock
        BY <2>2, <3>2, SweepKeepsCalm, AcceptKeepsCalm, NotifyBlockKeepsCalm
      <3>3. CASE \E f \in Fds : ReadReady(f) \/ RequestDomain(f) \/ WriteReady(f)
        BY <2>2, <3>3, ReadReadyKeepsCalm, RequestDomainKeepsCalm, WriteReadyKeepsCalm
      <3>4. QED
        BY <2>3, <3>1, <3>2, <3>3 DEF Loop
    <2>4. CASE \E t \in Threads : Resolving(t)
      BY <2>2, <2>4, LookupKeepsCalm, PushJobKeepsCalm, SignalKeepsCalm DEF Resolving
    <2>5. ~(\E f \in Fds : Tick(f))
      BY DEF NoTime, Tick
    <2>6. QED
      BY <1>2, <2>3, <2>4, <2>5, SMTT(60) DEF Next
  <1>3. QED
    BY <1>1, <1>2 DEF Dead

LEMMA CalmAlways ==
    ASSUME NoTime
    PROVE  Spec => [](ProxyInv /\ CalmInv)
  <1>1. ProxyInv /\ CalmInv /\ ProxyInv' /\ [Next]_vars => CalmInv'
    BY CalmNext
  <1>2. QED
    BY <1>1, ProxyInvAlways, CalmInit, PTL DEF Spec

-----------------------------------------------------------------------------
(***************************************************************************)
(* The theorems.                                                           *)
(***************************************************************************)

\* Every variable has its type, whatever handler, thread or sweep ran: in
\* particular the gauge of metrics.c stays in its range and every queued
\* notification names a descriptor.
THEOREM ProxyTypeOK == Spec => []TypeOK
  <1>1. ProxyInv => TypeOK
    BY DEF ProxyInv, Sound, LoopTypeOK, TypeOK
  <1>2. QED
    BY <1>1, ProxyInvAlways, PTL

\* references of a connection is the number of descriptors registered for it:
\* socks5_stm_close frees a connection exactly with its last descriptor.
THEOREM ReferencesMatch == Spec => []RefsMatch
  <1>1. ProxyInv => RefsMatch
    BY DEF ProxyInv, Sound, RefsCount, RefsMatch
  <1>2. QED
    BY <1>1, ProxyInvAlways, PTL

\* The selector's table and the kernel agree: nothing a handler, a failure or
\* a timeout does leaks a descriptor or leaves a closed one registered.
THEOREM DescriptorsDoNotLeak == Spec => []RegisteredIsOpen
  <1>1. ProxyInv => RegisteredIsOpen
    BY DEF ProxyInv, Sound, TableIsOpen, RegisteredIsOpen, Running
  <1>2. QED
    BY <1>1, ProxyInvAlways, PTL

\* pselect is never entered with an answer in the queue and no signal to end
\* it: blocking SIGALRM outside pselect is enough, for any number of threads.
THEOREM NoLostWakeup == Spec => []NoSleepOnQueuedJob
  <1>1. ProxyInv => NoSleepOnQueuedJob
    BY DEF ProxyInv, WakeUp, NoSleepOnQueuedJob
  <1>2. QED
    BY <1>1, ProxyInvAlways, PTL

\* A descriptor is registered only for a connection that names it: finish and
\* the failures of state_connect.c forget no origin before it is unregistered.
THEOREM OwnersKnowTheirs == Spec => []OwnersKnowTheirFds
  <1>1. ASSUME ProxyInv PROVE OwnersKnowTheirFds
    <2> SUFFICES ASSUME Running, NEW f \in Fds, Registered(proc, f)
                 PROVE  LET r == proc.conn[proc.item[f].owner]
                        IN  f \in { r.client, r.origin }
      BY DEF OwnersKnowTheirFds
    <2>1. proc.item[f].owner \in Conns /\ f \in Held(proc, proc.item[f].owner)
      BY <1>1 DEF ProxyInv, Sound, Process, Item, Registered, Held
    <2>2. QED
      BY <1>1, <2>1 DEF ProxyInv, Sound, OwnersKnow, Running
  <1>2. QED
    BY <1>1, ProxyInvAlways, PTL

\* origin_res is undefined from malloc on, and yet no connection with an origin
\* has it undefined when socks5_stm_close frees it.
THEOREM FreedListsAreAssigned == Spec => []NoJunkFreed
  <1>1. ProxyInv => NoJunkFreed
    BY DEF ProxyInv, Sound, ListsAssigned, Assigned, NoJunkFreed
  <1>2. QED
    BY <1>1, ProxyInvAlways, PTL

(***************************************************************************)
(* Without timeouts, the descriptors a live connection names are           *)
(* registered, and for this connection: no handler of socks5_handler.c or  *)
(* of the states leaves one leg behind, or takes one of another.           *)
(***************************************************************************)
THEOREM LegsStayRegistered ==
    ASSUME NoTime
    PROVE  Spec => []LegsRegistered
  <1>1. CalmInv => LegsRegistered
    BY DEF CalmInv, Parts, Whole, LegsRegistered, Running
  <1>2. QED
    BY <1>1, CalmAlways, PTL

(***************************************************************************)
(* Without timeouts, a relayed connection never falls asleep with both     *)
(* peers alive: after every handler of state_forwarding.c the leg that     *)
(* pending bytes wait for is asked for writing, and with nothing pending   *)
(* both are read.                                                          *)
(***************************************************************************)
THEOREM RelaysAreDriven ==
    ASSUME NoTime
    PROVE  Spec => []RelayHasDriver
  <1>1. CalmInv => RelayHasDriver
    BY DEF CalmInv, Parts, Whole, Blank, Driven, DrivenBy, RelayHasDriver, Running
  <1>2. QED
    BY <1>1, CalmAlways, PTL

(***************************************************************************)
(* Without timeouts, a connection waits for a resolution exactly while a   *)
(* thread works on it or its answer is queued, and no thread works on a    *)
(* connection that is gone (state_resolve.c, selector_notify_block).       *)
(***************************************************************************)
THEOREM AnswersFindTheirConnections ==
    ASSUME NoTime
    PROVE  Spec => []ResolutionsMatch
  <1>1. CalmInv => ResolutionsMatch
    <2> SUFFICES ASSUME CalmInv, Running PROVE ResolutionsMatch
      BY DEF ResolutionsMatch
    <2>1. Parts(proc) /\ Resolutions
      BY DEF CalmInv
    <2>2. \A t \in Threads :
             resolver[t].pc \in { "lookup", "notify" } =>
                /\ resolver[t].conn \in Conns
                /\ Live(proc, resolver[t].conn)
                /\ proc.conn[resolver[t].conn].state = "resolve"
      BY <2>1 DEF Resolutions, AtWork, Awaits
    <2>3. ASSUME NEW c \in Conns, Live(proc, c), NEW i \in 1 .. Len(jobs),
                 jobs[i] = proc.conn[c].client
          PROVE  proc.conn[c].state = "resolve"
      <3>1. PICK d \in Conns : Awaits(d, jobs[i])
        BY <2>1, <2>3 DEF Resolutions
      <3>2. d = c
        BY <2>1, <2>3, <3>1, ClientsDiffer DEF Awaits
      <3>3. QED
        BY <3>1, <3>2 DEF Awaits
    <2>4. \A c \in Conns : Live(proc, c) /\ proc.conn[c].state = "resolve" =>
             \/ \E t \in Threads : /\ resolver[t].conn = c
                                   /\ resolver[t].pc \in { "lookup", "notify" }
             \/ \E i \in 1 .. Len(jobs) : jobs[i] = proc.conn[c].client
      BY <2>1 DEF Resolutions, AtWork, Awaits
    <2>5. QED
      BY <2>2, <2>3, <2>4 DEF ResolutionsMatch
  <1>2. QED
    BY <1>1, CalmAlways, PTL

(***************************************************************************)
(* Without timeouts, every name in active_users is the name of a live      *)
(* connection (metrics_add_user, metrics_remove_user).                     *)
(***************************************************************************)
THEOREM NoGhostUsers ==
    ASSUME NoTime
    PROVE  Spec => []ListedUsersAreConnected
  <1>1. CalmInv => ListedUsersAreConnected
    BY DEF CalmInv, Listed, Bears, ListedUsersAreConnected
  <1>2. QED
    BY <1>1, CalmAlways, PTL

(***************************************************************************)
(* Without timeouts, and with room for all of them below MAX_CONNECTIONS,  *)
(* current_connections is the number of live connections, whichever of     *)
(* them end in which order (metrics_connection_start and _end).            *)
(***************************************************************************)
THEOREM CurrentIsExact ==
    ASSUME NoTime, Roomy
    PROVE  Spec => []CurrentCountsLive
  <1>1. CalmInv => CurrentCountsLive
    BY DEF CalmInv, Counted, LiveOnes, CurrentCountsLive
  <1>2. QED
    BY <1>1, CalmAlways, PTL
=============================================================================
