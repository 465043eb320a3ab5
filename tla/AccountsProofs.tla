--------------------------- MODULE AccountsProofs ---------------------------
(* Proofs about the users in Accounts.tla and Metrics.tla, for every value of *)
(* their constants: whatever the table of accounts lets in.                 *)
EXTENDS Accounts, SequenceTheorems, TLAPS

-----------------------------------------------------------------------------
(***************************************************************************)
(* The inductive invariant: types, the access log, and the blocks of       *)
(* memory of the active users.                                             *)
(***************************************************************************)
Typed ==
    /\ MetricsTypeOK
    /\ user \in [Connections -> Names \cup {Nobody}]

\* Whoever is connected has a record in the access log, besides what
\* AccessLogIsComplete says.
Logged ==
    /\ AccessLogIsComplete
    /\ \A c \in Connections : user[c] # Nobody => AllTimeAt(user[c]) # {}

\* Until a removal shifts a record with a block, every record, in use or not, has a
\* block of its own that is allocated, or none and no sites.
OwnBlocks ==
    ~shifted =>
      /\ ~corrupt
      /\ \A i \in 1 .. MaxActive :
           IF active[i].sites_visited = 0
             THEN active[i].site_count = 0
             ELSE active[i].sites_visited \in blocks
      /\ \A i, j \in 1 .. MaxActive :
           i # j /\ active[i].sites_visited # 0
             => active[i].sites_visited # active[j].sites_visited

AccountsInv == Typed /\ Logged /\ OwnBlocks

LEMMA InitInv == Init => AccountsInv
<1>. SUFFICES ASSUME Init PROVE AccountsInv
  OBVIOUS
<1>. USE DEF Init, MetricsInit
<1>1. << >> \in Seq(Sites) /\ allTime \in Seq([ username : Names, sites : Seq(Sites) ])
  BY EmptySeq
<1>2. NoUser \in User /\ 0 \in 0 .. MaxActive /\ 0 \in 0 .. MaxBlocks
  BY MetricsAssumption DEF NoUser, User
<1>3. Typed
  BY <1>1, <1>2 DEF Typed, MetricsTypeOK
<1>4. \A name \in Names : AllTimeAt(name) = {} /\ visits[name] = << >>
  BY DEF AllTimeAt
<1>5. Logged
  BY <1>4 DEF Logged, AccessLogIsComplete
<1>6. OwnBlocks
  BY DEF OwnBlocks, NoUser
<1>. QED
  BY <1>3, <1>5, <1>6 DEF AccountsInv

LEMMA ResetInv == MetricsReset /\ user' = [c \in Connections |-> Nobody] => AccountsInv'
<1>. SUFFICES ASSUME MetricsReset, user' = [c \in Connections |-> Nobody]
              PROVE  AccountsInv'
  OBVIOUS
<1>. USE DEF MetricsReset
<1>1. << >> \in Seq(Sites) /\ allTime' \in Seq([ username : Names, sites : Seq(Sites) ])
  BY EmptySeq
<1>2. NoUser \in User /\ 0 \in 0 .. MaxActive /\ 0 \in 0 .. MaxBlocks
  BY MetricsAssumption DEF NoUser, User
<1>3. Typed'
  BY <1>1, <1>2 DEF Typed, MetricsTypeOK
<1>4. \A name \in Names : AllTimeAt(name)' = {} /\ visits'[name] = << >>
  BY DEF AllTimeAt
<1>5. Logged'
  BY <1>4 DEF Logged, AccessLogIsComplete
<1>6. OwnBlocks'
  BY DEF OwnBlocks, NoUser
<1>. QED
  BY <1>3, <1>5, <1>6 DEF AccountsInv

-----------------------------------------------------------------------------
(***************************************************************************)
(* metrics_add_user.                                                       *)
(***************************************************************************)
\* A new record of the access log is empty, as are the visits under its name.
LEMMA AddAllTimeLogs ==
    ASSUME Typed, AccessLogIsComplete, NEW name \in Names, AddAllTime(name),
           UNCHANGED visits
    PROVE  /\ allTime' \in Seq([ username : Names, sites : Seq(Sites) ])
           /\ AccessLogIsComplete'
           /\ AllTimeAt(name)' # {}
           /\ \A n \in Names : AllTimeAt(n) \subseteq AllTimeAt(n)'
<1>. DEFINE Record == [ username : Names, sites : Seq(Sites) ]
            new == [ username |-> name, sites |-> << >> ]
<1>1. allTime \in Seq(Record) /\ Len(allTime) \in Nat /\ DOMAIN allTime = 1 .. Len(allTime)
  BY DEF Typed, MetricsTypeOK
<1>2. CASE AllTimeAt(name) # {}
  <2>1. allTime' = allTime
    BY <1>2 DEF AddAllTime
  <2>. QED
    BY <1>1, <1>2, <2>1 DEF AccessLogIsComplete, AllTimeAt
<1>3. CASE AllTimeAt(name) = {}
  <2>. DEFINE n == Len(allTime) + 1
  <2>1. allTime' = Append(allTime, new) /\ new \in Record
    BY <1>3, EmptySeq DEF AddAllTime
  <2>2. /\ allTime' \in Seq(Record) /\ DOMAIN allTime' = 1 .. n
        /\ \A i \in 1 .. Len(allTime) : allTime'[i] = allTime[i]
        /\ allTime'[n] = new
    BY <1>1, <2>1, AppendProperties
  <2>3. \A m \in Names : AllTimeAt(m)' = IF m = name THEN {n} ELSE AllTimeAt(m)
    BY <1>1, <1>3, <2>2 DEF AllTimeAt
  <2>4. visits[name] = << >>
    BY <1>3 DEF AccessLogIsComplete
  <2>5. \A m \in Names : AllTimeAt(m) \subseteq 1 .. Len(allTime)
    BY <1>1 DEF AllTimeAt
  <2>6. allTime'[n].sites = << >>
    BY <2>2
  <2>. HIDE DEF n, new
  <2>7. ASSUME NEW m \in Names
        PROVE  /\ \A i, j \in AllTimeAt(m)' : i = j
               /\ visits'[m] # << >> => AllTimeAt(m)' # {}
               /\ \A i \in AllTimeAt(m)' : allTime'[i].sites = visits'[m]
    <3>1. CASE m = name
      BY <2>3, <2>4, <2>6, <3>1
    <3>2. CASE m # name
      <4>1. AllTimeAt(m)' = AllTimeAt(m)
        BY <2>3, <3>2
      <4>2. \A i \in AllTimeAt(m) : allTime'[i] = allTime[i]
        BY <2>2, <2>5
      <4>3. /\ \A i, j \in AllTimeAt(m) : i = j
            /\ visits[m] # << >> => AllTimeAt(m) # {}
            /\ \A i \in AllTimeAt(m) : allTime[i].sites = visits[m]
        BY DEF AccessLogIsComplete
      <4>. QED
        BY <4>1, <4>2, <4>3, Zenon
    <3>. QED
      BY <3>1, <3>2
  <2>8. AccessLogIsComplete'
    BY <2>7 DEF AccessLogIsComplete
  <2>. QED
    BY <1>3, <2>2, <2>3, <2>8
<1>. QED
  BY <1>2, <1>3

\* A new active user takes over what the place has left of blocks.
LEMMA AddUserInv ==
    ASSUME AccountsInv, NEW name \in Names, AddUser(name),
           NEW c \in Connections, user' = [user EXCEPT ![c] = name]
    PROVE  AccountsInv'
<1>1. /\ UNCHANGED << blocks, allocated, corrupt, shifted, visits >>
      /\ Typed /\ Logged /\ OwnBlocks
  BY DEF AddUser, AccountsInv
<1>2. /\ allTime' \in Seq([ username : Names, sites : Seq(Sites) ])
      /\ AccessLogIsComplete' /\ AllTimeAt(name)' # {}
      /\ \A n \in Names : AllTimeAt(n) \subseteq AllTimeAt(n)'
  BY <1>1, AddAllTimeLogs DEF AddUser, Logged
<1>3. /\ active' \in [1 .. MaxActive -> User] /\ activeCount' \in 0 .. MaxActive
      /\ \A i \in 1 .. MaxActive :
           /\ active'[i].sites_visited = active[i].sites_visited
           /\ active'[i].site_count = active[i].site_count
  <2>1. /\ active \in [1 .. MaxActive -> User] /\ activeCount \in 0 .. MaxActive
        /\ AddActive(name) /\ MaxActive \in Nat
    BY <1>1, MetricsAssumption DEF Typed, MetricsTypeOK, AddUser
  <2>2. CASE ActiveAt(name) # {} \/ activeCount = MaxActive
    BY <2>1, <2>2 DEF AddActive
  <2>3. CASE ~(ActiveAt(name) # {} \/ activeCount = MaxActive)
    <3>. DEFINE k == activeCount + 1
                u == [active[k] EXCEPT !.username = name]
    <3>1. k \in 1 .. MaxActive
      BY <2>1, <2>3
    <3>2. active' = [active EXCEPT ![k] = u] /\ activeCount' = k
      BY <2>1, <2>3 DEF AddActive
    <3>3. /\ active[k] \in User /\ u \in User
          /\ u.sites_visited = active[k].sites_visited
          /\ u.site_count = active[k].site_count
      BY <2>1, <3>1 DEF User
    <3>. HIDE DEF k, u
    <3>4. \A i \in 1 .. MaxActive : active'[i] = IF i = k THEN u ELSE active[i]
      BY <2>1, <3>1, <3>2
    <3>. QED
      BY <2>1, <3>1, <3>2, <3>3, <3>4
  <2>. QED
    BY <2>2, <2>3
<1>4. Typed'
  BY <1>1, <1>2, <1>3 DEF Typed, MetricsTypeOK
<1>5. Logged'
  BY <1>1, <1>2 DEF Logged, Typed
<1>6. OwnBlocks'
  BY <1>1, <1>3 DEF OwnBlocks
<1>. QED
  BY <1>4, <1>5, <1>6 DEF AccountsInv

-----------------------------------------------------------------------------
(***************************************************************************)
(* metrics_remove_user.                                                    *)
(***************************************************************************)
LEMMA RemoveUserInv ==
    ASSUME AccountsInv, NEW name \in Names, RemoveUser(name),
           NEW c \in Connections, user' = [user EXCEPT ![c] = Nobody]
    PROVE  AccountsInv'
<1>. DEFINE i == CHOOSE k \in ActiveAt(name) : TRUE
<1>1. /\ UNCHANGED << allTime, blocks, allocated, corrupt, visits >>
      /\ Typed /\ Logged /\ OwnBlocks
      /\ active \in [1 .. MaxActive -> User] /\ activeCount \in 0 .. MaxActive
      /\ MaxActive \in Nat
  BY MetricsAssumption DEF RemoveUser, AccountsInv, Typed, MetricsTypeOK
<1>2. Logged'
  BY <1>1 DEF Logged, Typed, AccessLogIsComplete, AllTimeAt
<1>3. user' \in [Connections -> Names \cup {Nobody}]
  BY <1>1 DEF Typed
<1>4. CASE ActiveAt(name) = {}
  <2>1. UNCHANGED << active, activeCount, shifted >>
    BY <1>4 DEF RemoveUser
  <2>. QED
    BY <1>1, <1>2, <1>3, <2>1 DEF AccountsInv, Typed, MetricsTypeOK, OwnBlocks
<1>5. CASE ActiveAt(name) # {}
  <2>1. i \in 1 .. activeCount
    <3>1. i \in ActiveAt(name)
      BY <1>5
    <3>. QED
      BY <3>1 DEF ActiveAt
  <2>2. /\ active' = [j \in 1 .. MaxActive |->
                        IF j \in i .. activeCount - 1 THEN active[j + 1] ELSE active[j]]
        /\ activeCount' = activeCount - 1
        /\ shifted' = (shifted \/
              \E j \in i + 1 .. activeCount : active[j].sites_visited # 0)
    BY <1>5 DEF RemoveUser
  <2>. HIDE DEF i
  <2>3. active' \in [1 .. MaxActive -> User] /\ activeCount' \in 0 .. MaxActive
    BY <1>1, <2>1, <2>2
  <2>4. shifted' \in BOOLEAN
    BY <1>1, <2>2 DEF Typed, MetricsTypeOK
  <2>5. Typed'
    BY <1>1, <1>3, <2>3, <2>4 DEF Typed, MetricsTypeOK
  <2>6. ASSUME ~shifted'
        PROVE  OwnBlocks'
    <3>1. ~shifted /\ \A j \in i + 1 .. activeCount : active[j].sites_visited = 0
      BY <2>2, <2>6
    <3>2. \A j \in 1 .. MaxActive :
             \/ active'[j] = active[j]
             \/ active'[j].sites_visited = 0 /\ active'[j].site_count = 0
      <4>. TAKE j \in 1 .. MaxActive
      <4>1. CASE j \in i .. activeCount - 1
        <5>1. active'[j] = active[j + 1] /\ j + 1 \in i + 1 .. activeCount
              /\ j + 1 \in 1 .. MaxActive
          BY <1>1, <2>1, <2>2, <4>1
        <5>2. active[j + 1].sites_visited = 0
          BY <3>1, <5>1
        <5>. QED
          BY <1>1, <3>1, <5>1, <5>2 DEF OwnBlocks
      <4>2. CASE j \notin i .. activeCount - 1
        BY <2>2, <4>2
      <4>. QED
        BY <4>1, <4>2
    <3>. QED
      BY <1>1, <3>1, <3>2 DEF OwnBlocks
  <2>7. OwnBlocks'
    BY <2>6 DEF OwnBlocks
  <2>. QED
    BY <1>2, <2>5, <2>7 DEF AccountsInv
<1>. QED
  BY <1>4, <1>5

-----------------------------------------------------------------------------
(***************************************************************************)
(* metrics_add_user_site.                                                  *)
(***************************************************************************)
\* Zero is a multiple of every vector size.
LEMMA ZeroGrows == 0 % SitesVector = 0
  BY MetricsAssumption

\* One more site of an active user: its block grows, or has room.
LEMMA AddActiveSiteInv ==
    ASSUME Typed, OwnBlocks, ~corrupt, NEW i \in 1 .. MaxActive, AddActiveSite(i),
           UNCHANGED shifted
    PROVE  /\ active' \in [1 .. MaxActive -> User]
           /\ blocks' \subseteq 1 .. allocated' /\ allocated' \in 0 .. MaxBlocks
           /\ corrupt' \in BOOLEAN
           /\ OwnBlocks'
<1>. DEFINE b    == active[i].sites_visited
            n    == active[i].site_count
            grow == n % SitesVector = 0
<1>1. /\ active \in [1 .. MaxActive -> User] /\ MaxActive \in Nat /\ MaxBlocks \in Nat
      /\ blocks \subseteq 1 .. allocated /\ allocated \in 0 .. MaxBlocks
      /\ corrupt \in BOOLEAN
  BY MetricsAssumption DEF Typed, MetricsTypeOK
<1>2. active[i] \in User /\ b \in 0 .. MaxBlocks /\ n \in Nat
  BY <1>1 DEF User
<1>3. CASE /\ grow /\ allocated < MaxBlocks
           /\ active' = [active EXCEPT ![i].sites_visited = allocated + 1,
                                       ![i].site_count = @ + 1]
           /\ blocks' = (blocks \ {b}) \cup {allocated + 1}
           /\ allocated' = allocated + 1
           /\ corrupt' = (corrupt \/ b \notin blocks \cup {0})
  <2>. DEFINE u == [active[i] EXCEPT !.sites_visited = allocated + 1, !.site_count = n + 1]
  <2>1. /\ u \in User /\ u.sites_visited = allocated + 1
        /\ allocated + 1 \in 1 .. MaxBlocks
    BY <1>1, <1>2, <1>3 DEF User
  <2>2. active' = [active EXCEPT ![i] = u]
    BY <1>1, <1>3
  <2>. HIDE DEF u
  <2>3. \A j \in 1 .. MaxActive : active'[j] = IF j = i THEN u ELSE active[j]
    BY <1>1, <2>2
  <2>4. active' \in [1 .. MaxActive -> User]
    BY <1>1, <2>1, <2>2
  <2>5. blocks' \subseteq 1 .. allocated' /\ allocated' \in 0 .. MaxBlocks
    BY <1>1, <1>3
  <2>6. ASSUME ~shifted' PROVE OwnBlocks'
    <3>1. ~shifted /\ ~corrupt'
      BY <1>3, <2>6 DEF OwnBlocks
    <3>2. \A j \in 1 .. MaxActive : j # i /\ active[j].sites_visited # 0 =>
             active[j].sites_visited \in blocks /\ active[j].sites_visited # b
      BY <3>1 DEF OwnBlocks
    <3>3. allocated + 1 \notin blocks /\ allocated + 1 # 0 /\ allocated + 1 \in blocks'
      BY <1>1, <1>3
    <3>4. \A j \in 1 .. MaxActive :
             IF active'[j].sites_visited = 0
               THEN active'[j].site_count = 0
               ELSE active'[j].sites_visited \in blocks'
      <4>. TAKE j \in 1 .. MaxActive
      <4>1. CASE j = i
        BY <2>1, <2>3, <3>3, <4>1
      <4>2. CASE j # i
        <5>1. active'[j] = active[j]
          BY <2>3, <4>2
        <5>2. active[j].sites_visited = 0 => active[j].site_count = 0
          BY <3>1 DEF OwnBlocks
        <5>3. active[j].sites_visited # 0 => active[j].sites_visited \in blocks'
          BY <1>3, <3>2, <4>2
        <5>. QED
          BY <5>1, <5>2, <5>3
      <4>. QED
        BY <4>1, <4>2
    <3>5. \A j, k \in 1 .. MaxActive :
             j # k /\ active'[j].sites_visited # 0
               => active'[j].sites_visited # active'[k].sites_visited
      BY <2>1, <2>3, <3>1, <3>2, <3>3 DEF OwnBlocks
    <3>. QED
      BY <3>1, <3>4, <3>5 DEF OwnBlocks
  <2>7. OwnBlocks'
    BY <2>6 DEF OwnBlocks
  <2>8. corrupt' \in BOOLEAN
    BY <1>3
  <2>. QED
    BY <2>4, <2>5, <2>7, <2>8
<1>4. CASE /\ ~grow \/ b # 0
           /\ active' = [active EXCEPT ![i].site_count = @ + 1]
           /\ corrupt' = (corrupt \/ b \notin blocks)
           /\ UNCHANGED << blocks, allocated >>
  <2>. DEFINE u == [active[i] EXCEPT !.site_count = n + 1]
  <2>1. u \in User /\ u.sites_visited = b
    BY <1>2 DEF User
  <2>2. active' = [active EXCEPT ![i] = u]
    BY <1>1, <1>4
  <2>. HIDE DEF u
  <2>3. \A j \in 1 .. MaxActive : active'[j] = IF j = i THEN u ELSE active[j]
    BY <1>1, <2>2
  <2>4. active' \in [1 .. MaxActive -> User]
    BY <1>1, <2>1, <2>2
  <2>5. ASSUME ~shifted' PROVE OwnBlocks'
    <3>1. ~shifted
      BY <2>5
    <3>2. b # 0
      BY <1>4, <3>1, ZeroGrows DEF OwnBlocks
    <3>3. b \in blocks /\ ~corrupt'
      BY <1>4, <3>1, <3>2 DEF OwnBlocks
    <3>. HIDE DEF b
    <3>4. \A j \in 1 .. MaxActive :
             /\ active'[j].sites_visited = active[j].sites_visited
             /\ j # i => active'[j] = active[j]
      BY <2>1, <2>3 DEF b
    <3>5. active'[i].sites_visited # 0 /\ active[i].sites_visited # 0
      BY <2>1, <2>3, <3>2 DEF b
    <3>6. blocks' = blocks
      BY <1>4
    <3>7. \A j \in 1 .. MaxActive :
             IF active'[j].sites_visited = 0
               THEN active'[j].site_count = 0
               ELSE active'[j].sites_visited \in blocks'
      <4>. TAKE j \in 1 .. MaxActive
      <4>1. IF active[j].sites_visited = 0
              THEN active[j].site_count = 0 ELSE active[j].sites_visited \in blocks
        BY <3>1 DEF OwnBlocks
      <4>2. CASE j = i
        BY <3>4, <3>5, <3>6, <4>1, <4>2
      <4>3. CASE j # i
        BY <3>4, <3>6, <4>1, <4>3
      <4>. QED
        BY <4>2, <4>3
    <3>8. \A j, k \in 1 .. MaxActive :
             j # k /\ active'[j].sites_visited # 0
               => active'[j].sites_visited # active'[k].sites_visited
      BY <3>1, <3>4 DEF OwnBlocks
    <3>. QED
      BY <3>3, <3>7, <3>8 DEF OwnBlocks
  <2>6. OwnBlocks'
    BY <2>5 DEF OwnBlocks
  <2>7. corrupt' \in BOOLEAN
    BY <1>4
  <2>. QED
    BY <1>1, <1>4, <2>4, <2>6, <2>7
<1>. QED
  BY <1>3, <1>4 DEF AddActiveSite

\* A site is appended to every record of the name, and there is one.
LEMMA AddUserSiteInv ==
    ASSUME AccountsInv, NEW name \in Names, NEW site \in Sites, AddUserSite(name, site),
           AllTimeAt(name) # {}, UNCHANGED user
    PROVE  AccountsInv'
<1>. DEFINE Record == [ username : Names, sites : Seq(Sites) ]
<1>1. /\ Typed /\ Logged /\ OwnBlocks /\ ~corrupt
      /\ UNCHANGED << activeCount, shifted >>
  BY DEF AccountsInv, AddUserSite
<1>2. /\ allTime \in Seq(Record) /\ Len(allTime) \in Nat
      /\ DOMAIN allTime = 1 .. Len(allTime)
      /\ visits \in [Names -> Seq(Sites)]
      /\ activeCount \in 0 .. MaxActive /\ MaxActive \in Nat
  BY <1>1, MetricsAssumption DEF Typed, MetricsTypeOK
<1>3. /\ active' \in [1 .. MaxActive -> User]
      /\ blocks' \subseteq 1 .. allocated' /\ allocated' \in 0 .. MaxBlocks
      /\ corrupt' \in BOOLEAN
      /\ OwnBlocks'
  <2>1. CASE ActiveAt(name) = {}
    BY <1>1, <2>1 DEF AddUserSite, OwnBlocks, Typed, MetricsTypeOK
  <2>2. CASE ActiveAt(name) # {}
    <3>. DEFINE i == CHOOSE k \in ActiveAt(name) : TRUE
    <3>1. i \in ActiveAt(name) /\ AddActiveSite(i)
      BY <2>2 DEF AddUserSite
    <3>2. i \in 1 .. MaxActive
      BY <1>2, <3>1 DEF ActiveAt
    <3>. HIDE DEF i
    <3>. QED
      BY <1>1, <3>1, <3>2, AddActiveSiteInv
  <2>. QED
    BY <2>1, <2>2
<1>4. allTime' = [i \in 1 .. Len(allTime) |->
                    IF i \in AllTimeAt(name)
                      THEN [allTime[i] EXCEPT !.sites = Append(@, site)] ELSE allTime[i]]
  BY <1>2 DEF AddUserSite
<1>5. \A i \in 1 .. Len(allTime) :
         /\ allTime[i] \in Record
         /\ allTime'[i] \in Record
         /\ allTime'[i].username = allTime[i].username
         /\ allTime'[i].sites = IF i \in AllTimeAt(name)
                                  THEN Append(allTime[i].sites, site) ELSE allTime[i].sites
  <2>. TAKE i \in 1 .. Len(allTime)
  <2>1. allTime[i] \in Record
    BY <1>2, ElementOfSeq
  <2>2. CASE i \in AllTimeAt(name)
    <3>1. Append(allTime[i].sites, site) \in Seq(Sites)
      BY <2>1, AppendProperties
    <3>2. allTime'[i] = [allTime[i] EXCEPT !.sites = Append(allTime[i].sites, site)]
      BY <1>4, <2>2
    <3>. QED
      BY <2>1, <2>2, <3>1, <3>2
  <2>3. CASE i \notin AllTimeAt(name)
    <3>1. allTime'[i] = allTime[i]
      BY <1>4, <2>3
    <3>. QED
      BY <2>1, <2>3, <3>1
  <2>. QED
    BY <2>2, <2>3
<1>6. allTime' \in Seq(Record) /\ DOMAIN allTime' = 1 .. Len(allTime)
  <2>1. allTime' \in [1 .. Len(allTime) -> Record]
    BY <1>4, <1>5
  <2>2. DOMAIN allTime' = 1 .. Len(allTime)
    BY <1>4
  <2>. HIDE DEF Record
  <2>3. allTime' \in UNION { [1 .. k -> Record] : k \in Nat }
    BY <1>2, <2>1
  <2>4. Seq(Record) = UNION { [1 .. k -> Record] : k \in Nat }
    BY SeqDef
  <2>. QED
    BY <2>2, <2>3, <2>4
<1>7. \A m \in Names : AllTimeAt(m)' = AllTimeAt(m)
  BY <1>2, <1>5, <1>6 DEF AllTimeAt
<1>8. \A m \in Names : visits'[m] = IF m = name THEN Append(visits[m], site) ELSE visits[m]
  BY <1>2 DEF AddUserSite
<1>9. visits' \in [Names -> Seq(Sites)]
  BY <1>2, AppendProperties DEF AddUserSite
<1>10. ASSUME NEW m \in Names
       PROVE  /\ \A i, j \in AllTimeAt(m)' : i = j
              /\ visits'[m] # << >> => AllTimeAt(m)' # {}
              /\ \A i \in AllTimeAt(m)' : allTime'[i].sites = visits'[m]
  <2>1. /\ \A i, j \in AllTimeAt(m) : i = j
        /\ visits[m] # << >> => AllTimeAt(m) # {}
        /\ \A i \in AllTimeAt(m) : allTime[i].sites = visits[m]
    BY <1>1 DEF Logged, AccessLogIsComplete
  <2>2. AllTimeAt(m)' = AllTimeAt(m) /\ AllTimeAt(m) \subseteq 1 .. Len(allTime)
    BY <1>2, <1>7 DEF AllTimeAt
  <2>3. CASE m = name
    BY <1>5, <1>8, <2>1, <2>2, <2>3
  <2>4. CASE m # name
    <3>1. \A i \in AllTimeAt(m) : i \notin AllTimeAt(name)
      BY <2>4 DEF AllTimeAt
    <3>. QED
      BY <1>5, <1>8, <2>1, <2>2, <2>4, <3>1
  <2>. QED
    BY <2>3, <2>4
<1>11. Logged'
  <2>1. AccessLogIsComplete'
    BY <1>10 DEF AccessLogIsComplete
  <2>. QED
    BY <1>1, <1>7, <2>1 DEF Logged, Typed
<1>12. Typed'
  BY <1>1, <1>3, <1>6, <1>9 DEF Typed, MetricsTypeOK
<1>. QED
  BY <1>3, <1>11, <1>12 DEF AccountsInv

-----------------------------------------------------------------------------
(***************************************************************************)
(* Every step, and the theorems.                                           *)
(***************************************************************************)
LEMMA NextInv == AccountsInv /\ [Next]_vars => AccountsInv'
<1>. SUFFICES ASSUME AccountsInv, [Next]_vars PROVE AccountsInv'
  OBVIOUS
<1>1. CASE UNCHANGED << metricsVars, user >>
  BY <1>1 DEF AccountsInv, Typed, Logged, OwnBlocks, MetricsTypeOK, AccessLogIsComplete,
              AllTimeAt, metricsVars
<1>2. CASE Killed
  BY <1>2, ResetInv DEF Killed
<1>3. ASSUME NEW c \in Connections, Login(c) PROVE AccountsInv'
  <2>1. CASE /\ Anonymous \in Visitors /\ user' = [user EXCEPT ![c] = Anonymous]
             /\ AddUser(Anonymous)
    <3>1. Anonymous \in Names
      BY AccountsAssumption
    <3>. QED
      BY <2>1, <3>1, AddUserInv
  <2>2. ASSUME NEW account \in Account, account[1] \in Visitors,
               user' = [user EXCEPT ![c] = account[1]], AddUser(account[1])
        PROVE  AccountsInv'
    <3>1. account[1] \in Names
      BY <2>2, AccountsAssumption
    <3>. QED
      BY <2>2, <3>1, AddUserInv
  <2>. QED
    BY <1>3, <2>1, <2>2 DEF Login
<1>4. ASSUME NEW c \in Connections, user[c] # Nobody
      PROVE  user[c] \in Names /\ AllTimeAt(user[c]) # {}
  BY <1>4 DEF AccountsInv, Typed, Logged
<1>5. ASSUME NEW c \in Connections, NEW s \in Sites, Visit(c, s) PROVE AccountsInv'
  <2>1. user[c] # Nobody /\ AddUserSite(user[c], s) /\ user' = user
    BY <1>5 DEF Visit
  <2>. QED
    BY <1>4, <2>1, AddUserSiteInv
<1>6. ASSUME NEW c \in Connections, End(c) PROVE AccountsInv'
  <2>1. /\ user[c] # Nobody /\ RemoveUser(user[c])
        /\ user' = [user EXCEPT ![c] = Nobody]
    BY <1>6 DEF End
  <2>. QED
    BY <1>4, <2>1, RemoveUserInv
<1>. QED
  BY <1>1, <1>2, <1>3, <1>5, <1>6 DEF Next, Stopped, vars

LEMMA Invariance == Spec => []AccountsInv
  BY InitInv, NextInv, PTL DEF Spec

\* The access log has exactly the sites visited under every name, in order, with any
\* number of users, connections and removals: the array all_time_users of metrics.c
\* only grows, and every visit finds the record of its name.
THEOREM AccessLogComplete == Spec => []AccessLogIsComplete
<1>1. AccountsInv => AccessLogIsComplete
  BY DEF AccountsInv, Logged
<1>. QED
  BY <1>1, Invariance, PTL

\* Until metrics_remove_user shifts a record that has a block, no block that is free
\* is written or reallocated, however long the array and however many sites.
THEOREM OnlyShiftsCorruptMemory == Spec => []OnlyShiftsCorrupt
<1>1. AccountsInv => OnlyShiftsCorrupt
  BY DEF AccountsInv, OwnBlocks, OnlyShiftsCorrupt
<1>. QED
  BY <1>1, Invariance, PTL
=============================================================================
