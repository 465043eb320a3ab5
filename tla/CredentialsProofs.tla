------------------------- MODULE CredentialsProofs -------------------------
(* Proofs about the hash table and the files of accounts in Credentials.tla, *)
(* within Accounts.tla, for every hash function, capacity and list of users. *)
EXTENDS AccountsProofs, FiniteSetTheorems, WellFoundedInduction

-----------------------------------------------------------------------------
(***************************************************************************)
(* The inductive invariant.                                                *)
(***************************************************************************)
\* The accounts in a sequence of entries.
AccountsIn(entries) == { entries[i] : i \in DOMAIN entries } \cap Account

\* In a table of the capacity whose first entries are these, every account is at its
\* home or behind it, and a search for it is not stopped on the way.
Sound(entries, capacity) ==
    \A i \in DOMAIN entries : entries[i] \in Account =>
        /\ Home(entries[i][1], capacity) <= i
        /\ \A j \in Home(entries[i][1], capacity) .. i - 1 :
             Present(entries[j]) /\ entries[j][1] # entries[i][1]

\* A process that saves has a table, and a table has entries.
Tables ==
    /\ CredentialsTypeOK
    /\ table = NoTable \/ Len(table.entries) > 0
    /\ phase = "open metadata" \/ Saving => table # NoTable

\* What malloc() leaves in entries nobody has written.
Dirty == { dirt[i] : i \in DOMAIN dirt }

\* Whatever is in the table or was saved has been given in an argument, or an unwritten
\* entry has held it.
Given ==
    /\ AccountsIn(table.entries) \subseteq created \cup shown
    /\ AccountsIn(stored.entries) \subseteq created \cup shown
    /\ Dirty \subseteq shown

\* No heap was dirty, and every save that began to write was completed.
Orderly == ~torn /\ shown = {}

\* As long as all is orderly: between two saves the files belong together, and in a save
\* they are of the table.
Files ==
    Orderly =>
      /\ ~Saving =>
           /\ metadata.there = stored.there
           /\ stored.there => /\ metadata.capacity > 0
                              /\ Len(stored.entries) <= metadata.capacity
                              /\ Sound(stored.entries, metadata.capacity)
      /\ phase \in { "open entries", "write entries" } =>
           metadata.there /\ metadata.capacity = Len(table.entries)
      /\ table # NoTable => Sound(table.entries, Len(table.entries))

\* The table has whatever the process has created or found.
Kept == Orderly => known \subseteq AccountsIn(table.entries)

CredentialsInv == Tables /\ Given /\ Files /\ Kept

-----------------------------------------------------------------------------
(***************************************************************************)
(* Numbers and recursion.                                                  *)
(***************************************************************************)
LEMMA LeastOf ==
    ASSUME NEW S \in SUBSET Nat, S # {}
    PROVE  \E i \in S : \A j \in S : i <= j
<1>. DEFINE R == OpToRel(<, Nat)
<1>1. PICK i \in S : \A j \in S : << j, i >> \notin R
  <2>1. IsWellFoundedOn(R, Nat)
    BY NatLessThanWellFounded
  <2>. HIDE DEF R
  <2>. QED
    BY <2>1, WFMin
<1>2. \A j \in S : ~(j < i)
  BY <1>1 DEF OpToRel
<1>. QED
  BY <1>2

LEMMA Between ==
    ASSUME NEW n \in Nat, NEW i \in 1 .. n, NEW h \in 1 .. n, NEW j \in h .. i - 1
    PROVE  j \in 1 .. n /\ j < i /\ j # n
  OBVIOUS

\* Induction up to a bound, for the set of the numbers that have a property.
LEMMA UpTo ==
    ASSUME NEW N \in Nat, NEW S, 0 \in S, \A n \in 1 .. N : n - 1 \in S => n \in S
    PROVE  \A n \in 0 .. N : n \in S
<1>. SUFFICES ASSUME NEW n \in 0 .. N, n \notin S PROVE FALSE
  OBVIOUS
<1>. DEFINE T == { k \in 0 .. N : k \notin S }
<1>1. PICK m \in T : \A j \in T : m <= j
  <2>1. T \in SUBSET Nat /\ n \in T
    OBVIOUS
  <2>. QED
    BY <2>1, LeastOf
<1>2. m \in 1 .. N /\ m - 1 \notin T /\ m - 1 \in 0 .. N
  BY <1>1
<1>. QED
  BY <1>1, <1>2

\* A recursion over the numbers up to N, each of whose steps maps V into itself, has a
\* result.
HasResult(N, V, a, step) ==
    \E f \in [0 .. N -> V] :
       f[0] = a /\ \A n \in 1 .. N : f[n] = step[n][f[n - 1]]

LEMMA Recursion ==
    ASSUME NEW N \in Nat, NEW V, NEW a \in V, NEW step \in [1 .. N -> [V -> V]]
    PROVE  HasResult(N, V, a, step)
<1>. DEFINE Good(f, k) == f[0] = a /\ \A n \in 1 .. k : f[n] = step[n][f[n - 1]]
            S == { k \in 0 .. N : \E f \in [0 .. k -> V] : Good(f, k) }
<1>1. 0 \in S
  <2>1. [n \in 0 .. 0 |-> a] \in [0 .. 0 -> V] /\ Good([n \in 0 .. 0 |-> a], 0)
    OBVIOUS
  <2>. HIDE DEF Good
  <2>2. \E f \in [0 .. 0 -> V] : Good(f, 0)
    BY <2>1
  <2>. QED
    BY <2>2
<1>2. ASSUME NEW k \in 1 .. N, k - 1 \in S
      PROVE  k \in S
  <2>1. PICK f \in [0 .. k - 1 -> V] : Good(f, k - 1)
    BY <1>2
  <2>. DEFINE g == [n \in 0 .. k |-> IF n = k THEN step[k][f[k - 1]] ELSE f[n]]
  <2>2. f[k - 1] \in V /\ step[k] \in [V -> V] /\ step[k][f[k - 1]] \in V
    BY <1>2
  <2>3. \A n \in 0 .. k : g[n] = IF n = k THEN step[k][f[k - 1]] ELSE f[n]
    OBVIOUS
  <2>4. g \in [0 .. k -> V]
    BY <2>2
  <2>. HIDE DEF g
  <2>5. g[0] = a
    BY <2>1, <2>3
  <2>6. ASSUME NEW n \in 1 .. k PROVE g[n] = step[n][g[n - 1]]
    BY <2>1, <2>3
  <2>. QED
    BY <2>4, <2>5, <2>6
<1>3. N \in S
  <2>. HIDE DEF S
  <2>1. \A k \in 1 .. N : k - 1 \in S => k \in S
    BY <1>2
  <2>2. \A k \in 0 .. N : k \in S
    BY <1>1, <2>1, UpTo
  <2>. QED
    BY <2>2
<1>. QED
  BY <1>3 DEF HasResult

-----------------------------------------------------------------------------
(***************************************************************************)
(* Entries and tables.                                                     *)
(***************************************************************************)
LEMMA EntryKinds ==
    /\ Entry = Account \cup {Absent}
    /\ Absent \notin Account
    /\ \A a \in Account : a[1] \in Users /\ a[2] \in Passwords /\ a = << a[1], a[2] >>
    /\ \A e \in Entry : Present(e) => e \in Account /\ e[1] \in Users
<1>1. \A a \in Account : a[1] \in Users /\ a[2] \in Passwords /\ a = << a[1], a[2] >>
  BY DEF Account
<1>2. Len(Absent) = 0 /\ \A u, p : Len(<< u, p >>) = 2
  BY DEF Absent
<1>3. \A a \in Account : a # Absent
  BY <1>1, <1>2
<1>. QED
  BY <1>1, <1>3 DEF Entry, Present

Table == { t \in Seq(Entry) : Len(t) > 0 }

LEMMA TableEntries ==
    ASSUME NEW t \in Table
    PROVE  /\ Len(t) \in Nat \ {0} /\ DOMAIN t = 1 .. Len(t)
           /\ \A i \in 1 .. Len(t) : t[i] \in Entry
  BY ElementOfSeq, LenProperties DEF Table

LEMMA TableOf ==
    ASSUME NEW n \in Nat \ {0}, NEW t \in [1 .. n -> Entry]
    PROVE  t \in Table /\ Len(t) = n
<1>1. t \in UNION { [1 .. k -> Entry] : k \in Nat }
  OBVIOUS
<1>2. t \in Seq(Entry)
  BY <1>1, SeqDef
<1>3. Len(t) = n
  <2>1. Len(t) \in Nat /\ 1 .. Len(t) = 1 .. n
    BY <1>2, LenProperties
  <2>. QED
    BY <2>1
<1>. QED
  BY <1>2, <1>3 DEF Table

\* Unwritten entries are accounts, or not present.
LEMMA HeapHolds ==
    ASSUME CredentialsTypeOK
    PROVE  Dirty \subseteq Account
<1>1. CASE dirt = Clean
  BY <1>1 DEF Dirty, Clean
<1>2. CASE dirt \in DirtChoices
  BY <1>2, CredentialsAssumption DEF Dirty
<1>. QED
  BY <1>1, <1>2 DEF CredentialsTypeOK

LEMMA UnwrittenEntry ==
    ASSUME Dirty \subseteq Account, NEW i
    PROVE  /\ Unwritten(i) \in Entry /\ Unwritten(i) \in Dirty \cup {Absent}
           /\ Dirty = {} => ~Present(Unwritten(i))
  BY EntryKinds DEF Unwritten, Dirty, Present

LEMMA FreshTable ==
    ASSUME NEW n \in Nat \ {0}, Dirty \subseteq Account
    PROVE  /\ Fresh(n) \in Table /\ Len(Fresh(n)) = n
           /\ \A i \in 1 .. n : Fresh(n)[i] = Unwritten(i)
           /\ AccountsIn(Fresh(n)) \subseteq Dirty
           /\ Dirty = {} => \A i \in 1 .. n : ~Present(Fresh(n)[i])
<1>1. Fresh(n) \in [1 .. n -> Entry] /\ \A i \in 1 .. n : Fresh(n)[i] = Unwritten(i)
  BY UnwrittenEntry DEF Fresh
<1>2. Fresh(n) \in Table /\ Len(Fresh(n)) = n
  BY <1>1, TableOf
<1>3. AccountsIn(Fresh(n)) \subseteq Dirty
  <2>1. \A i \in DOMAIN Fresh(n) : Fresh(n)[i] \in Dirty \cup {Absent}
    BY <1>1, UnwrittenEntry
  <2>. QED
    BY <2>1, EntryKinds DEF AccountsIn
<1>4. Dirty = {} => \A i \in 1 .. n : ~Present(Fresh(n)[i])
  BY <1>1, UnwrittenEntry
<1>. QED
  BY <1>1, <1>2, <1>3, <1>4

-----------------------------------------------------------------------------
(***************************************************************************)
(* Where a key is looked for.                                              *)
(***************************************************************************)
LEMMA Remainder ==
    ASSUME NEW h \in Nat, NEW n \in Nat \ {0}
    PROVE  h % n \in 0 .. n - 1 /\ \E q \in Nat : h = n * q + (h % n)
<1>1. h % n \in 0 .. n - 1 /\ h \div n \in Nat
  OBVIOUS
<1>2. h = n * (h \div n) + (h % n)
  OBVIOUS
<1>. QED
  BY <1>1, <1>2

LEMMA RemainderIsUnique ==
    ASSUME NEW n \in Nat \ {0}, NEW q \in Nat, NEW p \in Nat,
           NEW r \in 0 .. n - 1, NEW s \in 0 .. n - 1, n * q + r = n * p + s
    PROVE  r = s
<1>1. CASE q = p
  BY <1>1
<1>2. CASE q > p
  <2>1. PICK d \in Nat \ {0} : q = p + d
    <3>1. q - p \in Nat \ {0} /\ q = p + (q - p)
      BY <1>2
    <3>. QED
      BY <3>1
  <2>2. n * q = n * p + n * d /\ n * d >= n
    BY <2>1
  <2>3. n * q \in Nat /\ n * p \in Nat /\ n * d \in Nat
    BY <2>1
  <2>. QED
    BY <2>2, <2>3
<1>3. CASE q < p
  <2>1. PICK d \in Nat \ {0} : p = q + d
    <3>1. p - q \in Nat \ {0} /\ p = q + (p - q)
      BY <1>3
    <3>. QED
      BY <3>1
  <2>2. n * p = n * q + n * d /\ n * d >= n
    BY <2>1
  <2>3. n * q \in Nat /\ n * p \in Nat /\ n * d \in Nat
    BY <2>1
  <2>. QED
    BY <2>2, <2>3
<1>. QED
  BY <1>1, <1>2, <1>3

LEMMA HomeInTable ==
    ASSUME NEW key \in Users, NEW n \in Nat \ {0}
    PROVE  Home(key, n) \in 1 .. n
<1>. DEFINE h == Hash[key]
<1>1. h \in Nat
  BY CredentialsAssumption
<1>. HIDE DEF h
<1>2. h % n \in 0 .. n - 1
  BY <1>1, Remainder
<1>. QED
  BY <1>2 DEF Home, h

\* In a table of twice the capacity a key has the same home, or the same in the upper
\* half.
LEMMA HomeInDoubled ==
    ASSUME NEW key \in Users, NEW n \in Nat \ {0}
    PROVE  Home(key, 2 * n) \in { Home(key, n), Home(key, n) + n }
<1>. DEFINE h == Hash[key]
<1>1. h \in Nat /\ 2 * n \in Nat \ {0}
  BY CredentialsAssumption
<1>. HIDE DEF h
<1>2. PICK q \in Nat : h = n * q + (h % n)
  BY <1>1, Remainder
<1>3. PICK p \in Nat : h = (2 * n) * p + (h % (2 * n))
  BY <1>1, Remainder
<1>. DEFINE r == h % n
            s == h % (2 * n)
<1>4. r \in 0 .. n - 1 /\ s \in 0 .. 2 * n - 1
  BY <1>1, Remainder
<1>. HIDE DEF r, s
<1>5. n * (2 * p) = (2 * n) * p /\ n * (2 * p + 1) = (2 * n) * p + n
      /\ 2 * p \in Nat /\ 2 * p + 1 \in Nat
  OBVIOUS
<1>6. CASE s < n
  <2>1. n * q + r = n * (2 * p) + s
    BY <1>2, <1>3, <1>5 DEF r, s
  <2>2. s \in 0 .. n - 1
    BY <1>4, <1>6
  <2>3. r = s
    BY <1>4, <1>5, <2>1, <2>2, RemainderIsUnique
  <2>. QED
    BY <2>3 DEF Home, h, r, s
<1>7. CASE s >= n
  <2>1. n * q + r = n * (2 * p + 1) + (s - n)
    <3>1. n * q + r = (2 * n) * p + s
      BY <1>2, <1>3 DEF r, s
    <3>2. (2 * n) * p \in Nat
      OBVIOUS
    <3>. HIDE DEF r, s
    <3>. QED
      BY <1>4, <1>5, <3>1, <3>2
  <2>2. s - n \in 0 .. n - 1
    BY <1>4, <1>7
  <2>3. r = s - n
    BY <1>4, <1>5, <2>1, <2>2, RemainderIsUnique
  <2>4. 1 + s = (1 + r) + n
    BY <1>4, <2>3
  <2>. QED
    BY <2>4 DEF Home, h, r, s
<1>. QED
  BY <1>4, <1>6, <1>7

LEMMA SearchStops ==
    ASSUME NEW t \in Table, NEW key \in Users, NEW wanted
    PROVE  /\ Search(t, key, wanted) \in Home(key, Len(t)) .. Len(t)
           /\ Search(t, key, wanted) \in 1 .. Len(t)
           /\ Search(t, key, wanted) \in wanted \/ Search(t, key, wanted) = Len(t)
           /\ \A j \in Home(key, Len(t)) .. Search(t, key, wanted) - 1 : j \notin wanted
<1>. DEFINE h == Home(key, Len(t))
            S == { i \in h .. Len(t) : i \in wanted \/ i = Len(t) }
<1>1. Len(t) \in Nat \ {0} /\ h \in 1 .. Len(t)
  BY TableEntries, HomeInTable
<1>. HIDE DEF h
<1>2. PICK i \in S : \A j \in S : i <= j
  <2>1. S \in SUBSET Nat /\ Len(t) \in S
    BY <1>1
  <2>. HIDE DEF S
  <2>. QED
    BY <2>1, LeastOf
<1>3. \A j \in h .. i - 1 : j \notin wanted
  BY <1>1, <1>2
<1>4. \E k \in h .. Len(t) : /\ k \in wanted \/ k = Len(t)
                             /\ \A j \in h .. k - 1 : j \notin wanted
  BY <1>2, <1>3
<1>5. /\ Search(t, key, wanted) \in h .. Len(t)
      /\ Search(t, key, wanted) \in wanted \/ Search(t, key, wanted) = Len(t)
      /\ \A j \in h .. Search(t, key, wanted) - 1 : j \notin wanted
  BY <1>4 DEF Search, h
<1>. QED
  BY <1>1, <1>5 DEF h

LEMMA FreeStops ==
    ASSUME NEW t \in Table, NEW key \in Users
    PROVE  /\ FreeAt(t, key) \in 1 .. Len(t) /\ Home(key, Len(t)) <= FreeAt(t, key)
           /\ t[FreeAt(t, key)] = Absent \/ FreeAt(t, key) = Len(t)
           /\ \A j \in Home(key, Len(t)) .. FreeAt(t, key) - 1 : Present(t[j])
<1>. DEFINE wanted == { i \in DOMAIN t : IsFree(t[i]) }
<1>1. Len(t) \in Nat \ {0} /\ DOMAIN t = 1 .. Len(t) /\ Home(key, Len(t)) \in 1 .. Len(t)
  BY TableEntries, HomeInTable
<1>2. FreeAt(t, key) = Search(t, key, wanted)
  BY DEF FreeAt
<1>3. \A j \in 1 .. Len(t) : j \in wanted <=> t[j] = Absent
  BY <1>1 DEF IsFree, Present
<1>. HIDE DEF wanted
<1>. QED
  BY <1>1, <1>2, <1>3, SearchStops DEF Present

LEMMA FoundStops ==
    ASSUME NEW t \in Table, NEW key \in Users
    PROVE  /\ FoundAt(t, key) \in 1 .. Len(t) /\ Home(key, Len(t)) <= FoundAt(t, key)
           /\ \/ t[FoundAt(t, key)] = Absent \/ t[FoundAt(t, key)][1] = key
              \/ FoundAt(t, key) = Len(t)
           /\ \A j \in Home(key, Len(t)) .. FoundAt(t, key) - 1 :
                 Present(t[j]) /\ t[j][1] # key
<1>. DEFINE wanted == { i \in DOMAIN t : IsFree(t[i]) \/ t[i][1] = key }
<1>1. Len(t) \in Nat \ {0} /\ DOMAIN t = 1 .. Len(t) /\ Home(key, Len(t)) \in 1 .. Len(t)
  BY TableEntries, HomeInTable
<1>2. FoundAt(t, key) = Search(t, key, wanted)
  BY DEF FoundAt
<1>3. \A j \in 1 .. Len(t) : j \in wanted <=> (t[j] = Absent \/ t[j][1] = key)
  BY <1>1 DEF IsFree, Present
<1>. HIDE DEF wanted
<1>. QED
  BY <1>1, <1>2, <1>3, SearchStops DEF Present

LEMMA InAccounts ==
    ASSUME NEW t \in Table
    PROVE  /\ \A a \in AccountsIn(t) : a \in Account /\ \E i \in 1 .. Len(t) : t[i] = a
           /\ \A i \in 1 .. Len(t) : t[i] \in Account => t[i] \in AccountsIn(t)
  BY TableEntries DEF AccountsIn

\* hashmap_get returns accounts of the table only.
LEMMA GetReturns ==
    ASSUME NEW t \in Table, NEW key \in Users, NEW e \in Get(t, key)
    PROVE  e \in AccountsIn(t) /\ e[1] = key
<1>1. e = t[FoundAt(t, key)] /\ Present(e) /\ e[1] = key
  BY DEF Get
<1>2. e \in Entry /\ FoundAt(t, key) \in 1 .. Len(t)
  BY <1>1, FoundStops, TableEntries
<1>3. e \in Account
  BY <1>1, <1>2, EntryKinds DEF Present
<1>. QED
  BY <1>1, <1>2, <1>3, InAccounts

\* In a sound table it finds every account.
LEMMA GetFinds ==
    ASSUME NEW t \in Table, Sound(t, Len(t)), NEW a \in AccountsIn(t)
    PROVE  Get(t, a[1]) = {a}
<1>. DEFINE h == Home(a[1], Len(t))
            f == FoundAt(t, a[1])
<1>1. PICK i \in 1 .. Len(t) : t[i] = a /\ a \in Account /\ a[1] \in Users
  BY InAccounts, EntryKinds
<1>2. h <= i /\ \A j \in h .. i - 1 : Present(t[j]) /\ t[j][1] # a[1]
  BY <1>1, TableEntries DEF Sound
<1>3. /\ f \in 1 .. Len(t) /\ h <= f
      /\ t[f] = Absent \/ t[f][1] = a[1] \/ f = Len(t)
      /\ \A j \in h .. f - 1 : Present(t[j]) /\ t[j][1] # a[1]
  BY <1>1, FoundStops
<1>4. Len(t) \in Nat /\ h \in 1 .. Len(t)
  BY <1>1, TableEntries, HomeInTable
<1>. HIDE DEF f, h
<1>5. ~(i < f)
  <2>. SUFFICES ASSUME i < f PROVE FALSE
    OBVIOUS
  <2>1. i \in h .. f - 1
    BY <1>2, <1>3, <1>4
  <2>. QED
    BY <1>1, <1>3, <2>1
<1>6. ~(f < i)
  <2>. SUFFICES ASSUME f < i PROVE FALSE
    OBVIOUS
  <2>1. f \in h .. i - 1 /\ f # Len(t)
    BY <1>3, <1>4
  <2>. QED
    BY <1>2, <1>3, <2>1 DEF Present
<1>7. t[f] = a /\ Present(a)
  <2>1. f = i
    BY <1>3, <1>5, <1>6
  <2>. QED
    BY <1>1, <2>1, EntryKinds DEF Present
<1>. QED
  BY <1>7 DEF Get, f

\* No two entries of a sound table are accounts of one user.
LEMMA SoundIsUnique ==
    ASSUME NEW t \in Table, NEW n \in Nat, Sound(t, n),
           NEW i \in 1 .. Len(t), NEW j \in 1 .. Len(t),
           t[i] \in Account, t[j] \in Account, t[i][1] = t[j][1],
           n # 0
    PROVE  i = j
<1>1. DOMAIN t = 1 .. Len(t) /\ Len(t) \in Nat
  BY TableEntries
<1>. DEFINE h == Home(t[i][1], n)
<1>2. h \in Nat
  BY EntryKinds, HomeInTable
<1>. HIDE DEF h
<1>3. /\ h <= i /\ \A k \in h .. i - 1 : t[k][1] # t[i][1]
      /\ h <= j /\ \A k \in h .. j - 1 : t[k][1] # t[j][1]
  BY <1>1 DEF Sound, h
<1>4. ~(i < j) /\ ~(j < i)
  BY <1>2, <1>3
<1>. QED
  BY <1>4

-----------------------------------------------------------------------------
(***************************************************************************)
(* rehash, one entry of the old table after the other.                     *)
(***************************************************************************)
\* The new table with one more entry.
Put(g, e) == IF ~Present(e) THEN g ELSE [g EXCEPT ![FreeAt(g, e[1])] = e]

LEMMA PutIsTable ==
    ASSUME NEW g \in Table, NEW e \in Entry
    PROVE  /\ Put(g, e) \in Table /\ Len(Put(g, e)) = Len(g)
           /\ Present(e) => /\ FreeAt(g, e[1]) \in 1 .. Len(g)
                            /\ \A i \in 1 .. Len(g) :
                                 Put(g, e)[i] = IF i = FreeAt(g, e[1]) THEN e ELSE g[i]
<1>1. CASE ~Present(e)
  BY <1>1 DEF Put
<1>2. CASE Present(e)
  <2>1. FreeAt(g, e[1]) \in 1 .. Len(g)
    BY <1>2, FreeStops, EntryKinds
  <2>2. g \in Seq(Entry) /\ Len(g) > 0
    BY DEF Table
  <2>3. Put(g, e) = [g EXCEPT ![FreeAt(g, e[1])] = e]
    BY <1>2 DEF Put
  <2>. QED
    BY <2>1, <2>2, <2>3, ExceptSeq DEF Table
<1>. QED
  BY <1>1, <1>2

LEMMA RehashByPuts ==
    ASSUME NEW t \in Table, Dirty \subseteq Account
    PROVE  \E f \in [0 .. Len(t) -> { g \in Table : Len(g) = 2 * Len(t) }] :
              /\ f[0] = Fresh(2 * Len(t))
              /\ \A n \in 1 .. Len(t) : f[n] = Put(f[n - 1], t[n])
              /\ Rehash(t) = f[Len(t)]
<1>. DEFINE N == Len(t)
            V == { g \in Table : Len(g) = 2 * N }
            step == [n \in 1 .. N |-> [g \in V |-> Put(g, t[n])]]
            Body(f, n) == IF n = 0 THEN Fresh(2 * N)
                          ELSE IF ~Present(t[n]) THEN f[n - 1]
                          ELSE [f[n - 1] EXCEPT ![FreeAt(f[n - 1], t[n][1])] = t[n]]
            grown == CHOOSE f : f = [n \in 0 .. N |-> Body(f, n)]
<1>1. N \in Nat \ {0} /\ 2 * N \in Nat \ {0} /\ \A n \in 1 .. N : t[n] \in Entry
  BY TableEntries
<1>2. Fresh(2 * N) \in V
  BY <1>1, FreshTable
<1>3. step \in [1 .. N -> [V -> V]]
  BY <1>1, PutIsTable
<1>. HIDE DEF N, V
<1>4. PICK f \in [0 .. N -> V] :
        f[0] = Fresh(2 * N) /\ \A n \in 1 .. N : f[n] = step[n][f[n - 1]]
  <2>. DEFINE a == Fresh(2 * N)
  <2>1. N \in Nat /\ a \in V /\ step \in [1 .. N -> [V -> V]]
    BY <1>1, <1>2, <1>3
  <2>. HIDE DEF step, a
  <2>2. HasResult(N, V, a, step)
    BY <2>1, Recursion
  <2>. QED
    BY <2>2 DEF HasResult, a
<1>5. ASSUME NEW n \in 1 .. N
      PROVE  n - 1 \in 0 .. N /\ f[n - 1] \in V /\ f[n] = Put(f[n - 1], t[n])
  <2>1. n - 1 \in 0 .. N /\ f[n - 1] \in V
    BY <1>1, <1>4
  <2>2. step[n] = [g \in V |-> Put(g, t[n])]
    OBVIOUS
  <2>3. step[n][f[n - 1]] = Put(f[n - 1], t[n])
    BY <2>1, <2>2
  <2>. QED
    BY <1>4, <2>1, <2>3
<1>. HIDE DEF step
<1>6. f = [n \in 0 .. N |-> Body(f, n)]
  <2>1. ASSUME NEW n \in 0 .. N PROVE f[n] = Body(f, n)
    <3>1. CASE n = 0
      BY <1>4, <3>1
    <3>2. CASE n # 0
      <4>1. f[n] = Put(f[n - 1], t[n])
        BY <1>1, <1>5, <3>2
      <4>. QED
        BY <3>2, <4>1 DEF Put
    <3>. QED
      BY <3>1, <3>2
  <2>. HIDE DEF Body
  <2>. QED
    BY <2>1
<1>7. grown = [n \in 0 .. N |-> Body(grown, n)]
  <2>. HIDE DEF Body
  <2>. QED
    BY <1>6
<1>8. \A n \in 0 .. N : grown[n] = f[n]
  <2>. DEFINE S == { n \in 0 .. N : grown[n] = f[n] }
  <2>. HIDE DEF grown
  <2>1. \A n \in 0 .. N : grown[n] = Body(grown, n) /\ f[n] = Body(f, n)
    <3>. HIDE DEF Body
    <3>. QED
      BY <1>6, <1>7
  <2>2. 0 \in S
    <3>1. 0 \in 0 .. N
      BY <1>1
    <3>2. Body(grown, 0) = Body(f, 0)
      OBVIOUS
    <3>. HIDE DEF Body
    <3>. QED
      BY <2>1, <3>1, <3>2
  <2>3. ASSUME NEW n \in 1 .. N, n - 1 \in S PROVE n \in S
    <3>1. n \in 0 .. N /\ n # 0 /\ grown[n - 1] = f[n - 1]
      BY <1>1, <2>3
    <3>2. Body(grown, n) = Body(f, n)
      BY <3>1
    <3>. HIDE DEF Body
    <3>. QED
      BY <2>1, <3>1, <3>2
  <2>. HIDE DEF S
  <2>4. \A n \in 0 .. N : n \in S
    BY <1>1, <2>2, <2>3, UpTo
  <2>. QED
    BY <2>4 DEF S
<1>9. Rehash(t) = grown[N]
  BY DEF Rehash, N
<1>10. Rehash(t) = f[N]
  <2>. HIDE DEF grown
  <2>. QED
    BY <1>1, <1>8, <1>9
<1>. QED
  BY <1>4, <1>5, <1>10 DEF N, V

\* An account that is new to a sound table is put where it will be found, and what it
\* may overwrite, at the last position, stops nobody else's search.
LEMMA PutKeepsSound ==
    ASSUME NEW g \in Table, Sound(g, Len(g)), NEW e \in Entry,
           Present(e) => \A a \in AccountsIn(g) : a[1] # e[1]
    PROVE  Sound(Put(g, e), Len(g))
<1>. DEFINE f == FreeAt(g, e[1])
            p == Put(g, e)
            home(i) == Home(p[i][1], Len(g))
<1>1. CASE ~Present(e)
  BY <1>1 DEF Put
<1>2. CASE Present(e)
  <2>1. /\ Len(g) \in Nat \ {0} /\ DOMAIN g = 1 .. Len(g)
        /\ \A i \in 1 .. Len(g) : g[i] \in Entry
        /\ DOMAIN p = 1 .. Len(g)
    BY TableEntries, PutIsTable
  <2>2. /\ f \in 1 .. Len(g)
        /\ \A i \in 1 .. Len(g) : p[i] = IF i = f THEN e ELSE g[i]
    BY <1>2, PutIsTable
  <2>3. /\ Home(e[1], Len(g)) <= f /\ Home(e[1], Len(g)) \in 1 .. Len(g)
        /\ g[f] = Absent \/ f = Len(g)
        /\ \A j \in Home(e[1], Len(g)) .. f - 1 : Present(g[j])
    BY <1>2, <2>1, FreeStops, HomeInTable, EntryKinds
  <2>. HIDE DEF f, p
  <2>4. ASSUME NEW i \in 1 .. Len(g), p[i] \in Account
        PROVE  home(i) <= i /\ \A j \in home(i) .. i - 1 : Present(p[j]) /\ p[j][1] # p[i][1]
    <3>1. CASE i = f
      <4>1. p[i] = e /\ e \in Account /\ home(i) = Home(e[1], Len(g))
        BY <2>2, <2>4, <3>1
      <4>2. ASSUME NEW j \in home(i) .. i - 1 PROVE Present(p[j]) /\ p[j][1] # e[1]
        <5>0. j \in Home(e[1], Len(g)) .. f - 1
          BY <3>1, <4>1, <4>2
        <5>1. j \in 1 .. Len(g) /\ j # f
          <6>1. /\ Len(g) \in Nat /\ f \in 1 .. Len(g)
                /\ Home(e[1], Len(g)) \in 1 .. Len(g)
            BY <2>1, <2>2, <2>3
          <6>2. j \in 1 .. Len(g) /\ j < f
            BY <5>0, <6>1, Between
          <6>. QED
            BY <6>1, <6>2, SMTT(60)
        <5>2. p[j] = g[j] /\ Present(g[j])
          BY <2>2, <2>3, <5>0, <5>1
        <5>3. g[j] \in Account
          BY <2>1, <5>1, <5>2, EntryKinds
        <5>. QED
          BY <1>2, <5>1, <5>2, <5>3, InAccounts
      <4>. QED
        BY <2>3, <3>1, <4>1, <4>2
    <3>2. CASE i # f
      <4>1. p[i] = g[i] /\ g[i] \in Account
        BY <2>2, <2>4, <3>2
      <4>2. /\ home(i) <= i
            /\ \A j \in home(i) .. i - 1 : Present(g[j]) /\ g[j][1] # g[i][1]
        BY <2>1, <4>1 DEF Sound
      <4>3. home(i) \in 1 .. Len(g)
        BY <2>1, <2>4, HomeInTable, EntryKinds
      <4>4. ASSUME NEW j \in home(i) .. i - 1 PROVE j \in 1 .. Len(g) /\ p[j] = g[j]
        <5>0. Present(g[j])
          BY <4>2, <4>4
        <5>. HIDE DEF home
        <5>1. j \in 1 .. Len(g) /\ j # Len(g)
          BY <2>1, <4>3, <4>4, Between
        <5>. QED
          BY <2>2, <2>3, <5>0, <5>1, SMTT(60) DEF Present
      <4>. QED
        BY <4>1, <4>2, <4>4
    <3>. QED
      BY <3>1, <3>2
  <2>. QED
    BY <2>1, <2>4 DEF Sound, p
<1>. QED
  BY <1>1, <1>2

\* A rehash brings no account into the table that was not there or in the new heap, and
\* onto a clean heap leaves it sound.
LEMMA RehashIsTable ==
    ASSUME NEW t \in Table, Dirty \subseteq Account
    PROVE  /\ Rehash(t) \in Table /\ Len(Rehash(t)) = 2 * Len(t)
           /\ AccountsIn(Rehash(t)) \subseteq AccountsIn(t) \cup Dirty
           /\ Sound(t, Len(t)) /\ Dirty = {} => Sound(Rehash(t), 2 * Len(t))
<1>. DEFINE N == Len(t)
            Old(n) == { t[i] : i \in 1 .. n } \cap Account
<1>1. PICK f \in [0 .. N -> { g \in Table : Len(g) = 2 * N }] :
        /\ f[0] = Fresh(2 * N)
        /\ \A n \in 1 .. N : f[n] = Put(f[n - 1], t[n])
        /\ Rehash(t) = f[N]
  BY RehashByPuts
<1>2. /\ N \in Nat \ {0} /\ 2 * N \in Nat \ {0} /\ DOMAIN t = 1 .. N
      /\ \A i \in 1 .. N : t[i] \in Entry
  BY TableEntries
<1>3. AccountsIn(t) = Old(N)
  BY <1>2 DEF AccountsIn
<1>. DEFINE S == { n \in 0 .. N : /\ AccountsIn(f[n]) \subseteq Old(n) \cup Dirty
                                  /\ Sound(t, N) /\ Dirty = {} => Sound(f[n], 2 * N) }
<1>. HIDE DEF N
<1>4. 0 \in S
  <2>1. AccountsIn(f[0]) \subseteq Dirty
    BY <1>1, <1>2, FreshTable
  <2>2. ASSUME Dirty = {} PROVE Sound(f[0], 2 * N)
    <3>1. DOMAIN f[0] = 1 .. 2 * N
      BY <1>1, <1>2, FreshTable, TableEntries
    <3>2. \A i \in 1 .. 2 * N : f[0][i] \notin Account
      BY <2>1, <2>2, <3>1 DEF AccountsIn
    <3>. QED
      BY <3>1, <3>2 DEF Sound
  <2>. QED
    BY <1>2, <2>1, <2>2
<1>5. ASSUME NEW n \in 1 .. N, n - 1 \in S PROVE n \in S
  <2>. DEFINE g == f[n - 1]
              e == t[n]
  <2>1. /\ n - 1 \in 0 .. N /\ g \in Table /\ Len(g) = 2 * N /\ e \in Entry
        /\ f[n] = Put(g, e)
        /\ AccountsIn(g) \subseteq Old(n - 1) \cup Dirty
        /\ Sound(t, N) /\ Dirty = {} => Sound(g, 2 * N)
    BY <1>1, <1>2, <1>5
  <2>2. Old(n - 1) \subseteq Old(n) /\ ({e} \cap Account) \subseteq Old(n)
    BY <1>2
  <2>3. ASSUME Sound(t, N), Dirty = {}, Present(e), NEW a \in AccountsIn(g)
        PROVE  a[1] # e[1]
    <3>1. PICK i \in 1 .. n - 1 : a = t[i] /\ a \in Account
      BY <2>1, <2>3
    <3>2. i \in 1 .. N /\ i # n
      BY <1>2
    <3>3. e \in Account
      BY <2>1, <2>3, EntryKinds
    <3>. QED
      BY <1>2, <2>3, <3>1, <3>2, <3>3, SoundIsUnique DEF N
  <2>. HIDE DEF g, e
  <2>4. Sound(t, N) /\ Dirty = {} => Sound(f[n], 2 * N)
    BY <2>1, <2>3, PutKeepsSound
  <2>5. AccountsIn(f[n]) \subseteq AccountsIn(g) \cup ({e} \cap Account)
    <3>1. CASE ~Present(e)
      BY <2>1, <3>1 DEF Put
    <3>2. CASE Present(e)
      <4>1. DOMAIN f[n] = DOMAIN g /\ DOMAIN g = 1 .. Len(g)
        BY <2>1, PutIsTable, TableEntries
      <4>2. \A i \in 1 .. Len(g) : f[n][i] = e \/ f[n][i] = g[i]
        BY <2>1, <3>2, PutIsTable
      <4>. QED
        BY <4>1, <4>2 DEF AccountsIn
    <3>. QED
      BY <3>1, <3>2
  <2>. HIDE DEF Old
  <2>. QED
    BY <2>1, <2>2, <2>4, <2>5
<1>. HIDE DEF S
<1>6. N \in S
  <2>1. \A n \in 0 .. N : n \in S
    BY <1>2, <1>4, <1>5, UpTo
  <2>. QED
    BY <1>2, <2>1
<1>7. Rehash(t) \in Table /\ Len(Rehash(t)) = 2 * N
  BY <1>1, <1>2
<1>. QED
  BY <1>1, <1>3, <1>6, <1>7 DEF S, N

-----------------------------------------------------------------------------
(***************************************************************************)
(* With a clean heap a rehash loses nothing: the new table never is so     *)
(* full behind the home of an entry that the last position would be        *)
(* overwritten.                                                            *)
(***************************************************************************)
\* No entry is before its home.
Placed(t) == \A p \in 1 .. Len(t) : Present(t[p]) => Home(t[p][1], Len(t)) <= p

\* No position between the home of an entry and the entry is free.
Packed(g) ==
    \A q \in 1 .. Len(g) : Present(g[q]) =>
       /\ Home(g[q][1], Len(g)) <= q
       /\ \A j \in Home(g[q][1], Len(g)) .. q - 1 : Present(g[j])

\* Every entry of g is one of the first n of t, each of another position.
CameFrom(src, g, t, n) ==
    /\ src \in [1 .. Len(g) -> 0 .. n]
    /\ \A q \in 1 .. Len(g) : Present(g[q]) => src[q] \in 1 .. n /\ g[q] = t[src[q]]
    /\ \A q, r \in 1 .. Len(g) :
         Present(g[q]) /\ Present(g[r]) /\ src[q] = src[r] => q = r

LEMMA SoundIsPlaced ==
    ASSUME NEW t \in Table, Sound(t, Len(t))
    PROVE  Placed(t)
<1>. SUFFICES ASSUME NEW p \in 1 .. Len(t), Present(t[p])
              PROVE  Home(t[p][1], Len(t)) <= p
  BY DEF Placed
<1>1. Len(t) \in Nat \ {0} /\ DOMAIN t = 1 .. Len(t) /\ t[p] \in Entry
  BY TableEntries
<1>2. t[p] \in Account
  BY <1>1, EntryKinds
<1>. QED
  BY <1>1, <1>2 DEF Sound

\* The pigeon-hole argument: were every position from the home of the next entry on
\* taken, those of the longest full end of g and the next entry would have come from
\* fewer positions of t than they are.
LEMMA RoomForNext ==
    ASSUME NEW t \in Table, Placed(t), NEW g \in Table, Len(g) = 2 * Len(t), Packed(g),
           NEW n \in 1 .. Len(t), Present(t[n]), NEW src, CameFrom(src, g, t, n - 1)
    PROVE  g[FreeAt(g, t[n][1])] = Absent
<1>. DEFINE N == Len(t)
            L == Len(g)
            h == Home(t[n][1], L)
            K == { k \in 1 .. h : \A j \in k .. L : Present(g[j]) }
<1>. SUFFICES ASSUME g[FreeAt(g, t[n][1])] # Absent PROVE FALSE
  OBVIOUS
<1>0. /\ \A p \in 1 .. N : Present(t[p]) => t[p][1] \in Users
      /\ \A q \in 1 .. L : Present(g[q]) => g[q][1] \in Users
  BY TableEntries, EntryKinds
<1>1. N \in Nat \ {0} /\ L \in Nat \ {0} /\ L = 2 * N /\ h \in 1 .. L
  BY <1>0, TableEntries, HomeInTable
<1>2. \A j \in h .. L : Present(g[j])
  <2>1. FreeAt(g, t[n][1]) = L /\ Present(g[L])
    BY <1>0, FreeStops DEF Present
  <2>2. \A j \in h .. L - 1 : Present(g[j])
    BY <1>0, <2>1, FreeStops
  <2>. HIDE DEF h, L
  <2>. QED
    BY <1>1, <2>1, <2>2
<1>3. Placed(t) <=> \A p \in 1 .. N : Present(t[p]) => Home(t[p][1], N) <= p
  BY DEF Placed
<1>4. \A q \in 1 .. L : Present(g[q]) =>
         /\ Home(g[q][1], L) <= q
         /\ \A j \in Home(g[q][1], L) .. q - 1 : Present(g[j])
  BY DEF Packed
<1>5. /\ src \in [1 .. L -> 0 .. n - 1]
      /\ \A q \in 1 .. L : Present(g[q]) => src[q] \in 1 .. n - 1 /\ g[q] = t[src[q]]
      /\ \A q, r \in 1 .. L : Present(g[q]) /\ Present(g[r]) /\ src[q] = src[r] => q = r
  BY DEF CameFrom
<1>6. n \in 1 .. N
  OBVIOUS
<1>7. \A key \in Users :
         /\ Home(key, L) \in 1 .. L /\ Home(key, N) \in 1 .. N
         /\ Home(key, L) = Home(key, N) \/ Home(key, L) = Home(key, N) + N
  BY <1>1, HomeInTable, HomeInDoubled
<1>. HIDE DEF N, L, h
<1>8. PICK k \in K : \A i \in K : k <= i
  <2>1. K \in SUBSET Nat /\ h \in K
    BY <1>1, <1>2
  <2>. HIDE DEF K
  <2>. QED
    BY <2>1, LeastOf
<1>9. k \in 1 .. h /\ k \in 1 .. L /\ \A j \in k .. L : Present(g[j])
  BY <1>1, <1>8
<1>10. k # 1 => ~Present(g[k - 1])
  <2>. SUFFICES ASSUME k # 1, Present(g[k - 1]) PROVE FALSE
    OBVIOUS
  <2>1. k - 1 \in 1 .. h /\ \A j \in k - 1 .. L : j = k - 1 \/ j \in k .. L
    BY <1>1, <1>9
  <2>2. k - 1 \in K
    BY <1>9, <2>1
  <2>. QED
    BY <1>1, <1>8, <1>9, <2>2
<1>11. ASSUME NEW q \in k .. L PROVE Home(g[q][1], L) >= k
  <2>1. q \in 1 .. L /\ Present(g[q])
    BY <1>1, <1>9
  <2>2. /\ Home(g[q][1], L) \in 1 .. L
        /\ \A j \in Home(g[q][1], L) .. q - 1 : Present(g[j])
    BY <1>0, <1>4, <1>7, <2>1
  <2>. DEFINE d == Home(g[q][1], L)
  <2>. HIDE DEF d
  <2>3. ASSUME d < k PROVE FALSE
    <3>1. k # 1 /\ k - 1 \in d .. q - 1
      BY <1>1, <1>9, <2>2, <2>3 DEF d
    <3>. QED
      BY <1>10, <2>2, <3>1 DEF d
  <2>. QED
    BY <1>1, <1>9, <2>2, <2>3 DEF d
<1>. DEFINE lo == IF k > N THEN k - N ELSE 1
            m == [q \in k .. L + 1 |-> IF q = L + 1 THEN n ELSE src[q]]
<1>12. ASSUME NEW q \in k .. L + 1 PROVE m[q] \in lo .. N
  <2>1. /\ m[q] \in 1 .. N /\ Present(t[m[q]]) /\ Home(t[m[q]][1], L) >= k
    <3>1. CASE q = L + 1
      BY <1>1, <1>6, <1>9, <3>1 DEF h
    <3>2. CASE q # L + 1
      <4>1. q \in k .. L /\ q \in 1 .. L /\ Present(g[q])
        BY <1>1, <1>9, <3>2, SMTT(60)
      <4>2. src[q] \in 1 .. n - 1 /\ g[q] = t[src[q]] /\ m[q] = src[q]
        BY <1>5, <3>2, <4>1
      <4>3. src[q] \in 1 .. N
        BY <1>1, <1>6, <4>2, SMTT(60)
      <4>. QED
        BY <1>11, <4>1, <4>2, <4>3
    <3>. QED
      BY <3>1, <3>2
  <2>. DEFINE key == t[m[q]][1]
              p == m[q]
  <2>2. Home(key, N) <= p
    BY <1>3, <2>1
  <2>3. /\ Home(key, N) \in 1 .. N
        /\ Home(key, L) = Home(key, N) \/ Home(key, L) = Home(key, N) + N
        /\ Home(key, L) >= k /\ p \in 1 .. N
    BY <1>0, <1>7, <2>1
  <2>. HIDE DEF key, p
  <2>4. p \in lo .. N
    BY <1>1, <1>9, <2>2, <2>3, SMTT(60)
  <2>. QED
    BY <2>4 DEF p
<1>13. \A q, r \in k .. L + 1 : m[q] = m[r] => q = r
  <2>. SUFFICES ASSUME NEW q \in k .. L + 1, NEW r \in k .. L + 1, m[q] = m[r]
                PROVE  q = r
    OBVIOUS
  <2>1. \A i \in k .. L + 1 : i # L + 1 =>
          i \in 1 .. L /\ Present(g[i]) /\ m[i] = src[i] /\ m[i] # n
    <3>. SUFFICES ASSUME NEW i \in k .. L + 1, i # L + 1
                  PROVE  i \in 1 .. L /\ Present(g[i]) /\ m[i] = src[i] /\ m[i] # n
      OBVIOUS
    <3>1. i \in 1 .. L /\ Present(g[i]) /\ m[i] = src[i]
      <4>1. i \in k .. L /\ i \in 1 .. L
        BY <1>1, <1>9
      <4>. QED
        BY <1>9, <4>1
    <3>2. src[i] \in 1 .. n - 1
      BY <1>5, <3>1
    <3>. QED
      BY <1>1, <1>6, <3>1, <3>2
  <2>2. m[L + 1] = n
    BY <1>1, <1>9
  <2>. HIDE DEF m
  <2>. QED
    BY <1>5, <2>1, <2>2
<1>14. m \in [k .. L + 1 -> lo .. N]
  <2>1. m = [q \in k .. L + 1 |-> m[q]]
    OBVIOUS
  <2>. HIDE DEF m, lo
  <2>. QED
    BY <1>12, <2>1
<1>15. /\ IsFiniteSet(k .. L + 1) /\ IsFiniteSet(lo .. N)
       /\ Cardinality(lo .. N) < Cardinality(k .. L + 1)
  <2>1. lo \in Int /\ N \in Int /\ k \in Int /\ L + 1 \in Int
    BY <1>1, <1>9
  <2>2. Cardinality(k .. L + 1) = IF k > L + 1 THEN 0 ELSE (L + 1) - k + 1
    BY <2>1, FS_Interval
  <2>3. Cardinality(lo .. N) = IF lo > N THEN 0 ELSE N - lo + 1
    BY <2>1, FS_Interval
  <2>4. IsFiniteSet(k .. L + 1) /\ IsFiniteSet(lo .. N)
    BY <2>1, FS_Interval
  <2>. QED
    BY <1>1, <1>9, <2>2, <2>3, <2>4
<1>16. \E q, r \in k .. L + 1 : q # r /\ m[q] = m[r]
  <2>. HIDE DEF m, lo
  <2>. QED
    BY <1>14, <1>15, FS_PigeonHole
<1>. QED
  BY <1>13, <1>16

\* So the next entry is put at a free position, and everything else stays.
LEMMA PutKeeps ==
    ASSUME NEW t \in Table, Placed(t), NEW g \in Table, Len(g) = 2 * Len(t), Packed(g),
           NEW n \in 1 .. Len(t), NEW src, CameFrom(src, g, t, n - 1)
    PROVE  /\ Packed(Put(g, t[n]))
           /\ \E other : CameFrom(other, Put(g, t[n]), t, n)
           /\ AccountsIn(g) \cup ({ t[n] } \cap Account) \subseteq AccountsIn(Put(g, t[n]))
<1>. DEFINE L == Len(g)
            e == t[n]
            f == FreeAt(g, e[1])
            p == Put(g, e)
<1>1. L \in Nat \ {0} /\ e \in Entry /\ n \in Nat \ {0} /\ DOMAIN g = 1 .. L
  BY TableEntries
<1>2. /\ src \in [1 .. L -> 0 .. n - 1]
      /\ \A q \in 1 .. L : Present(g[q]) => src[q] \in 1 .. n - 1 /\ g[q] = t[src[q]]
      /\ \A q, r \in 1 .. L : Present(g[q]) /\ Present(g[r]) /\ src[q] = src[r] => q = r
  BY DEF CameFrom
<1>3. CASE ~Present(e)
  <2>1. p = g
    BY <1>3 DEF Put
  <2>2. src \in [1 .. L -> 0 .. n]
    BY <1>1, <1>2
  <2>3. \A q \in 1 .. L : Present(g[q]) => src[q] \in 1 .. n /\ g[q] = t[src[q]]
    BY <1>1, <1>2
  <2>4. CameFrom(src, g, t, n)
    BY <1>2, <2>2, <2>3 DEF CameFrom
  <2>5. e \notin Account
    BY <1>3, EntryKinds DEF Present
  <2>. QED
    BY <2>1, <2>4, <2>5
<1>4. CASE Present(e)
  <2>1. /\ f \in 1 .. L /\ p \in Table /\ Len(p) = L
        /\ \A i \in 1 .. L : p[i] = IF i = f THEN e ELSE g[i]
    BY <1>1, <1>4, PutIsTable
  <2>2. g[f] = Absent
    BY <1>4, RoomForNext
  <2>3. /\ Home(e[1], L) <= f /\ Home(e[1], L) \in 1 .. L
        /\ \A j \in Home(e[1], L) .. f - 1 : Present(g[j])
    BY <1>1, <1>4, FreeStops, HomeInTable, EntryKinds
  <2>4. \A q \in 1 .. L : Present(g[q]) =>
           /\ Home(g[q][1], L) <= q /\ Home(g[q][1], L) \in 1 .. L
           /\ \A j \in Home(g[q][1], L) .. q - 1 : Present(g[j])
    BY <1>1, TableEntries, EntryKinds, HomeInTable DEF Packed
  <2>5. DOMAIN p = 1 .. L
    BY <2>1, TableEntries
  <2>. HIDE DEF f, p, e, L
  <2>6. \A j \in 1 .. L : Present(g[j]) => Present(p[j])
    BY <1>4, <2>1
  <2>7. \A q \in 1 .. L : Present(p[q]) => q = f \/ (p[q] = g[q] /\ Present(g[q]))
    BY <2>1
  <2>8. Packed(p)
    <3>1. ASSUME NEW q \in 1 .. L, NEW h \in 1 .. L, h <= q,
                 \A j \in h .. q - 1 : Present(g[j])
          PROVE  \A j \in h .. q - 1 : Present(p[j])
      <4>. SUFFICES ASSUME NEW j \in h .. q - 1 PROVE Present(p[j])
        OBVIOUS
      <4>1. j \in 1 .. L
        BY <1>1, Between
      <4>. QED
        BY <2>6, <3>1, <4>1
    <3>2. ASSUME NEW q \in 1 .. L, Present(p[q])
          PROVE  /\ Home(p[q][1], L) <= q
                 /\ \A j \in Home(p[q][1], L) .. q - 1 : Present(p[j])
      <4>1. CASE q = f
        BY <2>1, <2>3, <3>1, <4>1
      <4>2. CASE q # f
        BY <2>4, <2>7, <3>1, <3>2, <4>2
      <4>. QED
        BY <4>1, <4>2
    <3>. QED
      BY <2>1, <3>2 DEF Packed
  <2>. DEFINE other == [q \in 1 .. L |-> IF q = f THEN n ELSE src[q]]
  <2>9. other \in [1 .. L -> 0 .. n]
    BY <1>1, <1>2
  <2>10. \A q \in 1 .. L : other[q] = IF q = f THEN n ELSE src[q]
    OBVIOUS
  <2>. HIDE DEF other
  <2>11. \A q \in 1 .. L : Present(p[q]) => other[q] \in 1 .. n /\ p[q] = t[other[q]]
    <3>. SUFFICES ASSUME NEW q \in 1 .. L, Present(p[q])
                  PROVE  other[q] \in 1 .. n /\ p[q] = t[other[q]]
      OBVIOUS
    <3>1. CASE q = f
      BY <1>1, <2>1, <2>10, <3>1 DEF e
    <3>2. CASE q # f
      <4>1. src[q] \in 1 .. n - 1 /\ g[q] = t[src[q]] /\ p[q] = g[q]
        BY <1>2, <2>7, <3>2
      <4>. QED
        BY <1>1, <2>10, <3>2, <4>1
    <3>. QED
      BY <3>1, <3>2
  <2>12. \A q, r \in 1 .. L : Present(p[q]) /\ Present(p[r]) /\ other[q] = other[r] => q = r
    <3>1. \A q \in 1 .. L : q # f /\ Present(p[q]) =>
             Present(g[q]) /\ other[q] = src[q] /\ other[q] # n
      <4>. SUFFICES ASSUME NEW q \in 1 .. L, q # f, Present(p[q])
                    PROVE  Present(g[q]) /\ other[q] = src[q] /\ other[q] # n
        OBVIOUS
      <4>1. Present(g[q]) /\ src[q] \in 1 .. n - 1 /\ other[q] = src[q]
        BY <1>2, <2>7, <2>10
      <4>. QED
        BY <1>1, <4>1
    <3>2. other[f] = n
      BY <2>1, <2>10
    <3>. QED
      BY <1>2, <3>1, <3>2
  <2>13. CameFrom(other, p, t, n)
    BY <2>1, <2>9, <2>11, <2>12 DEF CameFrom
  <2>14. AccountsIn(g) \cup ({e} \cap Account) \subseteq AccountsIn(p)
    <3>1. \A i \in 1 .. L : g[i] \in Account => p[i] = g[i]
      BY <2>1, <2>2, EntryKinds
    <3>. QED
      BY <1>1, <2>1, <2>5, <3>1 DEF AccountsIn
  <2>. QED
    BY <2>8, <2>13, <2>14 DEF p, e
<1>. QED
  BY <1>3, <1>4

\* A rehash onto a clean heap keeps every account.
LEMMA RehashKeeps ==
    ASSUME NEW t \in Table, Placed(t), Dirty = {}
    PROVE  AccountsIn(t) \subseteq AccountsIn(Rehash(t))
<1>. DEFINE N == Len(t)
            Old(n) == { t[i] : i \in 1 .. n } \cap Account
<1>1. PICK f \in [0 .. N -> { g \in Table : Len(g) = 2 * N }] :
        /\ f[0] = Fresh(2 * N)
        /\ \A n \in 1 .. N : f[n] = Put(f[n - 1], t[n])
        /\ Rehash(t) = f[N]
  BY RehashByPuts
<1>2. /\ N \in Nat \ {0} /\ 2 * N \in Nat \ {0} /\ DOMAIN t = 1 .. N
  BY TableEntries
<1>3. AccountsIn(t) = Old(N)
  BY <1>2 DEF AccountsIn
<1>. DEFINE S == { n \in 0 .. N : /\ Packed(f[n])
                                  /\ \E src : CameFrom(src, f[n], t, n)
                                  /\ Old(n) \subseteq AccountsIn(f[n]) }
<1>. HIDE DEF N
<1>4. 0 \in S
  <2>1. Len(f[0]) = 2 * N /\ \A i \in 1 .. 2 * N : ~Present(f[0][i])
    BY <1>1, <1>2, FreshTable
  <2>2. Packed(f[0])
    BY <2>1 DEF Packed
  <2>3. CameFrom([q \in 1 .. 2 * N |-> 0], f[0], t, 0)
    BY <2>1 DEF CameFrom
  <2>4. Old(0) = {}
    OBVIOUS
  <2>. HIDE DEF Old
  <2>. QED
    BY <1>2, <2>2, <2>3, <2>4
<1>5. ASSUME NEW n \in 1 .. N, n - 1 \in S PROVE n \in S
  <2>1. /\ n - 1 \in 0 .. N /\ f[n - 1] \in Table /\ Len(f[n - 1]) = 2 * N
        /\ f[n] = Put(f[n - 1], t[n]) /\ Packed(f[n - 1])
        /\ Old(n - 1) \subseteq AccountsIn(f[n - 1])
    BY <1>1, <1>2, <1>5
  <2>2. PICK src : CameFrom(src, f[n - 1], t, n - 1)
    BY <1>5
  <2>3. /\ Packed(f[n])
        /\ \E other : CameFrom(other, f[n], t, n)
        /\ AccountsIn(f[n - 1]) \cup ({ t[n] } \cap Account) \subseteq AccountsIn(f[n])
    BY <2>1, <2>2, PutKeeps DEF N
  <2>4. Old(n) = Old(n - 1) \cup ({ t[n] } \cap Account)
    BY <1>2, SMTT(60)
  <2>. HIDE DEF Old
  <2>. QED
    BY <2>1, <2>3, <2>4
<1>. HIDE DEF S
<1>6. N \in S
  <2>1. \A n \in 0 .. N : n \in S
    BY <1>2, <1>4, <1>5, UpTo
  <2>. QED
    BY <1>2, <2>1
<1>. QED
  BY <1>1, <1>3, <1>6 DEF S, N

-----------------------------------------------------------------------------
(***************************************************************************)
(* hashmap_insert, and what is saved and loaded.                           *)
(***************************************************************************)
LEMMA GrownByRehashes ==
    ASSUME NEW t \in Table, NEW n \in Nat, Dirty \subseteq Account
    PROVE  \E f \in [0 .. n -> Table] :
              /\ f[0] = t
              /\ \A k \in 1 .. n : f[k] = Rehash(f[k - 1])
              /\ Grown(t, n) = f[n]
<1>. DEFINE step == [k \in 1 .. n |-> [g \in Table |-> Rehash(g)]]
            Body(f, k) == IF k = 0 THEN t ELSE Rehash(f[k - 1])
            after == CHOOSE f : f = [k \in 0 .. n |-> Body(f, k)]
<1>1. step \in [1 .. n -> [Table -> Table]]
  BY RehashIsTable
<1>2. PICK f \in [0 .. n -> Table] :
        f[0] = t /\ \A k \in 1 .. n : f[k] = step[k][f[k - 1]]
  <2>. HIDE DEF step
  <2>1. HasResult(n, Table, t, step)
    BY <1>1, Recursion
  <2>. QED
    BY <2>1 DEF HasResult
<1>3. ASSUME NEW k \in 1 .. n
      PROVE  k - 1 \in 0 .. n /\ f[k] = Rehash(f[k - 1])
  <2>1. k - 1 \in 0 .. n /\ f[k - 1] \in Table
    BY <1>2
  <2>2. step[k] = [g \in Table |-> Rehash(g)]
    OBVIOUS
  <2>3. step[k][f[k - 1]] = Rehash(f[k - 1])
    BY <2>1, <2>2
  <2>. QED
    BY <1>2, <2>1, <2>3
<1>. HIDE DEF step
<1>4. f = [k \in 0 .. n |-> Body(f, k)]
  <2>1. ASSUME NEW k \in 0 .. n PROVE f[k] = Body(f, k)
    BY <1>2, <1>3
  <2>. HIDE DEF Body
  <2>. QED
    BY <2>1
<1>5. after = [k \in 0 .. n |-> Body(after, k)]
  <2>. HIDE DEF Body
  <2>. QED
    BY <1>4
<1>6. Grown(t, n) = after[n]
  BY DEF Grown
<1>. HIDE DEF after
<1>. DEFINE S == { k \in 0 .. n : after[k] = f[k] }
<1>7. \A k \in 0 .. n : after[k] = Body(after, k) /\ f[k] = Body(f, k)
  <2>. HIDE DEF Body
  <2>. QED
    BY <1>4, <1>5
<1>8. 0 \in S
  BY <1>7
<1>9. ASSUME NEW k \in 1 .. n, k - 1 \in S PROVE k \in S
  <2>1. k \in 0 .. n /\ k # 0 /\ after[k - 1] = f[k - 1]
    BY <1>9
  <2>. QED
    BY <1>7, <2>1
<1>. HIDE DEF S
<1>10. n \in S
  <2>1. \A k \in 0 .. n : k \in S
    BY <1>8, <1>9, UpTo
  <2>. QED
    BY <2>1
<1>. QED
  BY <1>2, <1>3, <1>6, <1>10 DEF S

LEMMA GrownKeeps ==
    ASSUME NEW t \in Table, NEW n \in Nat, Dirty \subseteq Account
    PROVE  /\ Grown(t, n) \in Table
           /\ AccountsIn(Grown(t, n)) \subseteq AccountsIn(t) \cup Dirty
           /\ Sound(t, Len(t)) /\ Dirty = {} =>
                /\ Sound(Grown(t, n), Len(Grown(t, n)))
                /\ AccountsIn(t) \subseteq AccountsIn(Grown(t, n))
<1>1. PICK f \in [0 .. n -> Table] :
        /\ f[0] = t
        /\ \A k \in 1 .. n : f[k] = Rehash(f[k - 1])
        /\ Grown(t, n) = f[n]
  BY GrownByRehashes
<1>. DEFINE Good(g) == /\ AccountsIn(g) \subseteq AccountsIn(t) \cup Dirty
                       /\ Sound(t, Len(t)) /\ Dirty = {} =>
                            /\ Sound(g, Len(g))
                            /\ AccountsIn(t) \subseteq AccountsIn(g)
            S == { k \in 0 .. n : Good(f[k]) }
<1>2. 0 \in S
  BY <1>1
<1>3. ASSUME NEW k \in 1 .. n, k - 1 \in S PROVE k \in S
  <2>1. f[k - 1] \in Table /\ f[k] = Rehash(f[k - 1]) /\ Good(f[k - 1])
    BY <1>1, <1>3
  <2>2. /\ AccountsIn(f[k]) \subseteq AccountsIn(f[k - 1]) \cup Dirty
        /\ Sound(f[k - 1], Len(f[k - 1])) /\ Dirty = {} => Sound(f[k], Len(f[k]))
    BY <2>1, RehashIsTable
  <2>3. Sound(f[k - 1], Len(f[k - 1])) /\ Dirty = {} =>
           AccountsIn(f[k - 1]) \subseteq AccountsIn(f[k])
    BY <2>1, SoundIsPlaced, RehashKeeps
  <2>4. Good(f[k])
    BY <2>1, <2>2, <2>3
  <2>. HIDE DEF Good
  <2>. QED
    BY <2>4
<1>. HIDE DEF S
<1>4. n \in S
  <2>1. \A k \in 0 .. n : k \in S
    BY <1>2, <1>3, UpTo
  <2>. QED
    BY <2>1
<1>. QED
  BY <1>1, <1>4 DEF S

LEMMA InsertKeeps ==
    ASSUME NEW t, t.entries \in Table, t.size \in Nat, NEW a \in Account,
           NEW new \in Insert(t, a), Dirty \subseteq Account
    PROVE  /\ new.entries \in Table /\ new.size \in Nat
           /\ a \in AccountsIn(new.entries)
           /\ AccountsIn(new.entries) \subseteq AccountsIn(t.entries) \cup {a} \cup Dirty
           /\ Sound(t.entries, Len(t.entries)) /\ Get(t.entries, a[1]) = {} /\ Dirty = {} =>
                /\ Sound(new.entries, Len(new.entries))
                /\ AccountsIn(t.entries) \subseteq AccountsIn(new.entries)
<1>1. PICK n \in Rehashes(t.entries, a[1]) :
        new = [ entries |-> [Grown(t.entries, n) EXCEPT
                               ![FreeAt(Grown(t.entries, n), a[1])] = a],
                size    |-> t.size + 1 ]
  BY DEF Insert
<1>. DEFINE g == Grown(t.entries, n)
            f == FreeAt(g, a[1])
<1>2. n \in Nat /\ g[f] = Absent
  BY CredentialsAssumption DEF Rehashes, HasRoom, IsFree, Present
<1>3. /\ g \in Table /\ AccountsIn(g) \subseteq AccountsIn(t.entries) \cup Dirty
      /\ Sound(t.entries, Len(t.entries)) /\ Dirty = {} =>
           /\ Sound(g, Len(g))
           /\ AccountsIn(t.entries) \subseteq AccountsIn(g)
  BY <1>2, GrownKeeps
<1>4. Present(a) /\ a \in Entry /\ new.entries = Put(g, a) /\ new.size = t.size + 1
  BY <1>1, EntryKinds DEF Put, Present
<1>. HIDE DEF g
<1>5. /\ new.entries \in Table /\ Len(new.entries) = Len(g) /\ f \in 1 .. Len(g)
      /\ \A i \in 1 .. Len(g) : new.entries[i] = IF i = f THEN a ELSE g[i]
  BY <1>3, <1>4, PutIsTable
<1>. HIDE DEF f
<1>6. DOMAIN g = 1 .. Len(g) /\ DOMAIN new.entries = 1 .. Len(g)
  BY <1>3, <1>5, TableEntries
<1>7. /\ a \in AccountsIn(new.entries)
      /\ AccountsIn(new.entries) \subseteq AccountsIn(g) \cup {a}
  BY <1>5, <1>6 DEF AccountsIn
<1>8. AccountsIn(g) \subseteq AccountsIn(new.entries)
  <2>1. \A i \in 1 .. Len(g) : g[i] \in Account => new.entries[i] = g[i]
    BY <1>2, <1>5, EntryKinds
  <2>. QED
    BY <1>6, <2>1 DEF AccountsIn
<1>9. ASSUME Sound(t.entries, Len(t.entries)), Get(t.entries, a[1]) = {}, Dirty = {}
      PROVE  Sound(new.entries, Len(new.entries))
  <2>1. \A b \in AccountsIn(g) : b[1] # a[1]
    BY <1>3, <1>9, GetFinds
  <2>. QED
    BY <1>3, <1>4, <1>5, <1>9, <2>1, PutKeepsSound
<1>. QED
  BY <1>3, <1>4, <1>5, <1>7, <1>8, <1>9

\* The first entries of a sound table are sound, and so is a table that begins with
\* them and has no accounts behind.
LEMMA SoundPrefix ==
    ASSUME NEW s, NEW t, NEW m \in Nat, NEW n \in Nat \ {0}, NEW c \in Nat,
           DOMAIN s = 1 .. m, DOMAIN t = 1 .. c, Sound(s, n),
           \A i \in 1 .. c : IF i <= m THEN t[i] = s[i] ELSE t[i] \notin Account
    PROVE  Sound(t, n)
<1>. SUFFICES ASSUME NEW i \in 1 .. c, t[i] \in Account
              PROVE  /\ Home(t[i][1], n) <= i
                     /\ \A j \in Home(t[i][1], n) .. i - 1 :
                          Present(t[j]) /\ t[j][1] # t[i][1]
  BY DEF Sound
<1>1. i \in 1 .. m /\ t[i] = s[i]
  OBVIOUS
<1>2. /\ Home(t[i][1], n) <= i
      /\ \A j \in Home(t[i][1], n) .. i - 1 : Present(s[j]) /\ s[j][1] # t[i][1]
  BY <1>1 DEF Sound
<1>3. Home(t[i][1], n) \in 1 .. n
  BY HomeInTable, EntryKinds
<1>4. ASSUME NEW j \in Home(t[i][1], n) .. i - 1 PROVE t[j] = s[j]
  <2>. DEFINE h == Home(t[i][1], n)
  <2>. HIDE DEF h
  <2>1. j \in 1 .. m /\ j \in 1 .. c
    BY <1>1, <1>3, <1>4 DEF h
  <2>. QED
    BY <2>1
<1>. QED
  BY <1>2, <1>4

\* _fetch_user_credentials
LEMMA FetchedKeeps ==
    ASSUME Tables, Files, ~FetchFaults
    PROVE  /\ Fetched.entries \in Table /\ Fetched.size \in Nat
           /\ AccountsIn(Fetched.entries) \subseteq AccountsIn(stored.entries) \cup Dirty
           /\ Orderly /\ Dirty = {} /\ ~Saving =>
                Sound(Fetched.entries, Len(Fetched.entries))
<1>1. /\ metadata \in [ there : BOOLEAN, size : Nat, capacity : Nat ]
      /\ stored \in [ there : BOOLEAN, entries : Seq(Entry) ]
      /\ InitialCapacity \in Nat \ {0} /\ Dirty \subseteq Account
  BY CredentialsAssumption, HeapHolds DEF Tables, CredentialsTypeOK
<1>2. CASE ~metadata.there \/ ~stored.there
  <2>1. Fetched = [ entries |-> Fresh(InitialCapacity), size |-> 0 ]
    BY <1>2 DEF Fetched
  <2>2. /\ Fetched.entries \in Table /\ Fetched.size \in Nat
        /\ AccountsIn(Fetched.entries) \subseteq Dirty
    BY <1>1, <2>1, FreshTable
  <2>3. ASSUME Dirty = {} PROVE Sound(Fetched.entries, Len(Fetched.entries))
    BY <2>2, <2>3 DEF AccountsIn, Sound
  <2>. QED
    BY <2>2, <2>3
<1>3. CASE metadata.there /\ stored.there
  <2>. DEFINE c == metadata.capacity
              s == stored.entries
              t == [i \in 1 .. c |-> IF i <= Len(s) THEN s[i] ELSE Unwritten(i)]
  <2>1. /\ Fetched = [ entries |-> t, size |-> metadata.size ]
        /\ c \in Nat \ {0} /\ s \in Seq(Entry)
    BY <1>1, <1>3 DEF Fetched, FetchFaults
  <2>2. /\ Len(s) \in Nat /\ DOMAIN s = 1 .. Len(s)
        /\ \A i \in 1 .. Len(s) : s[i] \in Entry
    BY <2>1, ElementOfSeq, LenProperties
  <2>3. \A i \in 1 .. c : /\ t[i] \in Entry
                          /\ IF i <= Len(s) THEN t[i] = s[i] ELSE t[i] \in Dirty \cup {Absent}
    BY <1>1, <2>1, <2>2, UnwrittenEntry
  <2>4. t \in Table /\ Len(t) = c
    <3>1. t \in [1 .. c -> Entry]
      <4>1. t = [i \in 1 .. c |-> t[i]]
        OBVIOUS
      <4>. HIDE DEF t
      <4>. QED
        BY <2>3, <4>1
    <3>. HIDE DEF t
    <3>. QED
      BY <2>1, <3>1, TableOf
  <2>5. Fetched.entries = t /\ Fetched.size \in Nat
    BY <1>1, <2>1
  <2>. HIDE DEF t
  <2>6. DOMAIN t = 1 .. c
    BY <2>4, TableEntries
  <2>7. AccountsIn(t) \subseteq AccountsIn(s) \cup Dirty
    BY <2>1, <2>2, <2>3, <2>6, EntryKinds DEF AccountsIn
  <2>8. ASSUME Orderly, Dirty = {}, ~Saving PROVE Sound(t, c)
    <3>1. Sound(s, c)
      BY <1>3, <2>8 DEF Files
    <3>2. \A i \in 1 .. c : IF i <= Len(s) THEN t[i] = s[i] ELSE t[i] \notin Account
      BY <2>3, <2>8, EntryKinds
    <3>. HIDE DEF s, c
    <3>. QED
      BY <2>1, <2>2, <2>6, <3>1, <3>2, SoundPrefix
  <2>. QED
    BY <2>4, <2>5, <2>7, <2>8
<1>. QED
  BY <1>2, <1>3

\* The table that create_user_credentials and credentials_are_valid work on.
LEMMA LoadedKeeps ==
    ASSUME CredentialsInv, table = NoTable => ~FetchFaults, ~Saving
    PROVE  /\ Loaded.entries \in Table /\ Loaded.size \in Nat
           /\ AccountsIn(Loaded.entries) \subseteq created \cup shown
           /\ Orderly => /\ Dirty = {} /\ Sound(Loaded.entries, Len(Loaded.entries))
                         /\ known \subseteq AccountsIn(Loaded.entries)
<1>0. Dirty \subseteq shown /\ (Orderly => Dirty = {})
  BY DEF CredentialsInv, Given, Orderly
<1>1. CASE table = NoTable
  <2>1. AccountsIn(table.entries) = {}
    BY <1>1 DEF NoTable, AccountsIn
  <2>. QED
    BY <1>0, <1>1, <2>1, FetchedKeeps DEF Loaded, CredentialsInv, Given, Kept
<1>2. CASE table # NoTable
  BY <1>0, <1>2 DEF Loaded, CredentialsInv, Tables, CredentialsTypeOK, Given, Files, Kept, Table
<1>. QED
  BY <1>1, <1>2

\* What a table is that is not empty.
LEMMA TableIsThere ==
    ASSUME NEW t, t.entries \in Table
    PROVE  t # NoTable /\ t.entries \in Seq(Entry) /\ Len(t.entries) > 0
<1>1. Len(NoTable.entries) = 0
  BY DEF NoTable
<1>. QED
  BY <1>1 DEF Table

-----------------------------------------------------------------------------
(***************************************************************************)
(* The process.                                                            *)
(***************************************************************************)
LEMMA NoAccounts == AccountsIn(NoTable.entries) = {} /\ AccountsIn(NoEntries.entries) = {}
                    /\ AccountsIn(<< >>) = {}
  BY DEF NoTable, NoEntries, AccountsIn

LEMMA CredentialsInitInv == Init => CredentialsInv
<1>. SUFFICES ASSUME Init PROVE CredentialsInv
  OBVIOUS
<1>. USE DEF Init, CredentialsInit
<1>1. << >> \in Seq(Account) /\ << >> \in Seq(Entry)
  BY EmptySeq
<1>2. CredentialsTypeOK
  <2>1. table.entries \in Seq(Entry) /\ table.size \in Nat
    BY <1>1 DEF NoTable
  <2>2. /\ metadata \in [ there : BOOLEAN, size : Nat, capacity : Nat ]
        /\ stored \in [ there : BOOLEAN, entries : Seq(Entry) ]
    BY <1>1 DEF NoMetadata, NoEntries
  <2>3. starts \in 0 .. MaxStarts
    BY CredentialsAssumption
  <2>. QED
    BY <1>1, <2>1, <2>2, <2>3 DEF CredentialsTypeOK, Phase
<1>3. Tables
  BY <1>2 DEF Tables, Saving
<1>4. Given /\ Kept
  <2>1. Dirty = {}
    BY DEF Dirty, Clean
  <2>. QED
    BY <2>1, NoAccounts DEF Given, Kept
<1>5. Files
  BY DEF Files, Saving, NoMetadata, NoEntries
<1>. QED
  BY <1>3, <1>4, <1>5 DEF CredentialsInv

LEMMA StartInv == CredentialsInv /\ Start => CredentialsInv'
<1>. SUFFICES ASSUME CredentialsInv, Start PROVE CredentialsInv'
  OBVIOUS
<1>. USE DEF CredentialsInv
<1>1. /\ phase \in { "down", "faulted" } /\ phase' = "arguments" /\ starts < MaxStarts
      /\ todo' \in StartLists /\ dirt' \in DirtChoices /\ table' = NoTable
      /\ starts' = starts + 1 /\ known' = {} /\ shown' = shown \cup Dirty'
      /\ UNCHANGED << metadata, stored, created, torn >>
  BY DEF Start, disk, Dirty
<1>2. CredentialsTypeOK'
  <2>1. << >> \in Seq(Entry) /\ starts \in 0 .. MaxStarts /\ MaxStarts \in Nat
    BY EmptySeq, CredentialsAssumption DEF Tables, CredentialsTypeOK
  <2>2. table'.entries \in Seq(Entry) /\ table'.size \in Nat
    BY <1>1, <2>1 DEF NoTable
  <2>3. starts' \in 0 .. MaxStarts
    BY <1>1, <2>1
  <2>4. shown' \subseteq Account
    <3>1. dirt' \in [DOMAIN dirt' -> Account]
      BY <1>1, CredentialsAssumption
    <3>2. Dirty' \subseteq Account
      BY <3>1 DEF Dirty
    <3>. QED
      BY <1>1, <3>2 DEF Tables, CredentialsTypeOK
  <2>. QED
    BY <1>1, <2>2, <2>3, <2>4, CredentialsAssumption DEF Tables, CredentialsTypeOK, Phase
<1>3. Tables'
  BY <1>1, <1>2 DEF Tables, Saving
<1>4. Given' /\ Kept'
  BY <1>1, NoAccounts DEF Given, Kept
<1>5. Files'
  BY <1>1 DEF Files, Orderly, Saving
<1>. QED
  BY <1>3, <1>4, <1>5

LEMMA CreateUserInv == CredentialsInv /\ CreateUser => CredentialsInv'
<1>. SUFFICES ASSUME CredentialsInv, CreateUser PROVE CredentialsInv'
  OBVIOUS
<1>. USE DEF CredentialsInv
<1>. DEFINE account == Head(todo)
            found == Get(Loaded.entries, account[1])
<1>1. /\ phase = "arguments" /\ todo # << >> /\ ~Saving
      /\ UNCHANGED << dirt, metadata, stored, starts, torn, shown >>
      /\ CredentialsTypeOK
  BY DEF CreateUser, disk, Saving, Tables
<1>2. CASE table = NoTable /\ FetchFaults
  <2>1. phase' = "faulted" /\ UNCHANGED << todo, table, created, known >>
    BY <1>2 DEF CreateUser
  <2>. QED
    BY <1>1, <2>1 DEF Tables, CredentialsTypeOK, Phase, Given, Files, Kept, Orderly, Saving,
                      Dirty
<1>3. CASE ~(table = NoTable /\ FetchFaults)
  <2>1. /\ created' = created \cup {account} /\ todo' = Tail(todo)
        /\ \/ /\ found = {} /\ table' \in Insert(Loaded, account)
              /\ phase' = "open metadata" /\ known' = known \cup {account}
           \/ /\ found # {} /\ table' = Loaded
              /\ phase' = "arguments" /\ known' = known \cup found
    BY <1>3 DEF CreateUser
  <2>2. account \in Account /\ todo' \in Seq(Account) /\ account[1] \in Users
    BY <1>1, <2>1, HeadTailProperties, EntryKinds DEF CredentialsTypeOK
  <2>3. /\ Loaded.entries \in Table /\ Loaded.size \in Nat
        /\ AccountsIn(Loaded.entries) \subseteq created \cup shown
        /\ Orderly => /\ Dirty = {} /\ Sound(Loaded.entries, Len(Loaded.entries))
                      /\ known \subseteq AccountsIn(Loaded.entries)
        /\ Dirty \subseteq Account /\ Dirty \subseteq shown
    BY <1>1, <1>3, LoadedKeeps, HeapHolds DEF Given
  <2>4. found \subseteq AccountsIn(Loaded.entries)
    BY <2>2, <2>3, GetReturns
  <2>. HIDE DEF account, found
  <2>5. /\ table'.entries \in Table /\ table'.size \in Nat
        /\ AccountsIn(table'.entries) \subseteq created' \cup shown
        /\ Orderly => /\ Sound(table'.entries, Len(table'.entries))
                      /\ known' \subseteq AccountsIn(table'.entries)
        /\ phase' \in { "arguments", "open metadata" } /\ known' \subseteq Account
    <3>1. CASE found = {}
      <4>1. /\ table' \in Insert(Loaded, account) /\ phase' = "open metadata"
            /\ known' = known \cup {account}
        BY <2>1, <3>1
      <4>2. /\ table'.entries \in Table /\ table'.size \in Nat
            /\ account \in AccountsIn(table'.entries)
            /\ AccountsIn(table'.entries)
                  \subseteq AccountsIn(Loaded.entries) \cup {account} \cup Dirty
            /\ Sound(Loaded.entries, Len(Loaded.entries)) /\ Dirty = {} =>
                 /\ Sound(table'.entries, Len(table'.entries))
                 /\ AccountsIn(Loaded.entries) \subseteq AccountsIn(table'.entries)
        BY <2>2, <2>3, <3>1, <4>1, InsertKeeps DEF found
      <4>. QED
        BY <1>1, <2>1, <2>2, <2>3, <4>1, <4>2 DEF CredentialsTypeOK
    <3>2. CASE found # {}
      <4>1. table' = Loaded /\ phase' = "arguments" /\ known' = known \cup found
        BY <2>1, <3>2
      <4>2. AccountsIn(Loaded.entries) \subseteq Account
        BY DEF AccountsIn
      <4>. QED
        BY <1>1, <2>1, <2>3, <2>4, <4>1, <4>2 DEF CredentialsTypeOK
    <3>. QED
      BY <3>1, <3>2
  <2>6. table' # NoTable /\ table'.entries \in Seq(Entry) /\ Len(table'.entries) > 0
    BY <2>5, TableIsThere
  <2>7. Tables'
    BY <1>1, <2>1, <2>2, <2>5, <2>6 DEF Tables, CredentialsTypeOK, Phase, Saving
  <2>8. Given'
    BY <1>1, <2>1, <2>5 DEF Given, Dirty
  <2>9. Files'
    BY <1>1, <2>5 DEF Files, Orderly, Saving
  <2>10. Kept'
    BY <1>1, <2>5 DEF Kept, Orderly
  <2>. QED
    BY <2>7, <2>8, <2>9, <2>10
<1>. QED
  BY <1>2, <1>3

\* A step of a save leaves the process as it is.
LEMMA OpenMetadataInv == CredentialsInv /\ OpenMetadata => CredentialsInv'
<1>. SUFFICES ASSUME CredentialsInv, OpenMetadata PROVE CredentialsInv'
  OBVIOUS
<1>1. /\ phase = "open metadata" /\ phase' = "write metadata"
      /\ metadata' = [ there |-> TRUE, size |-> 0, capacity |-> 0 ]
      /\ UNCHANGED << todo, dirt, table, stored, starts, created, known, torn, shown >>
  BY DEF OpenMetadata
<1>2. Tables' /\ Given' /\ Kept'
  BY <1>1 DEF CredentialsInv, Tables, CredentialsTypeOK, Phase, Given, Kept, Orderly, Saving,
              Dirty
<1>3. Files'
  BY <1>1 DEF CredentialsInv, Files, Orderly, Saving
<1>. QED
  BY <1>2, <1>3 DEF CredentialsInv

LEMMA WriteMetadataInv == CredentialsInv /\ WriteMetadata => CredentialsInv'
<1>. SUFFICES ASSUME CredentialsInv, WriteMetadata PROVE CredentialsInv'
  OBVIOUS
<1>1. /\ phase = "write metadata" /\ phase' = "open entries"
      /\ metadata' = [ there |-> TRUE, size |-> table.size, capacity |-> Len(table.entries) ]
      /\ UNCHANGED << todo, dirt, table, stored, starts, created, known, torn, shown >>
  BY DEF WriteMetadata
<1>2. table.size \in Nat /\ Len(table.entries) \in Nat
  BY LenProperties DEF CredentialsInv, Tables, CredentialsTypeOK
<1>3. Tables' /\ Given' /\ Kept'
  BY <1>1, <1>2 DEF CredentialsInv, Tables, CredentialsTypeOK, Phase, Given, Kept, Orderly,
                    Saving, Dirty
<1>4. Files'
  BY <1>1 DEF CredentialsInv, Files, Orderly, Saving
<1>. QED
  BY <1>3, <1>4 DEF CredentialsInv

LEMMA OpenEntriesInv == CredentialsInv /\ OpenEntries => CredentialsInv'
<1>. SUFFICES ASSUME CredentialsInv, OpenEntries PROVE CredentialsInv'
  OBVIOUS
<1>1. /\ phase = "open entries" /\ phase' = "write entries"
      /\ stored' = [ there |-> TRUE, entries |-> << >> ] /\ << >> \in Seq(Entry)
      /\ UNCHANGED << todo, dirt, table, metadata, starts, created, known, torn, shown >>
  BY EmptySeq DEF OpenEntries, Entries
<1>2. Tables' /\ Kept'
  BY <1>1 DEF CredentialsInv, Tables, CredentialsTypeOK, Phase, Kept, Orderly, Saving
<1>3. Given'
  BY <1>1, NoAccounts DEF CredentialsInv, Given, Dirty
<1>4. Files'
  BY <1>1 DEF CredentialsInv, Files, Orderly, Saving
<1>. QED
  BY <1>2, <1>3, <1>4 DEF CredentialsInv

\* What is saved, or the part of it that is there after a crash.
LEMMA SavedKeeps ==
    ASSUME CredentialsInv, table # NoTable
    PROVE  /\ Saved \in Seq(Entry) /\ Len(Saved) \in Nat /\ Len(Saved) <= Len(table.entries)
           /\ \A i \in 1 .. Len(Saved) : Saved[i] = table.entries[i]
           /\ AccountsIn(Saved) \subseteq created \cup shown
           /\ Orderly => Sound(Saved, Len(table.entries))
<1>. DEFINE t == table.entries
            n == IF table.size < Len(t) THEN table.size ELSE Len(t)
<1>1. /\ t \in Seq(Entry) /\ Len(t) \in Nat \ {0} /\ DOMAIN t = 1 .. Len(t)
      /\ table.size \in Nat /\ \A i \in 1 .. Len(t) : t[i] \in Entry
  <2>1. t \in Seq(Entry) /\ Len(t) > 0 /\ table.size \in Nat
    BY DEF CredentialsInv, Tables, CredentialsTypeOK
  <2>. HIDE DEF t
  <2>. QED
    BY <2>1, LenProperties, ElementOfSeq
<1>2. Saved = SubSeq(t, 1, n) /\ n \in Nat /\ n <= Len(t)
  BY <1>1 DEF Saved
<1>3. AccountsIn(t) \subseteq created \cup shown /\ (Orderly => Sound(t, Len(t)))
  BY DEF CredentialsInv, Given, Files
<1>. HIDE DEF t, n
<1>4. \A i \in 1 .. n : t[i] \in Entry
  BY <1>1, <1>2
<1>5. /\ Saved \in Seq(Entry)
      /\ Len(Saved) = IF 1 <= n THEN n - 1 + 1 ELSE 0
      /\ \A i \in 1 .. n - 1 + 1 : Saved[i] = t[1 + i - 1]
  BY <1>2, <1>4, SubSeqProperties
<1>6. Len(Saved) = n /\ \A i \in 1 .. n : Saved[i] = t[i]
  BY <1>2, <1>5
<1>7. DOMAIN Saved = 1 .. n
  BY <1>5, <1>6, LenProperties
<1>8. AccountsIn(Saved) \subseteq AccountsIn(t)
  BY <1>1, <1>2, <1>6, <1>7 DEF AccountsIn
<1>9. Orderly => Sound(Saved, Len(t))
  <2>1. \A i \in 1 .. n : IF i <= Len(t) THEN Saved[i] = t[i] ELSE Saved[i] \notin Account
    BY <1>1, <1>2, <1>6
  <2>2. Len(t) \in Nat /\ Len(t) \in Nat \ {0}
    BY <1>1
  <2>. QED
    BY <1>1, <1>2, <1>3, <1>7, <2>1, <2>2, SoundPrefix
<1>. QED
  BY <1>2, <1>3, <1>5, <1>6, <1>8, <1>9 DEF t

LEMMA WriteEntriesInv == CredentialsInv /\ WriteEntries => CredentialsInv'
<1>. SUFFICES ASSUME CredentialsInv, WriteEntries PROVE CredentialsInv'
  OBVIOUS
<1>1. /\ phase = "write entries" /\ phase' = "arguments"
      /\ stored' = [ there |-> TRUE, entries |-> Saved ]
      /\ UNCHANGED << todo, dirt, table, metadata, starts, created, known, torn, shown >>
  BY DEF WriteEntries, Entries
<1>2. table # NoTable /\ Len(table.entries) > 0
  BY <1>1 DEF CredentialsInv, Tables, Saving
<1>3. Tables' /\ Kept'
  BY <1>1, <1>2, SavedKeeps DEF CredentialsInv, Tables, CredentialsTypeOK, Phase, Kept,
                                Orderly, Saving
<1>4. Given'
  BY <1>1, <1>2, SavedKeeps DEF CredentialsInv, Given, Dirty
<1>5. Files'
  BY <1>1, <1>2, SavedKeeps DEF CredentialsInv, Files, Orderly, Saving
<1>. QED
  BY <1>3, <1>4, <1>5 DEF CredentialsInv

LEMMA ServeInv == CredentialsInv /\ Serve => CredentialsInv'
  BY DEF Serve, disk, CredentialsInv, Tables, CredentialsTypeOK, Phase, Given, Files, Kept,
         Orderly, Saving, Dirty

LEMMA LoadOnLoginInv == CredentialsInv /\ LoadOnLogin => CredentialsInv'
<1>. SUFFICES ASSUME CredentialsInv, LoadOnLogin PROVE CredentialsInv'
  OBVIOUS
<1>. USE DEF CredentialsInv
<1>1. /\ phase = "serving" /\ table = NoTable /\ ~Saving
      /\ UNCHANGED << todo, dirt, metadata, stored, starts, created, known, torn, shown >>
  BY DEF LoadOnLogin, disk, Saving
<1>2. CASE FetchFaults
  BY <1>1, <1>2 DEF LoadOnLogin, Tables, CredentialsTypeOK, Phase, Given, Files, Kept, Orderly,
                    Saving, Dirty
<1>3. CASE ~FetchFaults
  <2>1. table' = Loaded /\ phase' = "serving"
    BY <1>1, <1>3 DEF LoadOnLogin, Loaded
  <2>2. /\ table'.entries \in Table /\ table'.size \in Nat
        /\ AccountsIn(table'.entries) \subseteq created \cup shown
        /\ Orderly => /\ Sound(table'.entries, Len(table'.entries))
                      /\ known \subseteq AccountsIn(table'.entries)
    BY <1>1, <1>3, <2>1, LoadedKeeps
  <2>3. table' # NoTable /\ table'.entries \in Seq(Entry) /\ Len(table'.entries) > 0
    BY <2>2, TableIsThere
  <2>4. Tables'
    BY <1>1, <2>1, <2>2, <2>3 DEF Tables, CredentialsTypeOK, Phase, Saving
  <2>5. Given' /\ Kept'
    BY <1>1, <2>2 DEF Given, Kept, Orderly, Dirty
  <2>6. Files'
    BY <1>1, <2>1, <2>2 DEF Files, Orderly, Saving
  <2>. QED
    BY <2>4, <2>5, <2>6
<1>. QED
  BY <1>2, <1>3

\* Of entries whose write is not completed a part may be there.
LEMMA PartialKeeps ==
    ASSUME CredentialsInv, NEW s \in Partial
    PROVE  /\ s \in [ there : BOOLEAN, entries : Seq(Entry) ]
           /\ AccountsIn(s.entries) \subseteq created \cup shown
           /\ ~Saving => s = stored
<1>. USE DEF CredentialsInv
<1>1. CASE phase = "write entries"
  <2>1. table # NoTable /\ Saving
    BY <1>1 DEF Tables, Saving
  <2>2. PICK n \in 0 .. Len(Saved) :
          s = [ there |-> TRUE, entries |-> SubSeq(Saved, 1, n) ]
    BY <1>1 DEF Partial, Entries
  <2>3. /\ Saved \in Seq(Entry) /\ Len(Saved) \in Nat
        /\ AccountsIn(Saved) \subseteq created \cup shown
        /\ DOMAIN Saved = 1 .. Len(Saved)
    BY <2>1, SavedKeeps, LenProperties
  <2>4. n \in Nat /\ \A i \in 1 .. n : Saved[i] \in Entry
    BY <2>3, ElementOfSeq
  <2>. DEFINE part == SubSeq(Saved, 1, n)
  <2>5. /\ part \in Seq(Entry)
        /\ Len(part) = IF 1 <= n THEN n - 1 + 1 ELSE 0
        /\ \A i \in 1 .. n - 1 + 1 : part[i] = Saved[1 + i - 1]
    BY <2>4, SubSeqProperties
  <2>. HIDE DEF part
  <2>6. Len(part) = n /\ \A i \in 1 .. n : part[i] = Saved[i]
    BY <2>4, <2>5
  <2>7. DOMAIN part = 1 .. n
    BY <2>5, <2>6, LenProperties
  <2>8. AccountsIn(part) \subseteq AccountsIn(Saved)
    BY <2>3, <2>6, <2>7 DEF AccountsIn
  <2>. QED
    BY <2>1, <2>2, <2>3, <2>5, <2>8 DEF part
<1>2. CASE phase # "write entries"
  BY <1>2 DEF Partial, Tables, CredentialsTypeOK, Given
<1>. QED
  BY <1>1, <1>2

\* A save that fails leaves the process as it is, and what it had written.
LEMMA SaveFailsInv == CredentialsInv /\ SaveFails => CredentialsInv'
<1>. SUFFICES ASSUME CredentialsInv, SaveFails PROVE CredentialsInv'
  OBVIOUS
<1>. USE DEF CredentialsInv
<1>1. /\ phase = "open metadata" \/ Saving
      /\ phase' = "arguments" \/ (phase = "write metadata" /\ phase' = "open entries")
      /\ torn' = (torn \/ Saving)
      /\ UNCHANGED << todo, dirt, table, metadata, starts, created, known, shown >>
  BY DEF SaveFails
<1>2. /\ stored' \in [ there : BOOLEAN, entries : Seq(Entry) ]
      /\ AccountsIn(stored'.entries) \subseteq created \cup shown
      /\ ~Saving => stored' = stored
  <2>1. stored' \in Partial
    BY DEF SaveFails
  <2>. QED
    BY <2>1, PartialKeeps
<1>3. Tables'
  BY <1>1, <1>2 DEF Tables, CredentialsTypeOK, Phase, Saving
<1>4. Given' /\ Kept'
  BY <1>1, <1>2 DEF Given, Kept, Orderly, Dirty
<1>5. Files'
  BY <1>1, <1>2 DEF Files, Orderly, Saving
<1>. QED
  BY <1>3, <1>4, <1>5

\* A process that is killed leaves the files as they are, or a part of the entries.
LEMMA CrashInv == CredentialsInv /\ Crash => CredentialsInv'
<1>. SUFFICES ASSUME CredentialsInv, Crash PROVE CredentialsInv'
  OBVIOUS
<1>. USE DEF CredentialsInv
<1>1. /\ phase' = "down" /\ table' = NoTable /\ todo' = << >> /\ dirt' = Clean /\ known' = {}
      /\ torn' = (torn \/ Saving) /\ Dirty' = {}
      /\ UNCHANGED << metadata, starts, created, shown >>
  BY DEF Crash, Dirty, Clean
<1>2. /\ stored' \in [ there : BOOLEAN, entries : Seq(Entry) ]
      /\ AccountsIn(stored'.entries) \subseteq created \cup shown
      /\ ~Saving => stored' = stored
  <2>1. stored' \in Partial
    BY DEF Crash
  <2>. QED
    BY <2>1, PartialKeeps
<1>3. Tables'
  <2>1. << >> \in Seq(Entry) /\ << >> \in Seq(Account)
    BY EmptySeq
  <2>2. table'.entries \in Seq(Entry) /\ table'.size \in Nat
    BY <1>1, <2>1 DEF NoTable
  <2>. QED
    BY <1>1, <1>2, <2>1, <2>2 DEF Tables, CredentialsTypeOK, Phase, Saving
<1>4. Given' /\ Kept'
  BY <1>1, <1>2, NoAccounts DEF Given, Kept
<1>5. Files'
  BY <1>1, <1>2 DEF Files, Orderly, Saving
<1>. QED
  BY <1>3, <1>4, <1>5

-----------------------------------------------------------------------------
(***************************************************************************)
(* Every step, and the theorems.                                           *)
(***************************************************************************)
LEMMA CredentialsNextInv == CredentialsInv /\ [Next]_vars => CredentialsInv'
<1>. SUFFICES ASSUME CredentialsInv, [Next]_vars PROVE CredentialsInv'
  OBVIOUS
<1>1. CASE UNCHANGED credentialVars
  BY <1>1 DEF credentialVars, process, disk, CredentialsInv, Tables, CredentialsTypeOK,
              Given, Files, Kept, Orderly, Saving, Dirty
<1>2. CASE Startup
  BY <1>2, StartInv, CreateUserInv, OpenMetadataInv, WriteMetadataInv, OpenEntriesInv,
     WriteEntriesInv, SaveFailsInv, ServeInv, LoadOnLoginInv DEF Startup
<1>3. CASE Killed
  BY <1>3, CrashInv DEF Killed
<1>4. ASSUME NEW c \in Connections, Login(c) \/ (\E s \in Sites : Visit(c, s)) \/ End(c)
      PROVE  UNCHANGED credentialVars
  BY <1>4 DEF Login, Visit, End
<1>. QED
  BY <1>1, <1>2, <1>3, <1>4 DEF Next, Stopped, vars

LEMMA CredentialsInvariance == Spec => []CredentialsInv
  BY CredentialsInitInv, CredentialsNextInv, PTL DEF Spec

\* Types of the whole composition, for every list of users, every heap and any number of
\* crashes: the index a search in hashmap.c ends at is always one of the table.
THEOREM AccountsTypeOK == Spec => []TypeOK
<1>1. AccountsInv /\ CredentialsInv => TypeOK
  BY DEF AccountsInv, Typed, CredentialsInv, Tables, TypeOK
<1>. QED
  BY <1>1, Invariance, CredentialsInvariance, PTL

\* Whatever kills and full disks leave of the two files of user_auth_utils.c and whatever
\* accounts malloc() returns in a table, credentials_are_valid accepts for a user of an
\* argument no password but one that was once given with the name, or that an unwritten
\* entry has held with it: no collision, rehash or restart mixes up two users.
THEOREM NoForeignPassword == Spec => []OnlyGivenPasswordsWork
<1>1. CredentialsInv => OnlyGivenPasswordsWork
  <2>. SUFFICES ASSUME CredentialsInv, table # NoTable, NEW account \in Account,
                       Valid(table, account[1], account[2])
                PROVE  account \in created \cup shown
    BY DEF OnlyGivenPasswordsWork
  <2>1. table.entries \in Table /\ account[1] \in Users
    BY EntryKinds DEF CredentialsInv, Tables, CredentialsTypeOK, Table
  <2>2. PICK e \in Get(table.entries, account[1]) : e[2] = account[2]
    BY DEF Valid
  <2>3. e \in AccountsIn(table.entries) /\ e[1] = account[1]
    BY <2>1, <2>2, GetReturns
  <2>4. e \in Account
    BY <2>3 DEF AccountsIn
  <2>5. e = account
    BY <2>2, <2>3, <2>4, EntryKinds
  <2>. QED
    BY <2>3, <2>5 DEF CredentialsInv, Given
<1>. QED
  BY <1>1, CredentialsInvariance, PTL

\* The table of hashmap.c loses no account, for every hash function, initial capacity and
\* number of users: neither collisions nor later insertions hide one, a rehash onto a
\* clean heap never overwrites one although it does not look what is at the last
\* position, and what is saved of a table can be found when it is loaded.
THEOREM CreatedUsersAreKept == Spec => []CreatedUsersCanLogIn
<1>1. CredentialsInv => CreatedUsersCanLogIn
  <2>. SUFFICES ASSUME CredentialsInv, Orderly, table # NoTable,
                       NEW account \in known
                PROVE  Valid(table, account[1], account[2])
    BY DEF CreatedUsersCanLogIn, Orderly
  <2>1. table.entries \in Table /\ Sound(table.entries, Len(table.entries))
    BY DEF CredentialsInv, Tables, CredentialsTypeOK, Files, Table
  <2>2. account \in AccountsIn(table.entries)
    BY DEF CredentialsInv, Kept
  <2>3. Get(table.entries, account[1]) = {account}
    BY <2>1, <2>2, GetFinds
  <2>. QED
    BY <2>3 DEF Valid
<1>. QED
  BY <1>1, CredentialsInvariance, PTL
=============================================================================
