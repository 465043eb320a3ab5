---------------------------- MODULE Credentials ----------------------------
(***************************************************************************)
(* The accounts: the hash table of utils/hashmap.c, the two files in which *)
(* utils/user_auth_utils.c keeps it, and the life of the process that      *)
(* main() in server.c starts with a list of users, and that can be killed  *)
(* at any moment, between two steps of a save too.                         *)
(*                                                                         *)
(* malloc() does not clear memory: an entry nobody has written holds       *)
(* whatever was there, and if its mark of presence is not zero it is an    *)
(* account like any other, the one of an empty name and password perhaps.  *)
(* `dirt' says where, for the heap a process starts with, and which.       *)
(***************************************************************************)
EXTENDS Naturals, Sequences, FiniteSets

CONSTANTS
    Users,           \* names: what fits in the key of an entry, whoever put it there
    Passwords,
    Hash,            \* [Users -> Nat], djb2
    InitialCapacity, \* HASHMAP_SIZE: 32
    Doublings,       \* bound: how often a table grows
    StartLists,      \* the lists of -u arguments a server is started with
    DirtChoices,     \* what unwritten entries a heap can have: positions to accounts
    MaxStarts        \* bound

Account == Users \X Passwords

ASSUME CredentialsAssumption ==
    /\ Hash \in [Users -> Nat]
    /\ InitialCapacity \in Nat \ {0}
    /\ Doublings \in Nat
    /\ StartLists \subseteq Seq(Account)
    /\ \A heap \in DirtChoices :
         DOMAIN heap \subseteq Nat /\ heap \in [DOMAIN heap -> Account]
    /\ MaxStarts \in Nat

\* An entry: not present, or an account, be it by accident.
Absent == << >>
Entry  == Account \cup {Absent}

\* A heap all of zeroes
Clean == [i \in {} |-> Absent]

\* Where the process is: not running; handling the arguments; at the steps of
\* _persist_user_credentials; serving; or dead of undefined behaviour.
Phase == { "down", "arguments", "open metadata", "write metadata",
           "open entries", "write entries", "serving", "faulted" }

NoTable == [ entries |-> << >>, size |-> 0 ]
NoMetadata == [ there |-> FALSE, size |-> 0, capacity |-> 0 ]
NoEntries  == [ there |-> FALSE, entries |-> << >> ]
Entries(s) == [ there |-> TRUE, entries |-> s ]

VARIABLES
    phase,
    todo,     \* arguments still to be handled
    dirt,     \* see above
    table,    \* user_credentials
    metadata, \* metadata.bin; capacity 0 for an empty file
    stored,   \* user_credentials.bin
    starts,   \* how often the server was started
    \* history, for the properties
    created,  \* the accounts ever given in an argument
    known,    \* the accounts this process has created or found
    torn,     \* a save that had begun to write was interrupted or failed once
    shown     \* the accounts that unwritten entries of a heap have held

process == << phase, todo, dirt, table >>
disk    == << metadata, stored >>
credentialVars == << process, disk, starts, created, known, torn, shown >>

-----------------------------------------------------------------------------
(***************************************************************************)
(* hashmap.c                                                               *)
(***************************************************************************)
Unwritten(i) == IF i \in DOMAIN dirt THEN dirt[i] ELSE Absent

Fresh(capacity) == [i \in 1 .. capacity |-> Unwritten(i)]

Present(entry) == entry # Absent

\* Where the search for a key begins.
Home(key, capacity) == 1 + (Hash[key] % capacity)

\* The first of the wanted positions from the home of key on, or else the last
\* position: a search does not wrap around.
Search(entries, key, wanted) ==
    CHOOSE i \in Home(key, Len(entries)) .. Len(entries) :
        /\ i \in wanted \/ i = Len(entries)
        /\ \A j \in Home(key, Len(entries)) .. i - 1 : j \notin wanted

IsFree(entry) == ~Present(entry)

FreeAt(entries, key) ==
    Search(entries, key, { i \in DOMAIN entries : IsFree(entries[i]) })

FoundAt(entries, key) ==
    Search(entries, key, { i \in DOMAIN entries : IsFree(entries[i]) \/ entries[i][1] = key })

\* (faulty variant for the mutation tests: the search ends with the key, or so it says)
GetUnchecked(entries, key) ==
    { e \in { entries[FoundAt(entries, key)] } : Present(e) }

\* hashmap_get: the entries with the key, one or none.
Get(entries, key) ==
    { e \in { entries[FoundAt(entries, key)] } : Present(e) /\ e[1] = key }

\* (faulty variant for the mutation tests: entries keep their position)
RehashCopied(entries) ==
    [i \in 1 .. 2 * Len(entries) |->
        IF i <= Len(entries) THEN entries[i] ELSE Unwritten(i)]

\* rehash to twice the capacity, entry by entry, whatever is at the last
\* position.
Rehash(entries) ==
    LET grown[n \in 0 .. Len(entries)] ==
          IF n = 0 THEN Fresh(2 * Len(entries))
          ELSE IF ~Present(entries[n]) THEN grown[n - 1]
          ELSE [grown[n - 1] EXCEPT
                  ![FreeAt(grown[n - 1], entries[n][1])] = entries[n]]
    IN  grown[Len(entries)]

\* The table after n rehashes.
Grown(entries, n) ==
    LET after[k \in 0 .. n] == IF k = 0 THEN entries ELSE Rehash(after[k - 1])
    IN  after[n]

HasRoom(entries, key) == IsFree(entries[FreeAt(entries, key)])

\* The rehashes hashmap_insert needs before the key finds a free entry.
Rehashes(entries, key) ==
    { n \in 0 .. Doublings :
        /\ HasRoom(Grown(entries, n), key)
        /\ \A k \in 0 .. n - 1 : ~HasRoom(Grown(entries, k), key) }

\* hashmap_insert, as a set: empty beyond the bound.
Insert(t, account) ==
    { LET entries == Grown(t.entries, n)
      IN  [ entries |-> [entries EXCEPT ![FreeAt(entries, account[1])] = account],
            size    |-> t.size + 1 ] : n \in Rehashes(t.entries, account[1]) }

-----------------------------------------------------------------------------
(***************************************************************************)
(* user_auth_utils.c                                                       *)
(***************************************************************************)
\* _fetch_user_credentials, or create_hashmap if a file is missing.
Fetched ==
    IF ~metadata.there \/ ~stored.there
      THEN [ entries |-> Fresh(InitialCapacity), size |-> 0 ]
      ELSE [ entries |-> [i \in 1 .. metadata.capacity |->
                            IF i <= Len(stored.entries)
                              THEN stored.entries[i] ELSE Unwritten(i)],
             size    |-> metadata.size ]

\* An empty metadata.bin leaves the capacity of the table undefined: with the zeroes of
\* a new heap, hashmap_get divides by it.
FetchFaults == metadata.there /\ metadata.capacity = 0 /\ stored.there

\* The table that create_user_credentials and credentials_are_valid work on.
Loaded == IF table = NoTable THEN Fetched ELSE table

\* credentials_are_valid returns 0
Valid(t, user, password) ==
    \E e \in Get(t.entries, user) : e[2] = password

\* The first `size' entries, if there are so many.
Saved == SubSeq(table.entries, 1,
                IF table.size < Len(table.entries) THEN table.size
                                                   ELSE Len(table.entries))

-----------------------------------------------------------------------------
(***************************************************************************)
(* The process.                                                            *)
(***************************************************************************)
Start ==
    /\ phase \in { "down", "faulted" } /\ starts < MaxStarts
    /\ todo' \in StartLists
    /\ dirt' \in DirtChoices
    /\ phase' = "arguments"
    /\ table' = NoTable
    /\ shown' = shown \cup { dirt'[i] : i \in DOMAIN dirt' }
    /\ starts' = starts + 1
    /\ known' = {}
    /\ UNCHANGED << disk, created, torn >>

\* create_user_credentials up to the save
CreateUser ==
    /\ phase = "arguments" /\ todo # << >>
    /\ IF table = NoTable /\ FetchFaults
         THEN phase' = "faulted" /\ UNCHANGED << todo, table, created, known >>
         ELSE LET account == Head(todo)
                  found   == Get(Loaded.entries, account[1])
              IN  /\ created' = created \cup {account}
                  /\ IF found = {}
                       THEN /\ table' \in Insert(Loaded, account)
                            /\ phase' = "open metadata"
                            /\ known' = known \cup {account}
                       ELSE /\ table' = Loaded
                            /\ phase' = "arguments"
                            /\ known' = known \cup found
                  /\ todo' = Tail(todo)
    /\ UNCHANGED << dirt, disk, starts, torn, shown >>

\* _persist_user_credentials: fopen(..., "wb") empties a file, fclose() has what
\* was written in it.
OpenMetadata ==
    /\ phase = "open metadata" /\ phase' = "write metadata"
    /\ metadata' = [ there |-> TRUE, size |-> 0, capacity |-> 0 ]
    /\ UNCHANGED << todo, dirt, table, stored, starts, created, known, torn, shown >>

WriteMetadata ==
    /\ phase = "write metadata" /\ phase' = "open entries"
    /\ metadata' = [ there |-> TRUE, size |-> table.size,
                     capacity |-> Len(table.entries) ]
    /\ UNCHANGED << todo, dirt, table, stored, starts, created, known, torn, shown >>

OpenEntries ==
    /\ phase = "open entries" /\ phase' = "write entries"
    /\ stored' = Entries(<< >>)
    /\ UNCHANGED << todo, dirt, table, metadata, starts, created, known, torn, shown >>

WriteEntries ==
    /\ phase = "write entries" /\ phase' = "arguments"
    /\ stored' = Entries(Saved)
    /\ UNCHANGED << todo, dirt, table, metadata, starts, created, known, torn, shown >>

\* The arguments are done: init_server.
Serve ==
    /\ phase = "arguments" /\ todo = << >>
    /\ phase' = "serving"
    /\ UNCHANGED << todo, dirt, table, disk, starts, created, known, torn, shown >>

Saving == phase \in { "write metadata", "open entries", "write entries" }

\* What there can be of entries whose write is not completed.
Partial == IF phase = "write entries"
             THEN { Entries(SubSeq(Saved, 1, n)) : n \in 0 .. Len(Saved) }
             ELSE { stored }

\* A file that cannot be opened or written: nobody looks at what
\* _persist_user_credentials returns, and an fclose() that cannot write what fwrite()
\* has put aside goes unnoticed, as after the metadata.
SaveFails ==
    /\ phase = "open metadata" \/ Saving
    /\ phase' \in { "arguments" } \cup
                   (IF phase = "write metadata" THEN { "open entries" } ELSE {})
    /\ stored' \in Partial
    /\ torn' = (torn \/ Saving)
    /\ UNCHANGED << todo, dirt, table, metadata, starts, created, known, shown >>

\* The process ends or is killed.
Crash ==
    /\ phase \notin { "down", "faulted" }
    /\ phase' = "down"
    /\ table' = NoTable /\ todo' = << >> /\ dirt' = Clean /\ known' = {}
    /\ stored' \in Partial
    /\ torn' = (torn \/ Saving)
    /\ UNCHANGED << metadata, starts, created, shown >>

\* The first login of a server that was started without users loads the table;
\* a table that faults takes the process with it.
LoadOnLogin ==
    /\ phase = "serving" /\ table = NoTable
    /\ IF FetchFaults
         THEN phase' = "faulted" /\ UNCHANGED table
         ELSE table' = Fetched /\ UNCHANGED phase
    /\ UNCHANGED << todo, dirt, disk, starts, created, known, torn, shown >>

CredentialsInit ==
    /\ phase = "down"
    /\ todo = << >> /\ dirt = Clean /\ table = NoTable
    /\ metadata = NoMetadata /\ stored = NoEntries
    /\ starts = 0
    /\ created = {} /\ known = {} /\ torn = FALSE /\ shown = {}

CredentialsTypeOK ==
    /\ phase \in Phase
    /\ todo \in Seq(Account)
    /\ dirt \in DirtChoices \cup {Clean}
    /\ table.entries \in Seq(Entry) /\ table.size \in Nat
    /\ metadata \in [ there : BOOLEAN, size : Nat, capacity : Nat ]
    /\ stored \in [ there : BOOLEAN, entries : Seq(Entry) ]
    /\ starts \in 0 .. MaxStarts
    /\ created \subseteq Account /\ known \subseteq Account /\ shown \subseteq Account
    /\ torn \in BOOLEAN
=============================================================================
