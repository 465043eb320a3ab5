------------------------------ MODULE Metrics ------------------------------
(***************************************************************************)
(* The users in metrics.c: active_users, an array with a record for each   *)
(* name that is in use now, and all_time_users, one for each name ever     *)
(* used; each record has a block of memory with the sites visited, which   *)
(* realloc() makes longer every SitesVector visits.                        *)
(*                                                                         *)
(* Only the access log reads sites, and only those of all_time_users; of a *)
(* block of active_users it matters which records point to it and whether  *)
(* it is still allocated.                                                  *)
(***************************************************************************)
EXTENDS Naturals, Sequences

CONSTANTS
    Names,        \* usernames, "Anonymous" among them
    Sites,
    MaxActive,    \* MAX_CONNECTIONS, the length of active_users
    SitesVector,  \* INITIAL_SITES_VECTOR_CAPACITY: 10
    NoName,       \* the username of a record that is all zeroes
    MaxBlocks,    \* bound: blocks of sites ever allocated for active users
    MaxVisits     \* bound: visits of a name in the access log

ASSUME MetricsAssumption ==
    /\ NoName \notin Names
    /\ MaxActive \in Nat \ {0} /\ SitesVector \in Nat \ {0}
    /\ MaxBlocks \in Nat /\ MaxVisits \in Nat

\* user_info: sites_visited is a block, or 0 for NULL.
User == [ username : Names \cup {NoName}, sites_visited : 0 .. MaxBlocks,
          site_count : Nat ]

NoUser == [ username |-> NoName, sites_visited |-> 0, site_count |-> 0 ]

VARIABLES
    active,      \* active_users
    activeCount, \* active_user_count
    allTime,     \* all_time_users: username and the sites
    blocks,      \* blocks of active users that are allocated
    allocated,   \* how many there have been
    \* history, for the properties
    corrupt,     \* memory that was free has been written or freed
    shifted,     \* a removal has copied a record with a block over another
    visits       \* the sites visited under each name, in order

metricsVars == << active, activeCount, allTime, blocks, allocated, corrupt,
                  shifted, visits >>

-----------------------------------------------------------------------------
ActiveAt(name)  == { i \in 1 .. activeCount : active[i].username = name }
AllTimeAt(name) == { i \in DOMAIN allTime : allTime[i].username = name }

\* find_and_update_active_users: only the name is written to the record.
AddActive(name) ==
    IF ActiveAt(name) # {} \/ activeCount = MaxActive
      THEN UNCHANGED << active, activeCount >>
      ELSE /\ active' = [active EXCEPT ![activeCount + 1].username = name]
           /\ activeCount' = activeCount + 1

\* (faulty variant for the mutation tests: the new record takes the place of the
\* last one)
AddAllTimeOver(name) ==
    allTime' = IF AllTimeAt(name) # {} THEN allTime
               ELSE IF allTime = << >> THEN << [ username |-> name, sites |-> << >> ] >>
               ELSE [allTime EXCEPT ![Len(allTime)].username = name]

\* find_and_update_all_time_users: a new record is cleared first.
AddAllTime(name) ==
    allTime' = IF AllTimeAt(name) # {} THEN allTime
               ELSE Append(allTime, [ username |-> name, sites |-> << >> ])

\* metrics_add_user
AddUser(name) ==
    /\ AddActive(name)
    /\ AddAllTime(name)
    /\ UNCHANGED << blocks, allocated, corrupt, shifted, visits >>

\* (faulty variant for the mutation tests: counts down whether or not there is one)
RemoveUserUncounted(name) ==
    /\ active' = [j \in 1 .. MaxActive |->
                    IF j < activeCount /\ \E i \in ActiveAt(name) : i <= j
                      THEN active[j + 1] ELSE active[j]]
    /\ activeCount' = activeCount - 1
    /\ UNCHANGED << allTime, blocks, allocated, corrupt, shifted, visits >>

\* metrics_remove_user: the records behind move down by one, and the last place
\* keeps its contents.
RemoveUser(name) ==
    /\ IF ActiveAt(name) = {} THEN UNCHANGED << active, activeCount, shifted >>
       ELSE LET i == CHOOSE k \in ActiveAt(name) : TRUE
            IN  /\ active' = [j \in 1 .. MaxActive |->
                                IF j \in i .. activeCount - 1
                                  THEN active[j + 1] ELSE active[j]]
                /\ activeCount' = activeCount - 1
                /\ shifted' = (shifted \/
                     \E j \in i + 1 .. activeCount : active[j].sites_visited # 0)
    /\ UNCHANGED << allTime, blocks, allocated, corrupt, visits >>

\* (faulty variant for the mutation tests: what realloc() returns is dropped)
AddActiveSiteDropped(i) ==
    LET user == active[i]
        b    == user.sites_visited
        grow == user.site_count % SitesVector = 0
    IN  \/ /\ grow /\ allocated < MaxBlocks
           /\ active' = [active EXCEPT ![i].sites_visited =
                              IF b = 0 THEN allocated + 1 ELSE b,
                            ![i].site_count = @ + 1]
           /\ blocks' = (blocks \ {b}) \cup {allocated + 1}
           /\ allocated' = allocated + 1
           /\ corrupt' = (corrupt \/ b \notin blocks \cup {0})
        \/ /\ ~grow \/ b # 0
           /\ active' = [active EXCEPT ![i].site_count = @ + 1]
           /\ corrupt' = (corrupt \/ b \notin blocks)
           /\ UNCHANGED << blocks, allocated >>

\* The static add_user_site on a record of active_users.  realloc() of a block
\* may move it; a block that is not allocated must not be passed to it, nor
\* written.
AddActiveSite(i) ==
    LET user == active[i]
        b    == user.sites_visited
        grow == user.site_count % SitesVector = 0
    IN  \/ /\ grow /\ allocated < MaxBlocks
           /\ active' = [active EXCEPT ![i].sites_visited = allocated + 1,
                                       ![i].site_count = @ + 1]
           /\ blocks' = (blocks \ {b}) \cup {allocated + 1}
           /\ allocated' = allocated + 1
           /\ corrupt' = (corrupt \/ b \notin blocks \cup {0})
        \/ /\ ~grow \/ b # 0
           /\ active' = [active EXCEPT ![i].site_count = @ + 1]
           /\ corrupt' = (corrupt \/ b \notin blocks)
           /\ UNCHANGED << blocks, allocated >>

\* metrics_add_user_site
AddUserSite(name, site) ==
    /\ ~corrupt /\ Len(visits[name]) < MaxVisits
    /\ IF ActiveAt(name) = {}
         THEN UNCHANGED << active, blocks, allocated, corrupt >>
         ELSE AddActiveSite(CHOOSE i \in ActiveAt(name) : TRUE)
    /\ allTime' = [i \in DOMAIN allTime |->
                     IF i \in AllTimeAt(name)
                       THEN [allTime[i] EXCEPT !.sites = Append(@, site)]
                       ELSE allTime[i]]
    /\ visits' = [visits EXCEPT ![name] = Append(@, site)]
    /\ UNCHANGED << activeCount, shifted >>

\* metrics_init, and the memory of a process that is no more
MetricsReset ==
    /\ active' = [i \in 1 .. MaxActive |-> NoUser]
    /\ activeCount' = 0
    /\ allTime' = << >>
    /\ blocks' = {} /\ allocated' = 0
    /\ corrupt' = FALSE /\ shifted' = FALSE
    /\ visits' = [name \in Names |-> << >>]

MetricsInit ==
    /\ active = [i \in 1 .. MaxActive |-> NoUser]
    /\ activeCount = 0
    /\ allTime = << >>
    /\ blocks = {} /\ allocated = 0
    /\ corrupt = FALSE /\ shifted = FALSE
    /\ visits = [name \in Names |-> << >>]

MetricsTypeOK ==
    /\ active \in [1 .. MaxActive -> User]
    /\ activeCount \in 0 .. MaxActive
    /\ allTime \in Seq([ username : Names, sites : Seq(Sites) ])
    /\ blocks \subseteq 1 .. allocated /\ allocated \in 0 .. MaxBlocks
    /\ corrupt \in BOOLEAN /\ shifted \in BOOLEAN
    /\ visits \in [Names -> Seq(Sites)]
=============================================================================
