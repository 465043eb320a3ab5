------------------------------ MODULE Accounts ------------------------------
(***************************************************************************)
(* The composition of Credentials and Metrics: connections log in against  *)
(* the accounts, are counted as users, visit sites and end, while the      *)
(* server is started, killed and started again.                            *)
(***************************************************************************)
EXTENDS Credentials, Metrics

CONSTANTS
    Connections,
    Anonymous,   \* the username of a connection without authentication
    Nobody,      \* the connection has no user (yet)
    Visitors,    \* bound: the names whose connections are modelled
    VisitedStart \* bound: the last start of the server with connections

ASSUME AccountsAssumption ==
    /\ Names = Users \cup {Anonymous}
    /\ Anonymous \notin Users /\ Nobody \notin Names
    /\ Visitors \subseteq Names /\ VisitedStart \in Nat

VARIABLE user  \* of each connection, its username

vars == << credentialVars, metricsVars, user >>

\* auth_read with credentials of an account, or hello_read without
Login(c) ==
    /\ phase = "serving" /\ user[c] = Nobody /\ starts <= VisitedStart
    /\ \/ /\ table # NoTable
          /\ \E account \in Account :
               /\ account[1] \in Visitors
               /\ Valid(table, account[1], account[2])
               /\ user' = [user EXCEPT ![c] = account[1]]
               /\ AddUser(account[1])
       \/ /\ Anonymous \in Visitors
          /\ user' = [user EXCEPT ![c] = Anonymous]
          /\ AddUser(Anonymous)
    /\ UNCHANGED credentialVars

\* request_read: add_user_site
Visit(c, site) ==
    /\ phase = "serving" /\ user[c] # Nobody
    /\ AddUserSite(user[c], site)
    /\ UNCHANGED << credentialVars, user >>

\* finish
End(c) ==
    /\ phase = "serving" /\ user[c] # Nobody
    /\ user' = [user EXCEPT ![c] = Nobody]
    /\ RemoveUser(user[c])
    /\ UNCHANGED credentialVars

\* The connections and the memory go with the process.
Killed ==
    /\ Crash
    /\ user' = [c \in Connections |-> Nobody]
    /\ MetricsReset

Init ==
    /\ CredentialsInit
    /\ MetricsInit
    /\ user = [c \in Connections |-> Nobody]

Startup == Start \/ CreateUser \/ OpenMetadata \/ WriteMetadata \/ OpenEntries
           \/ WriteEntries \/ SaveFails \/ Serve \/ LoadOnLogin

\* The server has been started as often as the bound allows.
Stopped == phase \in { "down", "faulted" } /\ starts = MaxStarts /\ UNCHANGED vars

Next ==
    \/ Startup /\ UNCHANGED << metricsVars, user >>
    \/ Killed
    \/ \E c \in Connections :
         \/ Login(c)
         \/ \E s \in Sites : Visit(c, s)
         \/ End(c)
    \/ Stopped

Spec == Init /\ [][Next]_vars

-----------------------------------------------------------------------------
(***************************************************************************)
(* Properties.                                                             *)
(***************************************************************************)
TypeOK ==
    /\ CredentialsTypeOK
    /\ MetricsTypeOK
    /\ user \in [Connections -> Names \cup {Nobody}]

Running == phase \notin { "down", "faulted" }

\* While a server runs, whoever it has created an account for, or found one of, can
\* log in, through all collisions, growth and later insertions in the table
\* (hashmap.c), if no heap was ever dirty and no save that had begun to write was
\* interrupted or failed: then the two files belong together.
CreatedUsersCanLogIn ==
    Running /\ shown = {} /\ ~torn /\ table # NoTable
        => \A account \in known : Valid(table, account[1], account[2])

\* For a user the server was given in an argument no password works but those given
\* for that user, however the names collide, whatever a kill or a full disk has left
\* of the files; or one that an entry nobody wrote has held with that name.  (Of users
\* the server was never given it says nothing: user_auth_utils.h lets them in, the
\* code does not.)
OnlyGivenPasswordsWork ==
    Running /\ table # NoTable
        => \A given \in created : \A account \in Account :
             account[1] = given[1] /\ Valid(table, account[1], account[2])
                 => account \in created \cup shown

\* The access log of every user (monitor command ACCESS_LOG) has exactly the sites
\* visited under the name, in order, through the ends of connections and the
\* comings and goings of other users.
AccessLogIsComplete ==
    \A name \in Names :
        /\ \A i, j \in AllTimeAt(name) : i = j
        /\ visits[name] # << >> => AllTimeAt(name) # {}
        /\ \A i \in AllTimeAt(name) : allTime[i].sites = visits[name]

\* Memory that is not allocated is written or reallocated only after a removal has
\* copied the record of another user, block and all, and left it behind where the
\* next user is added: metrics_remove_user and find_and_update_active_users.
OnlyShiftsCorrupt == corrupt => shifted
=============================================================================
