------------------------------ MODULE Selector ------------------------------
(***************************************************************************)
(* Descriptor numbers: who has which number from the kernel, and what the  *)
(* selector's table (utils/selector.c), the list of descriptors that are   *)
(* exempt from the timeout (ignored_fds) and the marks of the monitor's    *)
(* QUIT say of it, through the turns of the main loop of server.c until a  *)
(* signal ends it.                                                         *)
(*                                                                         *)
(* The threads that resolve names share the numbers: getaddrinfo() opens   *)
(* and closes sockets of its own between any two steps of the main thread. *)
(* A number is closed by whoever knows it, so that a close() that comes    *)
(* too late hits the next owner.                                           *)
(*                                                                         *)
(* Of a SOCKS connection only its descriptors are here: it goes on naming  *)
(* a leg that the timeout has dropped, whoever has the number by then.     *)
(* Its states are in Proxy.  Of a monitor session there is what Monitor    *)
(* leaves out: its descriptor.                                             *)
(***************************************************************************)
EXTENDS Integers, FiniteSets, FiniteSetsExt

CONSTANTS
    Fds,             \* descriptor numbers the process can get
    SocksListener,   \* the number of serv_sock
    MonitorListener, \* the number of monitor_sock
    Threads,         \* resolver threads
    Free             \* nobody has the number

ASSUME SelectorAssumption ==
    /\ IsFiniteSet(Fds) /\ Fds \subseteq Nat
    /\ SocksListener \in Fds /\ MonitorListener \in Fds
    /\ SocksListener # MonitorListener
    /\ \A i \in Fds \ { SocksListener, MonitorListener } :
         SocksListener < i /\ MonitorListener < i  \* the listeners are opened first
    /\ Free \notin Threads

Listener(i) == i \in { SocksListener, MonitorListener }

Accepted == Fds \ { SocksListener, MonitorListener }

\* What a descriptor of the main thread is for.
Socks == { "client", "origin" }
Kind == Socks \cup { "listener", "monitor" }
Unused == "unused"

ASSUME KindAssumption == Free \notin Kind /\ Kind \cap Threads = {}

VARIABLES
    kernel,   \* who has the number: a kind, a thread or Free
    item,     \* s->fds: the kind registered, or Unused
    partner,  \* of a SOCKS leg, the other number its connection names, or -1
    watched,  \* master_r and master_w together
    fresh,    \* SOCKS descriptors whose tv is within the timeout
    ignored,  \* ignored_fds
    marked,   \* to_be_removed
    phase,    \* where the main thread is in its turn
    at,       \*   and at which number
    socket,   \* of each thread, the number it has from socket(), or -1
    finished, \* the flag of sigterm_handler
    \* history, for the properties
    quit,     \* a monitor client has sent QUIT
    split,    \* the sweep has dropped one leg of a connection and not the other
    robbed,   \* a close() has hit a number that somebody else had
    stray     \* numbers that an accept of the monitor has left exempt and given up

table   == << item, partner, watched, fresh, ignored, marked >>
turn    == << phase, at >>
history == << quit, split, robbed, stray >>
vars    == << kernel, table, turn, socket, finished, history >>

Phase == { "test", "sweep", "close", "close again", "select", "serve",
           "notify", "stopped" }

NoFd == -1

-----------------------------------------------------------------------------
(***************************************************************************)
(* The kernel.                                                             *)
(***************************************************************************)
FreeFds == { i \in Fds : kernel[i] = Free }

\* accept() and socket() return the lowest free number.
NewFd == Min(FreeFds)

\* close(i) by one who may have it as one of `rightful'.
Close(i, rightful) ==
    /\ kernel' = [kernel EXCEPT ![i] = Free]
    /\ robbed' = (robbed \/ kernel[i] \notin rightful \cup {Free})

-----------------------------------------------------------------------------
(***************************************************************************)
(* The table.                                                              *)
(***************************************************************************)
Registered(i) == item[i] # Unused

Leg(i) == item[i] \in Socks

\* selector_register of a number that is not in use, on behalf of a handler that
\* has parked some, and is stamped as handle_iteration does
Register(i, kind, parked, stamped) ==
    /\ item' = [item EXCEPT ![i] = kind]
    /\ watched' = (watched \ parked) \cup {i}
    /\ fresh' = fresh \cup stamped \cup (IF kind \in Socks THEN {i} ELSE {})

\* (faulty variant for the mutation tests: the sets of pselect are left alone)
UnregisterWatched(legs) ==
    /\ item' = [i \in Fds |-> IF i \in legs THEN Unused ELSE item[i]]
    /\ partner' = [i \in Fds |-> IF i \in legs THEN NoFd ELSE partner[i]]
    /\ watched' = watched
    /\ fresh' = fresh \ legs
    /\ marked' = marked \ legs

\* selector_unregister_fd of registered numbers; the item is cleared, mark and all.
Unregister(legs) ==
    /\ item' = [i \in Fds |-> IF i \in legs THEN Unused ELSE item[i]]
    /\ partner' = [i \in Fds |-> IF i \in legs THEN NoFd ELSE partner[i]]
    /\ watched' = watched \ legs
    /\ fresh' = fresh \ legs
    /\ marked' = marked \ legs

\* The numbers still to come in a loop over the table; what is not registered is
\* passed over.
Rest == { i \in Fds : i > at /\ item'[i] # Unused }

\* The loops over the numbers: on to the next one, or to what follows the loop.
Advance(loop, following) ==
    IF Rest = {} THEN phase' = following /\ at' = Min(Fds)
                 ELSE phase' = loop /\ at' = Min(Rest)

-----------------------------------------------------------------------------
(***************************************************************************)
(* selector_select: the sweep.                                             *)
(***************************************************************************)
\* A marked item: monitor_close closes the number, which QUIT has closed already.
SweepMarked ==
    /\ phase = "sweep" /\ at \in marked
    /\ Unregister({at})
    /\ Close(at, {})
    /\ phase' = "close again"
    /\ UNCHANGED << ignored, at, socket, finished, quit, split, stray >>

\* (faulty variant for the mutation tests: only what waits for events times out)
SilentWatched(i) == Registered(i) /\ i \notin ignored \cup fresh /\ i \in watched

Silent(i) == Registered(i) /\ i \notin ignored \cup fresh

\* Neither is a listener silent, nor a monitor client: they are exempt.
SweepSilent ==
    /\ phase = "sweep" /\ at \notin marked /\ Silent(at)
    /\ Unregister({at})
    /\ phase' = "close"
    /\ split' = (split \/ \E k \in Fds : partner[k] = at /\ (k < at \/ ~Silent(k)))
    /\ UNCHANGED << kernel, ignored, at, socket, finished, quit, robbed,
                    stray >>

SweepPass ==
    /\ phase = "sweep" /\ at \notin marked /\ ~Silent(at)
    /\ UNCHANGED << kernel, table, socket, finished, history >>
    /\ Advance("sweep", "select")

\* close(i) in the sweep
SweepClose ==
    /\ phase \in { "close", "close again" }
    /\ Close(at, IF phase = "close" THEN Socks ELSE {})
    /\ UNCHANGED << table, socket, finished, quit, split, stray >>
    /\ Advance("sweep", "select")

\* pselect: with a number that is not open (EBADF) nothing is served, not even the
\* resolutions; a signal leaves out the handlers; an event or the timeout does not.
Select ==
    /\ phase = "select"
    /\ phase' \in IF \E i \in watched : kernel[i] = Free
                    THEN { "test" } ELSE { "serve", "notify" }
    /\ at' = Min(Fds)
    /\ UNCHANGED << kernel, table, socket, finished, history >>

-----------------------------------------------------------------------------
(***************************************************************************)
(* handle_iteration and handle_block_notifications: the handlers.          *)
(***************************************************************************)
Serving(i, kind) == phase = "serve" /\ at = i /\ i \in watched /\ item[i] = kind

ServePass ==
    /\ phase = "serve"
    /\ UNCHANGED << kernel, table, socket, finished, history >>
    /\ Advance("serve", "notify")

\* accept_connection: a number the table has already is given back.
Accept ==
    /\ Serving(SocksListener, "listener") /\ FreeFds # {}
    /\ ~Registered(NewFd)
    /\ kernel' = [kernel EXCEPT ![NewFd] = "client"]
    /\ Register(NewFd, "client", {}, {})
    /\ UNCHANGED << partner, ignored, marked, socket, finished, history >>
    /\ Advance("serve", "notify")

\* monitor_accept_connection: the number is exempt before fcntl, malloc and
\* selector_register can fail, and stays exempt when it is closed for that; the last
\* of them fails if the table has the number already.
MonitorAccept ==
    /\ Serving(MonitorListener, "listener") /\ FreeFds # {}
    /\ ignored' = ignored \cup {NewFd}
    /\ \/ /\ stray' = stray \cup {NewFd}
          /\ UNCHANGED << kernel, item, watched, fresh >>
       \/ /\ ~Registered(NewFd)
          /\ stray' = stray \ {NewFd}
          /\ kernel' = [kernel EXCEPT ![NewFd] = "monitor"]
          /\ Register(NewFd, "monitor", {}, {})
    /\ UNCHANGED << partner, marked, socket, finished, quit, split, robbed >>
    /\ Advance("serve", "notify")

\* (faulty variant for the mutation tests: the exemption stays)
MonitorQuitExempt ==
    /\ Serving(at, "monitor") /\ at \notin marked
    /\ marked' = marked \cup {at}
    /\ Close(at, {"monitor"})
    /\ quit' = TRUE
    /\ UNCHANGED << ignored, item, partner, watched, fresh, socket, finished, split,
                    stray >>
    /\ Advance("serve", "notify")

\* monitor_read: QUIT clears the exemption, marks the item and closes the number.
MonitorQuit ==
    /\ Serving(at, "monitor") /\ at \notin marked
    /\ ignored' = ignored \ {at}
    /\ marked' = marked \cup {at}
    /\ Close(at, {"monitor"})
    /\ quit' = TRUE /\ stray' = stray \ {at}
    /\ UNCHANGED << item, partner, watched, fresh, socket, finished, split >>
    /\ Advance("serve", "notify")

\* A monitor session that fails is parked: OP_NOOP, and nothing ever releases it.
MonitorFails ==
    /\ Serving(at, "monitor") /\ at \notin marked
    /\ watched' = watched \ {at}
    /\ UNCHANGED << kernel, item, partner, fresh, ignored, marked, socket,
                    finished, history >>
    /\ Advance("serve", "notify")

\* A handler of the leg i runs: in its turn of handle_iteration, which stamps the
\* item, or because the name its client has asked for is resolved.
ServesLeg(i) == phase = "serve" /\ at = i /\ i \in watched /\ Leg(i)
Resolved(i)  == phase = "notify" /\ item[i] = "client" /\ partner[i] = NoFd
InHandler(i) == ServesLeg(i) \/ Resolved(i)
Stamped(i)   == IF phase = "serve" THEN {i} ELSE {}

Return == IF phase = "serve" THEN Advance("serve", "notify") ELSE UNCHANGED turn

\* The leg waits for its next event.
SocksWaits(i) ==
    /\ InHandler(i)
    /\ fresh' = fresh \cup {i}
    /\ watched' = watched \cup {i}
    /\ UNCHANGED << kernel, item, partner, ignored, marked, socket, finished, history >>
    /\ Return

\* The handler sets the interest of the other leg, whoever has its number, and may
\* park its own.
SocksWakes(i) ==
    LET j == partner[i]
    IN  /\ ServesLeg(i) /\ j # NoFd /\ Registered(j)
        /\ fresh' = fresh \cup { k \in {i, j} : Leg(k) }
        /\ watched' \in { watched \cup {j}, (watched \ {i}) \cup {j} }
        /\ UNCHANGED << kernel, item, partner, ignored, marked, socket, finished, history >>
        /\ Return

\* connect_write: a socket for the origin, while the client is parked.  If the table
\* has the number already the socket is closed and the connection ends, see
\* SocksEnds.
SocksConnects(i) ==
    /\ InHandler(i) /\ item[i] = "client" /\ partner[i] = NoFd
    /\ FreeFds # {} /\ ~Registered(NewFd)
    /\ kernel' = [kernel EXCEPT ![NewFd] = "origin"]
    /\ partner' = [partner EXCEPT ![i] = NewFd, ![NewFd] = i]
    /\ Register(NewFd, "origin", {i}, Stamped(i))
    /\ UNCHANGED << ignored, marked, socket, finished, history >>
    /\ Return

\* connect_write for an attempt that has failed: the socket goes, and the next
\* address, if there is one, gets another.  (Without its client the connection goes
\* with the socket: see Proxy.)
SocksRetries(i) ==
    LET client == partner[i]
        n      == Min(FreeFds \cup {i})
    IN  /\ ServesLeg(i) /\ item[i] = "origin" /\ kernel[i] = "origin"
        /\ client # NoFd /\ partner[client] = i
        /\ \/ /\ kernel' = [kernel EXCEPT ![i] = Free]
              /\ item' = [item EXCEPT ![i] = Unused]
              /\ partner' = [partner EXCEPT ![i] = NoFd, ![client] = NoFd]
              /\ watched' = watched \ {i}
              /\ fresh' = fresh \ {i}
           \/ /\ n = i \/ ~Registered(n)
              /\ kernel' = [kernel EXCEPT ![i] = Free, ![n] = "origin"]
              /\ item' = [item EXCEPT ![i] = Unused, ![n] = "origin"]
              /\ partner' = [partner EXCEPT ![i] = NoFd, ![n] = client, ![client] = n]
              /\ watched' = (watched \ {i}) \cup {n}
              /\ fresh' = (fresh \ {i}) \cup {n}
        /\ UNCHANGED << ignored, marked, socket, finished, history >>
        /\ Return

\* The numbers the connection of the leg i names; of these, its own.
Named(i) == { i, partner[i] } \ {NoFd}
Own(i)   == { k \in Named(i) : k = i \/ partner[k] = i }

\* (faulty variant for the mutation tests: the legs are only unregistered)
SocksEndsOpen(i) ==
    /\ InHandler(i) /\ \A k \in Named(i) : Registered(k)
    /\ Unregister(Named(i))
    /\ UNCHANGED << kernel, ignored, socket, finished, history >>
    /\ Return

\* finish: whatever is registered under the numbers is taken from the table, and
\* they are closed.
SocksEnds(i) ==
    /\ InHandler(i) /\ \A k \in Named(i) : Registered(k)
    /\ Unregister(Named(i))
    /\ kernel' = [k \in Fds |-> IF k \in Named(i) THEN Free ELSE kernel[k]]
    /\ robbed' = (robbed \/ \E k \in Named(i) :
                      kernel[k] # Free /\ (k \notin Own(i) \/ kernel[k] # item[k]))
    /\ UNCHANGED << ignored, socket, finished, quit, split, stray >>
    /\ Return

\* The process is no more: with it go the threads and what is still open.
Gone ==
    /\ phase' = "stopped"
    /\ Unregister({ i \in Fds : Registered(i) })
    /\ kernel' = [i \in Fds |-> Free]
    /\ socket' = [t \in Threads |-> NoFd]
    /\ UNCHANGED << ignored, at, finished, history >>

\* finish aborts if a number is not registered.
SocksAborts(i) ==
    /\ ServesLeg(i) /\ \E k \in Named(i) : ~Registered(k)
    /\ Gone

NotifyDone ==
    /\ phase = "notify" /\ phase' = "test"
    /\ UNCHANGED << kernel, table, at, socket, finished, history >>

-----------------------------------------------------------------------------
(***************************************************************************)
(* server.c                                                                *)
(***************************************************************************)
\* while (!finished)
Test ==
    /\ phase = "test" /\ ~finished
    /\ phase' = "sweep" /\ at' = Min(Fds)
    /\ UNCHANGED << kernel, table, socket, finished, history >>

\* selector_destroy and the closes behind the loop
Stop ==
    /\ phase = "test" /\ finished
    /\ Gone

\* sigterm_handler, anywhere in the turn
Terminate ==
    /\ ~finished /\ phase # "stopped"
    /\ finished' = TRUE
    /\ UNCHANGED << kernel, table, turn, socket, history >>

\* Nothing has happened on a descriptor for as long as the timeout.
Age(i) ==
    /\ i \in fresh /\ phase # "stopped"
    /\ fresh' = fresh \ {i}
    /\ UNCHANGED << kernel, item, partner, watched, ignored, marked, turn, socket,
                    finished, history >>

\* Within getaddrinfo()
ThreadOpens(t) ==
    /\ phase # "stopped" /\ socket[t] = NoFd /\ FreeFds # {}
    /\ kernel' = [kernel EXCEPT ![NewFd] = t]
    /\ socket' = [socket EXCEPT ![t] = NewFd]
    /\ UNCHANGED << table, turn, finished, history >>

ThreadCloses(t) ==
    /\ phase # "stopped" /\ socket[t] # NoFd
    /\ Close(socket[t], {t})
    /\ socket' = [socket EXCEPT ![t] = NoFd]
    /\ UNCHANGED << table, turn, finished, quit, split, stray >>

Stopped == phase = "stopped" /\ UNCHANGED vars

-----------------------------------------------------------------------------
Init ==
    /\ kernel = [i \in Fds |-> IF Listener(i) THEN "listener" ELSE Free]
    /\ item = [i \in Fds |-> IF Listener(i) THEN "listener" ELSE Unused]
    /\ partner = [i \in Fds |-> NoFd]
    /\ watched = { SocksListener, MonitorListener }
    /\ ignored = { SocksListener, MonitorListener }
    /\ fresh = {} /\ marked = {}
    /\ phase = "test" /\ at = Min(Fds)
    /\ socket = [t \in Threads |-> NoFd]
    /\ finished = FALSE /\ quit = FALSE /\ split = FALSE /\ robbed = FALSE
    /\ stray = {}

SocksHandler ==
    \E i \in Fds :
        \/ SocksWaits(i) \/ SocksWakes(i)
        \/ SocksConnects(i) \/ SocksRetries(i)
        \/ SocksEnds(i) \/ SocksAborts(i)

\* The main thread: every step of it is one of these.
Main ==
    \/ Test \/ Stop
    \/ SweepMarked \/ SweepSilent \/ SweepPass \/ SweepClose
    \/ Select
    \/ ServePass \/ Accept \/ MonitorAccept \/ MonitorQuit \/ MonitorFails
    \/ SocksHandler \/ NotifyDone

Next ==
    \/ Main
    \/ Terminate
    \/ \E i \in Fds : Age(i)
    \/ \E t \in Threads : ThreadOpens(t) \/ ThreadCloses(t)
    \/ Stopped

Spec == Init /\ [][Next]_vars

(***************************************************************************)
(* Fairness: the main thread runs (pselect waits at most for its timeout), *)
(* its queue of resolutions is finite, and time passes.                    *)
(***************************************************************************)
Fairness ==
    /\ WF_vars(Main)
    /\ WF_vars(NotifyDone)
    /\ \A i \in Accepted : WF_vars(Age(i))

FairSpec == Spec /\ Fairness

-----------------------------------------------------------------------------
(***************************************************************************)
(* Properties.                                                             *)
(***************************************************************************)
\* Types; marks, interests and times are those of registered descriptors.
TypeOK ==
    /\ kernel \in [Fds -> Kind \cup Threads \cup {Free}]
    /\ item \in [Fds -> Kind \cup {Unused}]
    /\ partner \in [Fds -> Fds \cup {NoFd}]
    /\ watched \subseteq Fds /\ fresh \subseteq Fds
    /\ ignored \subseteq Fds /\ marked \subseteq Fds
    /\ phase \in Phase /\ at \in Fds
    /\ socket \in [Threads -> Fds \cup {NoFd}]
    /\ finished \in BOOLEAN /\ quit \in BOOLEAN
    /\ split \in BOOLEAN /\ robbed \in BOOLEAN /\ stray \subseteq Fds
    /\ \A i \in watched \cup marked : Registered(i)
    /\ \A i \in fresh : Leg(i)

\* Nobody closes a number of somebody else, neither the main thread one of a resolver
\* thread's sockets, of a monitor session or of another connection, nor a thread one
\* of theirs, but after a monitor client has sent QUIT, or the sweep has dropped a
\* single leg of a connection.  Until it happens the table agrees with the kernel:
\* what is registered and not marked is open and the registrant's, and what the main
\* thread has open is registered.
DescriptorsStayWithTheirOwners ==
    /\ robbed => quit \/ split
    /\ ~robbed => \A i \in Fds :
         /\ Registered(i) /\ i \notin marked => kernel[i] = item[i]
         /\ kernel[i] \in Kind => item[i] = kernel[i] \/ (phase = "close" /\ at = i)

\* A SOCKS descriptor inherits an exemption from the timeout only with a number that
\* a failed accept of the monitor has left exempt.  No other number it can get still
\* is: the monitor client that had it before has cleared it (remove_ignored_fd), and
\* the listeners are served before the numbers that a QUIT frees in the same turn.
ExemptionsLeakOnlyByFailedAccepts ==
    ~robbed => \A i \in ignored : Leg(i) => i \in stray

\* A SOCKS descriptor on which nothing happens is dropped, parked or not, unless its
\* number was left exempt or the numbers are mixed up; and whatever the state of the
\* descriptors, with a pselect that fails in every turn too, the loop comes back to
\* its test of the signal's flag.
TimeoutsWorkAndTurnsEnd ==
    /\ \A i \in Accepted :
         (Leg(i) /\ i \notin fresh \cup stray /\ ~robbed)
           ~> (~Leg(i) \/ i \in fresh \cup stray \/ robbed)
    /\ []<>(phase \in { "test", "stopped" })
=============================================================================
