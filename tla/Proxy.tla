------------------------------- MODULE Proxy -------------------------------
(***************************************************************************)
(* The SOCKS proxy process: the select loop of utils/selector.c driven by  *)
(* server.c, the connections of socks5_handler.c with the handlers of      *)
(* states/state_*.c, the resolver threads of state_resolve.c and the       *)
(* gauges of metrics.c that a connection touches.                          *)
(*                                                                         *)
(* One step is one thing the kernel can tell apart: a whole handler called *)
(* by the loop, one sweep for expired descriptors, one return of pselect,  *)
(* or one step of a resolver thread, which runs at any point in between.   *)
(* What peers send is abstracted to the outcomes of recv, send, connect    *)
(* and getaddrinfo that the handlers distinguish.  Env lists the peer      *)
(* behaviours an instance admits.                                          *)
(***************************************************************************)
EXTENDS Integers, FiniteSets, Sequences

CONSTANTS
    Conns,          \* heap blocks malloc can return for a socks5_connection
    NoConn,         \* no connection
    Threads,        \* resolver threads the process can have at one time
    MaxFd,          \* highest descriptor the process can open
    MaxItem,        \* highest descriptor the selector holds (FD_SETSIZE - 1)
    MaxAddrs,       \* longest list of addresses a name resolves to
    MaxConnections, \* MAX_CONNECTIONS of metrics.c, where counting stops
    Users,          \* the names that can authenticate
    Env             \* the behaviours of peers and clock of this instance

Behaviours ==
    { "anonymous", "auth", "bad_password", "bad_auth_version", "ipv4",
      "domain", "unsupported", "hang_up", "broken_pipe", "connect_fails",
      "partial", "time" }

ASSUME ProxyAssumption ==
    /\ NoConn \notin Conns
    /\ MaxFd \in Nat \ {0}
    /\ MaxItem \in Nat
    /\ MaxAddrs \in Nat \ {0}
    /\ MaxConnections \in Nat
    /\ Env \subseteq Behaviours

VARIABLES
    proc,       \* what the handlers work on: see TypeOK
    phase,      \* where selector_select is: sweep, poll, iterate or block
    ready,      \* slave_r and slave_w: what each descriptor is still to be
                \* offered in this iteration
    jobs,       \* resolution_jobs, the newest first
    alarm,      \* SIGALRM is pending for the selector's thread
    resolver    \* the resolver threads

vars == << proc, phase, ready, jobs, alarm, resolver >>

\* Descriptor 0 is the listening socket: main closes stdin before it opens it.
Listener == 0
Fds      == 1 .. MaxFd
NoFd     == -1
Interest == { "noop", "read", "write" }

States ==
    { "hello", "hello_to_auth", "auth", "auth_failed", "request",
      "resolve", "connect", "forwarding" }

\* socks5_states: which states have a handler for which event.
Readable == { "hello", "auth", "request", "forwarding" }
Writable == { "hello", "hello_to_auth", "auth", "auth_failed", "request",
              "connect", "forwarding" }

NoName    == ""
Anonymous == "Anonymous"
Names     == Users \cup { Anonymous, NoName }

Item ==
    [ owner    : Conns \cup {NoConn},   \* data; NoConn if the slot is free
      interest : Interest,
      late     : BOOLEAN ]              \* tv is over connect_timeout ago

Connection ==
    [ state  : States,              \* stm.current
      client : Fds \cup {NoFd},     \* client_fd
      origin : Fds \cup {NoFd},     \* origin_fd
      refs   : Nat,                 \* references; the block is free at 0
      res    : { "junk", "null", "list" },      \* origin_res
      addrs  : 0 .. MaxAddrs,       \* addresses left from origin_res_it on
      status : { "pending", "ok", "fail" },     \* resolve_status
      reply  : { "none", "method", "auth", "granted", "refused", "data" },
                                    \* what write_buffer still has to send
      upload : BOOLEAN,             \* origin_write_buffer has bytes to send
      user   : Names ]              \* username

Process ==
    [ conn    : [Conns -> Connection],
      item    : [Fds -> Item],              \* the selector's table
      open    : SUBSET Fds,                 \* descriptors open in the kernel
      current : 0 .. MaxConnections,        \* current_connections
      active  : SUBSET Names,               \* names in active_users
      crash   : { "no", "abort", "sigpipe", "undefined" } ]

Unused == [ owner |-> NoConn, interest |-> "noop", late |-> FALSE ]

\* A block that was freed: the allocator leaves most of its bytes as they were.
Freed(r) ==
    [ state |-> "hello", client |-> r.client, origin |-> NoFd,
      refs |-> 0, res |-> "junk", addrs |-> 0, status |-> "pending",
      reply |-> "none", upload |-> FALSE, user |-> r.user ]

-----------------------------------------------------------------------------
(***************************************************************************)
(* The selector's table, as functions of the process state p.              *)
(***************************************************************************)
Registered(p, f) == f \in Fds /\ p.item[f].owner # NoConn

Held(p, c) == { f \in Fds : p.item[f].owner = c }

Live(p, c) == p.conn[c].refs > 0

\* selector_set_interest on a registered descriptor; only an interest in an
\* event renews the timestamp (items_update_fdset_for_fd).
SetInterest(p, f, i) ==
    [p EXCEPT !.item[f] = [ owner    |-> @.owner,
                            interest |-> i,
                            late     |-> IF i = "noop" THEN @.late ELSE FALSE ]]

\* gettimeofday(&item->tv) after a handler ran.
Stamp(p, f) ==
    IF Registered(p, f) THEN [p EXCEPT !.item[f].late = FALSE] ELSE p

Crash(p, why) == [p EXCEPT !.crash = why]

\* socks5_stm_close for each descriptor of fs: the address list and one
\* reference go; the connection is freed with its last reference.
Dropped(p, fs) ==
    [c \in Conns |->
        LET k == Cardinality(Held(p, c) \cap fs) IN
        IF k = 0 THEN p.conn[c]
        ELSE IF p.conn[c].refs > k
             THEN [p.conn[c] EXCEPT !.refs = @ - k, !.res = "null"]
             ELSE Freed(p.conn[c])]

\* (faulty variant for the mutation tests: close is forgotten)
UnregisteredOnly(p, fs) ==
    [p EXCEPT !.conn = Dropped(p, fs),
              !.item = [f \in Fds |-> IF f \in fs THEN Unused ELSE p.item[f]]]

\* selector_unregister_fd and close, for each registered descriptor of fs.
Closed(p, fs) ==
    [p EXCEPT !.conn = Dropped(p, fs),
              !.item = [f \in Fds |-> IF f \in fs THEN Unused ELSE p.item[f]],
              !.open = @ \ fs]

\* The lowest free descriptor, as the kernel hands them out.
FreeFds(p) == Fds \ p.open
NewFd(p)   == CHOOSE f \in FreeFds(p) : \A g \in FreeFds(p) : f <= g

-----------------------------------------------------------------------------
(***************************************************************************)
(* socks5_handler.c and states/state_*.c.  A handler of connection c,      *)
(* called for descriptor f, is the set of process states it can leave.     *)
(***************************************************************************)
\* (faulty variant for the mutation tests: metrics_connection_end is missing)
FinishUncounted(p, c) ==
    LET fs == { p.conn[c].client, p.conn[c].origin } \ {NoFd}
        q  == [p EXCEPT !.active = @ \ { p.conn[c].user }]
    IN  IF \A f \in fs : Registered(p, f) THEN Closed(q, fs)
                                          ELSE Crash(q, "abort")

\* (faulty variant for the mutation tests: metrics_connection_end does not
\* stop at zero)
FinishUnderflow(p, c) ==
    LET fs == { p.conn[c].client, p.conn[c].origin } \ {NoFd}
        q  == [p EXCEPT !.current = @ - 1, !.active = @ \ { p.conn[c].user }]
    IN  IF \A f \in fs : Registered(p, f) THEN Closed(q, fs)
                                          ELSE Crash(q, "abort")

\* (faulty variant for the mutation tests: metrics_remove_user is missing)
FinishListed(p, c) ==
    LET fs == { p.conn[c].client, p.conn[c].origin } \ {NoFd}
        q  == [p EXCEPT !.current = IF @ > 0 THEN @ - 1 ELSE 0]
    IN  IF \A f \in fs : Registered(p, f) THEN Closed(q, fs)
                                          ELSE Crash(q, "abort")

\* finish: called when a handler returned STATE_DONE or STATE_ERROR.  The
\* name goes from the list even if other connections of that user remain.
Finish(p, c) ==
    LET fs == { p.conn[c].client, p.conn[c].origin } \ {NoFd}
        q  == [p EXCEPT !.current = IF @ > 0 THEN @ - 1 ELSE 0,
                        !.active = @ \ { p.conn[c].user }]
    IN  IF \A f \in fs : Registered(p, f) THEN Closed(q, fs)
                                          ELSE Crash(q, "abort")

\* What send() can do beside accepting everything, when rest is the state the
\* handler leaves if nothing or only a part was accepted.  Sending to a peer
\* that closed raises SIGPIPE, which nothing in the server handles.
SendFailures(p, c) ==
    {Finish(p, c)} \cup
    IF "broken_pipe" \in Env THEN {Crash(p, "sigpipe")} ELSE {}

\* hello_write_aux and auth_write_aux: the reply is sent, now or later.
Respond(p, f, c, current, next, interest) ==
    IF p.conn[c].reply = "none" THEN {p}
    ELSE { SetInterest([p EXCEPT !.conn[c].reply = "none",
                                 !.conn[c].state = next], f, interest) }
         \cup (IF "partial" \in Env
                 THEN {[p EXCEPT !.conn[c].state = current]} ELSE {})
         \cup SendFailures(p, c)

HelloWrite(p, f, c)       == Respond(p, f, c, "hello", "request", "read")
HelloToAuthWrite(p, f, c) == Respond(p, f, c, "hello_to_auth", "auth", "read")
AuthWrite(p, f, c)        == Respond(p, f, c, "auth", "request", "read")

\* auth_failed_write leaves the interest as it is: OP_WRITE.
AuthFailedWrite(p, f, c) ==
    IF p.conn[c].reply = "none"
      THEN {[p EXCEPT !.conn[c].state = "auth"]}
      ELSE Respond(p, f, c, "auth_failed", "hello_to_auth", "write")

\* metrics_add_user and the name kept in the connection.
Named(p, c, u) ==
    [p EXCEPT !.conn[c].user = u, !.active = @ \cup {u}]

\* A reply was put in write_buffer and OP_WRITE set on the client.
Replying(p, f, c, r) ==
    SetInterest([p EXCEPT !.conn[c].reply = r], f, "write")

\* The client closed, the connection broke or the message is malformed.
HangUp(p, c) == IF "hang_up" \in Env THEN {Finish(p, c)} ELSE {}

\* hello_read: wait for the rest, hang up, or choose a method and answer.
HelloRead(p, f, c) ==
    {p} \cup HangUp(p, c)
    \cup (IF "anonymous" \in Env
            THEN HelloWrite(Named(Replying(p, f, c, "method"), c, Anonymous), f, c)
            ELSE {})
    \cup (IF "auth" \in Env
            THEN HelloToAuthWrite(Replying(p, f, c, "method"), f, c)
            ELSE {})

\* auth_read: whatever arrived is taken for the whole message.  A wrong
\* version makes it return -1, which jump in stm.c answers with abort.
AuthRead(p, f, c) ==
    HangUp(p, c)
    \cup (IF "bad_auth_version" \in Env THEN {Crash(p, "abort")} ELSE {})
    \cup (IF "bad_password" \in Env
            THEN AuthFailedWrite(Replying(p, f, c, "auth"), f, c) ELSE {})
    \cup UNION { AuthWrite(Named(Replying(p, f, c, "auth"), c, u), f, c) : u \in Users }

-----------------------------------------------------------------------------
\* (faulty variant for the mutation tests: the reference is not counted)
OpenedUncounted(p, c, left) ==
    LET g == NewFd(p)
    IN  [p EXCEPT !.open = @ \cup {g},
                  !.item[g] = [ owner |-> c, interest |-> "write", late |-> FALSE ],
                  !.conn[c].addrs = left,
                  !.conn[c].origin = g,
                  !.conn[c].state = "connect"]

\* A new origin socket for the address that has left - 1 successors: it is
\* registered for OP_WRITE, or the table cannot hold it and the handler fails.
Opened(p, c, left) ==
    LET g == NewFd(p)
        q == [p EXCEPT !.conn[c].addrs = left]
        r == [q.conn[c] EXCEPT !.origin = g, !.refs = @ + 1, !.state = "connect"]
    IN  IF g > MaxItem \/ Registered(p, g)
          THEN Finish(q, c)
          ELSE [q EXCEPT !.open = @ \cup {g},
                         !.item[g] = [ owner |-> c, interest |-> "write", late |-> FALSE ],
                         !.conn[c] = r]

\* No address is left: HOST_UNREACHABLE, with OP_WRITE on the descriptor the
\* handler was called for, which may not be registered any more.
Exhausted(p, f, c) ==
    LET q == [p EXCEPT !.conn[c] = [@ EXCEPT !.reply = "refused", !.res = "null",
                                             !.addrs = 0, !.state = "request"]]
    IN  IF Registered(p, f) THEN SetInterest(q, f, "write") ELSE q

\* The loop of connect_write without an origin descriptor: any number of
\* addresses is skipped because socket() or connect() fails at once.  Walking
\* a list that was freed is undefined; mostly its bytes are still there.
TryAddresses(p, f, c) ==
    LET n == p.conn[c].addrs IN
    {Exhausted(p, f, c)}
    \cup (IF FreeFds(p) = {} THEN {} ELSE { Opened(p, c, left) : left \in 1 .. n })
    \cup (IF p.conn[c].res = "null" /\ n > 0 THEN {Crash(p, "undefined")} ELSE {})

\* (faulty variant for the mutation tests: the failed origin descriptor is
\* forgotten, and neither unregistered nor closed)
NextAddressForgets(p, f, c) ==
    TryAddresses([p EXCEPT !.conn[c] = [@ EXCEPT !.origin = NoFd, !.addrs = @ - 1]], f, c)

\* (faulty variant for the mutation tests: origin_fd keeps the number of the
\* descriptor that was closed)
NextAddressStale(p, f, c) ==
    LET q == Closed(p, {p.conn[c].origin})
        r == [q.conn[c] EXCEPT !.addrs = @ - 1]
    IN  IF Live(q, c) THEN TryAddresses([q EXCEPT !.conn[c] = r], f, c) ELSE {}

\* connect_write, the attempt failed: the origin is unregistered, which frees
\* the list (and the connection with its last reference), and the iterator
\* moves on within the freed list.
NextAddress(p, f, c) ==
    LET o == p.conn[c].origin
        q == Closed(p, {o})
        r == [q.conn[c] EXCEPT !.origin = NoFd, !.addrs = @ - 1]
    IN  {Crash(q, "undefined")} \cup
        IF Live(q, c) THEN TryAddresses([q EXCEPT !.conn[c] = r], f, c) ELSE {}

\* connect_write, the attempt succeeded.  When the client is not registered
\* any more the origin is closed but stays registered.
Connected(p, c) ==
    LET r == p.conn[c] IN
    IF Registered(p, r.client)
      THEN SetInterest([p EXCEPT !.conn[c] =
                           [@ EXCEPT !.reply = "granted", !.res = "null",
                                     !.addrs = 0, !.state = "request"]],
                       r.client, "write")
      ELSE Finish([p EXCEPT !.conn[c].origin = NoFd, !.open = @ \ {r.origin}], c)

\* connect_write: without an origin descriptor it tries the addresses that
\* are left, with one it asks SO_ERROR how the attempt ended.
ConnectWrite(p, f, c) ==
    IF p.conn[c].addrs = 0 \/ p.conn[c].origin = NoFd
      THEN TryAddresses(p, f, c)
      ELSE {Connected(p, c)} \cup
           IF "connect_fails" \in Env THEN NextAddress(p, f, c) ELSE {}

\* (faulty variant for the mutation tests: origin_res is not assigned)
ConnectUnlisted(p, f, c, n) ==
    ConnectWrite(SetInterest([p EXCEPT !.conn[c].addrs = n], f, "noop"), f, c)

\* create_ipv4_res and create_ipv6_res: a list of one address.
\* resolution_block after getaddrinfo succeeded: a list of n addresses.
Connect(p, f, c, n) ==
    LET q == [p EXCEPT !.conn[c] = [@ EXCEPT !.res = "list", !.addrs = n]]
    IN  ConnectWrite(SetInterest(q, f, "noop"), f, c)

\* request_read, but for a domain name, which starts a thread: see RequestRead.
\* An unsupported command or address type gets its reply.
RequestOther(p, f, c) ==
    HangUp(p, c)
    \cup (IF "partial" \in Env THEN {p} ELSE {})
    \cup (IF "unsupported" \in Env
            THEN {Replying(p, f, c, "refused")} ELSE {})
    \cup (IF "ipv4" \in Env THEN Connect(p, f, c, 1) ELSE {})

\* (faulty variant for the mutation tests: after a failed resolution the
\* connection goes on waiting for one)
ResolutionBlockStays(p, f, c) ==
    IF p.conn[c].status # "ok" \/ p.conn[c].res # "list"
      THEN {Replying(p, f, c, "refused")}
      ELSE UNION { Connect(p, f, c, n) : n \in 1 .. MaxAddrs }

\* resolution_block: the answer of the resolver thread.
ResolutionBlock(p, f, c) ==
    IF p.conn[c].status # "ok" \/ p.conn[c].res # "list"
      THEN {[Replying(p, f, c, "refused") EXCEPT !.conn[c].state = "request"]}
      ELSE UNION { Connect(p, f, c, n) : n \in 1 .. MaxAddrs }

\* Both legs of an established connection get an interest; if one of them is
\* not registered the handler fails.
BothInterests(p, c, f, i, g, j) ==
    IF Registered(p, f) /\ Registered(p, g)
      THEN SetInterest(SetInterest(p, f, i), g, j)
      ELSE Finish(p, c)

\* request_write, called for the client and, after a successful connect, also
\* for the origin, whose interest is still OP_WRITE.
RequestWrite(p, f, c) ==
    LET r == p.conn[c]
        q == [p EXCEPT !.conn[c].reply = "none", !.conn[c].state = "forwarding"]
    IN  SendFailures(p, c) \cup
        IF r.client \notin p.open THEN {}
        ELSE (IF "partial" \in Env THEN {p} ELSE {}) \cup
             { IF r.origin = NoFd THEN Finish(p, c)
               ELSE BothInterests(q, c, r.client, "read", r.origin, "read") }

Other(r, f) == IF f = r.client THEN r.origin ELSE r.client

\* Bytes read from f wait in the buffer towards the other leg.
Waiting(p, f, c) ==
    IF f = p.conn[c].client THEN p.conn[c].upload ELSE p.conn[c].reply = "data"

SetWaiting(p, f, c, b) ==
    IF f = p.conn[c].client
      THEN [p EXCEPT !.conn[c].upload = b]
      ELSE [p EXCEPT !.conn[c].reply = IF b THEN "data" ELSE "none"]

\* forward_read: the buffer is full, nothing can be read, the peer closed, or
\* bytes are read and as many as the other leg takes are sent.
ForwardRead(p, f, c) ==
    LET g == Other(p.conn[c], f) IN
    {p} \cup HangUp(p, c) \cup SendFailures(p, c)
    \cup (IF Waiting(p, f, c)
            THEN {BothInterests(p, c, f, "noop", g, "write")} ELSE {})
    \cup { BothInterests(SetWaiting(p, f, c, b), c,
                         f, "read", g, IF b THEN "write" ELSE "read")
             : b \in IF "partial" \in Env THEN BOOLEAN ELSE {FALSE} }

\* (faulty variant for the mutation tests: the reader parked by a full buffer
\* is not woken when the buffer has been drained)
ForwardWriteNoWake(p, f, c) ==
    LET g == Other(p.conn[c], f) IN
    {p} \cup SendFailures(p, c)
    \cup { [SetWaiting(p, g, c, FALSE) EXCEPT !.item[f].interest = "read"] }

\* forward_write: nothing to send, nothing accepted, or a part was accepted.
ForwardWrite(p, f, c) ==
    LET g == Other(p.conn[c], f) IN
    IF ~Waiting(p, g, c)
      THEN {BothInterests(p, c, f, "read", g, "read")}
      ELSE {p} \cup SendFailures(p, c)
           \cup { BothInterests(SetWaiting(p, g, c, b), c,
                                f, IF b THEN "write" ELSE "read",
                                g, IF Waiting(p, f, c) THEN "write" ELSE "read")
                    : b \in BOOLEAN }

-----------------------------------------------------------------------------
(***************************************************************************)
(* The loop: server.c calls selector_select for ever, which sweeps, polls, *)
(* handles what is ready and then the finished resolutions.                *)
(***************************************************************************)
Running == proc.crash = "no"

NothingReady == [f \in Fds \cup {Listener} |-> "noop"]

Init ==
    /\ proc = [ conn    |-> [c \in Conns |->
                               Freed([client |-> NoFd, user |-> NoName])],
                item    |-> [f \in Fds |-> Unused],
                open    |-> {},
                current |-> 0,
                active  |-> {},
                crash   |-> "no" ]
    /\ phase = "sweep"
    /\ ready = NothingReady
    /\ jobs = << >>
    /\ alarm = FALSE
    /\ resolver = [t \in Threads |-> [ pc |-> "idle", conn |-> NoConn ]]

\* (faulty variant for the mutation tests: only descriptors in the master sets
\* are looked at)
SweepInterested ==
    /\ Running
    /\ phase = "sweep"
    /\ proc' = Closed(proc, { f \in Fds : /\ Registered(proc, f)
                                          /\ proc.item[f].interest # "noop"
                                          /\ proc.item[f].late })
    /\ phase' = "poll"
    /\ UNCHANGED << ready, jobs, alarm, resolver >>

\* Descriptors that were silent for longer than connect_timeout are dropped,
\* without finish: no metric learns of it.  Listeners are never too old.
Sweep ==
    /\ Running
    /\ phase = "sweep"
    /\ proc' = Closed(proc, { f \in Fds : /\ Registered(proc, f)
                                          /\ proc.item[f].late })
    /\ phase' = "poll"
    /\ UNCHANGED << ready, jobs, alarm, resolver >>

\* pselect returns: what is in the master sets may be ready.
Poll ==
    /\ Running
    /\ phase = "poll"
    /\ ready' = [f \in Fds \cup {Listener} |->
                    IF f = Listener THEN "read" ELSE proc.item[f].interest]
    /\ phase' = "iterate"
    /\ UNCHANGED << proc, jobs, alarm, resolver >>

\* (faulty variant for the mutation tests: an interrupted pselect skips the
\* notifications)
InterruptedNoBlock ==
    /\ Running
    /\ phase = "poll"
    /\ alarm
    /\ alarm' = FALSE
    /\ phase' = "sweep"
    /\ UNCHANGED << proc, ready, jobs, resolver >>

\* SIGALRM, blocked elsewhere, interrupts pselect: EINTR, nothing is handled
\* but the notifications.
Interrupted ==
    /\ Running
    /\ phase = "poll"
    /\ alarm
    /\ alarm' = FALSE
    /\ phase' = "block"
    /\ UNCHANGED << proc, ready, jobs, resolver >>

\* Time passes: connect_timeout has gone by since f was stamped.  Only the
\* sweep looks at it, so that it is enough to tell when pselect sleeps.  Which
\* of two descriptors gets old first is left free.
Tick(f) ==
    /\ Running
    /\ phase = "poll"
    /\ "time" \in Env
    /\ Registered(proc, f)
    /\ ~proc.item[f].late
    /\ proc' = [proc EXCEPT !.item[f].late = TRUE]
    /\ UNCHANGED << phase, ready, jobs, alarm, resolver >>

\* (faulty variant for the mutation tests: the notifications are handled only
\* when a signal interrupted pselect)
EndIterationNoBlock ==
    /\ Running
    /\ phase = "iterate"
    /\ ready' = NothingReady
    /\ phase' = "sweep"
    /\ UNCHANGED << proc, jobs, alarm, resolver >>

\* handle_iteration has no more ready descriptors to visit.
EndIteration ==
    /\ Running
    /\ phase = "iterate"
    /\ ready' = NothingReady
    /\ phase' = "block"
    /\ UNCHANGED << proc, jobs, alarm, resolver >>

-----------------------------------------------------------------------------
\* handle_iteration comes to f, which pselect reported for ev and which is
\* still (or again) registered with that interest.
Visit(f, ev) ==
    /\ Running
    /\ phase = "iterate"
    /\ ready[f] = ev
    /\ proc.item[f].owner # NoConn
    /\ proc.item[f].interest = ev

\* The handler for f ran: descriptors up to f have been visited, and f is
\* stamped if it is still registered.
Handled(f, outcomes) ==
    /\ \E p \in outcomes : proc' = Stamp(p, f)
    /\ ready' = [g \in Fds \cup {Listener} |-> IF g > f THEN ready[g] ELSE "noop"]
    /\ UNCHANGED << phase, jobs, alarm >>

Owner(f) == proc.item[f].owner
State(f) == proc.conn[Owner(f)].state

\* accept_connection got descriptor f and block c, whose bytes are those of
\* the connection that was there before, or anything else.
Accepted(c, name) ==
    LET f == NewFd(proc) IN
    IF f > MaxItem
      THEN proc
      ELSE [proc EXCEPT
             !.open = @ \cup {f},
             !.item[f] = [ owner |-> c, interest |-> "read", late |-> FALSE ],
             !.conn[c] = [ @ EXCEPT !.client = f, !.refs = 1, !.user = name ],
             !.current = IF @ < MaxConnections THEN @ + 1 ELSE @]

\* accept_connection: refused by accept or malloc, or a new connection.  The
\* table refuses a descriptor beyond FD_SETSIZE, and then it is closed.
AcceptConnection ==
    /\ Running
    /\ phase = "iterate"
    /\ ready[Listener] = "read"
    /\ \/ proc' = proc
       \/ /\ FreeFds(proc) # {}
          /\ \E c \in Conns :
                /\ ~Live(proc, c)
                /\ \E name \in { proc.conn[c].user, NoName } :
                      proc' = Accepted(c, name)
    /\ ready' = [ready EXCEPT ![Listener] = "noop"]
    /\ UNCHANGED << phase, jobs, alarm, resolver >>

ReadReady(f) ==
    /\ Visit(f, "read")
    /\ UNCHANGED resolver
    /\ \/ /\ State(f) = "hello"
          /\ Handled(f, HelloRead(proc, f, Owner(f)))
       \/ /\ State(f) = "auth"
          /\ Handled(f, AuthRead(proc, f, Owner(f)))
       \/ /\ State(f) = "request"
          /\ Handled(f, RequestOther(proc, f, Owner(f)))
       \/ /\ State(f) = "forwarding"
          /\ Handled(f, ForwardRead(proc, f, Owner(f)))
       \/ /\ State(f) \notin Readable      \* stm_handler_read aborts
          /\ Handled(f, {Crash(proc, "abort")})

\* request_read for a domain name: resolve_init starts a thread, or fails if
\* it cannot.  The client keeps its interest in reading.
RequestDomain(f) ==
    /\ Visit(f, "read")
    /\ State(f) = "request"
    /\ "domain" \in Env
    /\ \/ \E t \in Threads :
             /\ resolver[t].pc = "idle"
             /\ resolver' = [resolver EXCEPT
                               ![t] = [ pc |-> "lookup", conn |-> Owner(f) ]]
             /\ Handled(f, {[proc EXCEPT !.conn[Owner(f)].status = "pending",
                                         !.conn[Owner(f)].state = "resolve"]})
       \/ /\ \A t \in Threads : resolver[t].pc # "idle"
          /\ Handled(f, {Finish(proc, Owner(f))})
          /\ UNCHANGED resolver

WriteReady(f) ==
    /\ Visit(f, "write")
    /\ UNCHANGED resolver
    /\ \/ /\ State(f) = "hello"
          /\ Handled(f, HelloWrite(proc, f, Owner(f)))
       \/ /\ State(f) = "hello_to_auth"
          /\ Handled(f, HelloToAuthWrite(proc, f, Owner(f)))
       \/ /\ State(f) = "auth"
          /\ Handled(f, AuthWrite(proc, f, Owner(f)))
       \/ /\ State(f) = "auth_failed"
          /\ Handled(f, AuthFailedWrite(proc, f, Owner(f)))
       \/ /\ State(f) = "request"
          /\ Handled(f, RequestWrite(proc, f, Owner(f)))
       \/ /\ State(f) = "connect"
          /\ Handled(f, ConnectWrite(proc, f, Owner(f)))
       \/ /\ State(f) = "forwarding"
          /\ Handled(f, ForwardWrite(proc, f, Owner(f)))
       \/ /\ State(f) \notin Writable      \* stm_handler_write aborts
          /\ Handled(f, {Crash(proc, "abort")})

-----------------------------------------------------------------------------
(***************************************************************************)
(* The resolver threads and their notifications.                           *)
(***************************************************************************)
\* handle_block_notifications, one job, with resolution_mutex held: whoever
\* owns the descriptor now is told.  A state without a handler aborts.
NotifyBlock ==
    /\ Running
    /\ phase = "block"
    /\ jobs # << >>
    /\ LET f == Head(jobs) IN
       IF Registered(proc, f)
         THEN proc' \in IF State(f) = "resolve"
                          THEN ResolutionBlock(proc, f, Owner(f))
                          ELSE {Crash(proc, "abort")}
         ELSE UNCHANGED proc
    /\ jobs' = Tail(jobs)
    /\ UNCHANGED << phase, ready, alarm, resolver >>

EndBlock ==
    /\ Running
    /\ phase = "block"
    /\ jobs = << >>
    /\ phase' = "sweep"
    /\ UNCHANGED << proc, ready, jobs, alarm, resolver >>

\* getaddrinfo returned and its results are stored in the connection, which
\* may have been freed, and then either nothing is hit or anything is.
Lookup(t) ==
    /\ Running
    /\ resolver[t].pc = "lookup"
    /\ LET c == resolver[t].conn IN
       IF Live(proc, c)
         THEN \/ proc' = [proc EXCEPT !.conn[c].res = "list", !.conn[c].status = "ok"]
              \/ proc' = [proc EXCEPT !.conn[c].status = "fail"]
         ELSE proc' \in {proc, Crash(proc, "undefined")}
    /\ resolver' = [resolver EXCEPT ![t].pc = "notify"]
    /\ UNCHANGED << phase, ready, jobs, alarm >>

\* selector_notify_block, under the mutex: a job for the descriptor that the
\* connection names now.
PushJob(t) ==
    /\ Running
    /\ resolver[t].pc = "notify"
    /\ phase # "block"
    /\ jobs' = << proc.conn[resolver[t].conn].client >> \o jobs
    /\ resolver' = [resolver EXCEPT ![t].pc = "signal"]
    /\ UNCHANGED << proc, phase, ready, alarm >>

\* selector_notify_block, after the mutex: pthread_kill, and the thread ends.
Signal(t) ==
    /\ Running
    /\ resolver[t].pc = "signal"
    /\ alarm' = TRUE
    /\ resolver' = [resolver EXCEPT ![t] = [ pc |-> "idle", conn |-> NoConn ]]
    /\ UNCHANGED << proc, phase, ready, jobs >>

\* The process is gone.
Dead == ~Running /\ UNCHANGED vars

-----------------------------------------------------------------------------
Loop ==
    \/ Sweep
    \/ Poll
    \/ Interrupted
    \/ AcceptConnection
    \/ \E f \in Fds : ReadReady(f)
    \/ \E f \in Fds : RequestDomain(f)
    \/ \E f \in Fds : WriteReady(f)
    \/ EndIteration
    \/ NotifyBlock
    \/ EndBlock

Resolving(t) == Lookup(t) \/ PushJob(t) \/ Signal(t)

Next ==
    \/ Loop
    \/ \E f \in Fds : Tick(f)
    \/ \E t \in Threads : Resolving(t)
    \/ Dead

Spec == Init /\ [][Next]_vars

(***************************************************************************)
(* Fairness: the main thread never blocks outside pselect, and pselect     *)
(* returns at the latest after the timeout.  The kernel schedules every    *)
(* thread and getaddrinfo gives up by itself; the mutex is free whenever   *)
(* the main thread is not in the block phase, so that a thread that asks   *)
(* for it again and again gets it.  Time passes in every turn of the loop. *)
(***************************************************************************)
Fairness ==
    /\ WF_vars(Loop)
    /\ \A t \in Threads : SF_vars(Resolving(t))
    /\ \A f \in Fds : SF_vars(Tick(f))

FairSpec == Spec /\ Fairness

-----------------------------------------------------------------------------
(***************************************************************************)
(* Properties.                                                             *)
(***************************************************************************)
\* Every variable has its type.
TypeOK ==
    /\ proc \in Process
    /\ phase \in { "sweep", "poll", "iterate", "block" }
    /\ ready \in [Fds \cup {Listener} -> Interest]
    /\ jobs \in Seq(Fds)
    /\ alarm \in BOOLEAN
    /\ resolver \in [Threads -> [ pc   : { "idle", "lookup", "notify", "signal" },
                                  conn : Conns \cup {NoConn} ]]

(***************************************************************************)
(* references counts exactly the descriptors registered for a connection.  *)
(* So no registered descriptor names a freed connection, whatever handler, *)
(* timeout or failure unregistered the others (socks5_stm_close).          *)
(***************************************************************************)
RefsMatch ==
    \A c \in Conns : proc.conn[c].refs = Cardinality(Held(proc, c))

(***************************************************************************)
(* As long as the process runs, the selector's table and the kernel agree: *)
(* no descriptor leaks and pselect never meets EBADF (selector.c:691).     *)
(***************************************************************************)
RegisteredIsOpen ==
    Running => proc.open = { f \in Fds : Registered(proc, f) }

(***************************************************************************)
(* A descriptor is registered for a connection only while the connection   *)
(* knows it, as client_fd or as origin_fd: finish closes all there is.     *)
(***************************************************************************)
OwnersKnowTheirFds ==
    Running => \A f \in Fds : Registered(proc, f) =>
        LET r == proc.conn[proc.item[f].owner] IN f \in { r.client, r.origin }

(***************************************************************************)
(* malloc leaves origin_res undefined and socks5_stm_close frees it when   *)
(* there is an origin: by then it has always been assigned.                *)
(***************************************************************************)
NoJunkFreed ==
    \A c \in Conns :
        proc.conn[c].origin # NoFd => proc.conn[c].res # "junk"

(***************************************************************************)
(* pselect is never entered with a finished resolution in the queue and no *)
(* signal pending or on its way: the answer waits for no timeout.          *)
(***************************************************************************)
NoSleepOnQueuedJob ==
    Running /\ phase = "poll" /\ jobs # << >> =>
        alarm \/ \E t \in Threads : resolver[t].pc = "signal"

(***************************************************************************)
(* Without timeouts, the descriptors a connection names are registered,    *)
(* and for this connection.                                                *)
(***************************************************************************)
LegsRegistered ==
    Running => \A c \in Conns : Live(proc, c) =>
        /\ proc.item[proc.conn[c].client].owner = c
        /\ proc.conn[c].origin # NoFd => proc.item[proc.conn[c].origin].owner = c

(***************************************************************************)
(* Without timeouts, a connection waits for a resolution exactly while a   *)
(* thread works on it or its answer is queued: none is lost and none finds *)
(* another connection, or one in another state.                            *)
(***************************************************************************)
ResolutionsMatch ==
    Running =>
    LET working(c) == \E t \in Threads : /\ resolver[t].conn = c
                                         /\ resolver[t].pc \in { "lookup", "notify" }
        queued(c)  == \E i \in 1 .. Len(jobs) : jobs[i] = proc.conn[c].client
    IN  /\ \A c \in Conns : Live(proc, c) =>
               (proc.conn[c].state = "resolve" <=> working(c) \/ queued(c))
        /\ \A t \in Threads :
               resolver[t].pc \in { "lookup", "notify" } => Live(proc, resolver[t].conn)

(***************************************************************************)
(* Without timeouts, current_connections is the number of connections.     *)
(***************************************************************************)
CurrentCountsLive ==
    Running => proc.current = Cardinality({ c \in Conns : Live(proc, c) })

(***************************************************************************)
(* Without timeouts, every name in active_users belongs to a connection.   *)
(***************************************************************************)
ListedUsersAreConnected ==
    \A u \in proc.active :
        \E c \in Conns : Live(proc, c) /\ proc.conn[c].user = u

(***************************************************************************)
(* Without timeouts, a relayed connection never falls asleep with both     *)
(* peers alive: pending bytes have a writer, no direction waits for the    *)
(* other's, and with nothing pending both sides are read.                  *)
(***************************************************************************)
RelayHasDriver ==
    Running => \A c \in Conns : proc.conn[c].state = "forwarding" =>
        LET r == proc.conn[c]
            client == proc.item[r.client].interest
            origin == proc.item[r.origin].interest
        IN  /\ ~(r.upload /\ r.reply = "data")
            /\ r.upload => origin = "write"
            /\ r.reply = "data" => client = "write"
            /\ ~r.upload /\ r.reply # "data" => client = "read" /\ origin = "read"

(***************************************************************************)
(* No answer of a resolver thread stays behind: every thread ends, and the *)
(* queue is emptied again and again, whether pselect is interrupted or     *)
(* finds descriptors ready.                                                *)
(***************************************************************************)
AnswersAreDelivered ==
    /\ []<> ~(Running /\ jobs # << >>)
    /\ \A t \in Threads : []<> ~(Running /\ resolver[t].pc # "idle")

(***************************************************************************)
(* A descriptor parked with OP_NOOP, which no event can wake, is given     *)
(* another interest or is dropped by the timeout: it is not kept for ever. *)
(***************************************************************************)
ParkedIsReleased ==
    \A f \in Fds :
        []<> ~(Running /\ Registered(proc, f) /\ proc.item[f].interest = "noop")

-----------------------------------------------------------------------------
(***************************************************************************)
(* What documents and assertions of the repository say, and the program    *)
(* does not do: see the findings in README.md.                             *)
(***************************************************************************)

(***************************************************************************)
(* stm_handler_read aborts if the state has no handler: an event is        *)
(* delivered only in a state that expects it.                              *)
(***************************************************************************)
ReadsHaveHandlers ==
    Running /\ phase = "iterate" =>
        \A f \in Fds :
            ready[f] = "read" /\ Registered(proc, f) /\ proc.item[f].interest = "read"
                => proc.conn[proc.item[f].owner].state \in Readable

(***************************************************************************)
(* When an address does not answer the next one is tried (consigna.md:27): *)
(* that ends in no access to an address list that was freed.               *)
(***************************************************************************)
FallbackIsDefined == proc.crash # "undefined"
=============================================================================
