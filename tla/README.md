# Verification of the SOCKS5 proxy (tpe-protos)

TLA+ models, TLC runs and TLAPS proofs about the program in
`src/practica/resolucion-tpe-nash/tpe-protos-main`: a SOCKS5 proxy with user and
password authentication and a monitoring protocol, written in C on a
single-threaded `pselect` loop. The rest of `src/` is course material (lecture
notes, earlier patches of the selector, the buffer and the state machine): it is
not part of the program and not modelled. Paths below are relative to
`src/practica/resolucion-tpe-nash/tpe-protos-main/src/`.

## 1. Inventory

| Component | State | Operations | Hard behaviour |
|---|---|---|---|
| Byte buffer, `server/utils/buffer.c` | array, read and write pointers | reset, pointers, `*_adv`, `read`, `write`, `compact` | reuse of the array under partial reads and writes |
| Selector, `server/utils/selector.c` | table of items (owner, interest, timestamp), master and slave sets, queue of finished jobs, pending `SIGALRM` | register, unregister, set_interest, notify_block, select | stale readiness, reuse of descriptor numbers, timeouts, wake-up across threads |
| State machine, `server/utils/stm.c` | current state | read, write, block; `abort` for a missing handler | events in states that do not expect them |
| SOCKS connection, `server/socks5_handler.c` | descriptors, reference count, address list, buffers, user | accept, dispatch, close, finish | two descriptors share one heap block |
| Negotiation, `server/states/state_hello.c`, `state_auth.c`, `state_request.c` | bytes received, reply pending | read and write handlers | fragmentation, partial sends |
| Resolution, `server/states/state_resolve.c` | one detached thread per name | `getaddrinfo`, notify, `resolution_block` | the thread and the loop share the connection |
| Connecting, `server/states/state_connect.c` | address list and position | loop over the addresses | asynchronous failure, fallback, failure reply |
| Relay, `server/states/state_forward.c` | a buffer per direction, interests | read, write | back pressure, both directions share two interests |
| Metrics, `server/metrics.c` | gauges, active users, all-time users, sites | start, end, add, remove, getters | drift on paths that skip `finish` |
| Monitor, `server/monitor_handler.c`, `client/monitor_client.c` | handshake and command state, removal marks | login, STATS, CONNECTIONS, USERS, CONFIG, ACCESS_LOG, QUIT | lines split over segments, descriptor closed while registered |
| Credentials, `server/utils/user_auth_utils.c`, `hashmap.c` | hash table, two files | load, check, create, persist | growth, memory that is never cleared, what a restart reads back |
| Start and shutdown, `server/server.c`, `server_utils.c` | listeners, `finished` | init, loop, signal handler, destroy | signal against `pselect`, open connections at exit |
| Arguments, strings, log, `shared/` | none that outlives a call | parse, format | none |

How they interact: `init_server` calls `selector_select` for ever. One call
sweeps expired descriptors, waits in `pselect`, calls the handler of every ready
descriptor in ascending order, and then hands finished resolutions to
`handle_block`. The SOCKS listener's handler creates a connection; the handlers
of a connection run its state machine, which registers, parks and unregisters
its two descriptors and touches the metrics. Unregistering calls back into the
connection (`socks5_stm_close`). Resolver threads write into the connection and
push a job on the selector's queue under a mutex, then send `SIGALRM`, which is
blocked except inside `pselect`. `main` puts the users of its arguments into the
hash table before it listens; authentication and the monitor's login look them
up. The sessions of the monitor share the selector's table and the kernel's
descriptor numbers with the connections and with the sockets that `getaddrinfo`
opens in the resolver threads.

What makes each correct: the buffer is a FIFO queue; the selector's table and
the kernel agree on what is open; a connection lives exactly as long as one of
its descriptors is registered; an event reaches the connection and the state it
is meant for; a client is served only after a reply that admits it; an account that
was created works, and no other password does for its user; every resolution is answered; a relay never sleeps on pending
bytes; gauges and lists describe the connections there are; failures are
reported to the client. `PROJECT.json` lists under `hazards` the places where
each of these can go wrong.

## 2. Modules

| Module | Models | Checked or proved by |
|---|---|---|
| `BoundedFifo` | what a byte buffer promises: an abstract bounded queue | refined by `Buffer` |
| `Buffer` | `buffer.c`, every operation | `MCBuffer`, `BufferProofs` |
| `Proxy` | selector loop, connections, all state handlers, resolver threads, the gauges | `MCProxy` with five configurations, `ProxyProofs` |
| `Channel` | what a relayed direction promises: a stream that only its end cuts | refined twice by `Relay` |
| `Relay` | `state_forward.c` byte by byte, with both sockets, buffers and peers | `MCRelay`, `RelayProofs` |
| `Monitor` | one monitoring session, `monitor_handler.c`, and its client, `monitor_client.c` | `MCMonitor`, `MonitorProofs` |
| `Handshake` | the negotiation of one connection byte by byte, with its client | `MCHandshake` with two configurations, `HandshakeProofs` |
| `Credentials` | `hashmap.c`, `user_auth_utils.c`, the two files, starts and kills | `MCAccounts`, `CredentialsProofs` |
| `Metrics` | `active_users` and `all_time_users` of `metrics.c` with their memory | `MCAccounts`, `AccountsProofs` |
| `Accounts` | the composition of the last two with connections that log in, visit and end | `MCAccounts`, `AccountsProofs`, `CredentialsProofs` |
| `Selector` | who has which descriptor number: table, kernel, monitor sessions, threads; the main loop and its end | `MCSelector`, `SelectorProofs` |

**`Proxy`** is the core. Its variable `proc` is what the handlers work on: the
heap blocks of the connections (`conn`), the selector's table (`item`), the
descriptors open in the kernel (`open`), `current_connections` and
`active_users` (`current`, `active`) and how the process died, if it did
(`crash`). `phase` says where `selector_select` is, `ready` what of the slave
sets is still to be visited, `jobs` is `resolution_jobs`, `alarm` the pending
signal, and `resolver` the threads.

A handler is an operator from a process state to the *set* of process states it
can leave, named as in the code (`HelloRead`, `ConnectWrite`, `ForwardRead`,
`Finish`, ...), with every early return and failure path. One action is one call
the loop makes: `ReadReady(f)` and `WriteReady(f)` visit descriptor `f`, run the
whole handler, and stamp the descriptor as `handle_iteration` does.
`RequestDomain(f)` is the branch of `request_read` that starts a thread.
`Sweep`, `Poll`, `Interrupted`, `EndIteration`, `NotifyBlock`, `EndBlock` are the
steps of `selector_select` between which a thread can run; `Lookup`, `PushJob`
and `Signal` are the steps of a thread. A block is freed when its last reference
goes, but its bytes stay (`Freed` keeps `client` and `user`), because the program
does read them later: a resolver thread reads `client_fd`, and a new connection
finds the old `username`. Descriptor numbers are reused lowest first, as the
kernel does. Walking a freed list, or storing into a freed block, is a choice
between nothing and the crash `"undefined"`.

Abstractions: bytes and names of peers are reduced to the outcomes the handlers
distinguish (`Handshake` and `Relay` have the bytes); the constant `Env` says which peer behaviours an instance admits,
and every one of them is in some passing run. Time is a flag on a descriptor,
`late`, which can rise while `pselect` waits and is cleared wherever the code
stamps the descriptor; which of two descriptors gets old first is free. The
monitor's descriptors and listener are left out of the table (`Selector` has
them). `MaxItem` is the
highest descriptor the table holds (`FD_SETSIZE - 1`), `MaxFd` the highest the
process can open, and `MaxConnections` is `MAX_CONNECTIONS` of `metrics.c`.

**`Relay`** takes a connection from the moment it enters `STATE_FORWARDING`.
`inq` and `outq` are the receive and send queues of the two sockets, `buf` the
buffer towards each leg, `interest` the one interest per leg that both
directions set, `ready` what `pselect` reported, and `first` the leg with the
lower descriptor. `ReadFull`, `ReadEof`, `ReadError`, `ReadBytes` and
`ReadSendFails` are the paths of `forward_read`, `WriteBytes` and `WriteFails`
those of `forward_write`; `Stale` is a report that `handle_iteration` passes over
because the other leg's handler changed the interest. A buffer is `Buffer`'s seen
as pending bytes and the number of used ones before them: the relay never
compacts, so room comes back only when a buffer runs empty. Bytes are numbered
in the order a peer sends them, so that the contents of the two queues and the
buffer of a direction are a sequence one can compare with `Channel`. `End` is the
way through `finish` and what a close or a reset makes the kernel lose. Left out:
`metrics_bytes_transferred` (which counts every byte when it is received and
again when it is sent) and the timeouts, which are in `Proxy`.

**`Monitor`** composes the server's session, the client program and the TCP
connection between them. The state of the session is the code's `state` with its
interest and two buffers; the client is where its program counter is (`mode`).
A byte is a message number and a position; what a line says is reduced to what
the server does with it, and a piece of a line may mean anything, because the
code terminates a line only where it found the newline: the rest is what the
stack held. TCP cuts what a call sends or receives at most `MaxCuts` times.
`given`, `got`, `ran`, `auth` and `intact` are history the properties speak of;
no action depends on the last four. The short answers sent without the write
buffer are taken to fit the socket.

**`Handshake`** is the negotiation up to the point where a destination is known,
where `Proxy` takes over. `session` is what the states use of a connection:
`read_buffer` as pending bytes (`buf`) and the number of used ones before them
(`used`), the reply in `write_buffer`, and the interest. `HelloRead`, `AuthRead`
and `RequestRead` parse whatever one `recv` left, as the code does: a byte that
has not arrived reads as 0, loops stop at an empty buffer, and what was eaten
before a message turned out incomplete stays eaten. The client has a `plan`
(methods, credentials, destination), and is either one that waits for the replies
or `hasty`. TCP hands over any piece of what is under way; `cut` remembers which
messages did not arrive whole and alone, `told` and `heard` what was said and
understood. A name ends for the parser at its first byte 0, so a client means by its
login what precedes one (`Login`), and a client whose address has not the length of
its type (`Addressed`) is not held to mean any destination. A byte has `ByteMod` values, so that the count of a greeting can wrap.
The port, which the code reads as `read << 8 | read` in no defined order, is
taken left byte first, as gcc compiles it. A failure of `write` by a signal is in
`Proxy`.

**`Credentials`** has the hash table as a sequence of entries. `Search` is the
probing loop, which does not wrap around and stops at the last entry whatever is
in it; `Rehash` and `Insert` follow `hashmap.c`, the writing over the last entry
included. `malloc` clears nothing: an entry nobody has written is what `dirt` says of
its place, and where that is not absent it is an account, found and believed like any
other, also that of a user no argument ever named. (Every table of one process shows
the same dirt; each start draws its own.) Saving is four steps (open and write of each
file), between any two of which the process can be killed, and each of which can fail
(`SaveFails`): nobody looks at what `_persist_user_credentials` returns, and it does
not look at `fclose`, so that the process goes on, even to the second file. `Partial`
is what can be there of a write that was not completed, `Fetched` what the next start
reads. `torn` and `shown` are history: a save that had begun to write was cut or
failed; the accounts that unwritten entries have held.

**`Metrics`** keeps of a record in `active_users` the name, the count of sites and
which block of memory it points to, because `metrics_remove_user` copies records
over each other and leaves the last one behind: two records can point to one
block, and the next user of a place inherits pointer and count. `all_time_users`,
from which the access log is written, is a sequence of names with their sites.

**`Accounts`** composes the two: the table decides who can log in, a login adds a
user, requests add sites, the end of a connection removes its user, and a kill
loses all memory but not the files.

**`Selector`** is about descriptor numbers. `kernel` says who has a number: the
listeners, a client or an origin of a SOCKS connection, a monitor session, a
resolver thread, or nobody. `item` is the selector's table, `partner` the other
number a connection names, which goes stale when the timeout drops one leg;
`ignored` and `marked` are the exemption from the timeout and the removal mark that
`QUIT` leaves. The steps of a sweep are actions of their own (unregistering,
closing, closing again), so that a thread can open or close a socket between
them. Handlers are reduced to what they do to descriptors: wait, wake the other
leg, connect, retry, finish, abort. Which state a connection is in is left to
`Proxy`, and a number that is registered during a turn may be served in it, even
if `pselect` has not reported it: there are more behaviours here than in the
code, never fewer. An accept of the monitor exempts the number before anything can
fail; when `fcntl`, `malloc` or the registration does, the number is free again and
still exempt. `quit`, `split`, `robbed` and `stray` (the numbers that such an accept has
left exempt, until a monitor client gets them or clears them) are history.

**`Buffer`** has one action per use of the buffer in the code: pointer, system
call and `*_adv` together (`Receive`, `Send`), the byte operations, `Reset` and
`Compact`. Seen through its pending bytes it is a behaviour of `BoundedFifo`.

Definitions called "faulty variant" are plausible bugs of the definition that
follows each of them. They are not part of any specification: substituting one
shows that the property named with it in `PROJECT.json` notices the bug.

## 3. Runs

| Run | Instance | Shows |
|---|---|---|
| `buffer` | capacity 3, two byte values | pointer order, room in an empty buffer, refinement of the queue |
| `proxy_calm` | 2 blocks, 1 thread, 3 descriptors, 2 addresses, every behaviour but time | connections keep their legs; resolutions, gauges and names match the connections; a relay has a driver; no junk pointer is freed |
| `proxy_timeouts` | the same with time, a table of 2 and a gauge limit of 1 | types, reference counts, table against kernel, owners, the wake-up |
| `proxy_live` | 1 connection, 2 threads, fairness | answers are delivered, parked descriptors are released |
| `relay` | 4 bytes per peer, sockets of 1, buffers of 2, fairness | queues and buffers within bounds, interests follow the buffers, only a peer ends a relay, both directions are channels, every byte arrives |
| `monitor` | 3 lines, 2 cuts, fairness | answers and commands arrive complete and in order; with whole and short messages the two programs stay in step and every line is answered |
| `handshake` | bytes of 8 values, buffer of 22, twelve plans, each with a waiting and a hasty client, 1 more attempt to log in, fairness | a client is served only after the reply that admits it; whole messages are understood as meant; a cut request is never misdirected; a regular client is served |
| `accounts` | 4 users, a table of 2 that doubles up to 3 times, a clean heap and a dirty one, 2 starts, 2 connections | on a clean heap and with whole saves the users a server has created or found can log in through collisions and growth; for a user of an argument no password works but those given for it or held by an unwritten entry, restarts, kills and failed writes included; the access log is complete; memory is corrupted only behind a shifted record |
| `selector` | numbers 0, 3, 4, 5, 1 thread, fairness | whoever closes a number owns it unless numbers were mixed up by `QUIT` or a single-leg timeout; a connection inherits an exemption only by an accept of the monitor that failed; silent descriptors are dropped, and every turn of the loop comes to its end |
| `handshake_names`, `proxy_events`, `proxy_fallback` | the smallest instance of each finding | section 6 |

Why the bounds are enough. Two blocks and three descriptors are the least in
which a descriptor number and a block are reused while another connection lives,
in which one connection has both legs while the other has one, and in which the
last free descriptor is missing for a connect. Two addresses give one fallback.
One thread is the least with which the loop and a resolution interleave and with
which a second resolution finds no thread; two threads in `proxy_live` let
answers queue up. In `proxy_timeouts` the process can open one descriptor more
than the table holds, so that registering fails, and the gauge saturates below
the number of connections. In `proxy_calm` the limits are not reached on purpose:
the exact count of connections is claimed only below `MAX_CONNECTIONS`. A buffer
of three bytes is the least with an interior position to compact from. Blocks
and threads are interchangeable (`Symmetry`), which is used for invariants only.

In `relay` four bytes are what the two sockets and the buffer of a direction
hold: a direction can fill up from end to end, a buffer is drained in part
without getting room, and both directions can be blocked at once. In `monitor`
the constants keep the order of the code's (the handshake reads less of a line
than a client can type, an answer of 5 is cut to the 4 of the write buffer, of
which the client reads 3); three lines are a login and two commands, the least
with which an answer can be taken for the next one's, and two cuts let one
mistake follow another.

In `handshake` a byte has 8 values, the fewest above the codes of the protocol,
and a greeting of 6 methods is 8 bytes long: its length wraps. The buffer of 22
holds the longest message, and messages in haste fill it. The plans are one for
each branch of the parsers: each kind of address, an unknown command and type,
no acceptable method, both methods, a good login and two bad ones, a name with a byte
0 in it, an address longer than its type, and an address
that itself looks like the beginning of a request. In `accounts` two users
collide in every table and the third in the smallest; two starts are a save and
what is read back, with every kill in between, and a third record in a table of
two is a growth. The dirty heap holds an account of a user the arguments name with
another password, and one of a user they never name. A block holds two visits, so the second user of a record meets
both the growth of a block and the write into it. In `selector` two numbers are
left for connections, sessions and threads besides the listeners', the least with
which a number changes hands while another leg remembers it; `finish` of a
connection with a stale leg then meets a session or a thread's socket.

A crashed process stays as it is (`Dead`); the invariants that speak of a running
process say so. Deadlock is checked in every run.

## 4. Fairness

`proxy_live` uses `WF(Loop)`: the main thread blocks only in `pselect`, which
returns at the latest after its timeout. `SF(Resolving(t))`: the kernel schedules
every thread, `getaddrinfo` has its own timeouts, and the mutex that `PushJob`
needs is free outside the `block` phase, again and again. `SF(Tick(f))`: time
passes in every turn of the loop, so a descriptor nobody stamps gets old. No
fairness is assumed of peers.

`relay` uses `WF(Loop)` and, for each peer, `WF(PeerRead)`: a peer goes on reading
until it resets the connection, but need not send nor close. `monitor` uses weak
fairness of the server's handlers and of the client's `recv`; the user need not
type, and may leave at any time.

`handshake` uses `WF(Server)`: `pselect` reports a descriptor with something to
read, or room to write, and the loop calls its handler; and `WF(ClientSends)`: the
regular client of the property sends what is due. It may still close, and the
property says so.

`selector` uses `WF(Main)` and `WF(NotifyDone)`: the main thread goes on, and the
queue of resolutions it works off is finite; and `WF(Age(i))`: time passes on a
descriptor nobody stamps. Nothing is assumed of threads, clients or signals.

## 5. Proofs

All theorems hold for every value of the constants that the assumptions of their
modules admit: `LimitAssumption`, `ProxyAssumption`, `RelayAssumption`,
`HandshakeAssumption`, `MonitorAssumption`, `MetricsAssumption`,
`CredentialsAssumption`, `AccountsAssumption`, `SelectorAssumption` and
`KindAssumption`, all evaluated by the runs. One of them says more than types:
`SelectorAssumption` gives the listeners the lowest numbers, because `server.c`
opens them before anything else. Of what unwritten entries hold nothing is assumed
but that it is some account: `DirtChoices` is any set of partial functions from places to
accounts.

`BufferProofs`: `PointersOrdered` (`[]TypeOK`, all of the asserts in `buffer.c`),
`EmptyBufferHasRoom` and `BufferImplementsFifo`. The invariant is `TypeOK`
together with "an empty buffer has both indices at 0"; for the refinement each
operation is shown to be `Put`, `Get`, `Clear` or a stutter on the pending bytes.

`ProxyProofs`: `ProxyTypeOK`, `ReferencesMatch`, `DescriptorsDoNotLeak`,
`OwnersKnowTheirs`, `FreedListsAreAssigned` and `NoLostWakeup` hold whatever the
peers and the clock do. The inductive invariant `ProxyInv` has four parts.

- `Sound(proc)`: types; the reference count of each block is the number of its
  registered descriptors; the registered descriptors are the open ones unless
  the process has crashed; a live block names a client descriptor; what is
  registered for a block is one of its two descriptors (`OwnersKnow`); a block with
  an origin, or with addresses left, has a list that was assigned (`ListsAssigned`,
  which is about the bytes of freed blocks too). The parts need each other: that
  a new descriptor is not yet registered follows from the third, and that a freed
  block has no descriptor from the second.
- `LoopTypeOK`: types of the loop and of the threads.
- `ThreadsKnow`: a thread between `Lookup` and `PushJob` holds a block whose
  `client_fd` is a descriptor, even if the block was freed; without it the queue
  could get a job for descriptor -1.
- `WakeUp`: in the phases `sweep` and `poll` a queued job has a signal pending or
  a thread about to send it. It is `NoSleepOnQueuedJob` extended to the sweep;
  at `poll` alone it is not inductive.

Since handlers are operators on a process state, most lemmas are about states:
`Follows(p, q)` says that `q` is sound and no block lost its client descriptor.
One lemma per handler says that everything it can leave follows; one lemma per
action lifts that to `ProxyInv`.

`LegsStayRegistered`, `RelaysAreDriven`, `AnswersFindTheirConnections`,
`NoGhostUsers` and `CurrentIsExact` are the properties of `proxy_calm`, under the
hypotheses of that run: no descriptor times out (`NoTime`), and, for the last,
`MAX_CONNECTIONS` is not reached (`Roomy`). With time the sweep drops one leg of a
connection and leaves the other, and legs, answers and gauges come apart (section 6);
at its ceiling the gauge stops counting. What makes the theorems provable is that
only the sweep takes a single leg. A handler leaves the other connections alone (`Elsewhere`) and either keeps its own whole (`Goes`) or
ends it with both descriptors and its share of the gauges (`Ends`); there is a
lemma for each handler. `CalmInv` adds to `ProxyInv`:

- `Parts`: a live connection has every descriptor it names and nothing its state
  does not use, a free block names no origin. A relay is `Driven`: besides what
  `RelayHasDriver` says, a leg is asked for writing *only* if bytes wait for it.
  `RelayHasDriver` alone is not inductive: a write handler called without bytes
  would park a leg.
- `Counted` and `Listed`: the gauge is the number of live blocks, and a name in
  `active_users` is borne by a connection that can no longer change it (`Entered`):
  a second login of the same connection would leave the first name behind.
- `Resolutions`: threads at work and queued answers belong to waiting connections,
  one to each and none twice. That two answers for the same descriptor number mean
  two different connections follows from `Parts`.

`RelayProofs`: `RelayTypeOK`, `InterestsAlwaysServe`, `RelayEndsOnlyByPeer` and
`RelayImplementsChannels`. The invariant `RelayInv` is the types, with "an empty
buffer starts at 0" (otherwise a reader could be parked before a buffer nobody
drains), and the two properties themselves. The refinement shows for each action
that either direction does a `Put`, a `Get`, a `Cut` or a stutter; the passage of
bytes from queue to buffer to queue is associativity of concatenation, which the
provers get as a fact about an operator `Cat`, instead of unfolding sequences.
That "nothing to send" in `forward_write` is never taken follows from
`InterestsServeBuffers`.

`HandshakeProofs`: `HandshakeTypeOK`, `NobodyServedUntold`,
`WholeMessagesAreUnderstood` and `CutRequestsAreLost`, for every buffer size, set of accounts and set of clients whose messages have lengths that fit a byte
(`Fits`). That a request is read only after the client was told so depends on the
whole path to that state, so the invariant `HandshakeInv` says for each state what
the client has been told and what still waits to be told (`Spoken`): `HELLO` with
`OP_WRITE` only with the method without authentication, `AUTH` with `OP_WRITE` only
with the success of a login that the accounts allow, `REQUEST` and what follows only
with either. The handlers are sets of the sessions they can leave, and there is one
lemma for each. That the unread bytes fit in the buffer (`BufferFits`) needs the
types of what the client sends; nothing waits on the wire before the first message.

The other two are about what the parsers make of the bytes, and need `MeaningInv`, which
adds to `HandshakeInv` where a session and its client are in the dialogue.

- `Whole`, as long as no message was cut: what was understood is what was meant, and
  `InTurn`. A session that awaits a message and has nothing to read is one message behind
  a client with nothing under way, or exactly that message is under way, or a hasty client
  has put more than its last message on the way, which can only arrive cut.
  `MethodFits` and `RequestLast` keep the dialogue together: a login is awaited only of a
  client that offered it, and nothing follows a request.
- `Parted`, once a patient client has sent a request that may be cut: the bytes pending
  and those under way are together the whole request, or what follows its header. So a
  parser that has lost the header starts again at the address and refuses it,
  unless the address begins with the version, which is the exception the property makes.

That a client which waits sends the right message next follows from what it has been
told: the sequences of replies have different lengths or bytes (`RepliesDiffer`). The
lemmas under "What the parsers make of a message that has arrived whole and alone" say of
each message what is where in it (`GreetingParts`, `AuthParts`, `RequestParts`), and what
its parser leaves (`GreetingRead`, `LoginRead`, `RequestReadWhole`, `RequestReadPart`);
they rest on lemmas on concatenation (`Middle`, `Ending`, `Dropped`). The attempt to prove
it showed that both properties were false for clients the first runs did not have: one
whose name has a byte 0 in it, and one whose address is not of its type. `Login`,
`Addressed` and two plans of `MCHandshake` come from there.

`AccountsProofs`: `AccessLogComplete` and `OnlyShiftsCorruptMemory`, for any number
of users, connections and places. `Logged` adds to the access log that whoever is
connected has a record in it, which is what makes a visit find one. `OwnBlocks` says
that until a removal shifts a record with a block, every place of the array, in use
or not, has an allocated block of its own or none; it must speak of the unused
places too, because `find_and_update_active_users` takes over what they hold. Neither
depends on whom the table of accounts lets in.

`CredentialsProofs`: `AccountsTypeOK`, `NoForeignPassword` and `CreatedUsersAreKept`, for
every set of users, hash function, initial capacity and heap. The invariant
`CredentialsInv` has four parts: a process that saves has a table with entries
(`Tables`); what the table and the file hold was given in an argument or has been in
an unwritten entry (`Given`); while all is orderly (`Orderly`: no heap was dirty, no save
that began to write was cut or failed), the two files belong together, and in the table
and in the file a look-up finds every account that is there (`Files`, with `Sound`: nothing
between an account and its home stops the search), and the table has
every account this process has created or found (`Kept`). The hard step is the
growth: that `rehash` loses no account. Probing does not wrap around and writes over
the last entry when it finds none free, so the proof counts: were every position from
the home of the next entry on taken, the entries there would have come from fewer
places of the old table than they are, since the new one is twice as long. A function on
numbers is proved equal to what the loop computes by taking the least number where it
would differ, since induction theorems with an operator as a parameter are out of
reach.

`SelectorProofs`: `SelectorTypeOK`, `OwnersKeepTheirDescriptors` and
`OtherExemptionsAreNotInherited`, for any set of numbers and threads. The invariant
`SelectorInv` says what is in the table (`Entries`: the listeners stay, and only
sessions that sent `QUIT` are marked), that the marks are made behind the position of
the turn and found by the next sweep (`Marks`), that the two legs of a connection name
each other until the sweep drops one alone (`Pairs`; while a sweep has dropped one
and is still to come to the other, they do not), that table, kernel and threads agree
until somebody closes a number that is not theirs (`Agreement`), and that besides
monitor sessions and the numbers in `stray` nobody is exempt from the timeout (`Exempt`). `Blame` ties the first wrong close to a `QUIT`
or a lost leg: with neither, a number about to be closed still belongs to the one who
closes it, although threads open and close sockets between any two steps.

`MonitorProofs`: `MonitorTypeOK`, `AnswersArriveWhole`, `CommandsAreRunOnce` and
`AnswersMatchLines`, for every number of lines and cuts and every size of buffers.
There are three invariants, each on top of the one before.

- `AnswersInv`: the last byte the client received, the bytes on the way down and
  those in `write_buffer` are one stream (`Stream`), which passes through all answers in
  order (`Told`) and ends with the last one (`EndsLast`) until the server has hung up.
  A handler passes bytes on or adds the next answer at the end. That needs `Settled`:
  `write_buffer` is empty whenever the session reads, so nothing is overwritten and
  nothing is overtaken, and only a client that is gone resets the connection.
- `CommandsInv`: the last byte run, the bytes in `read_buffer` and those on the way up
  are the other stream (`Lines`), from which the server takes at the front and to which
  the client adds at the end. That a client adds commands only when the session has
  left the handshake follows from `AnswersInv`: the "OK" it looks for would have to be
  in the answers, and none is given before (`Entering`).
- `TurnInv`: while every message is whole, one thing is under way at a time. A line
  is on its way up (`Asked`), its answer is on its way down (`Answered`) or on the
  screen (`Shown`), or nothing will come (`Unanswered`). `InStep` alone is not
  inductive: it says nothing while the client waits.

Every invariant and every action property that a passing run checks is stated by a
theorem. Only model-checked: liveness, which is out of the reach of the proof system
(`AnswersAreDelivered`, `ParkedIsReleased`, `BytesArrive`, `LinesAreAnswered`,
`RegularClientsAreServed`, `TimeoutsWorkAndTurnsEnd`).

## 6. Findings

Each is a run that TLC refutes with a short trace; `PROJECT.json` quotes the
lines.

1. `proxy_events`: the client keeps `OP_READ` while its name is resolved, and the
   state has no read handler: `stm.c` aborts the whole process when the client
   sends a byte or closes.
2. `proxy_fallback`: unregistering the failed origin frees the address list that
   the loop goes on walking.
3. `handshake_names`: a request cut within its domain name is resolved with the
   part that has arrived.

What the models show besides, without a run of its own:

- After the last address failed asynchronously, `state_connect.c:85` sets `OP_WRITE`
  on the origin that was just unregistered: the client never gets the reply.
- A user with two connections disappears from `USERS` when one of them ends
  (`socks5_handler.c:175`).
- The timeout is per descriptor. When only one leg is dropped, the next event of
  the other ends in the `abort` of `finish`, or, if the number has been given out
  again, in closing another connection, a monitor session or a socket of a
  resolver thread. `DescriptorsStayWithTheirOwners` needs both of its exceptions.
- When one peer shuts down its direction, what the buffers hold is dropped and
  the other direction ends too (`state_forward.c:38`).
- A login that fails leaves the session in `HELLO_TO_AUTH` with `OP_WRITE` and
  nothing to write: the loop spins, and the connection never times out. The
  client can neither try again nor gets in.
- A greeting whose methods have not arrived, or of 254 or 255 methods, is
  swallowed: the connection waits for a message the client has sent.
- In a buffer filled by a hasty client `recv` is asked for no bytes, and its 0 is
  taken for the end of the connection.
- A wrong version of the authentication message makes `auth_read` return -1, which
  is no state: `stm.c` aborts.
- Of the hash table only the first `size` of `capacity` entries are saved
  (`user_auth_utils.c:71`): a user that hashes further up is gone at the next start,
  unless the arguments name it again. That is why `CreatedUsersCanLogIn` speaks of
  the accounts this process has created or found.
- A kill between the two steps of a save, or a file that cannot be opened or written,
  leaves files that do not belong together, and an empty `metadata.bin` makes the next
  start divide by zero. `_persist_user_credentials` returns -1 after a good save, too,
  unless the table is full, and nobody looks at it (`user_auth_utils.c:54-79, 108`).
- An entry nobody has written (`hashmap.c:45`, `rehash`, and the places of a table read
  back beyond the saved ones) can pass for used. It hides accounts then, or it is
  one: of bytes left in the heap, or, if only its mark is not zero, of an empty name and
  password, with which a client could then log in. `OnlyGivenPasswordsWork` excepts what
  such entries held, and `CreatedUsersCanLogIn` asks for heaps without them.
- The comment in `user_auth_utils.h:6-8` says that an unknown user is added and
  accepted; the code (commented out in `user_auth_utils.c:89-92`) rejects it. No property
  takes sides: `OnlyGivenPasswordsWork` speaks of users that an argument has named.
- `monitor_accept_connection` exempts the new number from the timeout
  (`monitor_handler.c:55`) before `fcntl`, `malloc` and the registration can fail. Each
  failure closes the number and leaves it exempt; the next SOCKS leg that gets it is never
  dropped for silence. `ExemptionsLeakOnlyByFailedAccepts` and `TimeoutsWorkAndTurnsEnd`
  except these numbers (`stray`), and TLC refutes both without the exception.
- Item 9 of `src/practica/tpe/consigna.md` (line 47) wants the server, on SIGTERM or SIGINT, to
  stop listening and wait for the connections there are. The handler only sets `finished`
  (`server.c`), and after the turn under way the loop ends and `selector_destroy` closes every
  connection at once (`server.c:135-165`). `Selector.Stop` is that; no property claims it
  to be right. `TimeoutsWorkAndTurnsEnd` says no more than that the loop always gets back to
  the test of `finished`.
- `buffer_compact` (`buffer.c:99`) can move pending bytes, but no caller of this program
  reaches it with any: `buffer_read_adv` calls it when the last byte has been read. `Buffer`
  has the operation as it is written.
- After a removal the freed place of `active_users` keeps its pointer:
  `OnlyShiftsCorrupt` needs its exception.
- A `CONFIG timeout` of 4295 seconds or more wraps to a short one
  (`metrics.c:24`; by inspection, arithmetic of that width is not modelled).
- A resolution handed to a number that a monitor session has got meanwhile calls a
  missing `handle_block` (`selector.c:601`; by inspection).

The conditions of `InStep` and `LinesAreAnswered` in `Monitor` are where the
monitoring protocol gives way, and dropping one makes TLC show how. A command cut
in two is run as two. A line of exactly 255 bytes leaves its newline in
`read_buffer`: the next command is read behind it, the empty line before it is
run instead, and both programs wait for ever. An answer that fills the 1024
bytes of `write_buffer` leaves one that the client, which reads 1023, takes for
the next answer. `QUIT` with an argument is never answered.

## 7. Not modelled

- The text of the monitor's answers, logging and the parsing of the command line:
  sequential formatting without state that outlives a call.
- Totals and getters of `metrics.c`: counters that are only added to and copied.
- `ensure_capacity` and `max_fd` of the selector: the table is one array up to its
  highest index in `Proxy` and `Selector`.
- The width of the arithmetic on time: time is a flag in `Proxy` and `Selector`.
- Setting up the listening sockets (`server_utils.c`), finding the server's address
  in the client: system calls in a row, with an exit on failure.
- Memory that is leaked but never used.
- A resolver thread that notifies a selector already destroyed, and a resolution
  that arrives for a monitor session: `Proxy` has the queue, `Selector` the numbers and
  the end, and the two are not composed.

What would come next: one module that composes `Proxy` with `Selector`, for the last item
of this list.
