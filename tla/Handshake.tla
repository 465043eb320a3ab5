----------------------------- MODULE Handshake -----------------------------
(***************************************************************************)
(* The negotiation of one connection, byte by byte: hello_read, auth_read, *)
(* request_read and the writers of their replies (states/state_hello.c,    *)
(* state_auth.c, state_request.c), with the client at the other end and    *)
(* the TCP connection between them, which cuts and joins messages.         *)
(*                                                                         *)
(* Every parser takes what one recv() left in read_buffer for the whole    *)
(* message.  The session ends here where a destination is known: module    *)
(* Proxy goes on.                                                          *)
(***************************************************************************)
EXTENDS Naturals, Sequences

CONSTANTS
    ByteMod,  \* values of a byte: 256
    Capacity, \* BUFFER_SIZE
    Accounts, \* pairs << name, password >> that credentials_are_valid accepts
    Plans,    \* what clients can want, see Plan
    Retries   \* bound: attempts to log in after the first

Byte == 0 .. ByteMod - 1

\* defines.h, state_request.h
SOCKS5_VERSION == 5
AUTH_VERSION   == 1
AUTH_METHOD    == 2
NO_AUTH_METHOD == 0
CONNECT_CMD    == 1
IPV4_ATYP      == 1
DOMAIN_NAME_ATYP == 3
IPV6_ATYP      == 4
UNSUPPORTED_COMMAND == 7
UNSUPPORTED_ATYP    == 8

\* What a client wants: the methods it offers, its credentials, the
\* destination; hasty if it does not wait for the replies.
Plan == [ methods : Seq(Byte), name : Seq(Byte), pass : Seq(Byte),
          cmd : Byte, atyp : Byte, addr : Seq(Byte), port : Nat,
          hasty : BOOLEAN ]

\* Its lengths fit in a byte, its port in two.
Fits(p) ==
    /\ { Len(p.methods), Len(p.name), Len(p.pass), p.port \div ByteMod } \subseteq Byte
    /\ p.atyp = DOMAIN_NAME_ATYP => Len(p.addr) \in Byte

ASSUME HandshakeAssumption ==
    /\ ByteMod \in Nat /\ ByteMod > UNSUPPORTED_COMMAND
    /\ Capacity \in Nat \ {0}
    /\ Accounts \subseteq Seq(Byte) \X Seq(Byte)
    /\ Plans \subseteq { p \in Plan : Fits(p) }
    /\ Retries \in Nat

Message == { "greeting", "auth", "request" }

\* The states of the negotiation.  After "CONNECT" or "RESOLVE" the destination
\* is known; "ABORTED" is the end of the process, in stm.c.
Open  == { "HELLO", "HELLO_TO_AUTH", "AUTH", "AUTH_FAILED", "REQUEST" }
State == Open \cup { "CONNECT", "RESOLVE", "DONE", "ERROR", "ABORTED" }

VARIABLES
    plan,    \* what the client wants
    sent,    \* the messages it has sent
    wire,    \* bytes under way to the server
    closed,  \* the client has closed its end
    session, \* the connection on the server, see Session
    cut      \* history: messages that did not arrive whole and alone

vars == << plan, sent, wire, closed, session, cut >>

\* The parts of socks5_connection the negotiation uses, and two histories:
\* told, the bytes of replies sent, and heard, what the parsers understood.
Session ==
    [ state : State, interest : {"R", "W"},
      buf : Seq(Byte), used : Nat,        \* read_buffer: pending, used up
      reply : Seq(Nat),                   \* write_buffer
      user : {"nobody", "anonymous", "account"},
      told : Seq(Nat),
      heard : [ method : SUBSET Nat, login : SUBSET (Seq(Byte) \X Seq(Byte)),
                dest : SUBSET [ host : Seq(Byte), port : Nat ] ] ]

Least(m, n) == IF m < n THEN m ELSE n

\* An array of bytes read as a string.
CString(b) ==
    LET ends == { i \in DOMAIN b : b[i] = 0 }
    IN  IF ends = {} THEN b
        ELSE SubSeq(b, 1, (CHOOSE i \in ends : \A j \in ends : i <= j) - 1)

-----------------------------------------------------------------------------
(***************************************************************************)
(* The client, and what its messages mean.                                 *)
(***************************************************************************)
Encoding(m) ==
    CASE m = "greeting" ->
           << SOCKS5_VERSION, Len(plan.methods) >> \o plan.methods
      [] m = "auth" ->
           << AUTH_VERSION, Len(plan.name) >> \o plan.name
             \o << Len(plan.pass) >> \o plan.pass
      [] m = "request" ->
           << SOCKS5_VERSION, plan.cmd, 0, plan.atyp >>
             \o (IF plan.atyp = DOMAIN_NAME_ATYP THEN << Len(plan.addr) >> ELSE << >>)
             \o plan.addr \o << plan.port \div ByteMod, plan.port % ByteMod >>

Offers(method) == \E i \in DOMAIN plan.methods : plan.methods[i] = method

\* The method a server that accepts both should choose.
Chosen == IF Offers(AUTH_METHOD) THEN AUTH_METHOD ELSE NO_AUTH_METHOD

\* Accounts have strings for names and passwords: a byte 0 ends them.
Login       == << CString(plan.name), CString(plan.pass) >>
Destination == [ host |-> plan.addr, port |-> plan.port ]

\* An IP address has the length of its type.
Addressed ==
    /\ plan.atyp = IPV4_ATYP => Len(plan.addr) = 4
    /\ plan.atyp = IPV6_ATYP => Len(plan.addr) = 16

LastSent == IF sent = << >> THEN "nothing" ELSE sent[Len(sent)]

LetIn    == << SOCKS5_VERSION, NO_AUTH_METHOD >>
LogIn    == << SOCKS5_VERSION, AUTH_METHOD >>
Accepted == LogIn \o << AUTH_VERSION, 0 >>
Rejected == LogIn \o << AUTH_VERSION, 1 >>

\* When the client sends m next.
Due(m) ==
    \/ m = "greeting" /\ sent = << >>
    \/ /\ m = "auth" /\ LastSent = "greeting"
       /\ Offers(AUTH_METHOD)
       /\ plan.hasty \/ session.told = LogIn
    \/ /\ m = "auth" /\ LastSent = "auth"
       /\ session.told = Rejected
       /\ Len(sent) < 2 + Retries
    \/ /\ m = "request" /\ LastSent = "greeting"
       /\ Offers(NO_AUTH_METHOD)
       /\ (plan.hasty /\ ~Offers(AUTH_METHOD)) \/ session.told = LetIn
    \/ /\ m = "request" /\ LastSent = "auth"
       /\ plan.hasty \/ session.told = Accepted

ClientSends ==
    /\ ~closed
    /\ \E m \in Message :
         /\ Due(m)
         /\ sent' = Append(sent, m)
         /\ wire' = wire \o Encoding(m)
    /\ UNCHANGED << plan, closed, session, cut >>

ClientCloses ==
    /\ ~closed
    /\ closed' = TRUE
    /\ UNCHANGED << plan, sent, wire, session, cut >>

-----------------------------------------------------------------------------
(***************************************************************************)
(* Writing replies.  An operator of a session yields the set of sessions   *)
(* the code can leave.                                                     *)
(***************************************************************************)
Failed(s) == [s EXCEPT !.state = "ERROR"]

\* send() of the reply takes at least `least' bytes: none if the socket was not
\* reported writable.  After the last one the state is `next' and the interest
\* `then', before it the state is `current'.  (That SIGPIPE can end the process
\* instead of a send() that fails is in Proxy.)
Send(s, least, next, then, current) ==
    { [s EXCEPT !.told     = @ \o SubSeq(s.reply, 1, k),
                !.reply    = SubSeq(s.reply, k + 1, Len(s.reply)),
                !.state    = IF k = Len(s.reply) THEN next ELSE current,
                !.interest = IF k = Len(s.reply) THEN then ELSE @] :
        k \in least .. Len(s.reply) }
    \cup IF closed THEN { Failed(s) } ELSE {}

\* (faulty variant for the mutation tests: the interest stays OP_WRITE)
HelloWriteStays(s, least) == Send(s, least, "REQUEST", "W", "HELLO")

HelloWrite(s, least) == Send(s, least, "REQUEST", "R", "HELLO")

\* (faulty variant for the mutation tests: reads again without the reply sent)
HelloToAuthWriteEarly(s, least) ==
    IF s.reply = << >>
      THEN { [s EXCEPT !.state = "REQUEST", !.interest = "R"] }
      ELSE Send(s, least, "AUTH", "R", "HELLO_TO_AUTH")

\* A session whose login failed comes here with nothing to send, and stays.
HelloToAuthWrite(s, least) ==
    IF s.reply = << >>
      THEN { [s EXCEPT !.state = "HELLO_TO_AUTH"] }
      ELSE Send(s, least, "AUTH", "R", "HELLO_TO_AUTH")

AuthWrite(s, least) == Send(s, least, "REQUEST", "R", "AUTH")

AuthFailedWrite(s, least) == Send(s, least, "HELLO_TO_AUTH", "W", "AUTH_FAILED")

\* There is no origin: the reply was a refusal, and the connection is done.
RequestWrite(s, least) == Send(s, least, "DONE", "W", "REQUEST")

\* A partly sent reply goes on in the handler of the state it left.
Write(s) ==
    CASE s.state = "HELLO"         -> HelloWrite(s, 1)
      [] s.state = "HELLO_TO_AUTH" -> HelloToAuthWrite(s, 1)
      [] s.state = "AUTH"          -> AuthWrite(s, 1)
      [] s.state = "AUTH_FAILED"   -> AuthFailedWrite(s, 1)
      [] s.state = "REQUEST"       -> RequestWrite(s, 1)

-----------------------------------------------------------------------------
(***************************************************************************)
(* Reading.                                                                *)
(***************************************************************************)
\* n calls of buffer_read; an emptied buffer starts anew.
Eat(s, n) ==
    IF n >= Len(s.buf)
      THEN [s EXCEPT !.buf = << >>, !.used = 0]
      ELSE [s EXCEPT !.buf = SubSeq(@, n + 1, Len(@)), !.used = @ + n]

\* What the i-th call of buffer_read returns: 0 once the buffer is empty.
ByteAt(s, i) == IF i <= Len(s.buf) THEN s.buf[i] ELSE 0

\* The loops that copy up to n bytes from the i-th on stop at an empty buffer.
BytesAt(s, i, n) == SubSeq(s.buf, i, Least(i + n - 1, Len(s.buf)))

\* The reply to a greeting, once it is parsed.
Greeted(s, method) ==
    LET t == [s EXCEPT !.reply = << SOCKS5_VERSION, method >>, !.interest = "W",
                       !.heard.method = @ \cup {method}]
    IN  IF method = AUTH_METHOD
          THEN HelloToAuthWrite(t, 0)
          ELSE HelloWrite([t EXCEPT !.user = "anonymous"], 0)

\* (faulty variant for the mutation tests: looks at the first method only)
HelloReadFirst(s) ==
    LET count == ByteAt(s, 2)
    IN  IF Len(s.buf) < 2 THEN {s}
        ELSE IF s.buf[1] # SOCKS5_VERSION \/ count = 0 THEN { Failed(s) }
        ELSE IF Len(s.buf) % ByteMod < 2 + count THEN { Eat(s, 2) }
        ELSE Greeted(Eat(s, 2 + count), ByteAt(s, 3))

\* Version and count are used up before the code looks whether the methods are
\* there, and what is there is counted in a byte.
HelloRead(s) ==
    LET count == ByteAt(s, 2)
        auth  == \E i \in 3 .. 2 + count : ByteAt(s, i) = AUTH_METHOD
    IN  IF Len(s.buf) < 2 THEN {s}
        ELSE IF s.buf[1] # SOCKS5_VERSION \/ count = 0 THEN { Failed(s) }
        ELSE IF Len(s.buf) % ByteMod < 2 + count THEN { Eat(s, 2) }
        ELSE Greeted(Eat(s, 2 + count),
                     IF auth THEN AUTH_METHOD ELSE NO_AUTH_METHOD)

\* The reply to a login, once it is parsed; n is its length.
Judged(s, n, login) ==
    LET valid == login \in Accounts
        t == [Eat(s, n) EXCEPT
                !.reply = << AUTH_VERSION, IF valid THEN 0 ELSE 1 >>,
                !.interest = "W", !.heard.login = @ \cup {login}]
    IN  IF valid
          THEN AuthWrite([t EXCEPT !.user = "account"], 0)
          ELSE AuthFailedWrite(t, 0)

\* Lengths and strings are taken from what has arrived; what is missing reads as
\* empty.  For a wrong version auth_read returns -1, which is no state.
AuthRead(s) ==
    LET name == BytesAt(s, 3, ByteAt(s, 2))
        pass == BytesAt(s, 4 + Len(name), ByteAt(s, 3 + Len(name)))
    IN  IF s.buf[1] # AUTH_VERSION
          THEN { [s EXCEPT !.state = "ABORTED"] }
          ELSE Judged(s, 3 + Len(name) + Len(pass), << CString(name), CString(pass) >>)

\* write_response; of the reply only its status is kept.
Refused(s, status) ==
    { [s EXCEPT !.reply = << SOCKS5_VERSION, status >>, !.interest = "W"] }

\* The parser has the destination in s.buf: n bytes of host, from the i-th on, and
\* two of port.
Destined(s, i, n, next) ==
    LET host == BytesAt(s, i, n)
        p    == i + Len(host)
        port == ByteAt(s, p) * ByteMod + ByteAt(s, p + 1)
    IN  { [Eat(s, p + 1) EXCEPT
             !.state = next,
             !.heard.dest = @ \cup { [ host |-> host, port |-> port ] }] }

\* (faulty variant for the mutation tests: an IPv4 address without its port
\* is complete)
RequestReadShort(s) ==
    LET t    == Eat(s, 4)
        cmd  == s.buf[2]
        atyp == s.buf[4]
    IN  IF Len(s.buf) < 4 THEN {s}
        ELSE IF s.buf[1] # SOCKS5_VERSION THEN { Failed(s) }
        ELSE IF cmd # CONNECT_CMD THEN Refused(t, UNSUPPORTED_COMMAND)
        ELSE CASE atyp = IPV4_ATYP ->
                    IF Len(t.buf) < 4 THEN {t} ELSE Destined(t, 1, 4, "CONNECT")
               [] atyp = IPV6_ATYP ->
                    IF Len(t.buf) < 18 THEN {t} ELSE Destined(t, 1, 16, "CONNECT")
               [] atyp = DOMAIN_NAME_ATYP ->
                    IF t.buf = << >> THEN {t} ELSE Destined(t, 2, t.buf[1], "RESOLVE")
               [] OTHER -> Refused(t, UNSUPPORTED_ATYP)

\* The header is used up before the code looks whether an IP address is there.
\* Of a domain name it takes what is there.
RequestRead(s) ==
    LET t    == Eat(s, 4)
        cmd  == s.buf[2]
        atyp == s.buf[4]
    IN  IF Len(s.buf) < 4 THEN {s}
        ELSE IF s.buf[1] # SOCKS5_VERSION THEN { Failed(s) }
        ELSE IF cmd # CONNECT_CMD THEN Refused(t, UNSUPPORTED_COMMAND)
        ELSE CASE atyp = IPV4_ATYP ->
                    IF Len(t.buf) < 6 THEN {t} ELSE Destined(t, 1, 4, "CONNECT")
               [] atyp = IPV6_ATYP ->
                    IF Len(t.buf) < 18 THEN {t} ELSE Destined(t, 1, 16, "CONNECT")
               [] atyp = DOMAIN_NAME_ATYP ->
                    IF t.buf = << >> THEN {t} ELSE Destined(t, 2, t.buf[1], "RESOLVE")
               [] OTHER -> Refused(t, UNSUPPORTED_ATYP)

Read(s) ==
    CASE s.state = "HELLO"   -> HelloRead(s)
      [] s.state = "AUTH"    -> AuthRead(s)
      [] s.state = "REQUEST" -> RequestRead(s)

-----------------------------------------------------------------------------
(***************************************************************************)
(* The steps of the server.                                                *)
(***************************************************************************)
Reading == session.state \in Open /\ session.interest = "R"
Writing == session.state \in Open /\ session.interest = "W"

\* (faulty variant for the mutation tests: forgets what is used up)
RoomPending == Capacity - Len(session.buf)

Room == Capacity - session.used - Len(session.buf)

\* recv() returns k bytes, and the handler of the state runs.
Receive(k) ==
    /\ Reading
    /\ session' \in Read([session EXCEPT !.buf = @ \o SubSeq(wire, 1, k)])
    /\ wire' = SubSeq(wire, k + 1, Len(wire))
    /\ cut' = IF session.buf = << >> /\ k = Len(wire) /\ wire = Encoding(LastSent)
                THEN cut ELSE cut \cup {LastSent}
    /\ UNCHANGED << plan, sent, closed >>

ReadReady == \E k \in 1 .. Least(Len(wire), Room) : Receive(k)

\* recv() returns 0: the client has closed, or the buffer is full; or the
\* connection was reset.
ReadEnd ==
    /\ Reading
    /\ \/ /\ IF wire = << >> THEN closed ELSE Room = 0
          /\ session' = [session EXCEPT !.state = "DONE"]
       \/ closed /\ session' = Failed(session)
    /\ UNCHANGED << plan, sent, wire, closed, cut >>

WriteReady ==
    /\ Writing
    /\ session' \in Write(session)
    /\ UNCHANGED << plan, sent, wire, closed, cut >>

\* The negotiation is over.
Over ==
    /\ session.state \notin Open
    /\ UNCHANGED vars

Init ==
    /\ plan \in Plans
    /\ sent = << >>
    /\ wire = << >>
    /\ closed = FALSE
    /\ session = [ state |-> "HELLO", interest |-> "R", buf |-> << >>, used |-> 0,
                   reply |-> << >>, user |-> "nobody", told |-> << >>,
                   heard |-> [ method |-> {}, login |-> {}, dest |-> {} ] ]
    /\ cut = {}

Server == ReadReady \/ ReadEnd \/ WriteReady

Next == ClientSends \/ ClientCloses \/ Server \/ Over

Spec == Init /\ [][Next]_vars

\* pselect reports a descriptor with something to read, or room to write, and
\* the loop calls its handler; the client sends what is due.
FairSpec == Spec /\ WF_vars(Server) /\ WF_vars(ClientSends)

-----------------------------------------------------------------------------
(***************************************************************************)
(* Properties.                                                             *)
(***************************************************************************)
\* Types, and the bytes in the buffer fit.
TypeOK ==
    /\ plan \in Plans
    /\ sent \in Seq(Message)
    /\ wire \in Seq(Byte)
    /\ closed \in BOOLEAN
    /\ session \in Session
    /\ session.used + Len(session.buf) <= Capacity
    /\ cut \subseteq Message

\* Whatever the client sends and however TCP cuts it, the server reads a request,
\* or serves one, only after it has sent the reply that admits the client: the
\* method without authentication to an anonymous one, or that and the success of a
\* login with an account the server knows.  (The states of state_hello.c and
\* state_auth.c are left by partly sent replies in between.)
ServedOnlyWhenTold ==
    \/ session.state = "REQUEST" /\ session.interest = "R"
    \/ session.state \in { "CONNECT", "RESOLVE" }
    => \/ session.told = LetIn /\ session.user = "anonymous"
       \/ /\ session.told = Accepted /\ session.user = "account"
          /\ session.heard.login \cap Accounts # {}

\* As long as every message has arrived whole and alone, the parsers have
\* understood nothing but what the client said: the method it can use, its login, and
\* its destination, unless it gives an address that is not of its type.
UnderstoodAsMeant ==
    cut = {} => /\ session.heard.method \subseteq {Chosen}
                /\ session.heard.login \subseteq {Login}
                /\ Addressed => session.heard.dest \subseteq {Destination}

\* A request for an IP address may be cut anywhere: it is lost, but the server
\* never goes to an address the client did not ask for.  Not so when the address
\* itself begins like a request, or for domain names.
CutRequestsAreNotMisdirected ==
    /\ cut \subseteq {"request"}
    /\ ~plan.hasty
    /\ plan.atyp \in { IPV4_ATYP, IPV6_ATYP } /\ Addressed
    /\ plan.addr[1] # SOCKS5_VERSION
    => session.heard.dest \subseteq {Destination}

\* The client keeps to the protocol, its greeting is shorter than what a byte can
\* count, and its login is good.
Regular ==
    /\ ~plan.hasty
    /\ Len(plan.methods) + 2 < ByteMod
    /\ Offers(AUTH_METHOD) => Login \in Accounts
    /\ Offers(AUTH_METHOD) \/ Offers(NO_AUTH_METHOD)

\* A regular client whose messages arrive whole gets to its destination or is
\* told why not, unless it closes.
RegularClientsAreServed ==
    Regular /\ [](cut = {} /\ ~closed)
        => <>(session.state \in { "CONNECT", "RESOLVE", "DONE" })

\* The parsers cope with messages that arrive in parts: a name is resolved only as
\* the client has spelled it (get_domain_name, request_read).
NamesAreWhole ==
    cut \subseteq {"request"} /\ ~plan.hasty /\ plan.atyp = DOMAIN_NAME_ATYP
        => session.heard.dest \subseteq {Destination}
=============================================================================
