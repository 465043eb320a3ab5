------------------------------ MODULE Monitor ------------------------------
(***************************************************************************)
(* One session of the monitoring protocol: monitor_handler.c on the        *)
(* server, client/monitor_client.c at the other end, and the TCP           *)
(* connection between them, which delivers bytes in order but in pieces of *)
(* its own choice.                                                         *)
(*                                                                         *)
(* The client program types and waits in turn: a line, an answer.  Neither *)
(* program keeps the part of a message that is still to come: whatever one *)
(* recv() returns is taken for the message.                                *)
(*                                                                         *)
(* A byte is a pair << message, position >>; the last byte of a line is    *)
(* its '\n'.  What a line says is reduced to what the server does with it. *)
(***************************************************************************)
EXTENDS Naturals, Sequences

CONSTANTS
    MaxLines,     \* bound: lines the user types
    HandshakeMax, \* bytes of a line the handshake reads: 63
    LineMax,      \* bytes of a line the command loop reads, and the longest
                  \* command the client sends: 255
    ReadBuffer,   \* MONITOR_BUFFER_SIZE, for what the server receives
    WriteBuffer,  \* MONITOR_BUFFER_SIZE, for the answer of a command
    ClientBuffer, \* bytes of an answer the client reads at once: BUFFER_SIZE - 1
    CredentialSizes, \* lengths of the credentials a user types
    AnswerSizes,  \* lengths that the answers of commands can have
    MaxCuts       \* bound: how often TCP cuts what a call sends or receives

ASSUME MonitorAssumption ==
    /\ MaxLines \in Nat
    /\ HandshakeMax \in Nat \ {0}
    /\ LineMax \in Nat \ {0}
    /\ ReadBuffer \in Nat /\ ReadBuffer > LineMax
    /\ WriteBuffer \in Nat \ {0, 1}
    /\ ClientBuffer \in Nat \ {0}
    /\ CredentialSizes \subseteq Nat
    /\ AnswerSizes \subseteq Nat \ {0, 1}
    /\ MaxCuts \in Nat

\* monitor_state, and "KILLED" for a process that SIGPIPE ended.
State == { "HANDSHAKE_READ", "HANDSHAKE_WRITE", "COMMAND_READ", "COMMAND_WRITE",
           "DONE", "ERROR", "CLOSED", "KILLED" }

\* Where the client program is: in authenticate_user the first four, in
\* transmit_mode "typing" and "waiting", and "left" when it has exited.
Mode == { "banner", "login", "verdict", "typing", "waiting", "left" }

\* What a line is: credentials, or a command.  "quit with" is QUIT with an
\* argument.
Credentials == { "good", "bad", "malformed" }
Command     == { "ask", "quit", "quit with" }

\* Answers begin with "Please", "OK" or "ERR"; "bye" is "OK Goodbye\n".
Saying == { "banner", "OK", "ERR", "bye" }

VARIABLES
    state,     \* state of the session
    interest,  \* its interest in the selector
    rbuf,      \* read_buffer: bytes used up, and bytes pending
    wbuf,      \* write_buffer: bytes pending
    up,        \* bytes under way to the server
    down,      \* bytes under way to the client
    broken,    \* the client has closed with bytes unread or to come: reset
    cuts,      \* how often TCP has cut so far
    mode,      \* where the client program is
    script,    \* the lines the user has typed
    given,     \* the answers the server has made
    \* history, for the properties
    got,       \* the last byte the client has received
    ran,       \* the last byte the server has taken for a command
    auth,      \* lines typed before the client was let in
    intact     \* so far every message has arrived whole and was short enough

server  == << state, interest, rbuf, wbuf, given, ran >>
network == << up, down, broken, cuts >>
client  == << mode, script, got, auth >>
vars    == << server, network, client, intact >>

Least(m, n) == IF m < n THEN m ELSE n

Empty == [ used |-> 0, bytes |-> << >> ]

-----------------------------------------------------------------------------
(***************************************************************************)
(* Messages.                                                               *)
(***************************************************************************)
\* The bytes of line k, of n bytes and a newline; the bytes of answer k.
LineBytes(k, n)   == [i \in 1 .. n + 1 |-> << k, i >>]
AnswerBytes(k, n) == [i \in 1 .. n |-> << k, i >>]

IsNewline(b) == b[2] = script[b[1]].size + 1

\* How many bytes the loop over buffer_read stores of s, if it stores at most
\* max: it stops at a newline.
TextLength(s, max) ==
    CHOOSE n \in 0 .. Least(max, Len(s)) :
        /\ \A i \in 1 .. n : ~IsNewline(s[i])
        /\ n = max \/ n = Len(s) \/ IsNewline(s[n + 1])

\* The loop ended at a newline, which is then used up as well.
Terminated(s, max) == TextLength(s, max) < Least(max, Len(s))

\* (faulty variant for the mutation tests: the newline is not used up)
TakenText(s, max) == TextLength(s, max)

\* How many bytes the loop uses up.
Taken(s, max) == TextLength(s, max) + IF Terminated(s, max) THEN 1 ELSE 0

\* s is one line without its newline.
IsWholeText(s) ==
    s # << >> /\ s = [i \in 1 .. script[s[1][1]].size |-> << s[1][1], i >>]

\* buffer_read n times
Drop(b, n) ==
    IF n = Len(b.bytes)
      THEN Empty
      ELSE [ used |-> b.used + n, bytes |-> SubSeq(b.bytes, n + 1, Len(b.bytes)) ]

\* (faulty variant for the mutation tests: the buffer is reset before recv)
ReceivedReset(n) == [ used |-> 0, bytes |-> SubSeq(up, 1, n) ]

\* recv: n bytes of up behind the pending ones
Received(n) == [rbuf EXCEPT !.bytes = @ \o SubSeq(up, 1, n)]

Room == ReadBuffer - rbuf.used - Len(rbuf.bytes)

\* (faulty variant for the mutation tests: recv is given the whole array)
ArrivalsNoRoom ==
    IF up = << >> THEN IF mode = "left" THEN {0} ELSE {}
    ELSE LET most == Least(Len(up), ReadBuffer)
         IN  IF cuts < MaxCuts THEN 1 .. most ELSE {most}

\* What recv can return to the server: 0 if there is no room, or if the client
\* is gone; less than what there is if TCP cuts it.
Arrivals ==
    IF up = << >> THEN IF mode = "left" THEN {0} ELSE {}
    ELSE IF Room = 0 THEN {0}
    ELSE LET most == Least(Len(up), Room)
         IN  IF cuts < MaxCuts THEN 1 .. most ELSE {most}

\* The server has received n bytes.
Arrive(n) ==
    /\ up' = SubSeq(up, n + 1, Len(up))
    /\ cuts' = IF n < Least(Len(up), Room) THEN cuts + 1 ELSE cuts

\* n bytes of up are a whole line, and a loop that stores fewer than max bytes
\* finds its newline.
ArrivesWhole(n, max) ==
    n > 0 => /\ up[1][2] = 1
             /\ n = script[up[1][1]].size + 1
             /\ n <= max

-----------------------------------------------------------------------------
\* A session after monitor_accept_connection.
Init ==
    /\ state    = "HANDSHAKE_WRITE"
    /\ interest = "write"
    /\ rbuf     = Empty
    /\ given    = << [ line |-> 0, size |-> 2, says |-> "banner" ] >>
    /\ wbuf     = AnswerBytes(1, 2)
    /\ up       = << >>
    /\ down     = << >>
    /\ broken   = FALSE
    /\ cuts     = 0
    /\ mode     = "banner"
    /\ script   = << >>
    /\ got      = << 1, 0 >>
    /\ ran      = << 0, 0 >>
    /\ auth     = 0
    /\ intact   = TRUE

-----------------------------------------------------------------------------
(***************************************************************************)
(* The server.  The selector calls monitor_read or monitor_write for the   *)
(* interest of the session.                                                *)
(***************************************************************************)
Goto(s, i) == state' = s /\ interest' = i

\* send() of s.  A client that has exited answers with a reset.
Transmit(s) ==
    /\ ~broken
    /\ down'   = IF mode = "left" THEN down ELSE down \o s
    /\ broken' = (mode = "left")

\* The answer to line that is sent at once.
Say(says, line) ==
    /\ Transmit(AnswerBytes(Len(given) + 1, 2))
    /\ given' = Append(given, [ line |-> line, size |-> 2, says |-> says ])

\* send() on a connection that was reset fails, or kills the process.
SayNothing == broken /\ UNCHANGED << down, broken, given >>
Killed     == SayNothing /\ Goto("KILLED", "noop")

\* (faulty variant for the mutation tests: the next state does not wait for
\* the rest of the answer)
AfterSendAtOnce(rest, next) == Goto(next, "read")

\* monitor_write goes on to next when the buffer has been sent.
AfterSend(rest, next) ==
    IF rest = << >> THEN Goto(next, "read") ELSE UNCHANGED << state, interest >>

\* handle_monitor_handshake_write, handle_monitor_command_write, and their
\* cases in monitor_write.  A send may take a part of the buffer.
SendSome(here, next) ==
    /\ state = here
    /\ interest = "write"
    /\ \E n \in 1 .. Len(wbuf) :
          LET rest == SubSeq(wbuf, n + 1, Len(wbuf))
          IN  /\ rest # << >> => cuts < MaxCuts
              /\ cuts' = IF rest # << >> THEN cuts + 1 ELSE cuts
              /\ Transmit(SubSeq(wbuf, 1, n))
              /\ wbuf' = rest
              /\ AfterSend(rest, next)
    /\ UNCHANGED << rbuf, given, ran, up, client, intact >>

SendFails ==
    /\ interest = "write"
    /\ broken
    /\ Goto("ERROR", "noop") \/ Goto("KILLED", "noop")
    /\ UNCHANGED << rbuf, wbuf, given, ran, network, client, intact >>

HandshakeWrite == SendSome("HANDSHAKE_WRITE", "HANDSHAKE_READ")
CommandWrite   == SendSome("COMMAND_WRITE", "COMMAND_READ")

\* What the handshake can take text for: the tail of a line can be anything.
Verdicts(text) ==
    IF text = << >> THEN { "malformed" }
    ELSE IF IsWholeText(text) THEN { script[text[1][1]].kind }
    ELSE Credentials

\* (faulty variant for the mutation tests: the welcome is formatted in
\* read_buffer and not removed; its text is shown as that of the last line)
WelcomeInBuffer ==
    [ used |-> 0, bytes |-> LineBytes(Len(script), script[Len(script)].size) ]

\* read_buffer once the session is in.
AfterWelcome == Empty

\* handle_monitor_handshake_read: text without a newline is dropped, and what
\* is behind it waits for more to arrive.
HandshakeReadPart ==
    /\ state = "HANDSHAKE_READ"
    /\ interest = "read"
    /\ \E n \in Arrivals :
          LET b == Received(n)
          IN  /\ ~Terminated(b.bytes, HandshakeMax)
              /\ rbuf' = Drop(b, Taken(b.bytes, HandshakeMax))
              /\ Arrive(n)
              /\ intact' = (intact /\ ArrivesWhole(n, HandshakeMax))
    /\ UNCHANGED << state, interest, wbuf, given, ran, down, broken, client >>

\* A line: the session is let in, or is told why not and stays.
HandshakeReadLine ==
    /\ state = "HANDSHAKE_READ"
    /\ interest = "read"
    /\ \E n \in Arrivals :
          LET b    == Received(n)
              text == SubSeq(b.bytes, 1, TextLength(b.bytes, HandshakeMax))
              line == b.bytes[1][1]
              rest == Drop(b, Taken(b.bytes, HandshakeMax))
          IN  /\ Terminated(b.bytes, HandshakeMax)
              /\ \E verdict \in Verdicts(text) :
                    \/ /\ verdict = "good"
                       /\ Say("OK", line)
                       /\ Goto("COMMAND_READ", "read")
                       /\ rbuf' = AfterWelcome
                    \/ /\ verdict # "good"
                       /\ Say("ERR", line)
                       /\ UNCHANGED << state, interest >>
                       /\ rbuf' = IF verdict = "bad" THEN Empty ELSE rest
                    \/ /\ SayNothing
                       /\ UNCHANGED << state, interest >>
                       /\ rbuf' = IF verdict = "malformed" THEN rest ELSE Empty
                    \/ /\ Killed
                       /\ rbuf' = rest
              /\ Arrive(n)
              /\ intact' = (intact /\ ArrivesWhole(n, HandshakeMax))
    /\ UNCHANGED << wbuf, ran, client >>

\* What the command loop can take text for: a whole line is what it is, if its
\* newline or its length ends it; otherwise its end is what the stack holds, or
\* its beginning is gone.
Meanings(text, terminated) ==
    IF IsWholeText(text) /\ (terminated \/ Len(text) = LineMax)
      /\ script[text[1][1]].kind \in Command
    THEN { script[text[1][1]].kind }
    ELSE Command

\* The handle_..._command functions: an answer of some length, of which the
\* write buffer takes what fits.  It was sent completely before the session
\* read again, so that the reset loses nothing.  How it begins matters only to a client
\* that still waits for a verdict.
Answer(line) ==
    \E size \in AnswerSizes,
       says \in IF script[line].kind \in Credentials THEN { "OK", "ERR" } ELSE { "OK" } :
        LET fits == Least(size, WriteBuffer)
        IN  /\ given' = Append(given, [ line |-> line, size |-> fits, says |-> says ])
            /\ wbuf' = AnswerBytes(Len(given) + 1, fits)
            /\ Goto("COMMAND_WRITE", "write")
            /\ UNCHANGED << down, broken >>

\* QUIT: the answer is sent at once, the entry is marked for the next sweep and
\* the descriptor closed.  A close with bytes unread (those of left) resets the
\* connection, and what the client has not read of its answers can be lost.
Quit(line, left) ==
    /\ given' = Append(given, [ line |-> line, size |-> 2, says |-> "bye" ])
    /\ \/ /\ ~broken
          /\ LET all == down \o AnswerBytes(Len(given) + 1, 2)
             IN  \E n \in 0 .. Len(all) :
                    /\ left = << >> => n = Len(all)
                    /\ down' = IF mode = "left" THEN down ELSE SubSeq(all, 1, n)
          /\ Goto("DONE", interest)
       \/ /\ broken
          /\ UNCHANGED down
          /\ Goto("DONE", interest) \/ Goto("KILLED", "noop")
    /\ UNCHANGED << wbuf, broken >>

\* QUIT with an argument: an answer that is never sent.
QuitWith(line) ==
    /\ given' = Append(given, [ line |-> line, size |-> 2, says |-> "bye" ])
    /\ wbuf' = AnswerBytes(Len(given) + 1, 2)
    /\ Goto("ERROR", "noop")
    /\ UNCHANGED << down, broken >>

\* handle_monitor_command_read, and its case in monitor_read: one line, or what
\* there is of it, is run; nothing is if it is empty.
CommandRead ==
    /\ state = "COMMAND_READ"
    /\ interest = "read"
    /\ \E n \in Arrivals :
          LET b     == Received(n)
              taken == Taken(b.bytes, LineMax)
              text  == SubSeq(b.bytes, 1, TextLength(b.bytes, LineMax))
              rest  == SubSeq(up, n + 1, Len(up))
          IN  /\ \/ /\ text = << >>
                    /\ UNCHANGED << state, interest, wbuf, given, down, broken >>
                 \/ /\ text # << >>
                    /\ \E meaning \in Meanings(text, Terminated(b.bytes, LineMax)) :
                          LET line == text[1][1]
                          IN  \/ meaning = "ask"       /\ Answer(line)
                              \/ meaning = "quit"      /\ Quit(line, rest)
                              \/ meaning = "quit with" /\ QuitWith(line)
              /\ rbuf' = Drop(b, taken)
              /\ ran' = IF taken = 0 THEN ran ELSE b.bytes[taken]
              /\ Arrive(n)
              /\ intact' = (intact /\ ArrivesWhole(n, LineMax))
    /\ UNCHANGED client

\* recv() < 0
CommandReadFails ==
    /\ state = "COMMAND_READ"
    /\ interest = "read"
    /\ up = << >>
    /\ broken
    /\ Goto("ERROR", "noop")
    /\ UNCHANGED << rbuf, wbuf, given, ran, network, client, intact >>

\* selector_select unregisters a marked descriptor.
Sweep ==
    /\ state = "DONE"
    /\ Goto("CLOSED", "noop")
    /\ UNCHANGED << rbuf, wbuf, given, ran, network, client, intact >>

-----------------------------------------------------------------------------
(***************************************************************************)
(* The client program.                                                     *)
(***************************************************************************)
\* The server has closed the connection.
HungUp == state \in { "DONE", "CLOSED", "KILLED" }

\* The user types a line of n bytes.
Type(n, kind) ==
    /\ Len(script) < MaxLines
    /\ script' = Append(script, [ size |-> n, kind |-> kind ])
    /\ up' = up \o LineBytes(Len(script) + 1, n)
    /\ UNCHANGED << server, down, broken, cuts, got, intact >>

\* fgets in authenticate_user takes lines longer than the server reads; what
\* those or empty ones say makes no difference.
TypeCredentials ==
    /\ mode = "login"
    /\ mode' = "verdict"
    /\ \E n \in CredentialSizes, kind \in Credentials :
          /\ n = 0 \/ n >= HandshakeMax => kind = "malformed"
          /\ Type(n, kind)
    /\ UNCHANGED auth

\* transmit_mode sends no empty line, and none longer than MAX_COMMAND_LENGTH - 1.
TypeCommand ==
    /\ mode = "typing"
    /\ mode' = "waiting"
    /\ \E n \in 1 .. LineMax, kind \in Command : Type(n, kind)
    /\ UNCHANGED auth

\* s is all of one answer.
IsWholeAnswer(s) == s = [i \in 1 .. given[s[1][1]].size |-> << s[1][1], i >>]

\* The client receives s, and goes on to next.
Receive(s, next) ==
    /\ down' = SubSeq(down, Len(s) + 1, Len(down))
    /\ got'  = s[Len(s)]
    /\ mode' = next
    /\ auth' = IF mode = "verdict" /\ next = "typing" THEN Len(script) ELSE auth
    /\ intact' = (intact /\ IsWholeAnswer(s))
    /\ cuts' = IF Len(s) < Least(Len(down), ClientBuffer) THEN cuts + 1 ELSE cuts
    /\ UNCHANGED << server, up, broken, script >>

\* What recv can return of down to the client.
Pieces ==
    LET most == Least(Len(down), ClientBuffer)
        sizes == IF most = 0 THEN {} ELSE IF cuts < MaxCuts THEN 1 .. most ELSE {most}
    IN  { SubSeq(down, 1, n) : n \in sizes }

ReadBanner == mode = "banner" /\ \E s \in Pieces : Receive(s, "login")

\* strncmp(buffer, "OK", 2) = 0
SaysOk(s) ==
    /\ given[s[1][1]].says \in { "OK", "bye" }
    /\ s[1][2] = 1
    /\ Len(s) > 1
    /\ s[2][1] = s[1][1]

ReadVerdict ==
    /\ mode = "verdict"
    /\ \E s \in Pieces : Receive(s, IF SaysOk(s) THEN "typing" ELSE "login")

\* strcmp(buffer, "OK Goodbye\n") = 0
SaysGoodbye(s) == IsWholeAnswer(s) /\ given[s[1][1]].says = "bye"

ReadAnswer ==
    /\ mode = "waiting"
    /\ \E s \in Pieces : Receive(s, IF SaysGoodbye(s) THEN "left" ELSE "typing")

\* recv() = 0, or an error
SeeClose ==
    /\ mode \in { "banner", "verdict", "waiting" }
    /\ down = << >>
    /\ HungUp
    /\ mode' = "left"
    /\ UNCHANGED << server, network, script, got, auth, intact >>

\* The user ends the program, or its input.
Leave ==
    /\ mode # "left"
    /\ mode' = "left"
    /\ broken' = (down # << >>)
    /\ down' = << >>
    /\ UNCHANGED << server, up, cuts, script, got, auth, intact >>

\* Nothing is left to do: the client is gone, and the server spins, or has
\* parked or closed the session.
Over ==
    /\ mode = "left"
    /\ UNCHANGED vars

-----------------------------------------------------------------------------
Serve ==
    \/ HandshakeWrite \/ HandshakeReadPart \/ HandshakeReadLine
    \/ CommandRead \/ CommandReadFails \/ CommandWrite
    \/ SendFails \/ Sweep

ClientReads == ReadBanner \/ ReadVerdict \/ ReadAnswer \/ SeeClose

Next == Serve \/ ClientReads \/ TypeCredentials \/ TypeCommand \/ Leave \/ Over

Spec == Init /\ [][Next]_vars

(***************************************************************************)
(* Fairness: the loop serves a ready descriptor, and the client program    *)
(* receives what has arrived.  The user need not type and may leave.       *)
(***************************************************************************)
Fairness == WF_vars(Serve) /\ WF_vars(ClientReads)

FairSpec == Spec /\ Fairness

-----------------------------------------------------------------------------
(***************************************************************************)
(* Properties.                                                             *)
(***************************************************************************)
LineByte == (1 .. Len(script)) \X Nat

\* Types.  What is pending in read_buffer fits in it, and an answer in
\* write_buffer.
TypeOK ==
    /\ state \in State
    /\ interest \in { "noop", "read", "write" }
    /\ rbuf \in [ used : Nat, bytes : Seq(LineByte) ]
    /\ rbuf.used + Len(rbuf.bytes) <= ReadBuffer
    /\ wbuf \in Seq(Nat \X Nat) /\ Len(wbuf) <= WriteBuffer
    /\ up \in Seq(LineByte)
    /\ down \in Seq(Nat \X Nat)
    /\ broken \in BOOLEAN
    /\ cuts \in 0 .. MaxCuts
    /\ mode \in Mode
    /\ script \in Seq([ size : Nat, kind : Credentials \cup Command ])
    /\ Len(script) <= MaxLines
    /\ given \in Seq([ line : Nat, size : Nat, says : Saying ])
    /\ got \in Nat \X Nat
    /\ ran \in Nat \X Nat
    /\ auth \in 0 .. Len(script)
    /\ intact \in BOOLEAN

\* The byte of the answers after b.
NextByte(b) ==
    IF b[2] < given[b[1]].size THEN << b[1], b[2] + 1 >> ELSE << b[1] + 1, 1 >>

\* However sends and receives split them, the client gets the answers one after
\* the other and complete (as far as write_buffer holds them): an answer that is
\* not sent yet is neither overwritten by the next one nor overtaken by one that
\* is sent at once.  Only a close can cut off the last ones.
AnswersWhole ==
    mode # "left" =>
        LET q == << got >> \o down \o wbuf
        IN  /\ \A i \in 1 .. Len(q) - 1 : q[i + 1] = NextByte(q[i])
            /\ ~HungUp => NextByte(q[Len(q)]) = << Len(given) + 1, 1 >>

\* The byte the client sends after b.
NextSent(b) ==
    IF b[2] <= script[b[1]].size THEN << b[1], b[2] + 1 >> ELSE << b[1] + 1, 1 >>

\* Every byte of every command is run once and in order, however the lines are
\* cut.  The client types commands only when the server has let it in (the "OK" it
\* looks for is not in a piece of the banner or of a refusal), and from then on what
\* the server has run, what waits in read_buffer and what is under way is all that
\* the client has sent.
CommandsArriveOnce ==
    mode \in { "typing", "waiting" } =>
        LET q == << ran >> \o rbuf.bytes \o up
        IN  /\ state \notin { "HANDSHAKE_READ", "HANDSHAKE_WRITE" }
            /\ Len(script) > auth =>
                /\ \A i \in 1 .. Len(q) - 1 :
                      q[i + 1][1] > auth =>
                          IF q[i][1] > auth THEN q[i + 1] = NextSent(q[i])
                                            ELSE q[i + 1] = << auth + 1, 1 >>
                /\ q[Len(q)] = << Len(script), script[Len(script)].size + 1 >>

\* As long as messages arrive whole and lines are shorter than what the server
\* reads, the answer on the client's screen is that of the line just typed: no
\* answer is left over from before, and none is skipped.
InStep ==
    intact /\ mode = "typing" /\ Len(script) > auth =>
        given[got[1]].line = Len(script)

Waiting == mode \in { "verdict", "waiting" }

\* The last line is shorter than what the server reads, so that it finds the
\* newline, and is not QUIT with an argument.
Answerable ==
    LET line == script[Len(script)]
    IN  /\ line.size < IF mode = "verdict" THEN HandshakeMax ELSE LineMax
        /\ line.kind # "quit with"

\* Under the same conditions every line but QUIT with an argument is answered,
\* or the client sees that the connection is closed: client and server never
\* wait for each other.
LinesAreAnswered == (Waiting /\ intact /\ Answerable) ~> (~Waiting \/ ~intact)
=============================================================================
