\* Three lines that the network can cut anywhere.  The handshake reads one byte
\* of text and its newline, a command has at most two; an answer of five bytes
\* is cut to the four of the buffer, of which the client reads three.
CONSTANTS
    MaxLines     = 3
    HandshakeMax = 2
    LineMax      = 2
    ReadBuffer   = 4
    WriteBuffer  = 4
    ClientBuffer = 3
    CredentialSizes = {1, 3}
    AnswerSizes  = {2, 5}
    MaxCuts      = 2
SPECIFICATION FairSpec
INVARIANTS
    TypeOK
    AnswersWhole
    CommandsArriveOnce
    InStep
PROPERTIES
    LinesAreAnswered
