\* Four bytes per peer through sockets of one and a buffer of two: a buffer is
\* filled, drained in part and without room, and both directions block.
CONSTANTS
    Total      = 4
    Window     = 1
    BufferSize = 2
SPECIFICATION FairSpec
INVARIANTS
    TypeOK
    InterestsServeBuffers
    EndsOnlyByPeer
PROPERTIES
    StreamsAreChannels
    BytesArrive
