\* Timeouts expire at any point.  The table holds fewer descriptors than the
\* process can open, and the gauge stops counting before the last connection.
CONSTANTS
    Conns          = {c1, c2}
    NoConn         = NoConn
    Threads        = {t1}
    MaxFd          = 3
    MaxItem        = 2
    MaxAddrs       = 2
    MaxConnections = 1
    Users          = {"alice"}
    Env            = { "anonymous", "domain", "hang_up", "connect_fails", "partial", "time" }
SYMMETRY Symmetry
SPECIFICATION Spec
INVARIANTS
    TypeOK
    RefsMatch
    RegisteredIsOpen
    OwnersKnowTheirFds
    NoSleepOnQueuedJob
