\* Liveness, without symmetry.  One block, two descriptors and two threads:
\* dropped connections are replaced while the threads still work for them.
CONSTANTS
    Conns          = {c1}
    NoConn         = NoConn
    Threads        = {t1, t2}
    MaxFd          = 2
    MaxItem        = 2
    MaxAddrs       = 1
    MaxConnections = 0
    Users          = {"alice"}
    Env            = { "anonymous", "domain", "connect_fails", "hang_up", "partial", "time" }
SPECIFICATION FairSpec
PROPERTIES
    AnswersAreDelivered
    ParkedIsReleased
