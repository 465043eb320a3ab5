\* The finding on the address list that is freed before the next attempt.
CONSTANTS
    Conns          = {c1, c2}
    NoConn         = NoConn
    Threads        = {t1}
    MaxFd          = 3
    MaxItem        = 3
    MaxAddrs       = 2
    MaxConnections = 3
    Users          = {"alice"}
    Env            = { "anonymous", "domain", "connect_fails" }
SYMMETRY Symmetry
SPECIFICATION Spec
INVARIANTS
    FallbackIsDefined
