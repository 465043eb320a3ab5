\* The finding on events that arrive during a resolution.
CONSTANTS
    Conns          = {c1, c2}
    NoConn         = NoConn
    Threads        = {t1}
    MaxFd          = 2
    MaxItem        = 2
    MaxAddrs       = 2
    MaxConnections = 3
    Users          = {"alice"}
    Env            = { "anonymous", "domain" }
SYMMETRY Symmetry
SPECIFICATION Spec
INVARIANTS
    ReadsHaveHandlers
