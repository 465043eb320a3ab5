\* Every behaviour of peers and resolver, no timeout expires.
CONSTANTS
    Conns          = {c1, c2}
    NoConn         = NoConn
    Threads        = {t1}
    MaxFd          = 3
    MaxItem        = 3
    MaxAddrs       = 2
    MaxConnections = 3
    Users          = {"alice"}
    Env            = { "anonymous", "auth", "bad_password", "bad_auth_version", "ipv4", "domain", "unsupported", "hang_up", "broken_pipe", "connect_fails", "partial" }
SYMMETRY Symmetry
SPECIFICATION Spec
INVARIANTS
    LegsRegistered
    ResolutionsMatch
    CurrentCountsLive
    ListedUsersAreConnected
    RelayHasDriver
    NoJunkFreed
