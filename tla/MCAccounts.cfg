\* A table of two entries that grows up to three times, three users of whom two
\* always collide, two starts; in the first of them two connections, of u1 or
\* anonymous.  Two visits fit into a block and two can be made under each name.
CONSTANTS
    u1 = u1
    u2 = u2
    u3 = u3
    u4 = u4
    p1 = p1
    p2 = p2
    c1 = c1
    c2 = c2
    Users = {u1, u2, u3, u4}
    Passwords = {p1, p2}
    Hash <- MCHash
    InitialCapacity = 2
    Doublings = 3
    StartLists <- MCStartLists
    DirtChoices <- MCDirtChoices
    MaxStarts = 2
    Anonymous = Anonymous
    Nobody = Nobody
    NoName = NoName
    Visitors = {u1, Anonymous}
    VisitedStart = 1
    Names = {u1, u2, u3, u4, Anonymous}
    Sites = {s}
    MaxActive = 2
    SitesVector = 2
    MaxBlocks = 3
    MaxVisits = 2
    Connections = {c1, c2}
SPECIFICATION Spec
INVARIANTS
    TypeOK
    CreatedUsersCanLogIn
    OnlyGivenPasswordsWork
    AccessLogIsComplete
    OnlyShiftsCorrupt
